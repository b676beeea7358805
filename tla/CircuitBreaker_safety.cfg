\* Three callers, trip at two failures, cooldown of two ticks, two attempts.
SPECIFICATION Spec
CONSTANTS
    Callers = {c1, c2, c3}
    Threshold = 2
    Cooldown = 2
    Attempts = 2
    UpAnswers = {"ok", "transient", "refused"}
SYMMETRY CallerSymmetry
INVARIANTS TypeOK ClosedBelowThreshold HalfOpenAccounted
PROPERTIES TrialsSpaced
