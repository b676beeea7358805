\* A provider whose healthy answers are all successes.
SPECIFICATION FairSpec
CONSTANTS
    Callers = {c1, c2}
    Threshold = 2
    Cooldown = 2
    Attempts = 2
    UpAnswers = {"ok"}
PROPERTIES Recovers
