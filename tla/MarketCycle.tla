---------------------------- MODULE MarketCycle ----------------------------
(***************************************************************************)
(* The market cycle engine of one scope: the policy rate and the inflation *)
(* rate month by month, the trends and the real rate derived from them,    *)
(* and the six-state machine replayed over the months.                     *)
(*                                                                         *)
(* evaluate() stores nothing and replays every month on every request.  A  *)
(* month no longer changes the replay once it is over, so the model keeps  *)
(* what the replay had reached before the last month (settled, past,       *)
(* prior) and replays that month alone.  Only readings of the last         *)
(* Triggered + Lookback points decide a move, and only those are kept.     *)
(*                                                                         *)
(* A month in progress counts with the policy rate of its last observation *)
(* so far, which may change until the month ends; its inflation may come   *)
(* later, and a stored value is never corrected.  The levels shown beside  *)
(* the state, texts and priorities (display order) are left out.           *)
(***************************************************************************)
EXTENDS Integers, Sequences, FiniteSets

CONSTANTS
  Rates,                  \* what a month may bring: <<policy rate, inflation>>
  NoLevel,                \* no value for a month
  Deadband,               \* derived.trend_deadband
  RealHigh, RealLow,      \* real_rate_thresholds
  Triggered,              \* persistence_months.triggered
  Lookback,               \* hikes_resumed_lookback_months
  Disabled,               \* reverse edges switched off, as <<source, target>>
  InitialState            \* initial_state

ASSUME CycleAssumption ==
  /\ NoLevel \notin Int
  /\ \A r \in Rates : r[1] \in Int \cup {NoLevel} /\ r[2] \in Int \cup {NoLevel}
  /\ Deadband \in Nat /\ RealHigh \in Int /\ RealLow \in Int /\ RealLow <= RealHigh
  /\ Triggered \in Nat \ {0} /\ Lookback \in Nat
  /\ InitialState \in 1..6

VARIABLES
  levels,   \* the last value of each monthly series
  prior,    \* those values a month earlier
  past,     \* readings of the points before the last month
  current,  \* the reading of the last month, or none
  settled,  \* the state the replay reached before the last month
  state     \* the state evaluate() returns

vars == <<levels, prior, past, current, settled, state>>

LowRealRates == 1
RisingInflation == 2
HikingCycle == 3
HighRealRates == 4
FirstRateCut == 5
CuttingCycle == 6
CycleStates == 1..6

Trends == {"increasing", "stable", "decreasing"}
Readings == [policy : Trends, inflation : Trends, real : Int, realTrend : Trends]
Levels == Int \cup {NoLevel}

-----------------------------------------------------------------------------
(* The derived series *)

\* slope_step
Slope(a, b) ==
  IF b - a <= Deadband /\ a - b <= Deadband THEN "stable"
  ELSE IF b > a THEN "increasing" ELSE "decreasing"

\* The series with one more month: the policy rate is carried forward to every
\* month, inflation may be missing, the real rate needs both.
Extended(l, p, f) ==
  [policy |-> p,
   inflation |-> IF f = NoLevel THEN l.inflation ELSE f,
   real |-> IF p = NoLevel \/ f = NoLevel THEN l.real ELSE p - f]

\* A month is a point of the replay when every required input has a value: each
\* trend needs an earlier value of its series.
IsPoint(l, p, f) ==
  /\ p # NoLevel /\ f # NoLevel
  /\ l.policy # NoLevel /\ l.inflation # NoLevel /\ l.real # NoLevel

Reading(l, p, f) ==
  [policy |-> Slope(l.policy, p), inflation |-> Slope(l.inflation, f),
   real |-> p - f, realTrend |-> Slope(l.real, p - f)]

-----------------------------------------------------------------------------
(* Signals and edges *)

\* Slip: any month in the window that is no increase counts as a resumption.
HikesResumed_paused(rs, j) ==
  \E k \in 1..(j - 1) : j - Lookback <= k /\ rs[k].policy # "increasing"

HikesResumed(rs, j) ==
  /\ rs[j].policy = "increasing"
  /\ \E k \in 1..(j - 1) : j - Lookback <= k /\ rs[k].policy # "increasing"

FirstCutDetected(rs, j, s) ==
  rs[j].policy = "decreasing" /\ s \in {HikingCycle, HighRealRates}

\* The signal holds at point j for a machine in state s.
Met(signal, rs, j, s) ==
  \/ signal = "inflation_rate_trend_increasing" /\ rs[j].inflation = "increasing"
  \/ signal = "policy_rate_trend_increasing" /\ rs[j].policy = "increasing"
  \/ signal = "policy_rate_trend_decreasing" /\ rs[j].policy = "decreasing"
  \/ signal = "real_rates_high" /\ rs[j].real > RealHigh
  \/ signal = "real_rates_low" /\ rs[j].real < RealLow
  \/ signal = "real_rates_declining" /\ rs[j].realTrend = "decreasing"
  \/ signal = "real_rates_climbing" /\ rs[j].realTrend = "increasing"
  \/ signal = "hikes_resumed" /\ HikesResumed(rs, j)
  \/ signal = "hikes_stopped" /\ rs[j].policy # "increasing"
  \/ signal = "cuts_stopped" /\ rs[j].policy # "decreasing"
  \/ signal = "first_cut_detected" /\ FirstCutDetected(rs, j, s)

Edge(a, b, signals) == [source |-> a, target |-> b, signals |-> signals]

\* Slip: the states are numbered on, the last forward edge does not wrap.
ForwardEdges_unwrapped ==
  {Edge(LowRealRates, RisingInflation, {"inflation_rate_trend_increasing"}),
   Edge(RisingInflation, HikingCycle, {"policy_rate_trend_increasing"}),
   Edge(HikingCycle, HighRealRates, {"real_rates_high"}),
   Edge(HighRealRates, FirstRateCut, {"first_cut_detected"}),
   Edge(FirstRateCut, CuttingCycle, {"policy_rate_trend_decreasing"}),
   Edge(CuttingCycle, CuttingCycle + 1, {"real_rates_low"})}

ForwardEdges ==
  {Edge(LowRealRates, RisingInflation, {"inflation_rate_trend_increasing"}),
   Edge(RisingInflation, HikingCycle, {"policy_rate_trend_increasing"}),
   Edge(HikingCycle, HighRealRates, {"real_rates_high"}),
   Edge(HighRealRates, FirstRateCut, {"first_cut_detected"}),
   Edge(FirstRateCut, CuttingCycle, {"policy_rate_trend_decreasing"}),
   Edge(CuttingCycle, LowRealRates, {"real_rates_low"})}

\* Slip: the way back from high rates asks for the end of the hikes.
ReverseEdges_stopped ==
  {Edge(CuttingCycle, RisingInflation, {"real_rates_declining", "cuts_stopped"}),
   Edge(FirstRateCut, HighRealRates, {"real_rates_high", "hikes_resumed"}),
   Edge(HighRealRates, HikingCycle, {"hikes_stopped", "real_rates_high"}),
   Edge(HikingCycle, RisingInflation, {"hikes_stopped", "inflation_rate_trend_increasing"})}

ReverseEdges ==
  {Edge(CuttingCycle, RisingInflation, {"real_rates_declining", "cuts_stopped"}),
   Edge(FirstRateCut, HighRealRates, {"real_rates_high", "hikes_resumed"}),
   Edge(HighRealRates, HikingCycle, {"hikes_resumed", "real_rates_climbing"}),
   Edge(HikingCycle, RisingInflation, {"hikes_stopped", "inflation_rate_trend_increasing"})}

Outgoing(s) ==
  {e \in ForwardEdges \cup {r \in ReverseEdges : <<r.source, r.target>> \notin Disabled} :
     e.source = s}

\* Slip: one month is taken for confirmation.
Held_once(e, rs, s) == \A j \in {Len(rs)} : \A g \in e.signals : Met(g, rs, j, s)

\* _held reaches the confirmation period: the signals of the edge hold at the
\* last Triggered points, those before the machine entered s among them.
Held(e, rs, s) ==
  /\ Len(rs) >= Triggered
  /\ \A j \in (Len(rs) - Triggered + 1)..Len(rs) : \A g \in e.signals : Met(g, rs, j, s)

\* Slip: an edge that emerges counts as confirmed.
Confirmed_emerging(s, rs) == {e \in Outgoing(s) : rs # <<>> /\ Held_once(e, rs, s)}

Confirmed(s, rs) == {e \in Outgoing(s) : Held(e, rs, s)}

\* The machine moves along an edge that alone is confirmed.
Moved(s, rs) ==
  IF \E e \in Outgoing(s) : Confirmed(s, rs) = {e}
  THEN (CHOOSE e \in Outgoing(s) : Confirmed(s, rs) = {e}).target
  ELSE s

-----------------------------------------------------------------------------
Points == past \o current

Window == Triggered + Lookback - 1
Trimmed(rs) == IF Len(rs) > Window THEN SubSeq(rs, Len(rs) - Window + 1, Len(rs)) ELSE rs

\* The replay of the last month with values p and f, after the months before it.
Replay(l, rs, s, p, f) ==
  /\ levels' = Extended(l, p, f)
  /\ IF IsPoint(l, p, f)
     THEN /\ current' = <<Reading(l, p, f)>>
          /\ state' = Moved(s, Append(rs, Reading(l, p, f)))
     ELSE current' = <<>> /\ state' = s

\* A new month.  The policy rate has a value in every month after its first.
Month(p, f) ==
  /\ p = NoLevel => levels.policy = NoLevel
  /\ prior' = levels
  /\ past' = Trimmed(Points)
  /\ settled' = state
  /\ Replay(levels, Trimmed(Points), state, p, f)

Published == current # <<>> \/ levels.inflation # prior.inflation

\* The policy rate of the month in progress moves, or its inflation is published:
\* an observation that is stored is left as it is.
Revise(p, f) ==
  /\ p = NoLevel => levels.policy = NoLevel
  /\ Published => f = levels.inflation
  /\ UNCHANGED <<prior, past, settled>>
  /\ Replay(prior, past, settled, p, f)

NoLevels == [policy |-> NoLevel, inflation |-> NoLevel, real |-> NoLevel]

Init ==
  /\ levels = NoLevels
  /\ prior = NoLevels
  /\ past = <<>>
  /\ current = <<>>
  /\ settled = InitialState
  /\ state = InitialState

Next == \E r \in Rates : Month(r[1], r[2]) \/ Revise(r[1], r[2])

Spec == Init /\ [][Next]_vars

\* Months pass, and inflation keeps being published.
FairSpec == Spec /\ WF_vars(\E r \in Rates : NoLevel \notin {r[1], r[2]} /\ Month(r[1], r[2]))

-----------------------------------------------------------------------------
(* Properties *)

TypeOK ==
  /\ levels \in [policy : Levels, inflation : Levels, real : Levels]
  /\ prior \in [policy : Levels, inflation : Levels, real : Levels]
  /\ past \in Seq(Readings) /\ Len(past) <= Window
  /\ current \in Seq(Readings) /\ Len(current) <= 1
  /\ settled \in CycleStates /\ state \in CycleStates

\* Ambiguity is a matter of the real rate against a trend: the tie-hold rule can
\* stop the machine in the Hiking and the Cutting Cycle only, never between the
\* cut and the hike that leave High Real Rates and First Rate Cut.
TiesAreMixed ==
  \A e, g \in Confirmed(state, Points) :
    e # g => state \in {HikingCycle, CuttingCycle}

\* With a confirmation period of at least two points, a move is never taken back
\* by the very next month, except between Hiking Cycle and High Real Rates.
FlapsOnlyWhileHiking ==
  [][ prior' = levels /\ settled' = state /\ settled # state /\ state' = settled
        => {state, settled} = {HikingCycle, HighRealRates} ]_vars

\* Once the rates stay where they are, the machine comes to rest: at some time
\* no edge of its state is confirmed, and it no longer moves.
Settles ==
  (<>[][levels' = levels]_vars) => <>[](Confirmed(state, Points) = {})

\* A confirmed move is not taken back by the very next month.
StableTarget ==
  [][ prior' = levels /\ settled' = state /\ settled # state => state' # settled ]_vars

=============================================================================
