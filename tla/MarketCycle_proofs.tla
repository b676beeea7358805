------------------------- MODULE MarketCycle_proofs -------------------------
(***************************************************************************)
(* Proofs about MarketCycle, for any rates, thresholds, periods and        *)
(* disabled edges.                                                         *)
(***************************************************************************)
EXTENDS MarketCycle, TLAPS

\* What the state shown owes to the state before the last month.
Replayed == state = IF current = <<>> THEN settled ELSE Moved(settled, Points)

CycleInv == TypeOK /\ Replayed

\* What is needed to know of the edges: the ends, and which way each needs the
\* policy rate to go.
LEMMA EdgeFacts ==
  ASSUME NEW s, NEW e \in Outgoing(s)
  PROVE  /\ e.source = s /\ e.target \in CycleStates
         /\ \/ s = 1 /\ e.target = 2 /\ e.signals = {"inflation_rate_trend_increasing"}
            \/ s = 2 /\ e.target = 3 /\ e.signals = {"policy_rate_trend_increasing"}
            \/ s = 3 /\ e.target = 4 /\ e.signals = {"real_rates_high"}
            \/ s = 4 /\ e.target = 5 /\ e.signals = {"first_cut_detected"}
            \/ s = 5 /\ e.target = 6 /\ e.signals = {"policy_rate_trend_decreasing"}
            \/ s = 6 /\ e.target = 1 /\ e.signals = {"real_rates_low"}
            \/ s = 6 /\ e.target = 2 /\ e.signals = {"real_rates_declining", "cuts_stopped"}
            \/ s = 5 /\ e.target = 4 /\ e.signals = {"real_rates_high", "hikes_resumed"}
            \/ s = 4 /\ e.target = 3 /\ e.signals = {"hikes_resumed", "real_rates_climbing"}
            \/ s = 3 /\ e.target = 2
               /\ e.signals = {"hikes_stopped", "inflation_rate_trend_increasing"}
  BY DEF Outgoing, ForwardEdges, ReverseEdges, Edge, CycleStates, LowRealRates,
         RisingInflation, HikingCycle, HighRealRates, FirstRateCut, CuttingCycle

\* The end an edge leads to and the signals it waits for name the edge.
LEMMA SameEdge ==
  ASSUME NEW s, NEW e \in Outgoing(s), NEW g \in Outgoing(s), e.target = g.target
  PROVE  e = g
<1>1. \A a, b, c, d : Edge(a, b, c) = [source |-> a, target |-> b, signals |-> c]
  BY DEF Edge
<1>2. e \in ForwardEdges \cup ReverseEdges /\ g \in ForwardEdges \cup ReverseEdges
  BY DEF Outgoing
<1>3. e = [source |-> e.source, target |-> e.target, signals |-> e.signals]
  BY <1>2 DEF ForwardEdges, ReverseEdges, Edge
<1>4. g = [source |-> g.source, target |-> g.target, signals |-> g.signals]
  BY <1>2 DEF ForwardEdges, ReverseEdges, Edge
<1>5. e.source = g.source
  BY DEF Outgoing
<1>6. e.signals = g.signals
  <2> DEFINE Way(t, signals) ==
        \/ s = 1 /\ t = 2 /\ signals = {"inflation_rate_trend_increasing"}
        \/ s = 2 /\ t = 3 /\ signals = {"policy_rate_trend_increasing"}
        \/ s = 3 /\ t = 4 /\ signals = {"real_rates_high"}
        \/ s = 4 /\ t = 5 /\ signals = {"first_cut_detected"}
        \/ s = 5 /\ t = 6 /\ signals = {"policy_rate_trend_decreasing"}
        \/ s = 6 /\ t = 1 /\ signals = {"real_rates_low"}
        \/ s = 6 /\ t = 2 /\ signals = {"real_rates_declining", "cuts_stopped"}
        \/ s = 5 /\ t = 4 /\ signals = {"real_rates_high", "hikes_resumed"}
        \/ s = 4 /\ t = 3 /\ signals = {"hikes_resumed", "real_rates_climbing"}
        \/ s = 3 /\ t = 2
           /\ signals = {"hikes_stopped", "inflation_rate_trend_increasing"}
  <2>1. Way(e.target, e.signals) /\ Way(g.target, g.signals)
    BY EdgeFacts
  <2>2. \A t, x, y : Way(t, x) /\ Way(t, y) => x = y
    OBVIOUS
  <2> QED
    BY ONLY <2>1, <2>2, e.target = g.target
<1> QED
  BY <1>3, <1>4, <1>5, <1>6

LEMMA SignalFacts ==
  ASSUME NEW rs, NEW j, NEW s
  PROVE  /\ Met("policy_rate_trend_increasing", rs, j, s) => rs[j].policy = "increasing"
         /\ Met("policy_rate_trend_decreasing", rs, j, s) => rs[j].policy = "decreasing"
         /\ Met("first_cut_detected", rs, j, s) => rs[j].policy = "decreasing"
         /\ Met("hikes_resumed", rs, j, s) => rs[j].policy = "increasing"
         /\ Met("hikes_stopped", rs, j, s) => rs[j].policy # "increasing"
  BY DEF Met, HikesResumed, FirstCutDetected

\* The way the policy rate went at a point where an edge's signals hold.
Rising(e) == {"policy_rate_trend_increasing", "hikes_resumed"} \cap e.signals # {}
Falling(e) == {"policy_rate_trend_decreasing", "first_cut_detected"} \cap e.signals # {}
Resting(e) == "hikes_stopped" \in e.signals

LEMMA HeldFacts ==
  ASSUME NEW rs \in Seq(Readings), NEW s, NEW e, Held(e, rs, s),
         NEW j \in Nat, j <= Len(rs), Len(rs) - j < Triggered
  PROVE  /\ Rising(e) => rs[j].policy = "increasing"
         /\ Falling(e) => rs[j].policy = "decreasing"
         /\ Resting(e) => rs[j].policy # "increasing"
<1>1. j \in (Len(rs) - Triggered + 1)..Len(rs)
  BY CycleAssumption
<1>2. \A g \in e.signals : Met(g, rs, j, s)
  BY <1>1 DEF Held
<1> QED
  BY <1>2, SignalFacts DEF Rising, Falling, Resting

LEMMA MovedFacts ==
  ASSUME NEW s \in CycleStates, NEW rs, Moved(s, rs) # s
  PROVE  \E e \in Outgoing(s) : Held(e, rs, s) /\ Moved(s, rs) = e.target
<1>1. \E e \in Outgoing(s) : Confirmed(s, rs) = {e}
  BY DEF Moved
<1> DEFINE e == CHOOSE e \in Outgoing(s) : Confirmed(s, rs) = {e}
<1>2. e \in Outgoing(s) /\ Confirmed(s, rs) = {e}
  BY <1>1
<1>3. Moved(s, rs) = e.target
  BY <1>1 DEF Moved
<1>4. e \in Confirmed(s, rs)
  BY <1>2
<1> HIDE DEF e
<1>5. Held(e, rs, s)
  BY <1>4 DEF Confirmed
<1> QED
  BY <1>2, <1>3, <1>5

LEMMA MovedType == ASSUME NEW s \in CycleStates, NEW rs PROVE Moved(s, rs) \in CycleStates
  BY MovedFacts, EdgeFacts

-----------------------------------------------------------------------------
(* The invariant *)

LevelSets == [policy : Levels, inflation : Levels, real : Levels]

LEMMA ExtendedType ==
  ASSUME NEW l \in LevelSets, NEW p \in Levels, NEW f \in Levels
  PROVE  Extended(l, p, f) \in LevelSets
  BY CycleAssumption DEF Extended, LevelSets, Levels

LEMMA ReadingType ==
  ASSUME NEW l \in LevelSets, NEW p \in Levels, NEW f \in Levels, IsPoint(l, p, f)
  PROVE  Reading(l, p, f) \in Readings
<1>1. p \in Int /\ f \in Int /\ p - f \in Int
  BY DEF IsPoint, Levels
<1>2. \A a, b : Slope(a, b) \in Trends
  BY DEF Slope, Trends
<1> QED
  BY <1>1, <1>2 DEF Reading, Readings

LEMMA TrimmedFacts ==
  ASSUME NEW rs \in Seq(Readings)
  PROVE  /\ Trimmed(rs) \in Seq(Readings)
         /\ Len(Trimmed(rs)) = IF Len(rs) > Window THEN Window ELSE Len(rs)
         /\ \A j \in 1..Len(Trimmed(rs)) :
              Trimmed(rs)[j] = rs[j + Len(rs) - Len(Trimmed(rs))]
<1>1. Window \in Nat /\ Len(rs) \in Nat
  BY CycleAssumption DEF Window
<1>2. CASE Len(rs) <= Window
  <2>1. Trimmed(rs) = rs
    BY <1>1, <1>2 DEF Trimmed
  <2>2. Len(rs) = IF Len(rs) > Window THEN Window ELSE Len(rs)
    BY <1>1, <1>2
  <2>3. \A j \in 1..Len(rs) : rs[j] = rs[j + Len(rs) - Len(rs)]
    <3> TAKE j \in 1..Len(rs)
    <3>1. j + Len(rs) - Len(rs) = j
      BY <1>1
    <3> QED
      BY <3>1
  <2> QED
    BY <2>1, <2>2, <2>3
<1>3. CASE Len(rs) > Window
  BY <1>1, <1>3 DEF Trimmed
<1> QED
  BY <1>1, <1>2, <1>3

LEMMA ReplayInv ==
  ASSUME NEW l \in LevelSets, NEW rs \in Seq(Readings), NEW s \in CycleStates,
         NEW p \in Levels, NEW f \in Levels, Replay(l, rs, s, p, f),
         past' = rs, settled' = s
  PROVE  /\ levels' \in LevelSets
         /\ current' \in Seq(Readings) /\ Len(current') <= 1
         /\ state' \in CycleStates
         /\ Replayed'
<1>1. levels' \in LevelSets
  BY ExtendedType DEF Replay
<1>2. CASE IsPoint(l, p, f)
  <2> DEFINE r == Reading(l, p, f)
  <2>1. r \in Readings
    BY <1>2, ReadingType
  <2>2. current' = <<r>> /\ state' = Moved(s, Append(rs, r))
    BY <1>2 DEF Replay
  <2> HIDE DEF r
  <2>3. Points' = Append(rs, r)
    BY <2>1, <2>2 DEF Points
  <2> QED
    BY <1>1, <2>1, <2>2, <2>3, MovedType DEF Replayed
<1>3. CASE ~IsPoint(l, p, f)
  BY <1>1, <1>3 DEF Replay, Replayed
<1> QED
  BY <1>2, <1>3

LEMMA RateLevels == ASSUME NEW r \in Rates PROVE r[1] \in Levels /\ r[2] \in Levels
  BY CycleAssumption DEF Levels

LEMMA MonthInv ==
  ASSUME CycleInv, NEW r \in Rates, Month(r[1], r[2]) PROVE CycleInv'
<1>1. Points \in Seq(Readings)
  BY DEF CycleInv, TypeOK, Points
<1>2. Trimmed(Points) \in Seq(Readings) /\ Len(Trimmed(Points)) <= Window
  BY <1>1, TrimmedFacts, CycleAssumption DEF Window
<1>3. levels \in LevelSets /\ state \in CycleStates
  BY DEF CycleInv, TypeOK, LevelSets
<1>4. Replay(levels, Trimmed(Points), state, r[1], r[2])
      /\ past' = Trimmed(Points) /\ settled' = state /\ prior' = levels
  BY DEF Month
<1>5. r[1] \in Levels /\ r[2] \in Levels
  BY RateLevels
<1>6. /\ levels' \in LevelSets /\ current' \in Seq(Readings) /\ Len(current') <= 1
      /\ state' \in CycleStates /\ Replayed'
  BY <1>2, <1>3, <1>4, <1>5, ReplayInv
<1> QED
  BY <1>2, <1>3, <1>4, <1>6 DEF CycleInv, TypeOK, LevelSets

LEMMA ReviseInv ==
  ASSUME CycleInv, NEW r \in Rates, Revise(r[1], r[2]) PROVE CycleInv'
<1>1. prior \in LevelSets /\ past \in Seq(Readings) /\ settled \in CycleStates
  BY DEF CycleInv, TypeOK, LevelSets
<1>2. Replay(prior, past, settled, r[1], r[2])
      /\ past' = past /\ settled' = settled /\ prior' = prior
  BY DEF Revise
<1>3. r[1] \in Levels /\ r[2] \in Levels
  BY RateLevels
<1>4. /\ levels' \in LevelSets /\ current' \in Seq(Readings) /\ Len(current') <= 1
      /\ state' \in CycleStates /\ Replayed'
  BY <1>1, <1>2, <1>3, ReplayInv
<1> QED
  BY <1>1, <1>2, <1>4 DEF CycleInv, TypeOK, LevelSets

LEMMA InitInv == Init => CycleInv
<1> SUFFICES ASSUME Init PROVE CycleInv
  OBVIOUS
<1>1. NoLevels \in [policy : Levels, inflation : Levels, real : Levels]
  BY DEF NoLevels, Levels
<1>2. Window >= 0
  BY CycleAssumption DEF Window
<1> QED
  BY <1>1, <1>2, CycleAssumption DEF Init, CycleInv, TypeOK, Replayed, CycleStates

LEMMA StutterInv == ASSUME CycleInv, UNCHANGED vars PROVE CycleInv'
  BY DEF CycleInv, TypeOK, Replayed, Points, vars

\* The state shown is the replay of the last month after the state before it.
THEOREM CycleInvariant == Spec => []CycleInv
<1>1. ASSUME CycleInv, [Next]_vars PROVE CycleInv'
  BY <1>1, MonthInv, ReviseInv, StutterInv DEF Next
<1> QED
  BY <1>1, InitInv, PTL DEF Spec

\* Levels, readings and states have their types, and no more readings are kept
\* than a move can depend on.
THEOREM CycleTypes == Spec => []TypeOK
<1>1. CycleInv => TypeOK
  BY DEF CycleInv
<1> QED
  BY <1>1, CycleInvariant, PTL

-----------------------------------------------------------------------------
(* Ties and flaps *)

\* Of two edges that leave one state outside the Hiking and the Cutting Cycle,
\* one needs a rising policy rate and the other a falling one.
LEMMA TieFacts ==
  ASSUME NEW s \in CycleStates, NEW e \in Outgoing(s), NEW g \in Outgoing(s), e # g
  PROVE  \/ s \in {HikingCycle, CuttingCycle}
         \/ Rising(e) /\ Falling(g)
         \/ Rising(g) /\ Falling(e)
<1>1. e.target # g.target
  BY SameEdge
<1> QED
  BY <1>1, EdgeFacts DEF Rising, Falling, HikingCycle, CuttingCycle

\* The exits of High Real Rates and of First Rate Cut, a cut and a resumed hike,
\* are never confirmed together, whatever the thresholds, the confirmation
\* period, the lookback and the edges switched off.
THEOREM CutsAndHikesNeverTie == Spec => []TiesAreMixed
<1>1. ASSUME CycleInv PROVE TiesAreMixed
  <2> SUFFICES ASSUME NEW e \in Confirmed(state, Points), NEW g \in Confirmed(state, Points),
                      e # g, state \notin {HikingCycle, CuttingCycle}
               PROVE  FALSE
    BY DEF TiesAreMixed
  <2>1. Points \in Seq(Readings) /\ state \in CycleStates
    BY <1>1 DEF CycleInv, TypeOK, Points
  <2>2. /\ e \in Outgoing(state) /\ Held(e, Points, state)
        /\ g \in Outgoing(state) /\ Held(g, Points, state)
    BY DEF Confirmed
  <2>3. Len(Points) \in Nat /\ Len(Points) - Len(Points) < Triggered
    BY <2>1, CycleAssumption
  <2> QED
    BY <2>1, <2>2, <2>3, TieFacts, HeldFacts
<1> QED
  BY <1>1, CycleInvariant, PTL

\* A way there and the way back, outside Hiking Cycle and High Real Rates, need
\* the policy rate to go two ways at a point they share.
LEMMA BackFacts ==
  ASSUME NEW s \in CycleStates, NEW t \in CycleStates, NEW e \in Outgoing(s),
         NEW g \in Outgoing(t), e.target = t, g.target = s
  PROVE  \/ {s, t} = {HikingCycle, HighRealRates}
         \/ Rising(e) /\ Resting(g)
         \/ Rising(g) /\ Resting(e)
         \/ Rising(e) /\ Falling(g)
         \/ Rising(g) /\ Falling(e)
  BY EdgeFacts DEF Rising, Falling, Resting, HikingCycle, HighRealRates

\* With a confirmation period of two months or more, what one month moved the next
\* does not move back, except between Hiking Cycle and High Real Rates.
THEOREM OnlyHikingFlaps ==
  ASSUME Triggered >= 2
  PROVE  Spec => FlapsOnlyWhileHiking
<1>1. ASSUME CycleInv, [Next]_vars,
             prior' = levels, settled' = state, settled # state, state' = settled
      PROVE  {state, settled} = {HikingCycle, HighRealRates}
  <2>1. PICK r \in Rates : Month(r[1], r[2])
    BY <1>1 DEF Next, Revise, vars
  <2> DEFINE rs == Trimmed(Points)
             rd == Reading(levels, r[1], r[2])
  <2>2. /\ levels \in LevelSets /\ Points \in Seq(Readings)
        /\ settled \in CycleStates /\ state \in CycleStates
    BY <1>1 DEF CycleInv, TypeOK, Points, LevelSets
  <2>3. current # <<>> /\ Moved(settled, Points) = state
    BY <1>1 DEF CycleInv, Replayed
  <2>4. PICK e \in Outgoing(settled) : Held(e, Points, settled) /\ state = e.target
    BY <1>1, <2>2, <2>3, MovedFacts
  <2>5. IsPoint(levels, r[1], r[2]) /\ Moved(state, Append(rs, rd)) = settled
    BY <1>1, <2>1 DEF Month, Replay
  <2>6. PICK g \in Outgoing(state) : Held(g, Append(rs, rd), state) /\ settled = g.target
    BY <1>1, <2>2, <2>5, MovedFacts
  <2>7. rd \in Readings
    BY <2>2, <2>5, ReadingType, RateLevels
  <2>8. /\ rs \in Seq(Readings) /\ Len(rs) >= 1 /\ rs[Len(rs)] = Points[Len(Points)]
    <3>1. Len(Points) >= 1
      BY <1>1, <2>3 DEF CycleInv, TypeOK, Points
    <3>2. Window >= 1
      BY CycleAssumption DEF Window
    <3> QED
      BY <2>2, <3>1, <3>2, TrimmedFacts, CycleAssumption DEF Window
  <2> HIDE DEF rs, rd
  <2> DEFINE new == Append(rs, rd)
             last == Points[Len(Points)]
  <2>9. new \in Seq(Readings) /\ Len(new) = Len(rs) + 1 /\ new[Len(rs)] = last
    BY <2>7, <2>8
  <2>10. /\ Rising(e) => last.policy = "increasing"
         /\ Falling(e) => last.policy = "decreasing"
         /\ Resting(e) => last.policy # "increasing"
    BY <2>2, <2>4, HeldFacts, CycleAssumption
  <2> HIDE DEF last
  <2>11. /\ Rising(g) => last.policy = "increasing"
         /\ Falling(g) => last.policy = "decreasing"
         /\ Resting(g) => last.policy # "increasing"
    <3>1. Held(g, new, state)
      BY <2>6
    <3>2. Len(rs) \in Nat /\ Len(rs) <= Len(new) /\ Len(new) - Len(rs) < Triggered
      BY <2>8, <2>9, CycleAssumption
    <3> HIDE DEF new
    <3> QED
      BY <2>9, <3>1, <3>2, HeldFacts
  <2> QED
    BY <2>2, <2>4, <2>6, <2>10, <2>11, BackFacts
<1>2. CycleInv /\ [Next]_vars =>
        [ prior' = levels /\ settled' = state /\ settled # state /\ state' = settled
            => {state, settled} = {HikingCycle, HighRealRates} ]_vars
  BY <1>1
<1> QED
  BY <1>2, CycleInvariant, PTL DEF Spec, FlapsOnlyWhileHiking

=============================================================================
