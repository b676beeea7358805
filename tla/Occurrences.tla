----------------------------- MODULE Occurrences -----------------------------
(***************************************************************************)
(* What the scheduler promises about transactions: the dates of a schedule *)
(* are posted in batches, a date for ever and with its one transaction, in *)
(* one step.  Schedules that were an INVESTMENT_* are exempt: their dates  *)
(* may be entered before they are posted, and again.                       *)
(***************************************************************************)
EXTENDS Naturals

CONSTANTS Schedules, Dates

VARIABLES posted,    \* the <<schedule, date>> that have an occurrence
          entries,   \* transactions per <<schedule, date>>
          exempt     \* schedules that were an INVESTMENT_*

vars == <<posted, entries, exempt>>

Init == posted = {} /\ entries = [p \in Schedules \X Dates |-> 0] /\ exempt = {}

\* One commit posts the dates in ps.
Post(ps) ==
  /\ posted' = posted \cup ps
  /\ entries' \in [Schedules \X Dates -> Nat]
  /\ \A p \in Schedules \X Dates :
       IF p[1] \in exempt
       THEN /\ entries'[p] \in {entries[p], entries[p] + 1}
            /\ p \in ps => entries'[p] >= 1
       ELSE entries'[p] = entries[p] + (IF p \in ps THEN 1 ELSE 0)
  /\ UNCHANGED exempt

Exempt(i) == exempt' = exempt \cup {i} /\ UNCHANGED <<posted, entries>>

Next == Post(posted' \ posted) \/ \E i \in Schedules : Exempt(i)

Spec == Init /\ [][Next]_vars
=============================================================================
