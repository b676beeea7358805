---------------------------- MODULE MCScheduler ----------------------------
(* Small sets of schedules for TLC. *)
EXTENDS Scheduler

Plan(kind, start, end, invest) ==
  [kind |-> kind, start |-> start, end |-> end, invest |-> invest]

\* A daily income, and a daily purchase that ends.
IncomeAndPurchase == {Plan("DAILY", 1, None, FALSE), Plan("DAILY", 1, 2, TRUE)}
Income == {Plan("DAILY", 1, None, FALSE)}
\* A schedule of the future, of a kind that fires on some days only.
Upcoming == {Plan("WEEKLY", 4, None, FALSE)}
\* A server whose midnight comes half a day after that of UTC.
West == -1
=============================================================================
