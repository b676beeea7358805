------------------------------ MODULE Scheduler ------------------------------
(***************************************************************************)
(* Schedules, their APScheduler jobs and the catch-up of missed fires      *)
(* (scheduler/scheduler.py, services/schedule_svc.py,                      *)
(* services/schedule_full_svc.py).                                         *)
(*                                                                         *)
(* Three kinds of actor share one SQLite file: the main thread (boot and   *)
(* then the event loop, which serves one schedule request at a time, the   *)
(* catch-up of a new schedule included), one job thread per schedule, and  *)
(* the environment (the clock, crashes, other writers holding the write    *)
(* lock past SQLite's busy timeout).  Time is counted in ticks; the UTC    *)
(* date, the server's local date and the profile's date are three readings *)
(* of the same tick, and the code mixes all three.                         *)
(*                                                                         *)
(* A transaction is known by the schedule and the date it was made for.    *)
(* Months have one length, so the clamping of day 31 never happens; every  *)
(* schedule has an entity, a currency and a type.                          *)
(***************************************************************************)
EXTENDS Integers, FiniteSets

CONSTANTS MaxId,          \* schedules ever created (a bound)
          Plans,          \* the schedules a request may carry
          None,           \* no row, no job, no end date, no shutdown on record
          TicksPerDay, ServerOffset, ProfileOffset,   \* in ticks
          WeekDays, MonthDays,                        \* in days
          FirstTick, LastTick,                        \* bounds of the clock
          MaxCopies       \* bound: transactions for one date before failures stop

VARIABLES now,            \* the clock
          phase,          \* the process: "down", "booting" or "up"
          rows,           \* schedules
          nextId,         \* AUTOINCREMENT of schedules
          occ,            \* schedule_occurrences: <<schedule, date>>
          made,           \* transactions the scheduler made, per schedule and date
          initial,        \* <<schedule, date>> of the transactions of POST /schedules/full
          closed,         \* schedules whose entity is soft-deleted
          lastShutdown,   \* scheduler_state.last_shutdown_at, as a UTC date
          jobs,           \* APScheduler: the schedule a job was registered with
          threads,        \* the job threads
          main,           \* the catch-up running on the main thread
          open,           \* its connection's uncommitted inserts
          invested        \* history: schedules that were ever an INVESTMENT_* with an asset

stored == <<rows, nextId, occ, made, initial, closed, lastShutdown>>
vars == <<now, phase, stored, jobs, threads, main, open, invested>>

Ids == 1 .. MaxId
Kinds == {"ONE_OFF", "DAILY", "WEEKLY", "MONTHLY", "QUARTERLY", "ANNUALLY", "CUSTOM"}
DayOf(tick) == tick \div TicksPerDay
LastDay == DayOf(LastTick + TicksPerDay)
Days == 0 .. LastDay

ASSUME SchedulerAssumption ==
  /\ MaxId \in Nat
  /\ TicksPerDay \in Nat \ {0} /\ WeekDays \in Nat \ {0} /\ MonthDays \in Nat \ {0}
  /\ ServerOffset \in -TicksPerDay .. TicksPerDay
  /\ ProfileOffset \in -TicksPerDay .. TicksPerDay
  /\ FirstTick \in TicksPerDay .. LastTick /\ LastTick \in Nat
  /\ MaxCopies \in Nat
  /\ Plans \subseteq [kind : Kinds, start : Days, end : Days \cup {None}, invest : BOOLEAN]
  /\ None \notin Plans /\ None \notin Nat

\* datetime.now(UTC).date(), date.today() and the date in the profile's timezone.
UtcDay == DayOf(now)
ServerDay(tick) == DayOf(tick + ServerOffset)
ProfileDay == DayOf(now + ProfileOffset)

-----------------------------------------------------------------------------
(* Calendars: what the catch-up computes and what the cron triggers fire. *)

\* _compute_fire_dates, without its window: the dates it steps through from start.
Step(plan) == CASE plan.kind = "DAILY" -> 1
                [] plan.kind = "WEEKLY" -> WeekDays
                [] plan.kind = "MONTHLY" -> MonthDays
                [] plan.kind = "QUARTERLY" -> 3 * MonthDays
                [] plan.kind = "ANNUALLY" -> 12 * MonthDays
                [] OTHER -> LastDay + 1

FireDates(plan, since, until) ==
  {d \in Days : /\ plan.kind # "CUSTOM"
                /\ d >= plan.start /\ d >= since /\ d <= until
                /\ plan.end # None => d <= plan.end
                /\ (d - plan.start) % Step(plan) = 0}

\* _make_trigger: the server dates on which the job of a plan fires, at midnight.
\* No trigger looks at start_date, except for its day of week, month or year;
\* "*/3" counts months from the first of the year.
Triggers(plan, d) ==
  CASE plan.kind = "ONE_OFF" -> d = plan.start
    [] plan.kind \in {"DAILY", "CUSTOM"} -> TRUE
    [] plan.kind = "QUARTERLY" -> /\ d % MonthDays = plan.start % MonthDays
                                  /\ (d \div MonthDays) % 3 = 0
    [] OTHER -> (d - plan.start) % Step(plan) = 0

-----------------------------------------------------------------------------
Idle == [step |-> "idle", date |-> 0]
AtRest == [step |-> "idle", at |-> <<0, 0>>, todo |-> {}, until |-> 0]
NothingOpen == [txs |-> {}, occs |-> {}]

\* The connection of the catch-up holds SQLite's write lock from its first insert
\* to its commit or rollback.
Locked == open # NothingOpen

Init ==
  /\ now = FirstTick /\ phase = "down"
  /\ rows = [i \in Ids |-> None] /\ nextId = 1
  /\ occ = {} /\ made = [p \in Ids \X Days |-> 0] /\ initial = {}
  /\ closed = {} /\ lastShutdown = None
  /\ jobs = [i \in Ids |-> None] /\ threads = [i \in Ids |-> Idle]
  /\ main = AtRest /\ open = NothingOpen /\ invested = {}

\* _register_job: a ONE_OFF of the past has no trigger and leaves an older job as it
\* is; one of today is overdue already, so it runs within its grace or never.
Expired(plan) == plan.kind = "ONE_OFF" /\ plan.start < ServerDay(now)
Overdue(plan) == plan.kind = "ONE_OFF" /\ plan.start = ServerDay(now)

JobFor(plan, older) == IF Expired(plan) THEN older ELSE IF Overdue(plan) THEN None ELSE plan

ThreadFor(plan, thread) ==
  IF /\ Overdue(plan) /\ thread.step = "idle"
     /\ (now + ServerOffset) % TicksPerDay = 0
  THEN [thread EXCEPT !.step = "due"] ELSE thread

Register(i, plan) ==
  /\ jobs' = [jobs EXCEPT ![i] = JobFor(plan, jobs[i])]
  /\ threads' = [threads EXCEPT ![i] = ThreadFor(plan, threads[i])]

-----------------------------------------------------------------------------
(* The catch-up: one handler, at boot for all schedules and in a request for one. *)

CatchUp(todo) == main' = [step |-> "check", at |-> <<0, 0>>, todo |-> todo, until |-> UtcDay]

\* The order of the loops over schedules and dates.
Before(p, q) == p[1] < q[1] \/ (p[1] = q[1] /\ p[2] <= q[2])

\* lifespan, catch_up_missed_fires: without a shutdown on record, schedules that all
\* start today or later are left alone.
\* Mutated form: only what the last shutdown missed.
Since_shutdown(plan) == IF lastShutdown = None THEN plan.start ELSE lastShutdown
Since(plan) == IF lastShutdown = None \/ plan.start < lastShutdown
               THEN plan.start ELSE lastShutdown

NothingMissed == lastShutdown = None /\ \A i \in Ids : rows[i] # None => rows[i].start >= UtcDay

Missed == {p \in Ids \X Days : /\ rows[p[1]] # None
                               /\ p[2] \in FireDates(rows[p[1]], Since(rows[p[1]]), UtcDay)}

Boot ==
  /\ phase = "down"
  /\ phase' = "booting"
  /\ CatchUp(IF NothingMissed THEN {} ELSE Missed)
  /\ UNCHANGED <<now, stored, jobs, threads, open, invested>>

\* _has_catchup_for_date, on the connection that sees its own uncommitted rows; a
\* schedule whose entity was soft-deleted is skipped.
CatchUpCheck ==
  /\ main.step = "check"
  /\ \E p \in main.todo :
       /\ \A q \in main.todo : Before(p, q)
       /\ main' = IF p \in occ \cup open.occs \/ p[1] \in closed
                  THEN [main EXCEPT !.todo = @ \ {p}]
                  ELSE [main EXCEPT !.step = "insert", !.at = p]
  /\ UNCHANGED <<now, phase, stored, jobs, threads, open, invested>>

\* One more transaction for each of the dates in ps.
Add(ps) == [p \in DOMAIN made |-> IF p \in ps THEN made[p] + 1 ELSE made[p]]

\* Mutated form: every transaction is committed before its occurrence.
CatchUpInsert_commits ==
  /\ main.step = "insert"
  /\ main' = [main EXCEPT !.step = "occurrence"]
  /\ made' = Add(open.txs \cup {main.at})
  /\ occ' = occ \cup open.occs
  /\ open' = NothingOpen
  /\ UNCHANGED <<now, phase, rows, nextId, initial, closed, lastShutdown, jobs, threads,
                 invested>>

\* create_transaction; the resolved fields of an INVESTMENT_* are committed at once,
\* and with them all that was open.
CatchUpInsert ==
  /\ main.step = "insert"
  /\ main' = [main EXCEPT !.step = "occurrence"]
  /\ IF rows[main.at[1]].invest
     THEN /\ made' = Add(open.txs \cup {main.at})
          /\ occ' = occ \cup open.occs
          /\ open' = NothingOpen
     ELSE /\ open' = [open EXCEPT !.txs = @ \cup {main.at}]
          /\ UNCHANGED <<made, occ>>
  /\ UNCHANGED <<now, phase, rows, nextId, initial, closed, lastShutdown, jobs, threads,
                 invested>>

Resume == IF phase = "booting"
          THEN /\ phase' = "up"
               /\ jobs' = [i \in Ids |-> IF rows[i] = None THEN None ELSE JobFor(rows[i], None)]
               /\ threads' = [i \in Ids |-> IF rows[i] = None THEN threads[i]
                                            ELSE ThreadFor(rows[i], threads[i])]
          ELSE UNCHANGED <<phase, jobs, threads>>

\* The end of the catch-up; after the one of boot, init_scheduler registers the jobs.
\* Mutated form: neither commit nor rollback.
Finish_left_open == main' = AtRest /\ UNCHANGED open /\ Resume
Finish ==
  /\ main' = AtRest
  /\ open' = NothingOpen
  /\ Resume

\* insert_schedule_occurrence, with the unique index on (schedule_id, occurrence_date):
\* a job that was faster makes it fail, and everything still open is rolled back.
CatchUpRow ==
  /\ main.step = "occurrence"
  /\ main.at \notin occ
  /\ open' = [open EXCEPT !.occs = @ \cup {main.at}]
  /\ main' = [main EXCEPT !.step = "check", !.todo = @ \ {main.at}]
  /\ UNCHANGED <<now, phase, stored, jobs, threads, invested>>

CatchUpConflict ==
  /\ main.step = "occurrence"
  /\ main.at \in occ
  /\ Finish
  /\ UNCHANGED <<now, stored, invested>>

BelowCap == \A p \in DOMAIN made : made[p] < MaxCopies

\* Any other exception, like "database is locked" or an asset without a price.
CatchUpFails ==
  /\ main.step \in {"insert", "occurrence"}
  /\ BelowCap
  /\ Finish
  /\ UNCHANGED <<now, stored, invested>>

CatchUpCommit ==
  /\ main.step = "check" /\ main.todo = {}
  /\ made' = Add(open.txs)
  /\ occ' = occ \cup open.occs
  /\ Finish
  /\ UNCHANGED <<now, rows, nextId, initial, closed, lastShutdown, invested>>

-----------------------------------------------------------------------------
(* Requests.  The event loop serves the next one when the last has returned. *)

Serving == phase = "up" /\ main.step = "idle"

Invests(i, plan) == invested' = IF plan.invest THEN invested \cup {i} ELSE invested

\* schedule_svc.create: commit, register the job, catch up from the start date.
Create(plan) ==
  /\ Serving /\ nextId \in Ids
  /\ rows' = [rows EXCEPT ![nextId] = plan]
  /\ nextId' = nextId + 1
  /\ Register(nextId, plan)
  /\ Invests(nextId, plan)
  /\ IF plan.start >= UtcDay
     THEN UNCHANGED main
     ELSE CatchUp({nextId} \X FireDates(plan, plan.start, UtcDay))
  /\ UNCHANGED <<now, phase, occ, made, initial, closed, lastShutdown, open>>

\* schedule_full_svc.create: the transaction of today, without an occurrence row.
CreateFull(plan) ==
  /\ Serving /\ nextId \in Ids
  /\ initial' = IF plan.start = ServerDay(now)
                THEN initial \cup {<<nextId, plan.start>>} ELSE initial
  /\ rows' = [rows EXCEPT ![nextId] = plan]
  /\ nextId' = nextId + 1
  /\ Register(nextId, plan)
  /\ Invests(nextId, plan)
  /\ UNCHANGED <<now, phase, occ, made, closed, lastShutdown, main, open>>

\* The entity it names must not be deleted.
Update(i, plan) ==
  /\ Serving /\ rows[i] # None
  /\ rows' = [rows EXCEPT ![i] = plan]
  /\ Register(i, plan)
  /\ closed' = closed \ {i}
  /\ Invests(i, plan)
  /\ UNCHANGED <<now, phase, nextId, occ, made, initial, lastShutdown, main, open>>

\* Occurrences and transactions of the schedule stay.
Delete(i) ==
  /\ Serving /\ rows[i] # None
  /\ rows' = [rows EXCEPT ![i] = None]
  /\ jobs' = [jobs EXCEPT ![i] = None]
  /\ closed' = closed \ {i}
  /\ UNCHANGED <<now, phase, nextId, occ, made, initial, lastShutdown, threads, main, open,
                 invested>>

\* entity_svc.delete: refused while transactions refer to the entity, whatever
\* schedules do.  Bound: the schedule has made none, neither here nor elsewhere.
DeleteEntity(i) ==
  /\ Serving /\ rows[i] # None
  /\ \A d \in Days : made[<<i, d>>] = 0 /\ <<i, d>> \notin initial
  /\ closed' = closed \cup {i}
  /\ UNCHANGED <<now, phase, rows, nextId, occ, made, initial, lastShutdown, jobs, threads,
                 main, open, invested>>

-----------------------------------------------------------------------------
(* Job threads: execute_schedule, _clone_tx. *)

Thread(i, t) == threads' = [threads EXCEPT ![i] = t]

\* The reads: the row, its end date against the server's date, its entity, the
\* profile's date.
JobStart(i) ==
  /\ threads[i].step = "due"
  /\ Thread(i, IF rows[i] # None /\ rows[i].end # None /\ ServerDay(now) > rows[i].end
               THEN [Idle EXCEPT !.step = "expire"]
               ELSE IF rows[i] = None \/ i \in closed THEN Idle
               ELSE [step |-> "write", date |-> ProfileDay])
  /\ UNCHANGED <<now, phase, stored, jobs, main, open, invested>>

\* Later than misfire_grace_time.
JobMissed(i) ==
  /\ threads[i].step = "due"
  /\ Thread(i, Idle)
  /\ UNCHANGED <<now, phase, stored, jobs, main, open, invested>>

\* remove_schedule, called by the job for a schedule past its end.
JobExpire(i) ==
  /\ threads[i].step = "expire"
  /\ jobs' = [jobs EXCEPT ![i] = None]
  /\ Thread(i, Idle)
  /\ UNCHANGED <<now, phase, stored, main, open, invested>>

\* Transaction and occurrence in one commit; the unique index undoes both.
\* Mutated form: the transaction is committed before its occurrence.
JobWrite_commits_first(i) ==
  /\ threads[i].step = "write" /\ ~Locked
  /\ Thread(i, Idle)
  /\ made' = Add({<<i, threads[i].date>>})
  /\ occ' = occ \cup {<<i, threads[i].date>>}
  /\ UNCHANGED <<now, phase, rows, nextId, initial, closed, lastShutdown, jobs, main, open,
                 invested>>
JobWrite(i) ==
  /\ threads[i].step = "write" /\ ~Locked
  /\ Thread(i, Idle)
  /\ LET p == <<i, threads[i].date>> IN
       /\ made' = IF p \in occ THEN made ELSE Add({p})
       /\ occ' = occ \cup {p}
  /\ UNCHANGED <<now, phase, rows, nextId, initial, closed, lastShutdown, jobs, main, open,
                 invested>>

\* "database is locked", or any other error: logged and dropped.
JobFails(i) ==
  /\ threads[i].step = "write"
  /\ Thread(i, Idle)
  /\ UNCHANGED <<now, phase, stored, jobs, main, open, invested>>

-----------------------------------------------------------------------------
(* The environment. *)

\* At the server's midnight the running scheduler starts the jobs that are due, one
\* instance of each at most; a ONE_OFF job leaves with its only fire.
Fires(i) == /\ phase = "up" /\ jobs[i] # None
            /\ ServerDay(now + 1) # ServerDay(now)
            /\ Triggers(jobs[i], ServerDay(now + 1))

Tick ==
  /\ now < LastTick
  /\ now' = now + 1
  /\ threads' = [i \in Ids |-> IF Fires(i) /\ threads[i].step = "idle"
                               THEN [Idle EXCEPT !.step = "due"] ELSE threads[i]]
  /\ jobs' = [i \in Ids |-> IF Fires(i) /\ jobs[i].kind = "ONE_OFF" THEN None ELSE jobs[i]]
  /\ UNCHANGED <<phase, stored, main, open, invested>>

Volatile == /\ phase' = "down"
            /\ jobs' = [i \in Ids |-> None] /\ threads' = [i \in Ids |-> Idle]
            /\ main' = AtRest /\ open' = NothingOpen

\* lifespan after its yield, shutdown_scheduler.
Shutdown ==
  /\ Serving
  /\ Volatile
  /\ lastShutdown' = UtcDay
  /\ UNCHANGED <<now, rows, nextId, occ, made, initial, closed, invested>>

\* The process dies; SQLite rolls back what was not committed.
Crash ==
  /\ phase # "down" /\ BelowCap
  /\ Volatile
  /\ UNCHANGED <<now, stored, invested>>

Next ==
  \/ Boot \/ CatchUpCheck \/ CatchUpInsert \/ CatchUpRow \/ CatchUpConflict
  \/ CatchUpFails \/ CatchUpCommit
  \/ \E plan \in Plans : Create(plan)
  \/ \E plan \in Plans : CreateFull(plan)
  \/ \E i \in Ids, plan \in Plans : Update(i, plan)
  \/ \E i \in Ids : Delete(i)
  \/ \E i \in Ids : DeleteEntity(i)
  \/ \E i \in Ids : JobStart(i)
  \/ \E i \in Ids : JobMissed(i)
  \/ \E i \in Ids : JobExpire(i)
  \/ \E i \in Ids : JobWrite(i)
  \/ \E i \in Ids : JobFails(i)
  \/ Tick \/ Shutdown \/ Crash

Spec == Init /\ [][Next]_vars

-----------------------------------------------------------------------------
(* Properties. *)

Pairs == Ids \X Days

\* Every variable keeps its type; a thread about to write holds a date of the
\* calendar, and nothing is open while the main thread is at rest.
TypeOK ==
  /\ now \in FirstTick .. LastTick /\ phase \in {"down", "booting", "up"}
  /\ rows \in [Ids -> Plans \cup {None}] /\ jobs \in [Ids -> Plans \cup {None}]
  /\ nextId \in 1 .. MaxId + 1
  /\ occ \subseteq Pairs /\ initial \subseteq Pairs
  /\ made \in [Pairs -> Nat]
  /\ closed \subseteq Ids /\ lastShutdown \in Days \cup {None}
  /\ threads \in [Ids -> [step : {"idle", "due", "expire", "write"}, date : Days]]
  /\ main \in [step : {"idle", "check", "insert", "occurrence"},
               at : Pairs \cup {<<0, 0>>}, todo : SUBSET Pairs, until : Days]
  /\ open \in [txs : SUBSET Pairs, occs : SUBSET Pairs]
  /\ invested \subseteq Ids
  /\ main.step = "idle" => open = NothingOpen

\* Across crashes, restarts, failed writes and the races of catch-up and jobs, an
\* occurrence row never stands without a transaction, and for a schedule that never
\* was an investment the scheduler makes a transaction exactly once for each row:
\* "safe to run multiple times without duplicating" (uc_8_system_initiated.md:185).
ExactlyOnce ==
  \A p \in Pairs :
    /\ p \in occ => made[p] >= 1
    /\ p[1] \notin invested => made[p] = IF p \in occ THEN 1 ELSE 0

Ledger == INSTANCE Occurrences WITH Schedules <- Ids, Dates <- Days,
                                    posted <- occ, entries <- made, exempt <- invested

\* Every step of threads, catch-ups, crashes and restarts is, seen from the tables, a
\* step of the ledger of occurrences: a commit adds occurrences together with their
\* transactions, and none is ever taken back or made again (the unique index of
\* schedule_occurrences and the order of the inserts in scheduler.py).
KeepsLedger == Ledger!Spec

\* When a boot's catch-up has got to its end, every fire date of every schedule whose
\* entity is there, from its own start to the UTC date of the boot, has its occurrence,
\* however the dates were missed: application down, crashed, misfired, a write refused,
\* an earlier catch-up that failed, an entity deleted and then replaced.  Only schedules
\* of the very day are excused, and only while no shutdown is on record.
BootCatchesUp ==
  [][(phase = "booting" /\ phase' = "up" /\ main.todo = {}) =>
       \A i \in Ids \ closed :
         (rows[i] # None /\ (lastShutdown # None \/ rows[i].start < main.until)) =>
         {i} \X FireDates(rows[i], rows[i].start, main.until) \subseteq occ']_vars

\* workflow.md:735,752 of a schedule request: "No transaction created", which
\* "eliminates double-counting".  POST /schedules/full makes today's transaction
\* without an occurrence, and the next catch-up makes it again: the code breaks this,
\* and no run checks it.
OncePerDate == \A p \in Pairs : made[p] + (IF p \in initial THEN 1 ELSE 0) <= 1

\* uc_4_schedules.md:23: "start_date, end_date - active period".  No trigger and no
\* check of the job looks at start_date: a schedule of the future fires at once.
WithinPeriod ==
  \A p \in occ : LET plan == rows[p[1]] IN
    plan # None => /\ plan.start <= p[2]
                   /\ plan.end # None => p[2] <= plan.end
=============================================================================
