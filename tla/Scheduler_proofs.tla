-------------------------- MODULE Scheduler_proofs --------------------------
(***************************************************************************)
(* Theorems about Scheduler: exactly one transaction for each occurrence,  *)
(* for every number of schedules, every calendar and every pair of         *)
(* timezones.                                                              *)
(***************************************************************************)
EXTENDS Scheduler, TLAPS

Steps == {"idle", "check", "insert", "occurrence"}

(* What the actions need to be well defined. *)
Shape ==
  /\ now \in Int
  /\ rows \in [Ids -> Plans \cup {None}]
  /\ made \in [Pairs -> Nat]
  /\ main \in [step : Steps, at : Pairs \cup {<<0, 0>>}, todo : SUBSET Pairs, until : Int]
  /\ open \in [txs : SUBSET Pairs, occs : SUBSET Pairs]

(* The catch-up works on rows that exist, on a date it found no occurrence *)
(* of, and leaves nothing open behind.                                     *)
Working ==
  /\ phase = "down" => main.step = "idle"
  /\ main.step = "idle" => open = NothingOpen
  /\ main.step # "idle" => \A p \in main.todo : rows[p[1]] # None
  /\ main.step \in {"insert", "occurrence"} => main.at \in main.todo /\ main.at \notin open.occs

Writing(p) == main.step = "occurrence" /\ main.at = p

(* An open occurrence is new, and its transaction is open or committed;    *)
(* for a schedule that was never an investment the open transactions are   *)
(* those of the open occurrences and of the one being written.             *)
Batched ==
  /\ open.occs \cap occ = {}
  /\ \A p \in Pairs : p \in open.occs \/ Writing(p) => p \in open.txs \/ made[p] >= 1
  /\ \A p \in Pairs : p[1] \notin invested =>
       (p \in open.txs <=> p \in open.occs \/ Writing(p))

InvestedKnown == \A i \in Ids : rows[i] # None /\ rows[i].invest => i \in invested

IInv == Shape /\ Working /\ Batched /\ InvestedKnown /\ ExactlyOnce

-----------------------------------------------------------------------------
(* Frames.                                                                 *)

Data == <<phase, rows, occ, made, main, open, invested>>

\* The clock reads a date, and a tick leaves it a number.
LEMMA DateIsInt == Shape => UtcDay \in Int
  BY SchedulerAssumption DEF Shape, UtcDay, DayOf

\* Steps of the job threads that store nothing, and the clock's, keep the invariant.
LEMMA StoresNothing ==
  ASSUME IInv, UNCHANGED Data, now' \in Int
  PROVE  IInv'
<1>1. Shape'
  BY DEF IInv, Shape, Data
<1>2. Working'
  BY DEF IInv, Working, Data
<1>3. Batched'
  BY DEF IInv, Batched, Writing, Data
<1>4. InvestedKnown' /\ ExactlyOnce'
  BY DEF IInv, InvestedKnown, ExactlyOnce, Data
<1> QED
  BY <1>1, <1>2, <1>3, <1>4 DEF IInv

\* The end of a catch-up, or of the process: nothing is open, nobody is at work.
LEMMA Rested ==
  ASSUME IInv, now' \in Int, main' = AtRest, open' = NothingOpen,
         UNCHANGED <<rows, invested>>, made' \in [Pairs -> Nat], ExactlyOnce'
  PROVE  IInv'
<1>1. Shape'
  BY DEF IInv, Shape, AtRest, NothingOpen, Steps
<1>2. Working' /\ Batched'
  BY DEF Working, Batched, Writing, AtRest, NothingOpen
<1>3. InvestedKnown'
  BY DEF IInv, InvestedKnown
<1> QED
  BY <1>1, <1>2, <1>3 DEF IInv

\* The same when the tables keep their transactions and occurrences.
LEMMA Dropped ==
  ASSUME IInv, now' \in Int, main' = AtRest, open' = NothingOpen,
         UNCHANGED <<rows, occ, made, invested>>
  PROVE  IInv'
<1>1. ExactlyOnce'
  BY DEF IInv, ExactlyOnce
<1>2. made' \in [Pairs -> Nat]
  BY DEF IInv, Shape
<1> QED
  BY <1>1, <1>2, Rested

\* Add counts the pairs it is given, once each.
LEMMA AddCounts ==
  ASSUME made \in [Pairs -> Nat], NEW ps
  PROVE  /\ Add(ps) \in [Pairs -> Nat]
         /\ \A p \in Pairs : Add(ps)[p] = IF p \in ps THEN made[p] + 1 ELSE made[p]
  BY DEF Add

-----------------------------------------------------------------------------
(* The catch-up.                                                           *)

LEMMA CheckKeeps ==
  ASSUME IInv, CatchUpCheck
  PROVE  IInv'
<1>1. PICK p \in main.todo : main' = IF p \in occ \cup open.occs \/ p[1] \in closed
                                    THEN [main EXCEPT !.todo = @ \ {p}]
                                    ELSE [main EXCEPT !.step = "insert", !.at = p]
  BY DEF CatchUpCheck
<1>2. UNCHANGED <<now, phase, rows, occ, made, open, invested>> /\ main.step = "check"
  BY DEF CatchUpCheck, stored
<1>3. main \in [step : Steps, at : Pairs \cup {<<0, 0>>}, todo : SUBSET Pairs, until : Int]
  BY DEF IInv, Shape
<1>4. CASE p \in occ \cup open.occs \/ p[1] \in closed
  <2>1. /\ main'.step = "check" /\ main'.todo = main.todo \ {p}
        /\ main' \in [step : Steps, at : Pairs \cup {<<0, 0>>}, todo : SUBSET Pairs, until : Int]
    BY <1>1, <1>2, <1>3, <1>4
  <2>2. Shape' /\ Working'
    BY <1>2, <2>1 DEF IInv, Shape, Working
  <2>3. Batched' /\ InvestedKnown' /\ ExactlyOnce'
    BY <1>2, <2>1 DEF IInv, Batched, Writing, InvestedKnown, ExactlyOnce
  <2> QED
    BY <2>2, <2>3 DEF IInv
<1>5. CASE ~(p \in occ \cup open.occs \/ p[1] \in closed)
  <2>1. /\ main'.step = "insert" /\ main'.at = p /\ main'.todo = main.todo
        /\ main' \in [step : Steps, at : Pairs \cup {<<0, 0>>}, todo : SUBSET Pairs, until : Int]
    BY <1>1, <1>2, <1>3, <1>5 DEF Steps
  <2>2. Shape' /\ Working'
    BY <1>2, <1>5, <2>1 DEF IInv, Shape, Working
  <2>3. Batched' /\ InvestedKnown' /\ ExactlyOnce'
    BY <1>2, <2>1 DEF IInv, Batched, Writing, InvestedKnown, ExactlyOnce
  <2> QED
    BY <2>2, <2>3 DEF IInv
<1> QED
  BY <1>4, <1>5

LEMMA InsertKeeps ==
  ASSUME IInv, CatchUpInsert
  PROVE  IInv'
<1> DEFINE a == main.at
<1>1. /\ UNCHANGED <<now, phase, rows, invested>> /\ main.step = "insert"
      /\ main' = [main EXCEPT !.step = "occurrence"]
  BY DEF CatchUpInsert
<1>2. /\ main \in [step : Steps, at : Pairs \cup {<<0, 0>>}, todo : SUBSET Pairs, until : Int]
      /\ open \in [txs : SUBSET Pairs, occs : SUBSET Pairs]
      /\ made \in [Pairs -> Nat]
  BY DEF IInv, Shape
<1>3. a \in main.todo /\ a \in Pairs /\ a[1] \in Ids /\ rows[a[1]] # None /\ a \notin open.occs
  BY <1>1, <1>2 DEF IInv, Working, Pairs
<1>4. /\ main'.step = "occurrence" /\ main'.at = a /\ main'.todo = main.todo
      /\ main' \in [step : Steps, at : Pairs \cup {<<0, 0>>}, todo : SUBSET Pairs, until : Int]
  BY <1>1, <1>2 DEF Steps
<1>5. InvestedKnown'
  BY <1>1 DEF IInv, InvestedKnown
<1>6. \A p \in Pairs : p[1] \notin invested => (p \in open.txs <=> p \in open.occs)
  BY <1>1 DEF IInv, Batched, Writing
<1>7. open.occs \cap occ = {} /\ \A p \in open.occs : p \in open.txs \/ made[p] >= 1
  BY <1>2 DEF IInv, Batched
<1>8. CASE rows[a[1]].invest
  <2>1. /\ made' = Add(open.txs \cup {a}) /\ occ' = occ \cup open.occs
        /\ open' = NothingOpen
    BY <1>8 DEF CatchUpInsert
  <2>2. a[1] \in invested
    BY <1>3, <1>8 DEF IInv, InvestedKnown
  <2>3. /\ made' \in [Pairs -> Nat]
        /\ \A p \in Pairs :
             made'[p] = IF p \in open.txs \cup {a} THEN made[p] + 1 ELSE made[p]
    BY <1>2, <2>1, AddCounts
  <2>4. Shape' /\ Working'
    BY <1>1, <1>3, <1>4, <2>1, <2>3 DEF IInv, Shape, Working, NothingOpen
  <2>5. ExactlyOnce'
    <3> SUFFICES ASSUME NEW p \in Pairs
                 PROVE  /\ p \in occ' => made'[p] >= 1
                        /\ p[1] \notin invested => made'[p] = IF p \in occ' THEN 1 ELSE 0
      BY <1>1 DEF ExactlyOnce
    <3>1. /\ p \in occ => made[p] >= 1
          /\ p[1] \notin invested => made[p] = IF p \in occ THEN 1 ELSE 0
      BY DEF IInv, ExactlyOnce
    <3>2. made[p] \in Nat
      BY <1>2
    <3>3. /\ p \in occ' <=> p \in occ \/ p \in open.occs
          /\ made'[p] = IF p \in open.txs \/ p = a THEN made[p] + 1 ELSE made[p]
          /\ made'[p] \in Nat
      BY <2>1, <2>3
    <3>4. /\ p \in open.occs => p \in open.txs \/ made[p] >= 1
          /\ p \in open.occs => p \notin occ
          /\ p[1] \notin invested => p # a /\ (p \in open.txs <=> p \in open.occs)
      BY <1>6, <1>7, <2>2
    <3> HIDE DEF a
    <3> QED
      BY <3>1, <3>2, <3>3, <3>4
  <2>6. made'[a] >= 1
    BY <1>2, <1>3, <2>3
  <2>7. Batched'
    BY <1>1, <1>4, <2>1, <2>2, <2>6 DEF Batched, Writing, NothingOpen
  <2> QED
    BY <1>5, <2>4, <2>5, <2>7 DEF IInv
<1>9. CASE ~rows[a[1]].invest
  <2>1. open' = [open EXCEPT !.txs = @ \cup {a}] /\ UNCHANGED <<made, occ>>
    BY <1>9 DEF CatchUpInsert
  <2>2. /\ open'.txs = open.txs \cup {a} /\ open'.occs = open.occs
        /\ open' \in [txs : SUBSET Pairs, occs : SUBSET Pairs]
    BY <1>2, <1>3, <2>1
  <2>3. Shape' /\ Working'
    BY <1>1, <1>3, <1>4, <2>1, <2>2 DEF IInv, Shape, Working
  <2>4. Batched'
    BY <1>1, <1>4, <1>6, <1>7, <2>1, <2>2 DEF Batched, Writing
  <2>5. ExactlyOnce'
    BY <1>1, <2>1 DEF IInv, ExactlyOnce
  <2> QED
    BY <1>5, <2>3, <2>4, <2>5 DEF IInv
<1> QED
  BY <1>8, <1>9

LEMMA RowKeeps ==
  ASSUME IInv, CatchUpRow
  PROVE  IInv'
<1> DEFINE a == main.at
<1>1. /\ UNCHANGED <<now, phase, rows, occ, made, invested>> /\ main.step = "occurrence"
      /\ a \notin occ /\ open' = [open EXCEPT !.occs = @ \cup {a}]
      /\ main' = [main EXCEPT !.step = "check", !.todo = @ \ {a}]
  BY DEF CatchUpRow, stored
<1>2. /\ main \in [step : Steps, at : Pairs \cup {<<0, 0>>}, todo : SUBSET Pairs, until : Int]
      /\ open \in [txs : SUBSET Pairs, occs : SUBSET Pairs]
  BY DEF IInv, Shape
<1>3. a \in Pairs
  BY <1>1, <1>2 DEF IInv, Working
<1>4. /\ main'.step = "check" /\ main'.todo = main.todo \ {a}
      /\ main' \in [step : Steps, at : Pairs \cup {<<0, 0>>}, todo : SUBSET Pairs, until : Int]
      /\ open'.txs = open.txs /\ open'.occs = open.occs \cup {a}
      /\ open' \in [txs : SUBSET Pairs, occs : SUBSET Pairs]
  BY <1>1, <1>2, <1>3 DEF Steps
<1>5. Shape' /\ Working'
  BY <1>1, <1>4 DEF IInv, Shape, Working
<1>6. Batched'
  BY <1>1, <1>3, <1>4 DEF IInv, Batched, Writing
<1>7. InvestedKnown' /\ ExactlyOnce'
  BY <1>1 DEF IInv, InvestedKnown, ExactlyOnce
<1> QED
  BY <1>5, <1>6, <1>7 DEF IInv

LEMMA CommitKeeps ==
  ASSUME IInv, CatchUpCommit
  PROVE  IInv'
<1>1. /\ UNCHANGED <<now, rows, invested>> /\ main.step = "check"
      /\ made' = Add(open.txs) /\ occ' = occ \cup open.occs
      /\ main' = AtRest /\ open' = NothingOpen
  BY DEF CatchUpCommit, Finish, Resume
<1>2. made \in [Pairs -> Nat] /\ open \in [txs : SUBSET Pairs, occs : SUBSET Pairs] /\ now' \in Int
  BY <1>1 DEF IInv, Shape
<1>3. /\ made' \in [Pairs -> Nat]
      /\ \A p \in Pairs : made'[p] = IF p \in open.txs THEN made[p] + 1 ELSE made[p]
  BY <1>1, <1>2, AddCounts
<1>4. ExactlyOnce'
  <2> SUFFICES ASSUME NEW p \in Pairs
               PROVE  /\ p \in occ' => made'[p] >= 1
                      /\ p[1] \notin invested => made'[p] = IF p \in occ' THEN 1 ELSE 0
    BY <1>1 DEF ExactlyOnce
  <2>1. /\ p \in occ => made[p] >= 1
        /\ p[1] \notin invested => made[p] = IF p \in occ THEN 1 ELSE 0
    BY DEF IInv, ExactlyOnce
  <2>2. /\ p \in open.occs => p \in open.txs \/ made[p] >= 1
        /\ p[1] \notin invested => (p \in open.txs <=> p \in open.occs)
        /\ open.occs \cap occ = {}
    BY <1>1 DEF IInv, Batched, Writing
  <2>3. made[p] \in Nat
    BY <1>2
  <2>4. p \in occ' => made'[p] >= 1
    BY <1>1, <1>3, <2>1, <2>2, <2>3
  <2>5. p[1] \notin invested => made'[p] = IF p \in occ' THEN 1 ELSE 0
    BY <1>1, <1>3, <2>1, <2>2, <2>3
  <2> QED
    BY <2>4, <2>5
<1> QED
  BY <1>1, <1>2, <1>3, <1>4, Rested
-----------------------------------------------------------------------------
(* Requests and job threads.                                               *)

\* A catch-up of dates that nobody has begun to write.
LEMMA CatchUpStarts ==
  ASSUME Shape, NEW todo \in SUBSET Pairs, CatchUp(todo)
  PROVE  /\ main' \in [step : Steps, at : Pairs \cup {<<0, 0>>}, todo : SUBSET Pairs, until : Int]
         /\ main'.step = "check" /\ main'.todo = todo
<1>1. UtcDay \in Int
  BY DateIsInt
<1> QED
  BY <1>1 DEF CatchUp, Steps

LEMMA BootKeeps ==
  ASSUME IInv, Boot
  PROVE  IInv'
<1> DEFINE todo == IF NothingMissed THEN {} ELSE Missed
<1>1. UNCHANGED <<now, rows, occ, made, open, invested>> /\ phase' = "booting" /\ CatchUp(todo)
  BY DEF Boot, stored
<1>2. todo \in SUBSET Pairs /\ \A p \in todo : rows[p[1]] # None
  BY DEF Missed, Pairs
<1> HIDE DEF todo
<1>3. /\ main' \in [step : Steps, at : Pairs \cup {<<0, 0>>}, todo : SUBSET Pairs, until : Int]
      /\ main'.step = "check" /\ main'.todo = todo
  BY <1>1, <1>2, CatchUpStarts DEF IInv
<1>4. Shape' /\ Working'
  BY <1>1, <1>2, <1>3 DEF IInv, Shape, Working
<1>5. main.step = "idle"
  BY DEF Boot, IInv, Working
<1>6. Batched' /\ InvestedKnown' /\ ExactlyOnce'
  BY <1>1, <1>3, <1>5 DEF IInv, Batched, Writing, InvestedKnown, ExactlyOnce
<1> QED
  BY <1>4, <1>6 DEF IInv

\* A request that stores a schedule, at rest before and after it or with a catch-up
\* of its own schedule.
LEMMA StoreKeeps ==
  ASSUME IInv, Serving, NEW i \in Ids, NEW plan \in Plans, NEW todo \in SUBSET Pairs,
         rows' = [rows EXCEPT ![i] = plan], Invests(i, plan),
         \A p \in todo : p[1] = i,
         UNCHANGED main \/ CatchUp(todo),
         UNCHANGED <<now, phase, occ, made, open>>
  PROVE  IInv'
<1>1. main.step = "idle" /\ open = NothingOpen /\ phase = "up"
  BY DEF IInv, Working, Serving
<1>2. rows' \in [Ids -> Plans \cup {None}] /\ rows'[i] = plan /\ plan # None
  BY SchedulerAssumption DEF IInv, Shape
<1>3. /\ main' \in [step : Steps, at : Pairs \cup {<<0, 0>>}, todo : SUBSET Pairs, until : Int]
      /\ main'.step = "idle" \/ (main'.step = "check" /\ main'.todo = todo)
  BY <1>1, CatchUpStarts DEF IInv, Shape
<1>4. Shape'
  BY <1>2, <1>3 DEF IInv, Shape
<1>5. Working'
  BY <1>1, <1>2, <1>3 DEF Working
<1>6. Batched'
  BY <1>1, <1>3 DEF Batched, Writing, NothingOpen
<1>7. invested \subseteq invested' /\ (plan.invest => i \in invested')
  BY DEF Invests
<1>8. InvestedKnown'
  BY <1>2, <1>7 DEF IInv, InvestedKnown, Shape
<1>9. ExactlyOnce'
  BY <1>7 DEF IInv, ExactlyOnce
<1> QED
  BY <1>4, <1>5, <1>6, <1>8, <1>9 DEF IInv

LEMMA RequestsKeep ==
  ASSUME IInv, NEW plan \in Plans, NEW i \in Ids,
         Create(plan) \/ CreateFull(plan) \/ Update(i, plan) \/ Delete(i)
  PROVE  IInv'
<1>1. CASE Create(plan)
  <2> DEFINE todo == {nextId} \X FireDates(plan, plan.start, UtcDay)
  <2>1. nextId \in Ids /\ todo \in SUBSET Pairs /\ \A p \in todo : p[1] = nextId
    BY <1>1 DEF Create, FireDates, Pairs
  <2>2. /\ Serving /\ rows' = [rows EXCEPT ![nextId] = plan] /\ Invests(nextId, plan)
        /\ UNCHANGED main \/ CatchUp(todo)
        /\ UNCHANGED <<now, phase, occ, made, open>>
    BY <1>1 DEF Create
  <2> HIDE DEF todo
  <2> QED
    BY <2>1, <2>2, StoreKeeps
<1>2. CASE CreateFull(plan)
  BY <1>2, StoreKeeps, {} \in SUBSET Pairs DEF CreateFull
<1>3. CASE Update(i, plan)
  BY <1>3, StoreKeeps, {} \in SUBSET Pairs DEF Update
<1>4. CASE Delete(i)
  <2>1. /\ UNCHANGED <<now, phase, occ, made, main, open, invested>>
        /\ rows' = [rows EXCEPT ![i] = None]
        /\ main.step = "idle"
    BY <1>4 DEF Delete, Serving
  <2>2. Shape' /\ Working'
    BY <2>1 DEF IInv, Shape, Working
  <2>3. Batched' /\ ExactlyOnce'
    BY <2>1 DEF IInv, Batched, Writing, ExactlyOnce
  <2>4. InvestedKnown'
    BY <2>1 DEF IInv, Shape, InvestedKnown
  <2> QED
    BY <2>2, <2>3, <2>4 DEF IInv
<1> QED
  BY <1>1, <1>2, <1>3, <1>4

\* The job's commit: the write lock is free, so nothing of the catch-up is open.
LEMMA WriteKeeps ==
  ASSUME IInv, NEW i \in Ids, JobWrite(i)
  PROVE  IInv'
<1> DEFINE q == <<i, threads[i].date>>
<1>1. /\ UNCHANGED <<now, phase, rows, main, open, invested>> /\ open = NothingOpen
      /\ occ' = occ \cup {q}
      /\ made' = IF q \in occ THEN made ELSE Add({q})
  BY DEF JobWrite, Locked
<1> HIDE DEF q
<1>2. made \in [Pairs -> Nat]
  BY DEF IInv, Shape
<1>3. /\ made' \in [Pairs -> Nat]
      /\ \A p \in Pairs :
           made'[p] = IF p = q /\ p \notin occ THEN made[p] + 1 ELSE made[p]
  BY <1>1, <1>2, AddCounts
<1>4. Shape' /\ Working' /\ InvestedKnown'
  BY <1>1, <1>3 DEF IInv, Shape, Working, InvestedKnown
<1>5. Batched'
  <2>1. \A p \in Pairs : made'[p] >= made[p]
    BY <1>2, <1>3
  <2>2. \A p \in Pairs : Writing(p)' <=> Writing(p)
    BY <1>1 DEF Writing
  <2>3. \A p \in Pairs : Writing(p) => made[p] >= 1
    BY <1>1 DEF IInv, Batched, NothingOpen
  <2>4. \A p \in Pairs : Writing(p) => made'[p] >= 1
    BY <1>2, <1>3, <2>1, <2>3
  <2> QED
    BY <1>1, <2>2, <2>4 DEF IInv, Batched, NothingOpen
<1>6. ExactlyOnce'
  <2> SUFFICES ASSUME NEW p \in Pairs
               PROVE  /\ p \in occ' => made'[p] >= 1
                      /\ p[1] \notin invested => made'[p] = IF p \in occ' THEN 1 ELSE 0
    BY <1>1 DEF ExactlyOnce
  <2>1. /\ p \in occ => made[p] >= 1
        /\ p[1] \notin invested => made[p] = IF p \in occ THEN 1 ELSE 0
        /\ p \in occ' <=> p \in occ \/ p = q
    BY <1>1 DEF IInv, ExactlyOnce
  <2> QED
    BY <1>2, <1>3, <2>1
<1> QED
  BY <1>4, <1>5, <1>6 DEF IInv

-----------------------------------------------------------------------------
(* The theorem.                                                            *)

LEMMA StepKeeps ==
  ASSUME IInv, [Next]_vars
  PROVE  IInv'
<1>1. CASE Boot
  BY <1>1, BootKeeps
<1>2. CASE CatchUpCheck
  BY <1>2, CheckKeeps
<1>3. CASE CatchUpInsert
  BY <1>3, InsertKeeps
<1>4. CASE CatchUpRow
  BY <1>4, RowKeeps
<1>5. CASE CatchUpCommit
  BY <1>5, CommitKeeps
<1>6. CASE CatchUpConflict \/ CatchUpFails
  <2>1. now' \in Int /\ main' = AtRest /\ open' = NothingOpen
    BY <1>6 DEF CatchUpConflict, CatchUpFails, Finish, IInv, Shape
  <2>2. UNCHANGED <<rows, occ, made, invested>>
    BY <1>6 DEF CatchUpConflict, CatchUpFails, stored
  <2> QED
    BY <2>1, <2>2, Dropped
<1>7. CASE Shutdown \/ Crash
  <2>1. now' \in Int /\ main' = AtRest /\ open' = NothingOpen
    BY <1>7 DEF Shutdown, Crash, Volatile, IInv, Shape
  <2>2. UNCHANGED <<rows, occ, made, invested>>
    BY <1>7 DEF Shutdown, Crash, stored
  <2> QED
    BY <2>1, <2>2, Dropped
<1>8. CASE \E plan \in Plans : Create(plan) \/ CreateFull(plan)
  <2>1. PICK plan \in Plans : Create(plan) \/ CreateFull(plan)
    BY <1>8
  <2>2. nextId \in Ids
    BY <2>1 DEF Create, CreateFull
  <2> QED
    BY <2>1, <2>2, RequestsKeep
<1>9. CASE \E i \in Ids, plan \in Plans : Update(i, plan)
  BY <1>9, RequestsKeep
<1>10. CASE \E i \in Ids : Delete(i)
  <2>1. PICK i \in Ids : Delete(i)
    BY <1>10
  <2>2. rows[i] \in Plans
    BY <2>1 DEF Delete, IInv, Shape
  <2> QED
    BY <2>1, <2>2, RequestsKeep
<1>11. CASE \E i \in Ids : \/ DeleteEntity(i)
                           \/ JobStart(i) \/ JobMissed(i) \/ JobExpire(i) \/ JobFails(i)
  <2>1. UNCHANGED Data /\ now' \in Int
    BY <1>11 DEF DeleteEntity, JobStart, JobMissed, JobExpire, JobFails, stored, Data, IInv, Shape
  <2> QED
    BY <2>1, StoresNothing
<1>12. CASE \E i \in Ids : JobWrite(i)
  BY <1>12, WriteKeeps
<1>13. CASE Tick
  <2>1. UNCHANGED Data /\ now' \in Int
    BY <1>13 DEF Tick, stored, Data, IInv, Shape
  <2> QED
    BY <2>1, StoresNothing
<1>14. CASE UNCHANGED vars
  <2>1. UNCHANGED Data /\ now' \in Int
    BY <1>14 DEF vars, stored, Data, IInv, Shape
  <2> QED
    BY <2>1, StoresNothing
<1> QED
  BY <1>1, <1>2, <1>3, <1>4, <1>5, <1>6, <1>7, <1>8, <1>9, <1>10, <1>11, <1>12, <1>13,
     <1>14 DEF Next

\* The invariant holds of the empty tables.
LEMMA InitHolds ==
  ASSUME Init
  PROVE  IInv
<1>1. /\ now \in Int /\ main = AtRest /\ open = NothingOpen /\ occ = {}
      /\ rows = [i \in Ids |-> None] /\ made = [p \in Pairs |-> 0]
  BY SchedulerAssumption DEF Init, Pairs
<1>2. Shape
  BY <1>1 DEF Shape, AtRest, NothingOpen, Steps
<1>3. Working /\ Batched
  BY <1>1 DEF Working, Batched, Writing, AtRest, NothingOpen
<1>4. InvestedKnown /\ ExactlyOnce
  BY <1>1 DEF InvestedKnown, ExactlyOnce
<1> QED
  BY <1>2, <1>3, <1>4 DEF IInv

\* In every behaviour, with any number of schedules and any timezones, no occurrence
\* row stands without a transaction, and the scheduler makes exactly one transaction
\* for each row of a schedule that never was an investment.
THEOREM OccurrencesExactlyOnce == Spec => []ExactlyOnce
<1>1. Init => IInv
  BY InitHolds
<1>2. IInv /\ [Next]_vars => IInv'
  BY StepKeeps
<1>3. IInv => ExactlyOnce
  BY DEF IInv
<1> QED
  BY <1>1, <1>2, <1>3, PTL DEF Spec

-----------------------------------------------------------------------------
(* The ledger of occurrences.                                              *)

\* A commit that adds some occurrences and counts the transactions in txs: those of
\* the new occurrences and of exempt schedules.
LEMMA CommitPosts ==
  ASSUME IInv, NEW txs, UNCHANGED invested,
         made' = Add(txs), occ \subseteq occ',
         \A p \in Pairs : p[1] \notin invested => (p \in txs <=> p \in occ' \ occ),
         ExactlyOnce'
  PROVE  Ledger!Post(occ' \ occ)
<1>1. made \in [Pairs -> Nat]
  BY DEF IInv, Shape
<1>2. /\ made' \in [Pairs -> Nat]
      /\ \A p \in Pairs : made'[p] = IF p \in txs THEN made[p] + 1 ELSE made[p]
  BY <1>1, AddCounts
<1>3. ASSUME NEW p \in Pairs, p[1] \in invested
      PROVE  made'[p] \in {made[p], made[p] + 1} /\ (p \in occ' \ occ => made'[p] >= 1)
  BY <1>2 DEF ExactlyOnce
<1>4. ASSUME NEW p \in Pairs, p[1] \notin invested
      PROVE  made'[p] = made[p] + (IF p \in occ' \ occ THEN 1 ELSE 0)
  <2>1. made[p] \in Nat /\ (p \in txs <=> p \in occ' \ occ)
    BY <1>1, <1>4
  <2> QED
    BY <1>2, <2>1
<1>5. occ' = occ \cup (occ' \ occ)
  OBVIOUS
<1> QED
  BY <1>2, <1>3, <1>4, <1>5 DEF Ledger!Post, Pairs

LEMMA StepIsPosting ==
  ASSUME IInv, [Next]_vars
  PROVE  [Ledger!Next]_<<occ, made, invested>>
<1>1. IInv'
  BY StepKeeps
<1>2. ExactlyOnce'
  BY <1>1 DEF IInv
<1> DEFINE Still == UNCHANGED <<occ, made, invested>>
<1>3. CASE CatchUpInsert
  <2>1. CASE rows[main.at[1]].invest
    <3>1. /\ made' = Add(open.txs \cup {main.at}) /\ occ' = occ \cup open.occs
          /\ UNCHANGED invested /\ main.step = "insert"
      BY <1>3, <2>1 DEF CatchUpInsert
    <3>2. main.at \in Pairs /\ main.at[1] \in invested
      BY <2>1, <3>1 DEF IInv, Shape, Working, InvestedKnown, Pairs
    <3>3. open.occs \cap occ = {}
      BY DEF IInv, Batched
    <3>4. \A p \in Pairs : p[1] \notin invested => (p \in open.txs <=> p \in open.occs)
      BY <3>1 DEF IInv, Batched, Writing
    <3>5. \A p \in Pairs : p[1] \notin invested =>
             (p \in open.txs \cup {main.at} <=> p \in occ' \ occ)
      BY <3>1, <3>2, <3>3, <3>4
    <3>6. Ledger!Post(occ' \ occ)
      BY <1>2, <3>1, <3>5, CommitPosts
    <3> QED
      BY <3>6 DEF Ledger!Next
  <2>2. CASE ~rows[main.at[1]].invest
    BY <1>3, <2>2 DEF CatchUpInsert
  <2> QED
    BY <2>1, <2>2
<1>4. CASE CatchUpCommit
  <2>1. /\ made' = Add(open.txs) /\ occ' = occ \cup open.occs
        /\ UNCHANGED invested /\ main.step = "check"
    BY <1>4 DEF CatchUpCommit
  <2>2. open.occs \cap occ = {}
    BY DEF IInv, Batched
  <2>3. \A p \in Pairs : p[1] \notin invested => (p \in open.txs <=> p \in open.occs)
    BY <2>1 DEF IInv, Batched, Writing
  <2>4. \A p \in Pairs : p[1] \notin invested => (p \in open.txs <=> p \in occ' \ occ)
    BY <2>1, <2>2, <2>3
  <2>5. Ledger!Post(occ' \ occ)
    BY <1>2, <2>1, <2>4, CommitPosts
  <2> QED
    BY <2>5 DEF Ledger!Next
<1>5. ASSUME NEW i \in Ids, JobWrite(i)
      PROVE  Ledger!Next \/ Still
  <2> DEFINE q == <<i, threads[i].date>>
  <2>1. /\ made' = IF q \in occ THEN made ELSE Add({q})
        /\ occ' = occ \cup {q} /\ UNCHANGED invested
    BY <1>5 DEF JobWrite
  <2> HIDE DEF q
  <2>2. CASE q \in occ
    BY <2>1, <2>2
  <2>3. CASE q \notin occ
    <3>1. Ledger!Post(occ' \ occ)
      BY <1>2, <2>1, <2>3, CommitPosts
    <3> QED
      BY <3>1 DEF Ledger!Next
  <2> QED
    BY <2>2, <2>3
<1>6. ASSUME NEW i \in Ids, NEW plan, Invests(i, plan), UNCHANGED <<occ, made>>
      PROVE  Ledger!Next \/ Still
  BY <1>6 DEF Invests, Ledger!Next, Ledger!Exempt
<1>7. CASE \E plan \in Plans : Create(plan) \/ CreateFull(plan)
  BY <1>6, <1>7 DEF Create, CreateFull
<1>8. CASE \E i \in Ids, plan \in Plans : Update(i, plan)
  BY <1>6, <1>8 DEF Update
<1>9. CASE \/ Boot \/ CatchUpCheck \/ CatchUpRow \/ CatchUpConflict \/ CatchUpFails
           \/ Tick \/ Shutdown \/ Crash \/ UNCHANGED vars
           \/ \E i \in Ids : \/ Delete(i) \/ DeleteEntity(i) \/ JobStart(i)
                           \/ JobMissed(i) \/ JobExpire(i) \/ JobFails(i)
  BY <1>9 DEF Boot, CatchUpCheck, CatchUpRow, CatchUpConflict, CatchUpFails, Tick,
              Shutdown, Crash, Delete, DeleteEntity, JobStart, JobMissed, JobExpire, JobFails,
              stored, vars
<1> QED
  BY <1>3, <1>4, <1>5, <1>7, <1>8, <1>9 DEF Next

\* The scheduler implements the ledger of occurrences: whatever threads, crashes,
\* restarts and refused writes do, occurrences and their transactions appear
\* together, once and for ever.
THEOREM ImplementsOccurrences == Spec => KeepsLedger
<1>1. Init => IInv /\ Ledger!Init
  BY InitHolds DEF Init, Ledger!Init
<1>2. IInv /\ [Next]_vars => IInv' /\ [Ledger!Next]_Ledger!vars
  BY StepKeeps, StepIsPosting DEF Ledger!vars
<1> QED
  BY <1>1, <1>2, PTL DEF Spec, KeepsLedger, Ledger!Spec

-----------------------------------------------------------------------------
(* The catch-up of a boot.                                                 *)

Excused(i) == lastShutdown = None /\ rows[i].start >= main.until

DatesOf(i) == {i} \X FireDates(rows[i], rows[i].start, main.until)

(* Until the application is up no job runs, so nothing can precede the     *)
(* catch-up, and each date it answers for is still to do, open or stored;  *)
(* it answers for every schedule whose entity is there.                    *)
Booting ==
  /\ lastShutdown \in Int \cup {None}
  /\ phase # "up" => \A i \in Ids : threads[i].step = "idle"
  /\ phase = "booting" =>
       /\ main.step # "idle"
       /\ main.step \in {"insert", "occurrence"} => main.at \notin occ
       /\ \A i \in Ids \ closed : rows[i] # None /\ ~Excused(i) =>
            DatesOf(i) \subseteq main.todo \cup occ \cup open.occs

\* A boot looks back to the start of every schedule: since never comes after it.
LEMMA BootLists ==
  ASSUME IInv, Booting, Boot
  PROVE  Booting'
<1>1. /\ UNCHANGED <<now, rows, occ, closed, lastShutdown, threads, open>>
      /\ phase' = "booting"
      /\ CatchUp(IF NothingMissed THEN {} ELSE Missed) /\ phase = "down"
  BY DEF Boot, stored
<1>2. main'.step = "check" /\ main'.until = UtcDay
      /\ main'.todo = IF NothingMissed THEN {} ELSE Missed
  BY <1>1 DEF CatchUp
<1>3. UtcDay \in Int
  BY DateIsInt DEF IInv
<1>4. ASSUME NEW i \in Ids, rows[i] # None, ~Excused(i)'
      PROVE  DatesOf(i)' \subseteq main'.todo
  <2>1. rows[i] \in Plans /\ rows[i].start \in Int
    BY <1>4, SchedulerAssumption DEF IInv, Shape, Days
  <2>2. ~NothingMissed
    BY <1>1, <1>2, <1>3, <1>4, <2>1 DEF NothingMissed, Excused
  <2>3. DatesOf(i)' = {i} \X FireDates(rows[i], rows[i].start, UtcDay)
    BY <1>1, <1>2 DEF DatesOf, FireDates, Step
  <2>4. Since(rows[i]) \in Int /\ Since(rows[i]) <= rows[i].start
    BY <2>1 DEF Since, Booting
  <2>5. \A d \in FireDates(rows[i], rows[i].start, UtcDay) :
          d \in FireDates(rows[i], Since(rows[i]), UtcDay)
    BY <2>1, <2>4 DEF FireDates, Days
  <2>6. \A d \in FireDates(rows[i], rows[i].start, UtcDay) : d \in Days
    BY DEF FireDates
  <2>7. \A p \in DatesOf(i)' : p \in Missed
    BY <1>4, <2>3, <2>5, <2>6 DEF Missed
  <2> QED
    BY <1>2, <2>2, <2>7
<1> QED
  BY <1>1, <1>2, <1>4 DEF Booting

\* While booting the rows, the list of dates and what is written stay accounted for.
LEMMA BootingKept ==
  ASSUME IInv, Booting, [Next]_vars
  PROVE  Booting'
<1>1. CASE Boot
  BY <1>1, BootLists
<1>2. CASE CatchUpCheck
  <2>1. PICK p \in main.todo : main' = IF p \in occ \cup open.occs \/ p[1] \in closed
                                      THEN [main EXCEPT !.todo = @ \ {p}]
                                      ELSE [main EXCEPT !.step = "insert", !.at = p]
    BY <1>2 DEF CatchUpCheck
  <2>2. UNCHANGED <<phase, rows, occ, closed, lastShutdown, threads, open>>
        /\ main.step = "check"
    BY <1>2 DEF CatchUpCheck, stored
  <2>3. main \in [step : Steps, at : Pairs \cup {<<0, 0>>}, todo : SUBSET Pairs, until : Int]
    BY DEF IInv, Shape
  <2>4. /\ main'.step # "idle" /\ main'.until = main.until
        /\ main'.step \in {"insert", "occurrence"} => main'.at \notin occ
        /\ \A q \in main.todo : q \in main'.todo \cup occ \cup open.occs \/ q[1] \in closed
    BY <2>1, <2>2, <2>3
  <2>5. \A i \in Ids : (Excused(i)' <=> Excused(i)) /\ DatesOf(i)' = DatesOf(i)
    BY <2>2, <2>4 DEF Excused, DatesOf, FireDates, Step
  <2>6. \A i \in Ids : \A q \in DatesOf(i) : q[1] = i
    BY DEF DatesOf
  <2>7. \A i \in Ids \ closed : DatesOf(i) \subseteq main.todo \cup occ \cup open.occs =>
                               DatesOf(i) \subseteq main'.todo \cup occ \cup open.occs
    BY <2>4, <2>6
  <2> QED
    BY <2>2, <2>4, <2>5, <2>7 DEF Booting
<1>3. CASE CatchUpInsert
  <2>1. /\ UNCHANGED <<phase, rows, closed, lastShutdown, threads>>
        /\ main.step = "insert" /\ main' = [main EXCEPT !.step = "occurrence"]
    BY <1>3 DEF CatchUpInsert
  <2>2. /\ main \in [step : Steps, at : Pairs \cup {<<0, 0>>}, todo : SUBSET Pairs, until : Int]
        /\ open \in [txs : SUBSET Pairs, occs : SUBSET Pairs]
    BY DEF IInv, Shape
  <2>3. /\ main'.step = "occurrence" /\ main'.until = main.until
        /\ main'.at = main.at /\ main'.todo = main.todo
    BY <2>1, <2>2
  <2>4. main.at \notin open.occs
    BY <2>1 DEF IInv, Working
  <2>5. \/ occ' = occ \cup open.occs
        \/ occ' = occ /\ open'.occs = open.occs
    BY <1>3, <2>2 DEF CatchUpInsert
  <2>6. \A i \in Ids : (Excused(i)' <=> Excused(i)) /\ DatesOf(i)' = DatesOf(i)
    BY <2>1, <2>3 DEF Excused, DatesOf, FireDates, Step
  <2> QED
    BY <2>1, <2>3, <2>4, <2>5, <2>6 DEF Booting
<1>4. CASE CatchUpRow
  <2>1. /\ UNCHANGED <<phase, rows, occ, closed, lastShutdown, threads>>
        /\ open' = [open EXCEPT !.occs = @ \cup {main.at}]
        /\ main' = [main EXCEPT !.step = "check", !.todo = @ \ {main.at}]
    BY <1>4 DEF CatchUpRow, stored
  <2>2. /\ main \in [step : Steps, at : Pairs \cup {<<0, 0>>}, todo : SUBSET Pairs, until : Int]
        /\ open \in [txs : SUBSET Pairs, occs : SUBSET Pairs]
    BY DEF IInv, Shape
  <2>3. /\ main'.step = "check" /\ main'.until = main.until
        /\ main'.todo = main.todo \ {main.at} /\ open'.occs = open.occs \cup {main.at}
    BY <2>1, <2>2
  <2>4. \A i \in Ids : (Excused(i)' <=> Excused(i)) /\ DatesOf(i)' = DatesOf(i)
    BY <2>1, <2>3 DEF Excused, DatesOf, FireDates, Step
  <2> QED
    BY <2>1, <2>3, <2>4 DEF Booting
<1>5. CASE CatchUpConflict \/ CatchUpFails \/ CatchUpCommit
  <2>1. phase # "down" /\ lastShutdown' = lastShutdown
    BY <1>5 DEF CatchUpConflict, CatchUpFails, CatchUpCommit, stored, IInv, Working
  <2>2. CASE phase = "booting"
    <3>1. phase' = "up"
      BY <1>5, <2>2 DEF CatchUpConflict, CatchUpFails, CatchUpCommit, Finish, Resume
    <3> QED
      BY <2>1, <3>1 DEF Booting
  <2>3. CASE phase # "booting"
    <3>1. UNCHANGED <<phase, threads>>
      BY <1>5, <2>3 DEF CatchUpConflict, CatchUpFails, CatchUpCommit, Finish, Resume
    <3> QED
      BY <2>1, <2>3, <3>1 DEF Booting
  <2> QED
    BY <2>2, <2>3
<1>6. CASE \E plan \in Plans : Create(plan) \/ CreateFull(plan)
  BY <1>6 DEF Create, CreateFull, Serving, Booting
<1>7. CASE \E i \in Ids, plan \in Plans : Update(i, plan)
  BY <1>7 DEF Update, Serving, Booting
<1>8. CASE \E i \in Ids : Delete(i) \/ DeleteEntity(i)
  BY <1>8 DEF Delete, DeleteEntity, Serving, Booting
<1>9. CASE \E i \in Ids : \/ JobStart(i) \/ JobMissed(i) \/ JobExpire(i)
                          \/ JobWrite(i) \/ JobFails(i)
  <2>1. phase = "up"
    BY <1>9 DEF JobStart, JobMissed, JobExpire, JobWrite, JobFails, Booting
  <2>2. phase' = phase /\ lastShutdown' = lastShutdown
    BY <1>9 DEF JobStart, JobMissed, JobExpire, JobWrite, JobFails, stored
  <2> QED
    BY <2>1, <2>2 DEF Booting
<1>10. CASE Tick
  <2>1. UNCHANGED <<phase, rows, occ, closed, lastShutdown, main, open>>
    BY <1>10 DEF Tick, stored
  <2>2. phase # "up" => \A i \in Ids : threads'[i] = threads[i]
    BY <1>10 DEF Tick, Fires
  <2>3. \A i \in Ids : (Excused(i)' <=> Excused(i)) /\ DatesOf(i)' = DatesOf(i)
    BY <2>1 DEF Excused, DatesOf, FireDates, Step
  <2> QED
    BY <2>1, <2>2, <2>3 DEF Booting
<1>11. CASE Shutdown \/ Crash
  <2>1. phase' = "down" /\ \A i \in Ids : threads'[i].step = "idle"
    BY <1>11 DEF Shutdown, Crash, Volatile, Idle
  <2>2. lastShutdown' \in Int \cup {None}
    BY <1>11, DateIsInt DEF Shutdown, Crash, stored, Booting, IInv
  <2> QED
    BY <2>1, <2>2 DEF Booting
<1>12. CASE UNCHANGED vars
  <2>1. UNCHANGED <<phase, rows, occ, closed, lastShutdown, threads, main, open>>
    BY <1>12 DEF vars, stored
  <2>2. \A i \in Ids : (Excused(i)' <=> Excused(i)) /\ DatesOf(i)' = DatesOf(i)
    BY <2>1 DEF Excused, DatesOf, FireDates, Step
  <2> QED
    BY <2>1, <2>2 DEF Booting
<1> QED
  BY <1>1, <1>2, <1>3, <1>4, <1>5, <1>6, <1>7, <1>8, <1>9, <1>10, <1>11, <1>12 DEF Next

\* With no date left to do, the boot is over only by the commit of its catch-up: one
\* that fails leaves the date it failed at.
LEMMA BootEnds ==
  ASSUME IInv, Booting, [Next]_vars, phase = "booting", phase' = "up",
         main.todo = {}, NEW i \in Ids \ closed, rows[i] # None,
         lastShutdown # None \/ rows[i].start < main.until
  PROVE  DatesOf(i) \subseteq occ'
<1>1. CatchUpCommit
  <2>1. ~CatchUpConflict /\ ~CatchUpFails
    BY DEF CatchUpConflict, CatchUpFails, IInv, Working
  <2>2. \A j \in Ids : ~JobStart(j) /\ ~JobMissed(j) /\ ~JobExpire(j) /\ ~JobWrite(j)
                     /\ ~JobFails(j)
    BY DEF JobStart, JobMissed, JobExpire, JobWrite, JobFails, Booting
  <2>3. /\ ~Shutdown
        /\ \A plan \in Plans : ~Create(plan) /\ ~CreateFull(plan)
        /\ \A j \in Ids : /\ ~Delete(j) /\ ~DeleteEntity(j)
                          /\ \A plan \in Plans : ~Update(j, plan)
    BY DEF Shutdown, Create, CreateFull, Delete, DeleteEntity, Update, Serving
  <2>4. ~Boot /\ ~CatchUpCheck /\ ~CatchUpInsert /\ ~CatchUpRow /\ ~Tick /\ ~Crash
    BY DEF Boot, CatchUpCheck, CatchUpInsert, CatchUpRow, Tick, Crash, Volatile
  <2>5. ~UNCHANGED vars
    BY DEF vars
  <2> QED
    BY <2>1, <2>2, <2>3, <2>4, <2>5 DEF Next
<1>2. main.todo = {} /\ occ' = occ \cup open.occs
  BY <1>1 DEF CatchUpCommit
<1>3. ~Excused(i)
  <2>1. rows[i].start \in Int /\ main.until \in Int
    BY SchedulerAssumption DEF IInv, Shape, Days
  <2> QED
    BY <2>1 DEF Excused
<1> QED
  BY <1>2, <1>3 DEF Booting

\* A boot whose catch-up gets to its end leaves no fire date without an occurrence, of
\* any schedule whose entity is there, for any calendar, any offsets and any history of
\* crashes, edits, misfires, refused writes and boots whose catch-up failed.
THEOREM BootsCatchUp == Spec => BootCatchesUp
<1>1. Init => IInv /\ Booting
  <2>1. Init => Booting
    BY DEF Init, Booting, Idle
  <2> QED
    BY <2>1, InitHolds
<1>2. IInv /\ Booting /\ [Next]_vars => IInv' /\ Booting'
  BY StepKeeps, BootingKept
<1>3. IInv /\ Booting /\ [Next]_vars =>
        [(phase = "booting" /\ phase' = "up" /\ main.todo = {}) =>
           \A i \in Ids \ closed :
             (rows[i] # None /\ (lastShutdown # None \/ rows[i].start < main.until)) =>
             {i} \X FireDates(rows[i], rows[i].start, main.until) \subseteq occ']_vars
  BY BootEnds DEF DatesOf
<1> QED
  BY <1>1, <1>2, <1>3, PTL DEF Spec, BootCatchesUp
-----------------------------------------------------------------------------
(* Types: the clock's three readings stay within the calendar.             *)

LEMMA DivRem ==
  ASSUME NEW a \in Nat, NEW t \in Nat \ {0}
  PROVE  a \div t \in Nat /\ t * (a \div t) <= a /\ a < t * (a \div t) + t
<1>1. a = t * (a \div t) + (a % t) /\ a % t \in 0 .. t - 1 /\ a \div t \in Int
  OBVIOUS
<1> QED
  BY <1>1

LEMMA TimesOrder ==
  ASSUME NEW p \in Int, NEW q \in Int, NEW t \in Nat \ {0}, p + 1 <= q
  PROVE  t * p + t <= t * q
  OBVIOUS

LEMMA DivOrder ==
  ASSUME NEW a \in Nat, NEW b \in Nat, NEW t \in Nat \ {0}, a <= b
  PROVE  a \div t <= b \div t
<1> DEFINE p == a \div t
           q == b \div t
<1>1. p \in Nat /\ q \in Nat /\ t * p <= a /\ b < t * q + t
  BY DivRem
<1>2. ASSUME q + 1 <= p
      PROVE  FALSE
  <2>1. t * q + t <= t * p /\ t * p \in Int /\ t * q \in Int
    BY <1>1, <1>2, TimesOrder
  <2> QED
    BY <1>1, <2>1
<1> QED
  BY <1>1, <1>2

\* The first tick is a day after 0 and the calendar ends a day after the last one, so
\* no offset takes a date out of it.
LEMMA DatesInCalendar ==
  ASSUME now \in FirstTick .. LastTick
  PROVE  /\ UtcDay \in Days /\ ProfileDay \in Days /\ 0 \in Days
         /\ now \in Int
<1>1. ASSUME NEW tick \in Nat, tick <= LastTick + TicksPerDay
      PROVE  DayOf(tick) \in Days
  <2>1. LastTick + TicksPerDay \in Nat /\ TicksPerDay \in Nat \ {0}
    BY SchedulerAssumption
  <2>2. /\ tick \div TicksPerDay <= (LastTick + TicksPerDay) \div TicksPerDay
        /\ tick \div TicksPerDay \in Nat
        /\ (LastTick + TicksPerDay) \div TicksPerDay \in Nat
    BY <1>1, <2>1, DivOrder, DivRem
  <2> QED
    BY <2>2 DEF DayOf, Days, LastDay
<1>2. /\ now \in Nat /\ now <= LastTick + TicksPerDay
      /\ now + ProfileOffset \in Nat /\ now + ProfileOffset <= LastTick + TicksPerDay
  BY SchedulerAssumption
<1>3. UtcDay \in Days /\ ProfileDay \in Days
  BY <1>1, <1>2 DEF UtcDay, ProfileDay
<1>4. LastDay \in Nat
  <2>1. LastTick + TicksPerDay \in Nat /\ TicksPerDay \in Nat \ {0}
    BY SchedulerAssumption
  <2> QED
    BY <2>1, DivRem DEF LastDay, DayOf
<1> QED
  BY <1>2, <1>3, <1>4 DEF Days

(* What TypeOK says beyond the invariant above.                            *)
Registered == jobs \in [Ids -> Plans \cup {None}]
Running == threads \in [Ids -> [step : {"idle", "due", "expire", "write"}, date : Days]]

Dated ==
  /\ now \in FirstTick .. LastTick /\ phase \in {"down", "booting", "up"}
  /\ nextId \in 1 .. MaxId + 1
  /\ occ \subseteq Pairs /\ initial \subseteq Pairs
  /\ closed \subseteq Ids /\ lastShutdown \in Days \cup {None}
  /\ main.until \in Days
  /\ invested \subseteq Ids

Tables == <<nextId, initial, closed, lastShutdown>>

\* The commits of the catch-up, and its end.
LEMMA CatchUpDated ==
  ASSUME IInv, Dated,
         CatchUpCheck \/ CatchUpInsert \/ CatchUpRow \/ CatchUpConflict \/ CatchUpFails
           \/ CatchUpCommit
  PROVE  Dated'
<1>1. UNCHANGED <<now, Tables, invested>>
  BY DEF CatchUpCheck, CatchUpInsert, CatchUpRow, CatchUpConflict, CatchUpFails,
         CatchUpCommit, stored, Tables
<1>2. phase' \in {"down", "booting", "up"}
  BY DEF CatchUpCheck, CatchUpInsert, CatchUpRow, CatchUpConflict, CatchUpFails,
         CatchUpCommit, Finish, Resume, Dated
<1>3. occ' = occ \/ occ' = occ \cup open.occs
  BY DEF CatchUpCheck, CatchUpInsert, CatchUpRow, CatchUpConflict, CatchUpFails,
         CatchUpCommit, stored
<1>4. open.occs \subseteq Pairs
  BY DEF IInv, Shape
<1>5. main'.until \in {0, main.until}
  <2>1. main \in [step : Steps, at : Pairs \cup {<<0, 0>>}, todo : SUBSET Pairs, until : Int]
    BY DEF IInv, Shape
  <2>2. CASE CatchUpCheck
    BY <2>1, <2>2 DEF CatchUpCheck
  <2>3. CASE CatchUpInsert \/ CatchUpRow
    BY <2>1, <2>3 DEF CatchUpInsert, CatchUpRow
  <2>4. CASE CatchUpConflict \/ CatchUpFails \/ CatchUpCommit
    BY <2>4 DEF CatchUpConflict, CatchUpFails, CatchUpCommit, Finish, AtRest
  <2> QED
    BY <2>2, <2>3, <2>4
<1>6. 0 \in Days
  BY DatesInCalendar DEF Dated
<1> QED
  BY <1>1, <1>2, <1>3, <1>4, <1>5, <1>6 DEF Dated, Tables

\* A request stores a plan under an id of the range; its catch-up goes up to today.
LEMMA RequestDated ==
  ASSUME IInv, Dated, NEW plan \in Plans, NEW i \in Ids,
         Create(plan) \/ CreateFull(plan) \/ Update(i, plan) \/ Delete(i)
  PROVE  Dated'
<1>1. UNCHANGED <<now, phase, occ, lastShutdown>>
  BY DEF Create, CreateFull, Update, Delete
<1>2. plan.start \in Days
  BY SchedulerAssumption
<1>3. UNCHANGED main \/ main'.until = UtcDay
  BY DEF Create, CreateFull, Update, Delete, CatchUp
<1>4. main'.until \in Days
  BY <1>3, DatesInCalendar DEF Dated
<1>5. \/ UNCHANGED nextId
      \/ nextId \in Ids /\ nextId' = nextId + 1
  BY DEF Create, CreateFull, Update, Delete
<1>6. nextId' \in 1 .. MaxId + 1
  BY <1>5, SchedulerAssumption DEF Dated, Ids
<1>7. initial' \subseteq Pairs
  BY <1>2 DEF Create, CreateFull, Update, Delete, Dated, Pairs
<1>8. invested' \subseteq Ids /\ closed' \subseteq Ids
  BY DEF Create, CreateFull, Update, Delete, Invests, Dated
<1> QED
  BY <1>1, <1>4, <1>6, <1>7, <1>8 DEF Dated

\* A thread writes the date it read when it started.
LEMMA JobDated ==
  ASSUME IInv, Dated, Running, NEW i \in Ids,
         JobStart(i) \/ JobMissed(i) \/ JobExpire(i) \/ JobWrite(i) \/ JobFails(i)
  PROVE  Dated' /\ Running'
<1>1. UNCHANGED <<now, phase, Tables, main, invested>>
  BY DEF JobStart, JobMissed, JobExpire, JobWrite, JobFails, stored, Tables
<1>2. <<i, threads[i].date>> \in Pairs
  BY DEF Running, Pairs
<1>3. occ' \subseteq Pairs
  BY <1>2 DEF JobStart, JobMissed, JobExpire, JobWrite, JobFails, stored, Dated
<1>4. Dated'
  BY <1>1, <1>3 DEF Dated, Tables
<1>5. /\ Idle \in [step : {"idle", "due", "expire", "write"}, date : Days]
      /\ [Idle EXCEPT !.step = "expire"] \in [step : {"idle", "due", "expire", "write"}, date : Days]
      /\ [step |-> "write", date |-> ProfileDay]
           \in [step : {"idle", "due", "expire", "write"}, date : Days]
  BY DatesInCalendar DEF Dated, Idle
<1>6. CASE JobStart(i)
  <2>1. \/ Thread(i, Idle)
        \/ Thread(i, [Idle EXCEPT !.step = "expire"])
        \/ Thread(i, [step |-> "write", date |-> ProfileDay])
    BY <1>6 DEF JobStart
  <2> QED
    BY <1>4, <1>5, <2>1 DEF Running, Thread
<1>7. CASE JobMissed(i) \/ JobExpire(i) \/ JobWrite(i) \/ JobFails(i)
  <2>1. Thread(i, Idle)
    BY <1>7 DEF JobMissed, JobExpire, JobWrite, JobFails
  <2> QED
    BY <1>4, <1>5, <2>1 DEF Running, Thread
<1> QED
  BY <1>6, <1>7

\* The registrations: a job is a plan of a request or of a row.
LEMMA RegisterTyped ==
  ASSUME Registered, Running, NEW i \in Ids, NEW plan \in Plans, Register(i, plan)
  PROVE  Registered' /\ Running'
<1>1. JobFor(plan, jobs[i]) \in Plans \cup {None}
  BY DEF JobFor, Registered
<1>2. ThreadFor(plan, threads[i]) \in [step : {"idle", "due", "expire", "write"}, date : Days]
  BY DEF ThreadFor, Running
<1> QED
  BY <1>1, <1>2 DEF Register, Registered, Running

LEMMA ResumeTyped ==
  ASSUME IInv, Registered, Running, Resume
  PROVE  Registered' /\ Running'
<1>1. CASE phase = "booting"
  <2>1. rows \in [Ids -> Plans \cup {None}]
    BY DEF IInv, Shape
  <2>2. \A i \in Ids : rows[i] # None => JobFor(rows[i], None) \in Plans \cup {None}
    BY <2>1 DEF JobFor
  <2>3. \A i \in Ids : ThreadFor(rows[i], threads[i])
                         \in [step : {"idle", "due", "expire", "write"}, date : Days]
    BY DEF ThreadFor, Running
  <2>4. Registered'
    BY <1>1, <2>2 DEF Resume, Registered
  <2>5. Running'
    BY <1>1, <2>3 DEF Resume, Running
  <2> QED
    BY <2>4, <2>5
<1>2. CASE phase # "booting"
  BY <1>2 DEF Resume, Registered, Running
<1> QED
  BY <1>1, <1>2

LEMMA DatedKept ==
  ASSUME IInv, Dated, Registered, Running, [Next]_vars
  PROVE  Dated' /\ Registered' /\ Running'
<1>1. CASE Boot
  <2>1. UNCHANGED <<now, occ, Tables, jobs, threads, invested>> /\ phase' = "booting"
        /\ main'.until = UtcDay
    BY <1>1 DEF Boot, stored, Tables, CatchUp
  <2> QED
    BY <2>1, DatesInCalendar DEF Dated, Tables, Registered, Running
<1>2. CASE CatchUpCheck \/ CatchUpInsert \/ CatchUpRow
  <2>1. UNCHANGED <<jobs, threads>>
    BY <1>2 DEF CatchUpCheck, CatchUpInsert, CatchUpRow
  <2> QED
    BY <1>2, <2>1, CatchUpDated DEF Registered, Running
<1>3. CASE CatchUpConflict \/ CatchUpFails \/ CatchUpCommit
  <2>1. Resume
    BY <1>3 DEF CatchUpConflict, CatchUpFails, CatchUpCommit, Finish
  <2> QED
    BY <1>3, <2>1, CatchUpDated, ResumeTyped
<1>4. ASSUME NEW plan \in Plans, Create(plan) \/ CreateFull(plan)
      PROVE  Dated' /\ Registered' /\ Running'
  <2>1. nextId \in Ids /\ Register(nextId, plan)
    BY <1>4 DEF Create, CreateFull
  <2> QED
    BY <1>4, <2>1, RequestDated, RegisterTyped
<1>5. ASSUME NEW i \in Ids, NEW plan \in Plans, Update(i, plan)
      PROVE  Dated' /\ Registered' /\ Running'
  <2>1. Register(i, plan)
    BY <1>5 DEF Update
  <2> QED
    BY <1>5, <2>1, RequestDated, RegisterTyped
<1>6. ASSUME NEW i \in Ids, Delete(i)
      PROVE  Dated' /\ Registered' /\ Running'
  <2>1. rows[i] \in Plans
    BY <1>6 DEF Delete, IInv, Shape
  <2>2. Dated'
    BY <1>6, <2>1, RequestDated
  <2>3. jobs' = [jobs EXCEPT ![i] = None] /\ UNCHANGED threads
    BY <1>6 DEF Delete
  <2> QED
    BY <2>2, <2>3 DEF Registered, Running
<1>7. ASSUME NEW i \in Ids, DeleteEntity(i)
      PROVE  Dated' /\ Registered' /\ Running'
  BY <1>7 DEF DeleteEntity, Dated, Registered, Running
<1>8. ASSUME NEW i \in Ids,
             JobStart(i) \/ JobMissed(i) \/ JobExpire(i) \/ JobWrite(i) \/ JobFails(i)
      PROVE  Dated' /\ Registered' /\ Running'
  <2>1. UNCHANGED jobs \/ jobs' = [jobs EXCEPT ![i] = None]
    BY <1>8 DEF JobStart, JobMissed, JobExpire, JobWrite, JobFails
  <2> QED
    BY <1>8, <2>1, JobDated DEF Registered
<1>9. CASE Tick
  <2>1. UNCHANGED <<phase, occ, Tables, main, invested>> /\ now < LastTick /\ now' = now + 1
    BY <1>9 DEF Tick, stored, Tables
  <2>2. Dated'
    BY <2>1, SchedulerAssumption DEF Dated, Tables
  <2>3. [Idle EXCEPT !.step = "due"] \in [step : {"idle", "due", "expire", "write"}, date : Days]
    BY DatesInCalendar DEF Dated, Idle
  <2>4. Running'
    BY <1>9, <2>3 DEF Tick, Running
  <2>5. Registered'
    BY <1>9 DEF Tick, Registered
  <2> QED
    BY <2>2, <2>4, <2>5
<1>10. CASE Shutdown \/ Crash
  <2>1. UNCHANGED <<now, nextId, occ, initial, closed, invested>> /\ lastShutdown' \in {lastShutdown, UtcDay}
    BY <1>10 DEF Shutdown, Crash, stored
  <2>2. /\ phase' = "down" /\ main'.until = 0
        /\ jobs' = [i \in Ids |-> None] /\ threads' = [i \in Ids |-> Idle]
    BY <1>10 DEF Shutdown, Crash, Volatile, AtRest
  <2>3. Dated'
    BY <2>1, <2>2, DatesInCalendar DEF Dated
  <2>4. Registered' /\ Running'
    BY <2>2, DatesInCalendar DEF Dated, Registered, Running, Idle
  <2> QED
    BY <2>3, <2>4
<1>11. CASE UNCHANGED vars
  BY <1>11 DEF vars, stored, Dated, Registered, Running
<1> QED
  BY <1>1, <1>2, <1>3, <1>4, <1>5, <1>6, <1>7, <1>8, <1>9, <1>10, <1>11 DEF Next

\* Every variable keeps its type, for any number of schedules, any calendar and any
\* timezones: no thread, catch-up or shutdown ever holds a date outside the calendar,
\* and nothing is open while the main thread is at rest.
THEOREM SchedulerTypes == Spec => []TypeOK
<1>1. Init => IInv /\ Dated /\ Registered /\ Running
  <2> SUFFICES ASSUME Init
               PROVE  IInv /\ Dated /\ Registered /\ Running
    OBVIOUS
  <2>1. now \in FirstTick .. LastTick /\ 1 \in 1 .. MaxId + 1
    BY SchedulerAssumption DEF Init
  <2>2. 0 \in Days
    BY <2>1, DatesInCalendar
  <2>3. Dated
    BY <2>1, <2>2 DEF Init, Dated, AtRest
  <2>4. Registered /\ Running
    BY <2>2 DEF Init, Registered, Running, Idle
  <2> QED
    BY <2>3, <2>4, InitHolds
<1>2. IInv /\ Dated /\ Registered /\ Running /\ [Next]_vars =>
        IInv' /\ Dated' /\ Registered' /\ Running'
  BY StepKeeps, DatedKept
<1>3. IInv /\ Dated /\ Registered /\ Running => TypeOK
  <2> SUFFICES ASSUME IInv, Dated, Registered, Running
               PROVE  TypeOK
    OBVIOUS
  <2>1. main \in [step : {"idle", "check", "insert", "occurrence"},
                  at : Pairs \cup {<<0, 0>>}, todo : SUBSET Pairs, until : Days]
    BY DEF IInv, Shape, Dated, Steps
  <2>2. /\ rows \in [Ids -> Plans \cup {None}] /\ made \in [Pairs -> Nat]
        /\ open \in [txs : SUBSET Pairs, occs : SUBSET Pairs]
        /\ main.step = "idle" => open = NothingOpen
    BY DEF IInv, Shape, Working
  <2> QED
    BY <2>1, <2>2 DEF TypeOK, Dated, Registered, Running
<1> QED
  BY <1>1, <1>2, <1>3, PTL DEF Spec
=============================================================================
