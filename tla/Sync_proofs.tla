---------------------------- MODULE Sync_proofs ----------------------------
(***************************************************************************)
(* Proofs about Sync, for any threads, items, days, starts and events: the *)
(* types, the single flight, the lock that is free while rates and macro   *)
(* series are fetched, and that what is fresh is stored.                   *)
(***************************************************************************)
EXTENDS Sync, TLAPS

\* A database where the days of the last answer of a fresh item are stored.
Sound(d) == \A i \in d.fresh, e \in Days : d.answer[i][e] # "none" => d.value[i][e] # "none"

\* Whoever runs under a lock holds it, and nobody else runs under it.
FlightInv == /\ \A t \in Threads : Locks(t) /\ pc[t] # "idle" => Flight(t) \in flights
             /\ OneFlight

\* The writer is storing or about to commit, or a price sync on its way.
WriterInv == \A t \in Threads : writer = t =>
               \/ pc[t] \in {"store", "commit"}
               \/ pc[t] = "fetch" /\ t \in PriceThreads

DataInv == Sound(db) /\ Sound(draft)

SyncInv == TypeOK /\ FlightInv /\ WriterInv /\ DataInv

-----------------------------------------------------------------------------
LEMMA NothingType == Nothing \in [item : Items, day : Days, history : SUBSET Days, price : BOOLEAN]
<1>1. (CHOOSE i \in Items : TRUE) \in Items
  BY SyncAssumption
<1>2. 1 \in Days
  BY SyncAssumption DEF Days
<1> QED
  BY <1>1, <1>2 DEF Nothing

LEMMA PutType ==
  ASSUME NEW d \in Databases, NEW i \in Items,
         NEW value \in [Days -> {"none", "part", "final"}],
         NEW answer \in [Days -> {"none", "part", "final"}]
  PROVE  /\ Put(d, i, value, answer) \in Databases
         /\ Put(d, i, value, answer).fresh = d.fresh
         /\ Put(d, i, value, answer).value = [d.value EXCEPT ![i] = value]
         /\ Put(d, i, value, answer).answer = [d.answer EXCEPT ![i] = answer]
  BY DEF Put, Databases, Rows

LEMMA PutSound ==
  ASSUME NEW d \in Databases, Sound(d), NEW i \in Items,
         NEW value \in [Days -> {"none", "part", "final"}],
         NEW answer \in [Days -> {"none", "part", "final"}],
         \A e \in Days : answer[e] # "none" => value[e] # "none"
  PROVE  Sound(Put(d, i, value, answer))
<1>1. /\ d.value \in Rows /\ d.answer \in Rows /\ d.fresh \subseteq Items
  BY DEF Databases
<1> DEFINE p == Put(d, i, value, answer)
<1>2. /\ p.fresh = d.fresh
      /\ p.value = [d.value EXCEPT ![i] = value]
      /\ p.answer = [d.answer EXCEPT ![i] = answer]
  BY PutType
<1> HIDE DEF p
<1> SUFFICES Sound(p)
  BY DEF p
<1> QED
  BY <1>1, <1>2 DEF Sound, Rows

\* What a thread that returns leaves behind.
LEMMA ReturnTypes ==
  ASSUME TypeOK, NEW t \in Threads, Return(t)
  PROVE  /\ pc' \in [Threads -> {"idle", "fetch", "store", "commit"}]
         /\ todo' \in [Threads -> SUBSET Items]
         /\ got' \in [Threads -> [item : Items, day : Days, history : SUBSET Days,
                                  price : BOOLEAN]]
         /\ prompt' \subseteq Threads /\ flights' \subseteq {"price", "macro"} \cup Threads
  BY NothingType DEF TypeOK, Return, Released

\* No lock of a sync that has one is that of a sync that has none.
LEMMA FlightsApart ==
  ASSUME NEW t \in Threads, NEW u \in Threads, Locks(u), ~Locks(t)
  PROVE  Flight(u) # Flight(t)
  BY SyncAssumption DEF Locks, Flight, Threads

LEMMA FlightRange ==
  \A t \in Threads : Flight(t) \in {"price", "macro"} \cup Threads
  BY DEF Flight

LEMMA ReturnFlights ==
  ASSUME TypeOK, FlightInv, NEW t \in Threads, pc[t] # "idle", Return(t)
  PROVE  FlightInv'
<1>1. \A u \in Threads : pc'[u] # "idle" => u # t /\ pc[u] # "idle"
  BY DEF TypeOK, Return
<1>2. ASSUME NEW u \in Threads, Locks(u), pc'[u] # "idle"
      PROVE  Flight(u) \in flights'
  <2>1. u # t /\ pc[u] # "idle" /\ Flight(u) \in flights
    BY <1>1, <1>2 DEF FlightInv
  <2>2. Flight(u) # Flight(t)
    <3>1. CASE Locks(t)
      BY <3>1, <2>1, <1>2 DEF FlightInv, OneFlight
    <3>2. CASE ~Locks(t)
      BY <3>2, <1>2, FlightsApart
    <3> QED
      BY <3>1, <3>2
  <2>3. flights' = flights \ {Flight(t)}
    BY DEF Return, Released
  <2> QED
    BY <2>1, <2>2, <2>3
<1>3. OneFlight'
  BY <1>1 DEF FlightInv, OneFlight, Flight, Locks
<1> QED
  BY <1>2, <1>3 DEF FlightInv, Flight, Locks

\* The threads that go on are those that ran, and the locks stay.
LEMMA RunningFlights ==
  ASSUME FlightInv, \A u \in Threads : pc'[u] # "idle" => pc[u] # "idle",
         flights' = flights
  PROVE  FlightInv'
  BY DEF FlightInv, OneFlight, Flight, Locks

\* Rolling back: the writer's draft goes, what is committed stays.
LEMMA AbortInv ==
  ASSUME SyncInv, NEW t \in Threads, pc[t] # "idle", Abort(t)
  PROVE  SyncInv'
<1>1. /\ db' = db /\ draft' \in {db, draft} /\ writer' \in {NoOne, writer}
      /\ writer' # t /\ today' = today /\ starts' = starts /\ events' = events
  BY SyncAssumption DEF Abort, RolledBack
<1>2. TypeOK'
  BY <1>1, ReturnTypes DEF SyncInv, TypeOK, Abort, Databases, Days
<1>3. FlightInv'
  BY ReturnFlights DEF SyncInv, Abort
<1>4. WriterInv'
  <2>1. \A u \in Threads : u # t => pc'[u] = pc[u]
    BY DEF Abort, Return, SyncInv, TypeOK
  <2> QED
    BY <1>1, <2>1, SyncAssumption DEF SyncInv, WriterInv
<1>5. DataInv'
  BY <1>1 DEF SyncInv, DataInv, Sound
<1> QED
  BY <1>2, <1>3, <1>4, <1>5 DEF SyncInv

LEMMA StartInv == ASSUME SyncInv, NEW t \in Threads, Start(t) PROVE SyncInv'
<1>1. /\ db' = db /\ draft' = draft /\ writer' = writer /\ got' = got /\ today' = today
      /\ events' = events /\ starts' = starts + 1 /\ starts < MaxStarts
      /\ prompt' = prompt \cup {t} /\ pc[t] = "idle" /\ pc' = [pc EXCEPT ![t] = "fetch"]
  BY DEF Start, OpensAs
<1>2. PICK full \in BOOLEAN : todo' = [todo EXCEPT ![t] = Targets(t, full)]
  BY DEF Start
<1>3. Targets(t, full) \subseteq Items
  BY DEF Targets, SyncInv, TypeOK, Databases, Items
<1>4. flights' = IF Locks(t) THEN flights \cup {Flight(t)} ELSE flights
  BY DEF Start
<1>5. TypeOK'
  <2>1. starts' \in 0 .. MaxStarts
    <3>1. MaxStarts \in Nat
      BY SyncAssumption
    <3> QED
      BY <1>1, <3>1 DEF SyncInv, TypeOK
  <2>2. flights' \subseteq {"price", "macro"} \cup Threads
    BY <1>4, FlightRange DEF SyncInv, TypeOK
  <2>3. todo' \in [Threads -> SUBSET Items]
    BY <1>2, <1>3 DEF SyncInv, TypeOK
  <2> QED
    BY <1>1, <2>1, <2>2, <2>3 DEF SyncInv, TypeOK
<1>6. \A u \in Threads : pc'[u] = IF u = t THEN "fetch" ELSE pc[u]
  BY <1>1 DEF SyncInv, TypeOK
<1>7. FlightInv'
  <2>1. \A u \in Threads : Locks(u) /\ pc'[u] # "idle" => Flight(u) \in flights'
    BY <1>4, <1>6 DEF SyncInv, FlightInv
  <2>2. ASSUME NEW u \in Threads, Locks(u), Locks(t), Flight(u) = Flight(t)
        PROVE  pc[u] = "idle"
    BY <2>2 DEF SyncInv, FlightInv, Start
  <2>3. OneFlight'
    BY <1>6, <2>2 DEF SyncInv, FlightInv, OneFlight, Locks, Flight
  <2> QED
    BY <2>1, <2>3 DEF FlightInv, Locks, Flight
<1>8. WriterInv'
  BY <1>1, <1>6 DEF SyncInv, WriterInv
<1>9. DataInv'
  BY <1>1 DEF SyncInv, DataInv, Sound
<1> QED
  BY <1>5, <1>7, <1>8, <1>9 DEF SyncInv

LEMMA FetchOkInv == ASSUME SyncInv, NEW t \in Threads, FetchOk(t) PROVE SyncInv'
<1>1. /\ db' = db /\ draft' = draft /\ writer' = writer /\ today' = today
      /\ events' = events /\ starts' = starts /\ prompt' = prompt /\ flights' = flights
      /\ pc[t] = "fetch" /\ pc' = [pc EXCEPT ![t] = "store"]
  BY DEF FetchOk
<1>2. PICK i \in todo[t], last \in LastAnswered, price \in BOOLEAN :
        /\ todo' = [todo EXCEPT ![t] = @ \ {i}]
        /\ got' = [got EXCEPT ![t] = [item |-> i, day |-> today, history |-> 1 .. last,
                                      price |-> price]]
  BY DEF FetchOk
<1>3. [item |-> i, day |-> today, history |-> 1 .. last, price |-> price]
        \in [item : Items, day : Days, history : SUBSET Days, price : BOOLEAN]
  <2>1. i \in Items /\ today \in Days
    BY <1>2 DEF SyncInv, TypeOK
  <2>2. 1 .. last \subseteq Days
    <3>1. today \in 1 .. LastDay /\ LastDay \in Nat
      BY SyncAssumption DEF SyncInv, TypeOK, Days
    <3>2. last = today - 1 \/ last = today
      BY <1>2 DEF LastAnswered
    <3> QED
      BY <3>1, <3>2 DEF Days
  <2> QED
    BY <2>1, <2>2
<1>4. TypeOK'
  BY <1>1, <1>2, <1>3 DEF SyncInv, TypeOK
<1>5. \A u \in Threads : pc'[u] = IF u = t THEN "store" ELSE pc[u]
  BY <1>1 DEF SyncInv, TypeOK
<1>6. FlightInv' /\ WriterInv'
  BY <1>1, <1>5, RunningFlights DEF SyncInv, WriterInv
<1>7. DataInv'
  BY <1>1 DEF SyncInv, DataInv, Sound
<1> QED
  BY <1>4, <1>6, <1>7 DEF SyncInv

LEMMA FetchFailsInv == ASSUME SyncInv, NEW t \in Threads, FetchFails(t) PROVE SyncInv'
<1>1. /\ db' = db /\ draft' = draft /\ writer' = writer /\ today' = today
      /\ events' = events /\ starts' = starts /\ pc[t] = "fetch"
  BY DEF FetchFails
<1>2. DataInv'
  BY <1>1 DEF SyncInv, DataInv, Sound
<1>3. PICK i \in todo[t] :
        \/ t \notin PriceThreads /\ Return(t)
        \/ /\ todo' = [todo EXCEPT ![t] = todo[t] \ {i}]
           /\ pc' = [pc EXCEPT ![t] = IF todo[t] \ {i} = {} THEN "commit" ELSE "fetch"]
           /\ UNCHANGED <<got, prompt, flights>>
  BY DEF FetchFails
<1>4. CASE t \notin PriceThreads /\ Return(t)
  <2>1. TypeOK'
    BY <1>1, <1>4, ReturnTypes DEF SyncInv, TypeOK
  <2>2. FlightInv'
    BY <1>1, <1>4, ReturnFlights DEF SyncInv
  <2>3. \A u \in Threads : u # t => pc'[u] = pc[u]
    BY <1>4 DEF Return, SyncInv, TypeOK
  <2>4. WriterInv'
    BY <1>1, <1>4, <2>3 DEF SyncInv, WriterInv
  <2> QED
    BY <1>2, <2>1, <2>2, <2>4 DEF SyncInv
<1>5. CASE /\ todo' = [todo EXCEPT ![t] = todo[t] \ {i}]
           /\ pc' = [pc EXCEPT ![t] = IF todo[t] \ {i} = {} THEN "commit" ELSE "fetch"]
           /\ UNCHANGED <<got, prompt, flights>>
  <2>1. TypeOK'
    BY <1>1, <1>5 DEF SyncInv, TypeOK
  <2>2. \A u \in Threads : /\ u # t => pc'[u] = pc[u]
                           /\ u = t => pc'[u] \in {"fetch", "commit"}
    BY <1>5 DEF SyncInv, TypeOK
  <2>3. FlightInv'
    BY <1>1, <1>5, <2>2, RunningFlights DEF SyncInv
  <2>4. WriterInv'
    <3> SUFFICES ASSUME NEW u \in Threads, writer' = u
                 PROVE  \/ pc'[u] \in {"store", "commit"}
                        \/ pc'[u] = "fetch" /\ u \in PriceThreads
      BY DEF WriterInv
    <3>1. \/ pc[u] \in {"store", "commit"}
          \/ pc[u] = "fetch" /\ u \in PriceThreads
      BY <1>1 DEF SyncInv, WriterInv
    <3>2. u = t => u \in PriceThreads
      BY <1>1, <3>1
    <3>3. CASE u = t
      BY <2>2, <3>2, <3>3
    <3>4. CASE u # t
      BY <2>2, <3>1, <3>4
    <3> QED
      BY <3>3, <3>4
  <2> QED
    BY <1>2, <2>1, <2>3, <2>4 DEF SyncInv
<1> QED
  BY <1>3, <1>4, <1>5

\* The answer of a thread that stores, as a row of values.
LEMMA AnswerRow ==
  ASSUME SyncInv, NEW t \in Threads
  PROVE  /\ got[t].item \in Items /\ got[t].history \subseteq Days
         /\ [d \in Days |-> Answer(t, d)] \in [Days -> {"none", "part", "final"}]
         /\ \A d \in Days : Value(got[t], d) \in {"part", "final"}
  BY DEF SyncInv, TypeOK, Answer, Value

LEMMA InsertedRow ==
  ASSUME SyncInv, NEW t \in Threads, NEW row \in [Days -> {"none", "part", "final"}]
  PROVE  /\ [d \in Days |-> Inserted(row[d], Answer(t, d))]
                \in [Days -> {"none", "part", "final"}]
         /\ \A d \in Days : Answer(t, d) # "none" => Inserted(row[d], Answer(t, d)) # "none"
  BY AnswerRow DEF Inserted, Answer, Value

LEMMA StoredSound ==
  ASSUME SyncInv, NEW t \in Threads
  PROVE  Stored(t) \in Databases /\ Sound(Stored(t))
<1> DEFINE i == got[t].item
           answer == [d \in Days |-> Answer(t, d)]
           value == [d \in Days |-> Inserted(draft.value[i][d], Answer(t, d))]
           fresh == IF t \in PriceThreads \cup prompt
                    THEN Put(draft, i, value, answer).fresh \cup {i}
                    ELSE Put(draft, i, value, answer).fresh \ {i}
           put == Put(draft, i, value, answer)
<1>1. i \in Items /\ draft \in Databases /\ Sound(draft)
  BY AnswerRow DEF SyncInv, TypeOK, DataInv
<1>2. draft.value[i] \in [Days -> {"none", "part", "final"}]
  BY <1>1 DEF Databases, Rows
<1>3. /\ value \in [Days -> {"none", "part", "final"}]
      /\ answer \in [Days -> {"none", "part", "final"}]
      /\ \A d \in Days : answer[d] # "none" => value[d] # "none"
  <2>1. value \in [Days -> {"none", "part", "final"}]
    BY <1>2, InsertedRow
  <2>2. \A d \in Days : Answer(t, d) # "none" => Inserted(draft.value[i][d], Answer(t, d)) # "none"
    BY <1>2, InsertedRow
  <2> QED
    BY <2>1, <2>2, AnswerRow
<1>4. /\ put \in Databases /\ put.fresh = draft.fresh
      /\ put.value = [draft.value EXCEPT ![i] = value]
      /\ put.answer = [draft.answer EXCEPT ![i] = answer]
  BY <1>1, <1>3, PutType
<1>5. /\ draft.value \in Rows /\ draft.answer \in Rows /\ draft.fresh \subseteq Items
  BY <1>1 DEF Databases
<1>6. Stored(t) = [put EXCEPT !.fresh = fresh]
  BY DEF Stored
<1> HIDE DEF put, value, answer, i
<1>7. fresh \subseteq Items /\ fresh \subseteq draft.fresh \cup {i}
  BY <1>1, <1>4, <1>5 DEF put
<1> HIDE DEF fresh
<1>8. /\ Stored(t) \in Databases
      /\ Stored(t).value = put.value /\ Stored(t).answer = put.answer
      /\ Stored(t).fresh = fresh
  BY <1>4, <1>6, <1>7 DEF Databases
<1>9. Sound(Stored(t))
  <2> SUFFICES ASSUME NEW j \in fresh, NEW e \in Days
               PROVE  put.answer[j][e] # "none" => put.value[j][e] # "none"
    BY <1>8, Zenon DEF Sound
  <2>1. CASE j = i
    BY <2>1, <1>1, <1>3, <1>4, <1>5 DEF Rows
  <2>2. CASE j # i
    BY <2>2, <1>1, <1>4, <1>5, <1>7 DEF Rows, Sound
  <2> QED
    BY <2>1, <2>2
<1> QED
  BY <1>8, <1>9

LEMMA StoreItemInv == ASSUME SyncInv, NEW t \in Threads, StoreItem(t) PROVE SyncInv'
<1>1. /\ draft' = Stored(t) /\ writer' = t /\ db' = db /\ today' = today /\ todo' = todo
      /\ prompt' = prompt /\ flights' = flights /\ starts' = starts /\ events' = events
      /\ got' = [got EXCEPT ![t] = Nothing] /\ pc[t] = "store"
      /\ \/ t \in PriceThreads /\ pc' = [pc EXCEPT ![t] = "fetch"]
         \/ pc' = [pc EXCEPT ![t] = "commit"]
  BY DEF StoreItem, Committed
<1>2. TypeOK'
  BY <1>1, StoredSound, NothingType DEF SyncInv, TypeOK
<1>3. \A u \in Threads : u # t => pc'[u] = pc[u]
  BY <1>1 DEF SyncInv, TypeOK
<1>4. \/ pc'[t] = "commit"
      \/ pc'[t] = "fetch" /\ t \in PriceThreads
  BY <1>1 DEF SyncInv, TypeOK
<1>5. FlightInv'
  BY <1>1, <1>3, RunningFlights DEF SyncInv
<1>6. WriterInv'
  BY <1>1, <1>4 DEF WriterInv
<1>7. DataInv'
  BY <1>1, StoredSound DEF SyncInv, DataInv, Sound
<1> QED
  BY <1>2, <1>5, <1>6, <1>7 DEF SyncInv

LEMMA StoreRateInv == ASSUME SyncInv, NEW t \in Threads, StoreRate(t) PROVE SyncInv'
<1>1. /\ db' = db /\ today' = today /\ todo' = todo /\ pc' = pc
      /\ prompt' = prompt /\ flights' = flights /\ starts' = starts /\ events' = events
      /\ pc[t] = "store"
  BY DEF StoreRate
<1>2. PICK d \in got[t].history :
        /\ got' = [got EXCEPT ![t] = Without(got[t], d)]
        /\ \/ /\ writer' = t
              /\ draft' = Put(draft, got[t].item,
                              [draft.value[got[t].item] EXCEPT ![d] = Value(got[t], d)],
                              draft.answer[got[t].item])
           \/ writer' = writer /\ draft' = draft
  BY DEF StoreRate
<1>3. d \in Days /\ got[t].item \in Items /\ Value(got[t], d) \in {"part", "final"}
  BY <1>2, AnswerRow
<1> DEFINE row == [draft.value[got[t].item] EXCEPT ![d] = Value(got[t], d)]
           old == draft.answer[got[t].item]
<1>4. /\ draft.value[got[t].item] \in [Days -> {"none", "part", "final"}]
      /\ old \in [Days -> {"none", "part", "final"}]
      /\ draft \in Databases /\ Sound(draft) /\ draft.fresh \subseteq Items
  BY <1>3 DEF SyncInv, TypeOK, DataInv, Databases, Rows
<1>5. row \in [Days -> {"none", "part", "final"}]
  BY <1>3, <1>4
<1>6. ASSUME writer' = t /\ draft' = Put(draft, got[t].item, row, old)
      PROVE  draft' \in Databases /\ Sound(draft')
  <2>1. draft' \in Databases
    BY <1>3, <1>4, <1>5, <1>6, PutType
  <2>2. Sound(draft')
    <3> DEFINE i == got[t].item
               put == Put(draft, i, row, old)
    <3>1. /\ put.fresh = draft.fresh /\ put.value = [draft.value EXCEPT ![i] = row]
          /\ put.answer = [draft.answer EXCEPT ![i] = old]
      BY <1>3, <1>4, <1>5, PutType
    <3>2. draft.value \in Rows /\ draft.answer \in Rows
      BY <1>4 DEF Databases
    <3>3. \A e \in Days : row[e] = draft.value[i][e] \/ row[e] # "none"
      BY <1>3, <1>4
    <3> HIDE DEF put, row, i
    <3>4. ASSUME NEW j \in draft.fresh, NEW e \in Days, put.answer[j][e] # "none"
          PROVE  put.value[j][e] # "none"
      <4>1. draft.answer[j][e] # "none"
        BY <1>3, <1>4, <3>1, <3>2, <3>4 DEF Rows, i
      <4>2. draft.value[j][e] # "none"
        BY <1>4, <4>1, Zenon DEF Sound
      <4>3. CASE j = i
        BY <1>3, <3>1, <3>2, <3>3, <4>2, <4>3 DEF Rows, i
      <4>4. CASE j # i
        BY <1>4, <3>1, <3>2, <4>2, <4>4 DEF Rows
      <4> QED
        BY <4>3, <4>4
    <3>5. Sound(put)
      BY <3>1, <3>4, Zenon DEF Sound
    <3> QED
      BY <1>6, <3>5, Zenon DEF put, i
  <2> QED
    BY <2>1, <2>2
<1>7. draft' \in Databases /\ Sound(draft') /\ writer' \in {t, writer}
  <2>2. \/ writer' = t /\ draft' = Put(draft, got[t].item, row, old)
        \/ writer' = writer /\ draft' = draft
    BY <1>2, Zenon DEF row, old
  <2> HIDE DEF row, old
  <2> QED
    BY <1>4, <1>6, <2>2
<1>8. got' \in [Threads -> [item : Items, day : Days, history : SUBSET Days, price : BOOLEAN]]
  <2>1. got[t] \in [item : Items, day : Days, history : SUBSET Days, price : BOOLEAN]
    BY DEF SyncInv, TypeOK
  <2>2. Without(got[t], d) \in [item : Items, day : Days, history : SUBSET Days,
                               price : BOOLEAN]
    BY <2>1 DEF Without
  <2> QED
    BY <1>2, <2>2 DEF SyncInv, TypeOK
<1>9. TypeOK'
  BY <1>1, <1>7, <1>8 DEF SyncInv, TypeOK
<1>10. FlightInv' /\ WriterInv'
  BY <1>1, <1>7, RunningFlights DEF SyncInv, WriterInv
<1>11. DataInv'
  BY <1>1, <1>7 DEF SyncInv, DataInv, Sound
<1> QED
  BY <1>9, <1>10, <1>11 DEF SyncInv

LEMMA RateStoredInv == ASSUME SyncInv, NEW t \in Threads, RateStored(t) PROVE SyncInv'
<1>1. /\ db' = db /\ draft' = draft /\ writer' = writer /\ today' = today /\ todo' = todo
      /\ got' = got /\ prompt' = prompt /\ flights' = flights /\ starts' = starts
      /\ events' = events /\ pc[t] = "store" /\ pc' = [pc EXCEPT ![t] = "commit"]
  BY DEF RateStored
<1>2. \A u \in Threads : pc'[u] = IF u = t THEN "commit" ELSE pc[u]
  BY <1>1 DEF SyncInv, TypeOK
<1>3. TypeOK'
  BY <1>1 DEF SyncInv, TypeOK
<1>4. FlightInv' /\ WriterInv'
  BY <1>1, <1>2, RunningFlights DEF SyncInv, WriterInv
<1>5. DataInv'
  BY <1>1 DEF SyncInv, DataInv, Sound
<1> QED
  BY <1>3, <1>4, <1>5 DEF SyncInv

LEMMA CommitInv == ASSUME SyncInv, NEW t \in Threads, Commit(t) PROVE SyncInv'
<1>1. /\ db' \in {db, draft} /\ draft' = draft /\ writer' \in {NoOne, writer} /\ writer' # t
      /\ today' = today /\ starts' = starts /\ events' = events /\ pc[t] = "commit"
  BY SyncAssumption DEF Commit
<1>2. DataInv'
  BY <1>1 DEF SyncInv, DataInv, Sound
<1>3. CASE Return(t)
  <2>1. TypeOK'
    BY <1>1, <1>3, ReturnTypes DEF SyncInv, TypeOK
  <2>2. FlightInv'
    BY <1>1, <1>3, ReturnFlights DEF SyncInv
  <2>3. \A u \in Threads : u # t => pc'[u] = pc[u]
    BY <1>3 DEF Return, SyncInv, TypeOK
  <2>4. WriterInv'
    BY <1>1, <2>3, SyncAssumption DEF SyncInv, WriterInv
  <2> QED
    BY <1>2, <2>1, <2>2, <2>4 DEF SyncInv
<1>4. CASE /\ pc' = [pc EXCEPT ![t] = "fetch"] /\ got' = [got EXCEPT ![t] = Nothing]
           /\ UNCHANGED <<todo, prompt, flights>>
  <2>1. TypeOK'
    BY <1>1, <1>4, NothingType DEF SyncInv, TypeOK
  <2>2. \A u \in Threads : pc'[u] = IF u = t THEN "fetch" ELSE pc[u]
    BY <1>4 DEF SyncInv, TypeOK
  <2>3. FlightInv'
    BY <1>1, <1>4, <2>2, RunningFlights DEF SyncInv
  <2>4. WriterInv'
    BY <1>1, <2>2, SyncAssumption DEF SyncInv, WriterInv
  <2> QED
    BY <1>2, <2>1, <2>3, <2>4 DEF SyncInv
<1> QED
  BY <1>3, <1>4 DEF Commit

LEMMA EditInv ==
  ASSUME SyncInv, NEW new \in Databases, Sound(new), Edit(new)
  PROVE  SyncInv'
<1>1. /\ db' = new /\ draft' = new /\ UNCHANGED <<threads, writer, today, starts>>
      /\ events' = events + 1 /\ events < MaxEvents
  BY DEF Edit
<1>2. MaxEvents \in Nat
  BY SyncAssumption
<1>3. TypeOK'
  BY <1>1, <1>2 DEF SyncInv, TypeOK, threads
<1>4. FlightInv'
  BY <1>1, RunningFlights DEF SyncInv, threads
<1>5. WriterInv'
  BY <1>1 DEF SyncInv, WriterInv, threads
<1>6. DataInv'
  BY <1>1 DEF DataInv, Sound
<1> QED
  BY <1>3, <1>4, <1>5, <1>6 DEF SyncInv

LEMMA EditsInv ==
  ASSUME SyncInv, CreatePrice \/ DeletePrice \/ UpdatePrice \/ ToggleActive
  PROVE  SyncInv'
<1> DEFINE Row == [Days -> {"none", "part", "final"}]
<1>1. /\ db \in Databases /\ Sound(db)
      /\ \A c \in Codes : c \in Items /\ db.value[c] \in Row /\ db.answer[c] \in Row
  BY DEF SyncInv, TypeOK, DataInv, Databases, Rows, Items
<1>2. ASSUME NEW c \in Codes, c \in db.fresh, NEW e \in Days
      PROVE  db.answer[c][e] # "none" => db.value[c][e] # "none"
  BY <1>1, <1>2, Zenon DEF Sound
<1>3. ASSUME NEW c \in Codes, NEW value \in Row, NEW answer \in Row,
             Edit(Put(db, c, value, answer)),
             \A e \in Days : answer[e] # "none" =>
                              /\ answer[e] = db.answer[c][e]
                              /\ \/ value[e] = db.value[c][e]
                                 \/ value[e] # "none"
      PROVE  SyncInv'
  <2> DEFINE put == Put(db, c, value, answer)
  <2>1. /\ put \in Databases /\ put.fresh = db.fresh
        /\ put.value = [db.value EXCEPT ![c] = value]
        /\ put.answer = [db.answer EXCEPT ![c] = answer]
    BY <1>1, PutType
  <2>2. db.value \in Rows /\ db.answer \in Rows /\ db.fresh \subseteq Items
    BY <1>1 DEF Databases
  <2> HIDE DEF put
  <2>3. ASSUME NEW j \in db.fresh, NEW e \in Days, put.answer[j][e] # "none"
        PROVE  put.value[j][e] # "none"
    <3>1. CASE j = c
      BY <1>1, <1>2, <1>3, <2>1, <2>2, <2>3, <3>1 DEF Rows
    <3>2. CASE j # c
      <4>1. db.answer[j][e] # "none"
        BY <2>1, <2>2, <2>3, <3>2 DEF Rows
      <4>2. db.value[j][e] # "none"
        BY <1>1, <4>1, Zenon DEF Sound
      <4> QED
        BY <2>1, <2>2, <3>2, <4>2 DEF Rows
    <3> QED
      BY <3>1, <3>2
  <2>4. Sound(put)
    BY <2>1, <2>3, Zenon DEF Sound
  <2>5. Edit(put)
    BY <1>3 DEF put
  <2> QED
    BY <2>1, <2>4, <2>5, EditInv
<1>4. CASE CreatePrice
  <2>1. PICK c \in Codes, d \in Days :
          Edit(Put(db, c, [db.value[c] EXCEPT ![d] = "final"], db.answer[c]))
    BY <1>4 DEF CreatePrice
  <2>2. /\ [db.value[c] EXCEPT ![d] = "final"] \in Row
        /\ \A e \in Days : \/ [db.value[c] EXCEPT ![d] = "final"][e] = db.value[c][e]
                            \/ [db.value[c] EXCEPT ![d] = "final"][e] # "none"
    BY <1>1
  <2> QED
    BY <1>1, <1>3, <2>1, <2>2
<1>5. CASE DeletePrice
  <2>1. PICK c \in Codes, d \in Days :
          Edit(Put(db, c, [db.value[c] EXCEPT ![d] = "none"], Kept(c, {d})))
    BY <1>5 DEF DeletePrice
  <2> DEFINE value == [db.value[c] EXCEPT ![d] = "none"]
             answer == Kept(c, {d})
  <2>2. /\ value \in Row /\ answer \in Row
        /\ \A e \in Days : answer[e] # "none" =>
              /\ answer[e] = db.answer[c][e]
              /\ \/ value[e] = db.value[c][e]
                 \/ value[e] # "none"
    BY <1>1 DEF Kept
  <2>3. Edit(Put(db, c, value, answer))
    BY <2>1
  <2> HIDE DEF value, answer
  <2> QED
    BY <1>3, <2>2, <2>3
<1>6. CASE UpdatePrice
  <2>1. PICK c \in Codes, from \in Days, d \in Days :
          Edit(Put(db, c, [db.value[c] EXCEPT ![from] = "none", ![d] = "final"],
                   Kept(c, {from} \ {d})))
    BY <1>6 DEF UpdatePrice
  <2> DEFINE value == [db.value[c] EXCEPT ![from] = "none", ![d] = "final"]
             answer == Kept(c, {from} \ {d})
  <2>2. /\ value \in Row /\ answer \in Row
        /\ \A e \in Days : answer[e] # "none" =>
              /\ answer[e] = db.answer[c][e]
              /\ \/ value[e] = db.value[c][e]
                 \/ value[e] # "none"
    BY <1>1 DEF Kept
  <2>3. Edit(Put(db, c, value, answer))
    BY <2>1
  <2> HIDE DEF value, answer
  <2> QED
    BY <1>3, <2>2, <2>3
<1>7. CASE ToggleActive
  <2>1. PICK c \in Codes : Edit([db EXCEPT !.active = IF c \in @ THEN @ \ {c} ELSE @ \cup {c}])
    BY <1>7 DEF ToggleActive
  <2> DEFINE active == IF c \in db.active THEN db.active \ {c} ELSE db.active \cup {c}
  <2>2. active \subseteq Codes
    BY <1>1 DEF Databases
  <2>3. Edit([db EXCEPT !.active = active])
    BY <2>1
  <2> HIDE DEF active
  <2>4. /\ [db EXCEPT !.active = active] \in Databases
        /\ [db EXCEPT !.active = active].value = db.value
        /\ [db EXCEPT !.active = active].answer = db.answer
        /\ [db EXCEPT !.active = active].fresh = db.fresh
    BY <1>1, <2>2 DEF Databases
  <2>5. Sound([db EXCEPT !.active = active])
    BY <1>1, <2>4 DEF Sound
  <2> QED
    BY <2>3, <2>4, <2>5, EditInv
<1> QED
  BY <1>4, <1>5, <1>6, <1>7

LEMMA BusyInv == ASSUME SyncInv, NEW t \in Threads, Busy(t) PROVE SyncInv'
<1>1. UNCHANGED vars
  BY DEF Busy, AfterBusy, vars, threads
<1> QED
  BY <1>1 DEF vars, threads, SyncInv, TypeOK, FlightInv, OneFlight, Flight, Locks, WriterInv,
              DataInv, Sound

LEMMA NextDayInv == ASSUME SyncInv, NextDay PROVE SyncInv'
<1>1. /\ db' = [db EXCEPT !.fresh = {}] /\ draft' = [draft EXCEPT !.fresh = {}]
      /\ prompt' = {} /\ today' = today + 1 /\ today < LastDay
      /\ UNCHANGED <<pc, todo, got, flights, writer, starts, events>>
  BY DEF NextDay
<1>2. db' \in Databases /\ draft' \in Databases /\ db'.fresh = {} /\ draft'.fresh = {}
  BY <1>1 DEF SyncInv, TypeOK, Databases
<1>3. TypeOK'
  BY <1>1, <1>2, SyncAssumption DEF SyncInv, TypeOK, Days
<1>4. FlightInv'
  BY <1>1, RunningFlights DEF SyncInv
<1>5. WriterInv'
  BY <1>1 DEF SyncInv, WriterInv
<1>6. DataInv'
  BY <1>2 DEF DataInv, Sound
<1> QED
  BY <1>3, <1>4, <1>5, <1>6 DEF SyncInv

LEMMA DieInv == ASSUME SyncInv, Die PROVE SyncInv'
<1> DEFINE down == Threads \ OwnProcess
<1>1. /\ pc' = [t \in Threads |-> IF t \in down THEN "idle" ELSE pc[t]]
      /\ todo' = [t \in Threads |-> IF t \in down THEN {} ELSE todo[t]]
      /\ got' = [t \in Threads |-> IF t \in down THEN Nothing ELSE got[t]]
      /\ prompt' = prompt \ down /\ flights' = flights \cap OwnProcess
      /\ draft' = (IF writer \in down THEN db ELSE draft)
      /\ writer' = (IF writer \in down THEN NoOne ELSE writer)
      /\ UNCHANGED <<db, today, starts>>
      /\ events < MaxEvents /\ events' = events + 1
  BY DEF Die
<1>2. draft' \in {db, draft} /\ writer' \in {NoOne, writer} /\ writer' \notin down
  BY <1>1, SyncAssumption
<1>3. TypeOK'
  <2>1. pc' \in [Threads -> {"idle", "fetch", "store", "commit"}]
    BY <1>1 DEF SyncInv, TypeOK
  <2>2. todo' \in [Threads -> SUBSET Items]
    BY <1>1 DEF SyncInv, TypeOK
  <2>3. got' \in [Threads -> [item : Items, day : Days, history : SUBSET Days,
                               price : BOOLEAN]]
    <3> DEFINE Gotten == [item : Items, day : Days, history : SUBSET Days, price : BOOLEAN]
    <3>1. Nothing \in Gotten /\ got \in [Threads -> Gotten]
      BY NothingType DEF SyncInv, TypeOK
    <3> HIDE DEF Gotten
    <3>2. got' \in [Threads -> Gotten]
      BY <1>1, <3>1
    <3> QED
      BY <3>2 DEF Gotten
  <2>4. prompt' \subseteq Threads /\ flights' \subseteq {"price", "macro"} \cup Threads
    BY <1>1 DEF SyncInv, TypeOK
  <2>5. /\ db' \in Databases /\ draft' \in Databases /\ writer' \in Threads \cup {NoOne}
        /\ today' \in Days /\ starts' \in 0 .. MaxStarts /\ events' \in 0 .. MaxEvents
    BY <1>1, <1>2, SyncAssumption DEF SyncInv, TypeOK
  <2> QED
    BY <2>1, <2>2, <2>3, <2>4, <2>5 DEF TypeOK
<1>4. \A t \in Threads : pc'[t] # "idle" => t \in OwnProcess /\ pc[t] # "idle"
  BY <1>1
<1>5. \A t \in OwnProcess : Flight(t) = t
  BY SyncAssumption DEF Flight, Threads
<1>6. FlightInv'
  <2>1. OneFlight'
    BY <1>4 DEF SyncInv, FlightInv, OneFlight, Flight, Locks
  <2>2. ASSUME NEW t \in Threads, Locks(t), pc'[t] # "idle"
        PROVE  Flight(t) \in flights'
    BY <1>1, <1>4, <1>5, <2>2 DEF SyncInv, FlightInv
  <2> QED
    BY <2>1, <2>2 DEF FlightInv, Flight, Locks
<1>7. WriterInv'
  BY <1>1, <1>2, SyncAssumption DEF SyncInv, WriterInv
<1>8. DataInv'
  BY <1>1, <1>2 DEF SyncInv, DataInv, Sound
<1> QED
  BY <1>3, <1>6, <1>7, <1>8 DEF SyncInv

LEMMA NextInv == SyncInv /\ [Next]_vars => SyncInv'
<1> SUFFICES ASSUME SyncInv, [Next]_vars PROVE SyncInv'
  OBVIOUS
<1>1. ASSUME NEW t \in Threads, Start(t) \/ Busy(t) \/ Step(t) PROVE SyncInv'
  <2>1. CASE Start(t) \/ Busy(t)
    BY <2>1, StartInv, BusyInv
  <2>2. CASE FetchOk(t) \/ FetchFails(t)
    BY <2>2, FetchOkInv, FetchFailsInv
  <2>3. CASE FetchRaises(t)
    BY <2>3, AbortInv DEF FetchRaises
  <2>4. CASE LockTimesOut(t)
    BY <2>4, AbortInv DEF LockTimesOut
  <2>5. CASE StoreItem(t) \/ StoreRate(t)
    BY <2>5, StoreItemInv, StoreRateInv
  <2>6. CASE RateStored(t) \/ Commit(t)
    BY <2>6, RateStoredInv, CommitInv
  <2> QED
    BY <1>1, <2>1, <2>2, <2>3, <2>4, <2>5, <2>6 DEF Step
<1>2. CASE CreatePrice \/ DeletePrice \/ UpdatePrice \/ ToggleActive
  BY <1>2, EditsInv
<1>3. CASE NextDay \/ Die
  BY <1>3, NextDayInv, DieInv
<1>4. CASE UNCHANGED vars
  BY <1>4 DEF vars, threads, SyncInv, TypeOK, FlightInv, OneFlight, Flight, Locks, WriterInv,
              DataInv, Sound
<1> QED
  BY <1>1, <1>2, <1>3, <1>4 DEF Next

LEMMA InitInv == Init => SyncInv
<1> SUFFICES ASSUME Init PROVE SyncInv
  OBVIOUS
<1>1. /\ db.value = [i \in Items |-> [d \in Days |-> "none"]] /\ db.fresh = {}
      /\ db.answer = [i \in Items |-> [d \in Days |-> "none"]] /\ db.active = Codes
      /\ db \in Databases /\ draft = db
  BY DEF Init, Databases, Rows
<1>2. TypeOK
  BY <1>1, NothingType, SyncAssumption DEF Init, TypeOK, Days
<1>3. FlightInv /\ WriterInv
  BY SyncAssumption DEF Init, FlightInv, OneFlight, WriterInv
<1>4. DataInv
  BY <1>1 DEF DataInv, Sound
<1> QED
  BY <1>2, <1>3, <1>4 DEF SyncInv

-----------------------------------------------------------------------------
\* Whoever runs holds the lock of its sync, whoever writes is storing, committing or a
\* price sync under way, and what is committed and the draft are both sound
\* (market_sync_svc, macro_sync_svc, currency_svc.sync_rates).
THEOREM SyncInvariant == Spec => []SyncInv
<1> QED
  BY InitInv, NextInv, PTL DEF Spec

\* The state of the three syncs stays in range.
THEOREM SyncTypes == Spec => []TypeOK
<1>1. SyncInv => TypeOK
  BY DEF SyncInv
<1> QED
  BY <1>1, SyncInvariant, PTL

\* Two runs under one lock never overlap, whatever ended the runs before them (_sync_lock
\* of market_sync_svc and of macro_sync_svc).
THEOREM RunsNeverOverlap == Spec => []OneFlight
<1>1. SyncInv => OneFlight
  BY DEF SyncInv, FlightInv
<1> QED
  BY <1>1, SyncInvariant, PTL

\* A rate or macro sync never holds the database while it waits for the network
\* (sync_rates stores after its fetches, sync_series commits each series).
THEOREM NetworkWithoutLock == Spec => []NoLockOnNetwork
<1>1. SyncInv => NoLockOnNetwork
  BY SyncAssumption DEF SyncInv, WriterInv, NoLockOnNetwork, Threads
<1> QED
  BY <1>1, SyncInvariant, PTL

\* What the freshness skip passes over is stored (sync_prices stamps an item in the
\* transaction that stores its prices, sync_series likewise).
THEOREM FreshMeansStored == Spec => []FreshIsStored
<1>1. SyncInv => FreshIsStored
  BY DEF SyncInv, DataInv, Sound, FreshIsStored
<1> QED
  BY <1>1, SyncInvariant, PTL

=============================================================================
