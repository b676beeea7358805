-------------------------------- MODULE Sync --------------------------------
(***************************************************************************)
(* The three syncs that copy market data into the database, and the user   *)
(* who edits prices beside them: prices (market_sync_svc.sync_prices),     *)
(* rates (currency_svc.sync_rates) and macro series                        *)
(* (macro_sync_svc.sync_series).  Each runs in a job of the scheduler and  *)
(* on demand: a thread of POST /market/sync-prices, the event loop in POST *)
(* /currencies/sync, the process of scripts/macro_sync.py.                 *)
(*                                                                         *)
(* A thread fetches its items one by one and writes what it got.  SQLite   *)
(* has one writer: from its first write to its commit a connection works   *)
(* on a draft nobody else sees, and the writes of others wait and, after   *)
(* five seconds, raise.                                                    *)
(*                                                                         *)
(* A value is known by its day and by whether it was fetched after the day *)
(* was over ("final") or during it ("part").  Days are the clock: what was *)
(* synced on a day before today is no longer fresh.                        *)
(***************************************************************************)
EXTENDS Integers, FiniteSets

CONSTANTS Codes, Pairs, Series,          \* what prices, rates and macro syncs fetch
          PriceThreads, RateThreads, MacroThreads,
          OwnProcess,                    \* the threads that are a process of their own
          LastDay, MaxStarts, MaxEvents  \* bounds; an event is an edit or a kill

VARIABLES pc,       \* of each thread: "idle", "fetch", "store", "commit"
          todo,     \* its items to come
          got,      \* the item it has fetched, and what of the answer is not yet written
          prompt,   \* the threads started today
          flights,  \* the single-flight locks that are held
          db,       \* what is committed
          draft,    \* what the writer sees
          writer,   \* the thread with an open write transaction, or NoOne
          today, starts, events

threads == <<pc, todo, got, prompt, flights>>
vars == <<threads, db, draft, writer, today, starts, events>>

Items == Codes \cup Pairs \cup Series
Threads == PriceThreads \cup RateThreads \cup MacroThreads
Days == 1 .. LastDay
NoOne == "no one"
Nothing == [item |-> CHOOSE i \in Items : TRUE, day |-> 1, history |-> {},
            price |-> FALSE]

ASSUME SyncAssumption ==
  /\ IsFiniteSet(Items) /\ IsFiniteSet(Threads) /\ NoOne \notin Threads
  /\ Threads \cap {"price", "macro"} = {} /\ Items # {}
  /\ Codes \cap Pairs = {} /\ Codes \cap Series = {} /\ Pairs \cap Series = {}
  /\ PriceThreads \cap RateThreads = {} /\ PriceThreads \cap MacroThreads = {}
  /\ RateThreads \cap MacroThreads = {}
  /\ OwnProcess \subseteq MacroThreads
  /\ LastDay \in Nat \ {0} /\ {MaxStarts, MaxEvents} \subseteq Nat

\* The module-level lock a sync tries; rates have none, another process has its own.
Flight(t) == IF t \in PriceThreads THEN "price"
             ELSE IF t \in MacroThreads \ OwnProcess THEN "macro" ELSE t
Locks(t) == t \notin RateThreads

-----------------------------------------------------------------------------
(* Starting. *)

\* _target_codes, sync_series' freshness skip, _get_fx_pairs.
Targets(t, full) ==
  IF t \in PriceThreads THEN {c \in db.active : full \/ c \notin db.fresh}
  ELSE IF t \in RateThreads THEN Pairs ELSE Series \ db.fresh

\* A run reads its targets and writes nothing before its first answer.
\* Mutated form: it marks its start in the database.
OpensAs_marked(t) == IF writer = NoOne THEN t ELSE writer
OpensAs(t) == writer

\* A run starts when its lock is free, its circuit closed and something to fetch.
Start(t) ==
  /\ pc[t] = "idle" /\ starts < MaxStarts
  /\ Locks(t) => Flight(t) \notin flights
  /\ \E full \in BOOLEAN : /\ Targets(t, full) # {}
                           /\ todo' = [todo EXCEPT ![t] = Targets(t, full)]
  /\ pc' = [pc EXCEPT ![t] = "fetch"]
  /\ prompt' = prompt \cup {t}
  /\ flights' = IF Locks(t) THEN flights \cup {Flight(t)} ELSE flights
  /\ writer' = OpensAs(t)
  /\ starts' = starts + 1
  /\ UNCHANGED <<got, db, draft, today, events>>

\* A run that finds the lock taken returns at once.
\* Mutated form: acquired inside the try, whose finally releases it.
AfterBusy_released(t) == flights \ {Flight(t)}
AfterBusy(t) == flights
Busy(t) ==
  /\ pc[t] = "idle" /\ Locks(t) /\ Flight(t) \in flights
  /\ flights' = AfterBusy(t)
  /\ UNCHANGED <<pc, todo, got, prompt, db, draft, writer, today, starts, events>>

\* The finally clause.
\* Mutated form: only a run that commits releases the lock.
Released_committed(t) == IF pc[t] = "commit" THEN flights \ {Flight(t)} ELSE flights
Released(t) == flights \ {Flight(t)}

\* The connection of a thread is gone: what it did not commit is rolled back.
RolledBack(t) == /\ draft' = IF writer = t THEN db ELSE draft
                 /\ writer' = IF writer = t THEN NoOne ELSE writer

Return(t) ==
  /\ pc' = [pc EXCEPT ![t] = "idle"]
  /\ todo' = [todo EXCEPT ![t] = {}]
  /\ got' = [got EXCEPT ![t] = Nothing]
  /\ prompt' = prompt \ {t}
  /\ flights' = Released(t)

\* An exception nobody catches ends the run: an answer that is not JSON, a locked database.
Abort(t) == Return(t) /\ RolledBack(t) /\ UNCHANGED <<db, today, starts, events>>

-----------------------------------------------------------------------------
(* Fetching. *)

\* The last day of an answer's history.
\* Mutated form: its end date excludes the day, so the request asks for one more.
LastAnswered_ahead == {today - 1, today + 1}
LastAnswered == {today - 1, today}

\* get_all or fetch_series answers with the past, and with what there is of today;
\* get_all may have the price of the moment besides.
FetchOk(t) ==
  /\ pc[t] = "fetch" /\ todo[t] # {}
  /\ \E i \in todo[t], last \in LastAnswered, price \in BOOLEAN :
       /\ price => t \in PriceThreads
       /\ todo' = [todo EXCEPT ![t] = @ \ {i}]
       /\ got' = [got EXCEPT ![t] = [item |-> i, day |-> today, history |-> 1 .. last,
                                     price |-> price]]
  /\ pc' = [pc EXCEPT ![t] = "store"]
  /\ UNCHANGED <<prompt, flights, db, draft, writer, today, starts, events>>

\* An error of the provider is noted in the result and the run goes on.
FetchFails(t) ==
  /\ pc[t] = "fetch" /\ todo[t] # {}
  /\ \E i \in todo[t] :
       LET rest == todo[t] \ {i}
       IN  IF rest = {} /\ t \notin PriceThreads THEN Return(t)
           ELSE /\ todo' = [todo EXCEPT ![t] = rest]
                /\ pc' = [pc EXCEPT ![t] = IF rest = {} THEN "commit" ELSE "fetch"]
                /\ UNCHANGED <<got, prompt, flights>>
  /\ UNCHANGED <<db, draft, writer, today, starts, events>>

\* sync_rates catches everything.
FetchRaises(t) == pc[t] = "fetch" /\ t \notin RateThreads /\ Abort(t)

-----------------------------------------------------------------------------
(* Storing. *)

Value(answer, d) == IF d = answer.day THEN "part" ELSE "final"

\* create_price raises on a day that is there, upsert_macro_observation ignores it.
Inserted(old, new) == IF old = "none" THEN new ELSE old

\* What the answer says of a day; a price sync dates the price of the moment itself.
Answer(t, d) == IF got[t].price /\ d = today THEN "part"
                ELSE IF d \in got[t].history THEN Value(got[t], d) ELSE "none"

\* A database with another row of values, and another row of answers, for one item.
Put(d, i, value, answer) == [d EXCEPT !.value = [@ EXCEPT ![i] = value],
                                      !.answer = [@ EXCEPT ![i] = answer]]

\* All an item's fetch returned, with the timestamp of the sync: of the time a price sync
\* writes, of the time a macro sync started.
Stored(t) ==
  LET i == got[t].item
  IN  [Put(draft, i, [d \in Days |-> Inserted(draft.value[i][d], Answer(t, d))],
                     [d \in Days |-> Answer(t, d)])
         EXCEPT !.fresh = IF t \in PriceThreads \cup prompt THEN @ \cup {i} ELSE @ \ {i}]

\* What a price sync has committed when it goes on to its next item: nothing.
\* Mutated form: the timestamp at once.
Committed_stamp(t) ==
  [Put(db, got[t].item, db.value[got[t].item], [d \in Days |-> Answer(t, d)])
     EXCEPT !.fresh = @ \cup {got[t].item}]
Committed(t) == db

\* A macro sync commits each series, a price sync everything at its end.
StoreItem(t) ==
  /\ pc[t] = "store" /\ t \notin RateThreads /\ writer \in {NoOne, t}
  /\ draft' = Stored(t) /\ writer' = t /\ db' = Committed(t)
  /\ pc' = [pc EXCEPT ![t] = IF t \in PriceThreads /\ todo[t] # {} THEN "fetch" ELSE "commit"]
  /\ got' = [got EXCEPT ![t] = Nothing]
  /\ UNCHANGED <<todo, prompt, flights, today, starts, events>>

\* Five seconds behind another writer: "database is locked".
LockTimesOut(t) ==
  /\ pc[t] = "store" /\ t \notin RateThreads /\ writer \notin {NoOne, t}
  /\ Abort(t)

Without(answer, d) == [answer EXCEPT !.history = @ \ {d}]

\* A rate sync writes row by row; a row that cannot be written is left out.
StoreRate(t) ==
  /\ pc[t] = "store" /\ t \in RateThreads
  /\ \E d \in got[t].history :
       /\ got' = [got EXCEPT ![t] = Without(got[t], d)]
       /\ \/ /\ writer \in {NoOne, t} /\ writer' = t
             /\ draft' = Put(draft, got[t].item,
                             [draft.value[got[t].item] EXCEPT ![d] = Value(got[t], d)],
                             draft.answer[got[t].item])
          \/ /\ writer \notin {NoOne, t}
             /\ UNCHANGED <<writer, draft>>
  /\ UNCHANGED <<pc, todo, prompt, flights, db, today, starts, events>>

RateStored(t) ==
  /\ pc[t] = "store" /\ t \in RateThreads /\ got[t].history = {}
  /\ pc' = [pc EXCEPT ![t] = "commit"]
  /\ UNCHANGED <<todo, got, prompt, flights, db, draft, writer, today, starts, events>>

\* conn.commit().
Commit(t) ==
  /\ pc[t] = "commit"
  /\ db' = IF writer = t THEN draft ELSE db
  /\ writer' = IF writer = t THEN NoOne ELSE writer
  /\ IF todo[t] = {} THEN Return(t)
     ELSE /\ pc' = [pc EXCEPT ![t] = "fetch"]
          /\ got' = [got EXCEPT ![t] = Nothing]
          /\ UNCHANGED <<todo, prompt, flights>>
  /\ UNCHANGED <<draft, today, starts, events>>

-----------------------------------------------------------------------------
(* The user's requests, on the event loop, and the world. *)

\* A write of a request commits at once, or waits for the writer.
Edit(new) == /\ writer = NoOne
             /\ db' = new /\ draft' = new
             /\ events < MaxEvents /\ events' = events + 1
             /\ UNCHANGED <<threads, writer, today, starts>>

\* price_svc: a user's price is final; its day is unique to its code.
Kept(c, gone) == [d \in Days |-> IF d \in gone THEN "none" ELSE db.answer[c][d]]
CreatePrice ==
  \E c \in Codes, d \in Days :
    /\ db.value[c][d] = "none"
    /\ Edit(Put(db, c, [db.value[c] EXCEPT ![d] = "final"], db.answer[c]))
DeletePrice ==
  \E c \in Codes, d \in Days :
    /\ db.value[c][d] # "none"
    /\ Edit(Put(db, c, [db.value[c] EXCEPT ![d] = "none"], Kept(c, {d})))
UpdatePrice ==
  \E c \in Codes, from, d \in Days :
    /\ db.value[c][from] # "none" /\ (d = from \/ db.value[c][d] = "none")
    /\ Edit(Put(db, c, [db.value[c] EXCEPT ![from] = "none", ![d] = "final"],
                Kept(c, {from} \ {d})))

\* portfolio_assets: is_active and tracking_mode.
ToggleActive ==
  \E c \in Codes : Edit([db EXCEPT !.active = IF c \in @ THEN @ \ {c} ELSE @ \cup {c}])

NextDay ==
  /\ today < LastDay /\ today' = today + 1
  /\ db' = [db EXCEPT !.fresh = {}] /\ draft' = [draft EXCEPT !.fresh = {}]
  /\ prompt' = {}
  /\ UNCHANGED <<pc, todo, got, flights, writer, starts, events>>

\* The backend dies; a sync in a process of its own goes on.
Die ==
  LET down == Threads \ OwnProcess
  IN  /\ events < MaxEvents /\ events' = events + 1
      /\ pc' = [t \in Threads |-> IF t \in down THEN "idle" ELSE pc[t]]
      /\ todo' = [t \in Threads |-> IF t \in down THEN {} ELSE todo[t]]
      /\ got' = [t \in Threads |-> IF t \in down THEN Nothing ELSE got[t]]
      /\ prompt' = prompt \ down
      /\ flights' = flights \cap OwnProcess
      /\ draft' = IF writer \in down THEN db ELSE draft
      /\ writer' = IF writer \in down THEN NoOne ELSE writer
      /\ UNCHANGED <<db, today, starts>>

Init ==
  /\ pc = [t \in Threads |-> "idle"] /\ todo = [t \in Threads |-> {}]
  /\ got = [t \in Threads |-> Nothing]
  /\ prompt = {} /\ flights = {}
  /\ db = [value |-> [i \in Items |-> [d \in Days |-> "none"]], fresh |-> {},
           answer |-> [i \in Items |-> [d \in Days |-> "none"]], active |-> Codes]
  /\ draft = db /\ writer = NoOne
  /\ today = 1 /\ starts = 0 /\ events = 0

Step(t) == \/ FetchOk(t) \/ FetchFails(t) \/ FetchRaises(t)
           \/ StoreItem(t) \/ LockTimesOut(t) \/ StoreRate(t) \/ RateStored(t) \/ Commit(t)

Next == \/ \E t \in Threads : Start(t) \/ Busy(t) \/ Step(t)
        \/ CreatePrice \/ DeletePrice \/ UpdatePrice \/ ToggleActive
        \/ NextDay \/ Die

\* A thread that has started runs on: requests, sleeps and lock waits end by themselves.
Fairness == \A t \in Threads : WF_vars(Step(t))
Spec == Init /\ [][Next]_vars /\ Fairness

-----------------------------------------------------------------------------
Rows == [Items -> [Days -> {"none", "part", "final"}]]
Databases == [value : Rows, fresh : SUBSET Items, active : SUBSET Codes,
              answer : Rows]   \* history: what the fetch of the last timestamp returned

\* Every variable stays in range.
TypeOK ==
  /\ pc \in [Threads -> {"idle", "fetch", "store", "commit"}]
  /\ todo \in [Threads -> SUBSET Items]
  /\ got \in [Threads -> [item : Items, day : Days, history : SUBSET Days, price : BOOLEAN]]
  /\ prompt \subseteq Threads /\ flights \subseteq {"price", "macro"} \cup Threads
  /\ db \in Databases /\ draft \in Databases /\ writer \in Threads \cup {NoOne}
  /\ today \in Days /\ starts \in 0 .. MaxStarts /\ events \in 0 .. MaxEvents

\* Two runs under one lock never overlap, whatever became of the runs before: a run that
\* found the lock taken, raised, or died leaves it as it must be (_sync_lock).
OneFlight ==
  \A t, u \in Threads : Locks(t) /\ Locks(u) /\ Flight(t) = Flight(u) /\ t # u =>
    pc[t] = "idle" \/ pc[u] = "idle"

\* What the freshness skip passes over is there: every day the last successful fetch of a
\* fresh item returned is stored, unless the user took it away, although the run that
\* fetched it may have died or raised on a later item.
FreshIsStored ==
  \A i \in db.fresh, d \in Days : db.answer[i][d] # "none" => db.value[i][d] # "none"

\* A rate or macro sync never waits for the network with the database locked; a price
\* sync does, from its first answer to its commit.
NoLockOnNetwork ==
  \A t \in RateThreads \cup MacroThreads : pc[t] = "fetch" => writer # t

\* A lock that is taken is released, whichever way the run ends.
FlightsLand ==
  \A t \in PriceThreads \cup MacroThreads :
    Flight(t) \in flights ~> Flight(t) \notin flights

\* What doc/uc_8_system_initiated.md says of a price sync, that it upserts price and
\* history: where its last answer had the close of a day, the close is stored.
ClosesReplace ==
  \A c \in Codes, d \in Days : db.answer[c][d] = "final" => db.value[c][d] = "final"
=============================================================================
