-------------------------- MODULE PhoneEventsProofs --------------------------
(***************************************************************************)
(* Theorems about calls, SMS and pushes on their way to the server, for    *)
(* every value of the constants of PhoneEvents.                            *)
(***************************************************************************)
EXTENDS PhoneEvents, FiniteSetTheorems, WellFoundedInduction, TLAPS

(* What has its own provider on the phone, with ids of its own.            *)
Provided == {"call", "sms"}

Key == [device : Nat, stream : Streams, id : Nat, hash : Nat]
QueueRow == [key : Key, what : Events, st : {"PENDING", "DONE", "FAILED_PERMANENT"}]
ProviderRow == [id : Nat \ {0}, what : Events]
Request == [rows : SUBSET QueueRow, code : Nat, wanted : BOOLEAN]
Worker == [at : 0..8, authFailed : BOOLEAN, seen : [call : Nat, sms : Nat], ok : SUBSET Streams, batch : SUBSET QueueRow]

TypesInv ==
  /\ world \in Worlds
  /\ provider \in [call : SUBSET ProviderRow, sms : SUBSET ProviderRow]
  /\ nextId \in [call : Nat \ {0}, sms : Nat \ {0}]
  /\ queue \subseteq QueueRow
  /\ mark \in [call : Nat, sms : Nat]
  /\ device \in Nat
  /\ worker \in Worker /\ latch \in BOOLEAN
  /\ req \in [Requests -> {NoReq} \union Request]
  /\ keys \subseteq Key /\ copies \in [Events -> Nat] /\ rejected \subseteq Events
  /\ wipes \in Nat

(* A row is keyed by its event: the stream is the event's, and the content *)
(* is part of the key unless the provider's id stands for it.              *)
Keyed(q) ==
  /\ q.key.stream = world.stream[q.what]
  /\ q.key.hash = IF q.key.stream = "call" THEN 0 ELSE q.what
(* A provider's rows are numbered once each, below the next number.        *)
ProviderInv ==
  \A k \in Provided : \A p \in provider[k] :
    /\ world.stream[p.what] = k
    /\ p.id < nextId[k]
    /\ \A q \in provider[k] : p.id = q.id => p = q
QueueInv ==
  /\ \A q \in queue : Keyed(q) /\ q.key.device = device
  /\ \A p, q \in queue : p.key = q.key => p = q

(* A batch was queued under one device id and nothing of it was settled.   *)
OneBatch(rows) ==
  \E d \in Nat : \A q \in rows : Keyed(q) /\ q.key.device = d /\ q.st = "PENDING"
BatchesInv == \A r \in Requests : req[r] # NoReq => OneBatch(req[r].rows)

(* The worker waits for one answer at a time, for the batch it holds.      *)
WaitInv ==
  /\ \A r, s \in waiting : r = s
  /\ \A r \in waiting : req[r].rows = worker.batch
  /\ waiting # {} => worker.at \in 3..5 /\ worker.batch # {}

Inv == TypesInv /\ ProviderInv /\ QueueInv /\ BatchesInv /\ WaitInv /\ EventOnce

-----------------------------------------------------------------------------
LEMMA WorldIsTyped ==
  ASSUME TypesInv
  PROVE  /\ world.stream \in [Events -> Streams]
         /\ world.refused \subseteq Events
         /\ world.wipes \in Nat
  BY EventsAssumption DEF TypesInv

LEMMA IdleIsTyped == idle \in Worker
  BY DEF idle, Worker

LEMMA InitInv == Init => Inv
<1> SUFFICES ASSUME Init PROVE Inv
  OBVIOUS
<1>1. TypesInv
  <2>1. worker \in Worker /\ latch \in BOOLEAN
    BY IdleIsTyped DEF Init
  <2> QED
    BY <2>1 DEF Init, TypesInv
<1>2. waiting = {}
  BY DEF Init, waiting
<1>3. ProviderInv /\ QueueInv /\ BatchesInv /\ WaitInv
  BY <1>2 DEF Init, ProviderInv, QueueInv, BatchesInv, WaitInv, Provided
<1>4. EventOnce
  BY DEF Init, EventOnce
<1> QED
  BY <1>1, <1>3, <1>4 DEF Inv

(* Queue rows that keep their keys stay as they were keyed.                *)
LEMMA SettledQueue ==
  ASSUME Inv, NEW rows, NEW st \in {"PENDING", "DONE", "FAILED_PERMANENT"}
  PROVE  /\ settle(rows, st) \subseteq QueueRow
         /\ \A q \in settle(rows, st) : Keyed(q) /\ q.key.device = device
         /\ \A p, q \in settle(rows, st) : p.key = q.key => p = q
<1> DEFINE new(q) == IF q \in rows THEN [q EXCEPT !.st = st] ELSE q
<1>1. \A q \in queue : /\ new(q) \in QueueRow
                       /\ new(q).key = q.key /\ new(q).what = q.what
  BY DEF Inv, TypesInv, QueueRow
<1>2. settle(rows, st) = {new(q) : q \in queue}
  BY DEF settle
<1> HIDE DEF new
<1>3. \A q \in queue : Keyed(new(q)) /\ new(q).key.device = device
  BY <1>1 DEF Inv, QueueInv, Keyed
<1>4. \A p, q \in queue : new(p).key = new(q).key => new(p) = new(q)
  BY <1>1 DEF Inv, QueueInv
<1> QED
  BY <1>1, <1>2, <1>3, <1>4

(* New rows keyed under this device join the queue.                        *)
LEMMA QueueGrows ==
  ASSUME Inv, NEW rows \in SUBSET QueueRow,
         \A q \in rows : Keyed(q) /\ q.key.device = device,
         \A p, q \in rows : p.key = q.key => p = q
  PROVE  /\ insertIgnore(rows) \subseteq QueueRow
         /\ \A q \in insertIgnore(rows) : Keyed(q) /\ q.key.device = device
         /\ \A p, q \in insertIgnore(rows) : p.key = q.key => p = q
<1>1. \A q \in insertIgnore(rows) :
        q \in queue \/ (q \in rows /\ \A p \in queue : p.key # q.key)
  BY DEF insertIgnore
<1> QED
  BY <1>1 DEF Inv, TypesInv, QueueInv

(* Steps that change neither the queue nor the server.                     *)
LEMMA QuietInv ==
  ASSUME Inv, UNCHANGED <<world, queue, device, server_vars>>,
         TypesInv', ProviderInv', BatchesInv', WaitInv'
  PROVE  Inv'
  BY DEF Inv, QueueInv, EventOnce, server_vars, Keyed

(* The posts are the third to the fifth of the eight stages.               *)
LEMMA StagesInOrder ==
  /\ Len(Stages) = 8
  /\ \A i \in 1..8, k \in Streams : Stages[i] = <<"post", k>> => i \in 3..5
  /\ \A i \in 3..5, s \in {"harvest", "mark", "prune"} : \A k : Stages[i] # <<s, k>>
<1>1. /\ Stages[1] = <<"harvest", "call">> /\ Stages[2] = <<"harvest", "sms">>
      /\ Stages[3] = <<"post", "call">> /\ Stages[4] = <<"post", "sms">> /\ Stages[5] = <<"post", "push">>
      /\ Stages[6] = <<"mark", "call">> /\ Stages[7] = <<"mark", "sms">> /\ Stages[8] = <<"prune", "all">>
  BY DEF Stages
<1>2. Len(Stages) = 8
  BY DEF Stages
<1>3. \A i \in 1..8, k \in Streams : Stages[i] = <<"post", k>> => i \in 3..5
  <2> SUFFICES ASSUME NEW i \in {1, 2, 6, 7, 8}, NEW k, Stages[i] = <<"post", k>> PROVE FALSE
    OBVIOUS
  <2> QED
    BY <1>1
<1>4. \A i \in 3..5, s \in {"harvest", "mark", "prune"} : \A k : Stages[i] # <<s, k>>
  <2> SUFFICES ASSUME NEW i \in {3, 4, 5}, NEW s \in {"harvest", "mark", "prune"}, NEW k
               PROVE  Stages[i] # <<s, k>>
    OBVIOUS
  <2> QED
    BY <1>1
<1> QED
  BY <1>2, <1>3, <1>4

LEMMA NextIsTyped ==
  ASSUME NEW w \in Worker
  PROVE  /\ next(w) \in Worker /\ next(w).batch = w.batch /\ next(w).seen = w.seen
         /\ next(w).ok = w.ok
<1>1. (IF w.at = Len(Stages) THEN 0 ELSE w.at + 1) \in 0..8
  BY StagesInOrder DEF Worker
<1> QED
  BY <1>1 DEF next, Worker

(* A run starts as it idled, but for what it read.                         *)
LEMMA StartIsTyped ==
  ASSUME TypesInv, doWork
  PROVE  worker' \in Worker /\ worker'.seen = idle.seen
<1>1. worker' = [at |-> 1, authFailed |-> latch, seen |-> [call |-> 0, sms |-> 0], ok |-> {}, batch |-> {}]
  BY DEF idle, doWork
<1>2. latch \in BOOLEAN
  BY DEF TypesInv
<1>3. worker'.seen = idle.seen
  BY <1>1 DEF idle
<1> QED
  BY <1>1, <1>2, <1>3 DEF Worker

(* Nothing is waited for unless a batch is being posted.                   *)
LEMMA NotPosting ==
  ASSUME Inv, worker.at = 0 \/ \E s \in {"harvest", "mark", "prune"} : \E k : Stage(s, k)
  PROVE  waiting = {}
<1> SUFFICES ASSUME waiting # {} PROVE FALSE
  OBVIOUS
<1>1. worker.at \in 3..5 /\ worker.at # 0
  BY DEF Inv, WaitInv
<1> QED
  BY <1>1, StagesInOrder, Zenon DEF Stage

LEMMA NothingAskedInv ==
  ASSUME Inv, UNCHANGED <<world, req>>, waiting = {} \/ UNCHANGED worker
  PROVE  BatchesInv' /\ WaitInv'
<1>1. waiting' = waiting
  BY DEF waiting
<1> QED
  BY <1>1 DEF Inv, BatchesInv, OneBatch, Keyed, WaitInv

-----------------------------------------------------------------------------
(* The phone *)

LEMMA HappensInv ==
  ASSUME Inv, NEW m \in Events, Happens(m)
  PROVE  Inv'
<1> DEFINE k == world.stream[m]
<1>1. BatchesInv' /\ WaitInv'
  BY NothingAskedInv DEF Happens
<1>2. EventOnce'
  BY DEF Happens, server_vars, Inv, EventOnce
<1>3. CASE k \in Provided /\ provider' = [provider EXCEPT ![k] = @ \union {[id |-> nextId[k], what |-> m]}]
           /\ nextId' = [nextId EXCEPT ![k] = @ + 1] /\ UNCHANGED queue
  <2> DEFINE n == [id |-> nextId[k], what |-> m]
  <2>1. n \in ProviderRow /\ n.id = nextId[k] /\ n.what = m /\ nextId[k] \in Nat
    BY <1>3 DEF Inv, TypesInv, ProviderRow, Provided
  <2> HIDE DEF n
  <2>2. provider' \in [call : SUBSET ProviderRow, sms : SUBSET ProviderRow]
        /\ nextId' \in [call : Nat \ {0}, sms : Nat \ {0}]
    BY <1>3, <2>1 DEF Inv, TypesInv, Provided, n
  <2>3. \A c \in Provided : /\ provider'[c] = IF c = k THEN provider[c] \union {n} ELSE provider[c]
                            /\ nextId'[c] = IF c = k THEN nextId[c] + 1 ELSE nextId[c]
    BY <1>3 DEF Inv, TypesInv, Provided, n
  <2>4. \A c \in Provided : provider[c] \subseteq ProviderRow /\ nextId[c] \in Nat
    BY DEF Inv, TypesInv, Provided
  <2>5. ProviderInv'
    <3> SUFFICES ASSUME NEW c \in Provided, NEW p \in provider'[c]
                 PROVE  /\ world.stream[p.what] = c /\ p.id < nextId'[c]
                        /\ \A q \in provider'[c] : p.id = q.id => p = q
      BY DEF ProviderInv, Happens
    <3>1. \A q \in provider[c] : q.id \in Nat /\ q.id < nextId[c] /\ world.stream[q.what] = c
                                /\ \A o \in provider[c] : q.id = o.id => q = o
      BY <2>4 DEF Inv, ProviderInv, ProviderRow
    <3>2. CASE c # k
      BY <2>3, <3>1, <3>2
    <3>3. CASE c = k
      <4>1. p \in provider[k] \/ p = n
        BY <2>3, <3>3
      <4>2. \A q \in provider[k] : q.id < n.id /\ q.id # n.id
        BY <2>1, <2>4, <3>1, <3>3
      <4>3. p.id < nextId[k] + 1 /\ world.stream[p.what] = k
        BY <2>1, <2>4, <3>1, <3>3, <4>1
      <4>4. \A q \in provider[k] \union {n} : p.id = q.id => p = q
        BY <3>1, <3>3, <4>1, <4>2
      <4> QED
        BY <2>3, <3>3, <4>3, <4>4
    <3> QED
      BY <3>2, <3>3
  <2>6. TypesInv'
    BY <1>3, <2>2 DEF Happens, server_vars, bounds, Inv, TypesInv
  <2>7. QueueInv'
    BY <1>3 DEF Happens, Inv, QueueInv, Keyed
  <2> QED
    BY <1>1, <1>2, <2>5, <2>6, <2>7 DEF Inv
<1>4. CASE k = "push" /\ queue' = insertIgnore({pending_row("push", 0, m)})
           /\ UNCHANGED <<provider, nextId>>
  <2> DEFINE n == pending_row("push", 0, m)
  <2>1. n \in QueueRow /\ Keyed(n) /\ n.key.device = device
    BY <1>4, EventsAssumption
       DEF Inv, TypesInv, QueueRow, Key, Streams, Keyed, pending_row, event_key
  <2> HIDE DEF n
  <2>2. /\ queue' \subseteq QueueRow
        /\ \A q \in queue' : Keyed(q) /\ q.key.device = device
        /\ \A p, q \in queue' : p.key = q.key => p = q
    BY <1>4, <2>1, QueueGrows DEF n
  <2>3. QueueInv'
    BY <2>2 DEF Happens, QueueInv, Keyed
  <2>4. TypesInv' /\ ProviderInv'
    BY <1>4, <2>2 DEF Happens, server_vars, bounds, Inv, TypesInv, ProviderInv
  <2> QED
    BY <1>1, <1>2, <2>3, <2>4 DEF Inv
<1> QED
  BY <1>3, <1>4 DEF Happens, Provided

LEMMA RestoreInv ==
  ASSUME Inv, NEW o \in provider.sms, Restore(o)
  PROVE  Inv'
<1> DEFINE n == [id |-> nextId.sms, what |-> o.what]
<1>1. /\ n \in ProviderRow /\ n.id = nextId.sms /\ nextId.sms \in Nat
      /\ world.stream[n.what] = "sms"
  BY DEF Inv, TypesInv, ProviderInv, ProviderRow, Provided
<1>2. /\ provider' = [provider EXCEPT !.sms = @ \union {n}]
      /\ nextId' = [nextId EXCEPT !.sms = @ + 1]
  BY DEF Restore
<1> HIDE DEF n
<1>3. provider' \in [call : SUBSET ProviderRow, sms : SUBSET ProviderRow]
      /\ nextId' \in [call : Nat \ {0}, sms : Nat \ {0}]
  BY <1>1, <1>2 DEF Inv, TypesInv
<1>4. /\ provider'.call = provider.call /\ nextId'.call = nextId.call
      /\ provider'.sms = provider.sms \union {n} /\ nextId'.sms = nextId.sms + 1
  BY <1>2 DEF Inv, TypesInv
<1>5. provider.sms \subseteq ProviderRow /\ \A q \in provider.sms : q.id < n.id /\ q.id # n.id
  BY <1>1 DEF Inv, TypesInv, ProviderInv, Provided, ProviderRow
<1>6. ProviderInv'
  <2>1. \A p \in provider'.call : /\ world.stream[p.what] = "call" /\ p.id < nextId'.call
                                 /\ \A q \in provider'.call : p.id = q.id => p = q
    BY <1>4 DEF Inv, ProviderInv, Provided
  <2>2. ASSUME NEW p \in provider'.sms
        PROVE  /\ world.stream[p.what] = "sms" /\ p.id < nextId'.sms
               /\ \A q \in provider'.sms : p.id = q.id => p = q
    <3>1. p \in provider.sms => world.stream[p.what] = "sms" /\ p.id < nextId.sms /\ p.id \in Nat
                                /\ \A q \in provider.sms : p.id = q.id => p = q
      BY <1>5 DEF Inv, ProviderInv, Provided, ProviderRow
    <3> QED
      BY <1>1, <1>4, <1>5, <3>1
  <2> QED
    BY <2>1, <2>2 DEF ProviderInv, Provided, Restore
<1>7. TypesInv'
  BY <1>3 DEF Restore, phone_vars, server_vars, Inv, TypesInv
<1>8. UNCHANGED <<world, queue, device, req, worker, server_vars>>
  BY DEF Restore, phone_vars
<1> QED
  BY <1>6, <1>7, <1>8, NothingAskedInv, QuietInv

LEMMA WipeInv ==
  ASSUME Inv, NEW k \in Provided, Wipe(k)
  PROVE  Inv'
<1>1. TypesInv'
  BY DEF Wipe, phone_vars, server_vars, Inv, TypesInv, Provided
<1>2. \A c \in Provided : provider'[c] = {} \/ (provider'[c] = provider[c] /\ nextId'[c] = nextId[c])
  BY DEF Wipe, Inv, TypesInv, Provided
<1>3. ProviderInv'
  BY <1>2 DEF Wipe, Inv, ProviderInv
<1>4. UNCHANGED <<world, queue, device, req, worker, server_vars>>
  BY DEF Wipe, phone_vars
<1> QED
  BY <1>1, <1>3, <1>4, NothingAskedInv, QuietInv

LEMMA DoWorkInv == Inv /\ doWork => Inv'
<1> SUFFICES ASSUME Inv, doWork PROVE Inv'
  OBVIOUS
<1>1. TypesInv' /\ ProviderInv'
  <2>1. worker' \in Worker
    BY StartIsTyped DEF Inv
  <2> QED
    BY <2>1 DEF doWork, outside, server_vars, bounds, Inv, TypesInv, ProviderInv
<1>2. UNCHANGED <<world, queue, device, req, server_vars>>
  BY DEF doWork, outside
<1>3. waiting = {}
  BY NotPosting DEF doWork
<1> QED
  BY <1>1, <1>2, <1>3, NothingAskedInv, QuietInv

(* The worker moves on and nothing else of the phone but the queue does.   *)
LEMMA HarvestInv ==
  ASSUME Inv, NEW k \in Provided, harvest(k)
  PROVE  Inv'
<1>1. waiting = {}
  BY NotPosting DEF harvest
<1>2. \A p \in provider[k] : p \in ProviderRow /\ p.id \in Nat
  BY DEF Inv, TypesInv, Provided, ProviderRow
<1>3. UNCHANGED <<world, device, req, provider, nextId, mark, latch, keys, copies, rejected, wipes>>
  BY DEF harvest, outside, server_vars
<1>4. worker' \in Worker
  <2>1. ASSUME NEW top \in Nat
        PROVE  next([worker EXCEPT !.seen[k] = top]) \in Worker
    <3>1. [worker EXCEPT !.seen[k] = top] \in Worker
      BY DEF Inv, TypesInv, Worker, Provided
    <3> QED
      BY <3>1, NextIsTyped
  <2>2. mark[k] \in Nat /\ \A p \in since(k) : p.id \in Nat
    BY <1>2 DEF Inv, TypesInv, Provided, since
  <2> QED
    BY <2>1, <2>2 DEF harvest
<1>5. /\ queue' \subseteq QueueRow
      /\ \A q \in queue' : Keyed(q) /\ q.key.device = device
      /\ \A p, q \in queue' : p.key = q.key => p = q
  <2>1. CASE queue' = queue
    BY <2>1 DEF Inv, TypesInv, QueueInv
  <2>2. CASE queue' = insertIgnore({pending_row(k, p.id, p.what) :
                                     p \in {q \in since(k) : q.what \notin world.filtered}})
    <3> DEFINE rows == {pending_row(k, p.id, p.what) : p \in {q \in since(k) : q.what \notin world.filtered}}
    <3>1. \A p \in provider[k] :
            LET n == pending_row(k, p.id, p.what) IN
            /\ n \in QueueRow /\ Keyed(n) /\ n.key.device = device /\ n.key.id = p.id
      <4> SUFFICES ASSUME NEW p \in provider[k]
                   PROVE  LET n == pending_row(k, p.id, p.what) IN
                          /\ n \in QueueRow /\ Keyed(n) /\ n.key.device = device /\ n.key.id = p.id
        OBVIOUS
      <4>1. p.id \in Nat /\ p.what \in Events /\ p.what \in Nat /\ world.stream[p.what] = k
        BY <1>2, EventsAssumption DEF ProviderRow, Inv, ProviderInv
      <4> QED
        BY <4>1 DEF Inv, TypesInv, QueueRow, Key, Streams, Provided, Keyed, pending_row, event_key
    <3>2. \A n \in rows : \E p \in provider[k] : n = pending_row(k, p.id, p.what)
      BY DEF since
    <3> HIDE DEF rows
    <3>3. rows \in SUBSET QueueRow /\ \A n \in rows : Keyed(n) /\ n.key.device = device
      BY <3>1, <3>2
    <3>4. \A m, n \in rows : m.key = n.key => m = n
      BY <3>1, <3>2 DEF Inv, ProviderInv
    <3> QED
      BY <2>2, <3>3, <3>4, QueueGrows DEF rows
  <2> QED
    BY <2>1, <2>2 DEF harvest
<1>6. TypesInv' /\ ProviderInv'
  BY <1>3, <1>4, <1>5 DEF Inv, TypesInv, ProviderInv
<1>7. QueueInv' /\ EventOnce'
  BY <1>3, <1>5 DEF QueueInv, Keyed, Inv, EventOnce
<1> QED
  BY <1>1, <1>3, <1>6, <1>7, NothingAskedInv DEF Inv

LEMMA SetLastInv ==
  ASSUME Inv, NEW k \in Provided, setLast(k)
  PROVE  Inv'
<1>1. waiting = {}
  BY NotPosting DEF setLast
<1>2. worker' \in Worker
  BY NextIsTyped DEF setLast, Inv, TypesInv
<1>3. mark' \in [call : Nat, sms : Nat]
  BY DEF setLast, Inv, TypesInv, Worker, Provided
<1>4. TypesInv' /\ ProviderInv'
  BY <1>2, <1>3 DEF setLast, outside, server_vars, bounds, Inv, TypesInv, ProviderInv
<1> QED
  BY <1>1, <1>4, NothingAskedInv, QuietInv DEF setLast, outside

LEMMA PruneInv == Inv /\ pruneDoneBefore => Inv'
<1> SUFFICES ASSUME Inv, pruneDoneBefore PROVE Inv'
  OBVIOUS
<1>1. waiting = {}
  BY NotPosting DEF pruneDoneBefore
<1>2. queue' \subseteq queue
  BY DEF pruneDoneBefore
<1>3. TypesInv' /\ ProviderInv'
  BY <1>2, IdleIsTyped DEF pruneDoneBefore, outside, server_vars, bounds, Inv, TypesInv, ProviderInv
<1>4. QueueInv' /\ EventOnce'
  BY <1>2 DEF pruneDoneBefore, outside, server_vars, Inv, QueueInv, Keyed, EventOnce
<1> QED
  BY <1>1, <1>3, <1>4, NothingAskedInv DEF pruneDoneBefore, outside, Inv

LEMMA SaveServerInv == Inv /\ saveServer => Inv'
<1> SUFFICES ASSUME Inv, saveServer PROVE Inv'
  OBVIOUS
<1>1. TypesInv' /\ ProviderInv'
  BY DEF saveServer, outside, server_vars, bounds, Inv, TypesInv, ProviderInv
<1> QED
  BY <1>1, NothingAskedInv, QuietInv DEF saveServer, outside

LEMMA PostPendingInv ==
  ASSUME Inv, NEW k \in Streams, postPending(k)
  PROVE  Inv'
<1>1. /\ worker.at \in 3..5 /\ waiting = {}
  BY StagesInOrder DEF postPending, Stage, Inv, TypesInv, Worker, WaitInv
<1>2. UNCHANGED <<outside, queue, mark, latch, device, server_vars, wipes>>
  BY DEF postPending, bounds
<1>3. ProviderInv' /\ QueueInv' /\ EventOnce'
  BY <1>2 DEF outside, server_vars, Inv, ProviderInv, QueueInv, Keyed, EventOnce
<1>4. CASE UNCHANGED req /\ worker' \in {idle, next([worker EXCEPT !.ok = @ \union {k}])}
  <2>1. [worker EXCEPT !.ok = @ \union {k}] \in Worker
    BY DEF Inv, TypesInv, Worker
  <2>2. worker' \in Worker
    BY <1>4, <2>1, IdleIsTyped, NextIsTyped
  <2>3. TypesInv'
    BY <1>2, <1>4, <2>2 DEF outside, server_vars, Inv, TypesInv
  <2> QED
    BY <1>1, <1>2, <1>3, <1>4, <2>3, NothingAskedInv DEF outside, Inv
<1>5. ASSUME NEW r \in Requests, nextBatch(k) # {}, worker' = [worker EXCEPT !.batch = nextBatch(k)],
             req' = [req EXCEPT ![r] = [rows |-> nextBatch(k), code |-> 0, wanted |-> TRUE]]
      PROVE  Inv'
  <2> DEFINE n == [rows |-> nextBatch(k), code |-> 0, wanted |-> TRUE]
  <2>1. nextBatch(k) \subseteq queue /\ \A q \in nextBatch(k) : q.st = "PENDING"
    BY DEF nextBatch, rows_in
  <2>2. n \in Request /\ n.rows = nextBatch(k)
    BY <2>1 DEF Request, Inv, TypesInv
  <2> HIDE DEF n
  <2>3. /\ worker' \in Worker /\ worker'.batch = nextBatch(k) /\ worker'.at = worker.at
    BY <1>5, <2>1 DEF Inv, TypesInv, Worker
  <2>4. /\ req' \in [Requests -> {NoReq} \union Request]
        /\ \A s \in Requests : req'[s] = IF s = r THEN n ELSE req[s]
    BY <1>5, <2>2 DEF Inv, TypesInv, n
  <2>5. TypesInv'
    BY <1>2, <2>3, <2>4 DEF outside, server_vars, Inv, TypesInv
  <2>6. OneBatch(nextBatch(k))
    BY <2>1 DEF OneBatch, Inv, QueueInv, TypesInv
  <2>7. \A s \in Requests : req'[s] # NoReq => OneBatch(req'[s].rows)
    BY <2>2, <2>4, <2>6 DEF Inv, BatchesInv
  <2>8. BatchesInv'
    BY <1>2, <2>7 DEF outside, BatchesInv, OneBatch, Keyed
  <2>9. waiting' \subseteq {r}
    BY <1>1, <2>4 DEF waiting
  <2>10. WaitInv'
    BY <1>1, <1>5, <2>2, <2>3, <2>4, <2>9 DEF WaitInv
  <2> QED
    BY <1>3, <2>5, <2>8, <2>10 DEF Inv
<1> QED
  BY <1>4, <1>5 DEF postPending

-----------------------------------------------------------------------------
(* Answers and ends *)

(* Batches that nobody waits for any more.                                 *)
LEMMA HungUpInv ==
  ASSUME Inv, UNCHANGED world, req' = hung_up(waiting) \/ req' = [r \in Requests |-> NoReq]
  PROVE  /\ req' \in [Requests -> {NoReq} \union Request]
         /\ BatchesInv' /\ WaitInv' /\ waiting' = {}
<1>1. \A r \in Requests : /\ req'[r] \in {NoReq} \union Request
                          /\ req'[r] # NoReq => req[r] # NoReq /\ req'[r].rows = req[r].rows
                          /\ req'[r] = NoReq \/ ~req'[r].wanted
  <2>1. \A r \in Requests : req[r] # NoReq => req[r] \in Request
    BY DEF Inv, TypesInv
  <2>2. \A q \in Request : LET h == [q EXCEPT !.wanted = FALSE] IN
          h \in Request /\ h.rows = q.rows /\ ~h.wanted
    BY DEF Request
  <2>3. \A r \in Requests : r \notin waiting => req[r] = NoReq \/ ~req[r].wanted
    BY DEF waiting
  <2> QED
    BY <2>1, <2>2, <2>3 DEF hung_up
<1>2. req' \in [Requests -> {NoReq} \union Request]
  BY <1>1 DEF hung_up
<1>3. waiting' = {}
  BY <1>1 DEF waiting
<1>4. BatchesInv'
  BY <1>1 DEF Inv, BatchesInv, OneBatch, Keyed
<1> QED
  BY <1>2, <1>3, <1>4 DEF WaitInv

LEMMA GivesUpIsTyped ==
  ASSUME Inv
  PROVE  gives_up(worker) \in Worker /\ gives_up(worker).seen = worker.seen /\ gives_up(worker).batch = {}
<1>1. LET w == [worker EXCEPT !.batch = {}] IN w \in Worker /\ w.seen = worker.seen /\ w.batch = {}
  BY DEF Inv, TypesInv, Worker
<1> QED
  BY <1>1, NextIsTyped DEF gives_up

LEMMA EndsInv ==
  ASSUME Inv, ConnectionLost \/ ServerDies \/ PhoneDies
  PROVE  Inv'
<1>1. UNCHANGED <<outside, queue, mark, latch, device, server_vars, wipes>>
  BY DEF ConnectionLost, ServerDies, PhoneDies
<1>2. worker' \in Worker
  BY IdleIsTyped, GivesUpIsTyped DEF ConnectionLost, ServerDies, PhoneDies, Inv, TypesInv
<1>3. /\ req' \in [Requests -> {NoReq} \union Request]
      /\ BatchesInv' /\ WaitInv'
  BY <1>1, HungUpInv DEF outside, ConnectionLost, ServerDies, PhoneDies
<1>4. TypesInv'
  BY <1>1, <1>2, <1>3 DEF outside, server_vars, Inv, TypesInv
<1>5. ProviderInv' /\ QueueInv' /\ EventOnce'
  BY <1>1 DEF outside, server_vars, Inv, ProviderInv, QueueInv, Keyed, EventOnce
<1> QED
  BY <1>3, <1>4, <1>5 DEF Inv

LEMMA ReinstallInv == Inv /\ Reinstall => Inv'
<1> SUFFICES ASSUME Inv, Reinstall PROVE Inv'
  OBVIOUS
<1>1. UNCHANGED <<outside, server_vars, wipes>> /\ queue' = {} /\ worker' = idle
  BY DEF Reinstall, bounds
<1>2. /\ req' \in [Requests -> {NoReq} \union Request]
      /\ BatchesInv' /\ WaitInv'
  BY <1>1, HungUpInv DEF outside, Reinstall
<1>3. TypesInv'
  <2>1. worker' \in Worker /\ latch' \in BOOLEAN
    BY <1>1, IdleIsTyped DEF Reinstall
  <2> QED
    BY <1>1, <1>2, <2>1 DEF Reinstall, outside, server_vars, Inv, TypesInv
<1>4. ProviderInv' /\ QueueInv' /\ EventOnce'
  BY <1>1 DEF outside, server_vars, Inv, ProviderInv, QueueInv, EventOnce
<1> QED
  BY <1>2, <1>3, <1>4 DEF Inv

LEMMA OutcomeInv ==
  ASSUME Inv, NEW r \in Requests, outcome(r)
  PROVE  Inv'
<1>1. r \in waiting /\ waiting \subseteq {r}
  BY DEF outcome, waiting, Inv, WaitInv
<1>2. UNCHANGED <<outside, mark, device, server_vars, wipes>> /\ req' = [req EXCEPT ![r] = NoReq]
  BY DEF outcome, bounds
<1>3. worker' \in Worker /\ latch' \in BOOLEAN
  <2>1. [worker EXCEPT !.batch = {}] \in Worker
    BY DEF Inv, TypesInv, Worker
  <2>2. latch' \in {TRUE, latch} /\ worker' \in {[worker EXCEPT !.batch = {}], gives_up(worker)}
    BY DEF outcome
  <2> QED
    BY <2>1, <2>2, GivesUpIsTyped DEF Inv, TypesInv
<1>4. queue' = queue \/ \E st \in {"PENDING", "DONE", "FAILED_PERMANENT"} : queue' = settle(worker.batch, st)
  BY DEF outcome
<1>5. queue' \subseteq QueueRow /\ QueueInv'
  BY <1>2, <1>4, SettledQueue DEF outside, QueueInv, Keyed, Inv, TypesInv
<1>6. /\ req' \in [Requests -> {NoReq} \union Request]
      /\ \A s \in Requests : req'[s] = IF s = r THEN NoReq ELSE req[s]
  BY <1>2 DEF Inv, TypesInv
<1>7. TypesInv'
  BY <1>2, <1>3, <1>5, <1>6 DEF outside, server_vars, Inv, TypesInv
<1>8. BatchesInv'
  BY <1>2, <1>6 DEF outside, Inv, BatchesInv, OneBatch, Keyed
<1>9. waiting' = {}
  BY <1>1, <1>6 DEF waiting
<1>10. WaitInv'
  BY <1>9 DEF WaitInv
<1>11. ProviderInv' /\ EventOnce'
  BY <1>2 DEF outside, server_vars, Inv, ProviderInv, EventOnce
<1> QED
  BY <1>5, <1>7, <1>8, <1>10, <1>11 DEF Inv

-----------------------------------------------------------------------------
(* The server *)

LEMMA AtMostOne ==
  ASSUME NEW S, \A p, q \in S : p = q
  PROVE  Cardinality(S) = IF S = {} THEN 0 ELSE 1
<1>1. CASE S = {}
  BY <1>1, FS_EmptySet
<1>2. CASE S # {}
  <2>1. PICK x : S = {x}
    BY <1>2
  <2> QED
    BY <1>2, <2>1, FS_Singleton
<1> QED
  BY <1>1, <1>2

(* Of a batch at most one row of an event is taken, and none of an event   *)
(* there is an interaction of.                                             *)
LEMMA AcceptedOnce ==
  ASSUME Inv, NEW r \in Requests, req[r] # NoReq, NEW m \in Events
  PROVE  LET taken == {q \in accepted(req[r].rows) : q.what = m} IN
         /\ Cardinality(taken) = IF taken = {} THEN 0 ELSE 1
         /\ copies[m] > 0 => taken = {}
<1> DEFINE rows == req[r].rows
           taken == {q \in accepted(rows) : q.what = m}
<1>1. rows \subseteq QueueRow /\ OneBatch(rows)
  BY DEF Inv, TypesInv, Request, BatchesInv
<1>2. PICK d \in Nat : \A q \in rows : Keyed(q) /\ q.key.device = d /\ q.st = "PENDING"
  BY <1>1 DEF OneBatch
<1>3. ASSUME NEW p \in taken, NEW q \in taken
      PROVE  p = q
  <2>1. p \in rows /\ q \in rows /\ p.what = m /\ q.what = m
    BY DEF accepted
  <2>2. p.key \in Key /\ q.key \in Key /\ p \in QueueRow /\ q \in QueueRow
    BY <1>1, <2>1 DEF QueueRow
  <2>3. p.key.id <= q.key.id /\ q.key.id <= p.key.id
    BY <1>3, <2>1 DEF accepted
  <2>4. p.key.id = q.key.id
    BY <2>2, <2>3 DEF Key
  <2>5. p.key = q.key
    BY <1>2, <2>1, <2>2, <2>4 DEF Key, Keyed
  <2> QED
    BY <1>2, <2>1, <2>2, <2>5 DEF QueueRow
<1>4. copies[m] > 0 => taken = {}
  BY DEF accepted, duplicate
<1> QED
  BY <1>3, <1>4, AtMostOne, Zenon

LEMMA IngestInv ==
  ASSUME Inv, NEW r \in Requests, ingest_batch(r)
  PROVE  Inv'
<1> DEFINE rows == req[r].rows
<1>1. req[r] \in Request /\ req[r] # NoReq
  BY DEF ingest_batch, Inv, TypesInv
<1>2. UNCHANGED <<outside, phone_vars, wipes>>
  BY DEF ingest_batch, bounds
<1>3. \A c \in Nat : answered(r, c) = NoReq
                      \/ /\ answered(r, c) \in Request /\ answered(r, c).rows = rows
                         /\ req[r].wanted
  BY <1>1 DEF answered, Request
<1>4. PICK c \in {200, 401, 422} : req' = [req EXCEPT ![r] = answered(r, c)]
  BY DEF ingest_batch
<1>5. /\ req' \in [Requests -> {NoReq} \union Request]
      /\ \A s \in Requests : s # r => req'[s] = req[s]
      /\ req'[r] = NoReq \/ (req'[r].rows = rows /\ req[r].wanted)
  BY <1>3, <1>4 DEF Inv, TypesInv
<1>6. keys' \subseteq Key /\ copies' \in [Events -> Nat] /\ rejected' \subseteq Events /\ EventOnce'
  <2>1. CASE UNCHANGED server_vars
    BY <2>1 DEF server_vars, Inv, TypesInv, EventOnce
  <2>2. CASE /\ keys' = keys \union {q.key : q \in accepted(rows)}
             /\ copies' = [m \in Events |-> copies[m] + Cardinality({q \in accepted(rows) : q.what = m})]
             /\ rejected' = rejected \union ({q.what : q \in rows} \cap world.refused)
    <3>1. accepted(rows) \subseteq QueueRow
      BY <1>1 DEF accepted, Request
    <3>2. keys' \subseteq Key /\ rejected' \subseteq Events
      BY <2>2, <3>1, WorldIsTyped DEF QueueRow, Inv, TypesInv
    <3>3. \A m \in Events : /\ copies'[m] \in Nat /\ copies'[m] <= 1
      <4> TAKE m \in Events
      <4> DEFINE n == Cardinality({q \in accepted(rows) : q.what = m})
      <4>1. n \in {0, 1} /\ (copies[m] > 0 => n = 0)
        BY <1>1, AcceptedOnce
      <4>2. copies[m] \in Nat /\ copies[m] <= 1
        BY DEF Inv, TypesInv, EventOnce
      <4>3. copies'[m] = copies[m] + n
        BY <2>2
      <4> HIDE DEF n
      <4> QED
        BY <4>1, <4>2, <4>3
    <3> QED
      BY <2>2, <3>2, <3>3 DEF EventOnce
  <2> QED
    BY <2>1, <2>2 DEF ingest_batch
<1>7. TypesInv'
  BY <1>2, <1>5, <1>6 DEF outside, phone_vars, Inv, TypesInv
<1>8. BatchesInv'
  BY <1>1, <1>2, <1>5 DEF outside, Inv, BatchesInv, OneBatch, Keyed
<1>9. waiting' \subseteq waiting /\ \A s \in waiting' : req'[s].rows = req[s].rows
  BY <1>1, <1>5 DEF waiting
<1>10. WaitInv'
  BY <1>2, <1>9 DEF phone_vars, Inv, WaitInv
<1>11. ProviderInv' /\ QueueInv'
  BY <1>2 DEF outside, phone_vars, Inv, ProviderInv, QueueInv, Keyed
<1> QED
  BY <1>6, <1>7, <1>8, <1>10, <1>11 DEF Inv

LEMMA NextInv == Inv /\ [Next]_vars => Inv'
<1> SUFFICES ASSUME Inv, [Next]_vars PROVE Inv'
  OBVIOUS
<1>1. CASE Sync
  BY <1>1, DoWorkInv, PruneInv, HarvestInv, SetLastInv, PostPendingInv, OutcomeInv DEF Sync, Provided
<1>2. CASE Outside
  BY <1>2, HappensInv, RestoreInv, WipeInv DEF Outside, Provided
<1>3. CASE Faults
  BY <1>3, EndsInv DEF Faults
<1>4. CASE UNCHANGED vars
  <2>1. TypesInv' /\ ProviderInv'
    BY <1>4 DEF vars, outside, phone_vars, server_vars, bounds, Inv, TypesInv, ProviderInv
  <2> QED
    BY <1>4, <2>1, NothingAskedInv, QuietInv DEF vars, outside, phone_vars
<1> QED
  BY <1>1, <1>2, <1>3, <1>4, SaveServerInv, ReinstallInv, IngestInv DEF Next

THEOREM Invariance == Spec => []Inv
<1>1. QED
  BY InitInv, NextInv, PTL DEF Spec

(* _ingest_batch: one event becomes at most one interaction, however often *)
(* it is posted again, harvested again under a new device id or restored   *)
(* under a new provider id, and whatever is wiped.                         *)
THEOREM EachEventOnce == Spec => []EventOnce
<1>1. Inv => EventOnce
  BY DEF Inv
<1> QED
  BY <1>1, Invariance, PTL

-----------------------------------------------------------------------------
(* Custody                                                                 *)
(*                                                                         *)
(* It is kept while no provider is wiped.  A wipe starts a provider's ids  *)
(* again below the cursor, and what happens next is passed over: the       *)
(* cursor only moves forward, and a call is keyed by its id alone.         *)
NoWipes == \A w \in Worlds : w.wipes = 0

(* The cursors and what was read stay below the next number.               *)
NumbersInv ==
  \A k \in Provided :
    IsFiniteSet(provider[k]) /\ mark[k] < nextId[k] /\ worker.seen[k] < nextId[k]

(* The row of a call, whose key is its number, is of the call that has the *)
(* number; and what the server knows by its key it holds.                  *)
Known(q) == q.key.stream = "call" => [id |-> q.key.id, what |-> q.what] \in provider.call
KnownInv ==
  /\ \A q \in queue : Known(q)
  /\ \A r \in Requests : req[r] # NoReq => \A q \in req[r].rows : Known(q)
KeysInv ==
  \A key \in keys : IF key.stream = "call"
                      THEN \E p \in provider.call : p.id = key.id /\ p.what \in Recorded
                      ELSE key.hash \in Recorded

(* What is settled is recorded, and so is what a 200 on its way settles.   *)
Settled(m) == m \in Recorded \union world.filtered
AnswersInv == \A r \in waiting : req[r].code = 200 => \A q \in req[r].rows : q.what \in Recorded
DoneInv == \A q \in queue : q.st = "DONE" => q.what \in Recorded

(* Below the cursor all is settled; below what this run read, settled or   *)
(* in the queue.                                                           *)
MarkInv == \A k \in Provided : \A p \in provider[k] : p.id <= mark[k] => Settled(p.what)
Queued(k, m) == \E q \in queue : q.key.stream = k /\ q.what = m
SeenInv ==
  \A k \in Provided : \A p \in provider[k] :
    p.id <= worker.seen[k] => Settled(p.what) \/ Queued(k, p.what)

CustodyInv == NumbersInv /\ KnownInv /\ KeysInv /\ AnswersInv /\ DoneInv /\ MarkInv /\ SeenInv

LEMMA InitCustody == Init => CustodyInv
<1> SUFFICES ASSUME Init PROVE CustodyInv
  OBVIOUS
<1>1. waiting = {}
  BY DEF Init, waiting
<1>2. NumbersInv
  <2>1. \A k \in Provided : provider[k] = {} /\ mark[k] = 0 /\ nextId[k] = 1 /\ worker.seen[k] = 0
    BY DEF Init, Provided, idle
  <2> QED
    BY <2>1, FS_EmptySet DEF NumbersInv
<1>3. KnownInv /\ KeysInv /\ AnswersInv /\ DoneInv
  BY <1>1 DEF Init, KnownInv, KeysInv, AnswersInv, DoneInv
<1>4. MarkInv /\ SeenInv
  BY DEF Init, MarkInv, SeenInv, Provided
<1> QED
  BY <1>2, <1>3, <1>4 DEF CustodyInv

LEMMA RecordedStays ==
  ASSUME UNCHANGED <<world, copies, rejected>>
  PROVE  Recorded' = Recorded /\ \A m : Settled(m)' = Settled(m)
  BY DEF Recorded, Settled

LEMMA NumbersAreNatural ==
  ASSUME Inv
  PROVE  \A k \in Provided :
           /\ mark[k] \in Nat /\ worker.seen[k] \in Nat /\ nextId[k] \in Nat \ {0}
           /\ \A p \in provider[k] : p \in ProviderRow /\ p.id \in Nat \ {0}
  BY DEF Inv, TypesInv, Worker, Provided, ProviderRow

(* Steps that read and write neither the providers nor the server.         *)
LEMMA QuietCustody ==
  ASSUME Inv, CustodyInv, UNCHANGED <<world, provider, nextId, server_vars>>,
         \A k \in Provided : mark'[k] \in {mark[k], 0} /\ worker'.seen[k] \in {worker.seen[k], 0},
         queue' = queue \/ (queue' = {} /\ \A k \in Provided : worker'.seen[k] = 0),
         \A r \in Requests : req'[r] # NoReq =>
           \/ req[r] # NoReq /\ req'[r].rows = req[r].rows
           \/ req'[r].rows \subseteq queue,
         \A r \in waiting' : req'[r].code = 200 =>
           r \in waiting /\ req'[r].rows = req[r].rows /\ req[r].code = 200
  PROVE  CustodyInv'
<1>1. Recorded' = Recorded /\ \A m : Settled(m)' = Settled(m)
  BY RecordedStays DEF server_vars
<1>2. NumbersInv'
  BY NumbersAreNatural DEF CustodyInv, NumbersInv
<1>3. KnownInv'
  BY DEF CustodyInv, KnownInv, Known
<1>4. KeysInv'
  BY <1>1 DEF CustodyInv, KeysInv, server_vars
<1>5. AnswersInv' /\ DoneInv'
  BY <1>1 DEF CustodyInv, AnswersInv, DoneInv
<1>6. MarkInv'
  BY <1>1, NumbersAreNatural DEF CustodyInv, MarkInv
<1>7. SeenInv'
  <2> SUFFICES ASSUME NEW k \in Provided, NEW p \in provider[k], p.id <= worker'.seen[k]
               PROVE  Settled(p.what) \/ Queued(k, p.what)'
    BY <1>1 DEF SeenInv
  <2>1. worker'.seen[k] # 0 /\ worker'.seen[k] = worker.seen[k]
    BY NumbersAreNatural
  <2> QED
    BY <2>1 DEF CustodyInv, SeenInv, Queued
<1> QED
  BY <1>2, <1>3, <1>4, <1>5, <1>6, <1>7 DEF CustodyInv

(* A provider's new row is numbered above every cursor.                    *)
LEMMA NewRowCustody ==
  ASSUME Inv, CustodyInv, NEW k \in Provided, NEW m,
         provider' = [provider EXCEPT ![k] = @ \union {[id |-> nextId[k], what |-> m]}],
         nextId' = [nextId EXCEPT ![k] = @ + 1],
         UNCHANGED <<world, phone_vars, req, server_vars>>
  PROVE  CustodyInv'
<1> DEFINE n == [id |-> nextId[k], what |-> m]
<1>1. Recorded' = Recorded /\ \A e : Settled(e)' = Settled(e)
  BY RecordedStays DEF server_vars
<1>2. \A c \in Provided : /\ provider'[c] = IF c = k THEN provider[c] \union {n} ELSE provider[c]
                          /\ nextId'[c] = IF c = k THEN nextId[c] + 1 ELSE nextId[c]
  BY DEF Inv, TypesInv, Provided
<1>3. n.id = nextId[k]
  OBVIOUS
<1> HIDE DEF n
<1>4. NumbersInv'
  <2> SUFFICES ASSUME NEW c \in Provided
               PROVE  IsFiniteSet(provider'[c]) /\ mark[c] < nextId'[c] /\ worker.seen[c] < nextId'[c]
    BY DEF NumbersInv, phone_vars
  <2>1. IsFiniteSet(provider[c]) /\ mark[c] < nextId[c] /\ worker.seen[c] < nextId[c]
    BY DEF CustodyInv, NumbersInv
  <2>2. IsFiniteSet(provider[c] \union {n})
    BY <2>1, FS_AddElement
  <2>3. IsFiniteSet(provider'[c])
    BY <1>2, <2>1, <2>2
  <2>4. mark[c] < nextId'[c] /\ worker.seen[c] < nextId'[c]
    BY <1>2, <2>1, NumbersAreNatural
  <2> QED
    BY <2>3, <2>4
<1>5. provider.call \subseteq provider'.call
  BY <1>2 DEF Provided
<1>6. KnownInv'
  BY <1>5 DEF CustodyInv, KnownInv, Known, phone_vars
<1>7. KeysInv'
  BY <1>1, <1>5 DEF CustodyInv, KeysInv, server_vars
<1>8. waiting' = waiting
  BY DEF waiting
<1>9. AnswersInv' /\ DoneInv'
  BY <1>1, <1>8 DEF CustodyInv, AnswersInv, DoneInv, phone_vars
<1>10. MarkInv'
  BY <1>1, <1>2, <1>3, NumbersAreNatural DEF CustodyInv, MarkInv, NumbersInv, phone_vars
<1>11. SeenInv'
  BY <1>1, <1>2, <1>3, NumbersAreNatural DEF CustodyInv, SeenInv, Queued, NumbersInv, phone_vars
<1> QED
  BY <1>4, <1>6, <1>7, <1>9, <1>10, <1>11 DEF CustodyInv

LEMMA OutsideCustody ==
  ASSUME NoWipes, Inv, CustodyInv, Outside
  PROVE  CustodyInv'
<1>1. ASSUME NEW m \in Events, Happens(m) PROVE CustodyInv'
  <2>1. CASE UNCHANGED queue /\ \E k \in Provided :
              /\ provider' = [provider EXCEPT ![k] = @ \union {[id |-> nextId[k], what |-> m]}]
              /\ nextId' = [nextId EXCEPT ![k] = @ + 1]
    BY <1>1, <2>1, NewRowCustody DEF Happens, phone_vars
  <2>2. CASE queue' = insertIgnore({pending_row("push", 0, m)}) /\ UNCHANGED <<provider, nextId>>
    <3>1. UNCHANGED <<world, mark, worker, req, server_vars, provider, nextId>>
      BY <1>1, <2>2 DEF Happens
    <3>2. Recorded' = Recorded /\ \A e : Settled(e)' = Settled(e)
      BY <3>1, RecordedStays DEF server_vars
    <3>3. /\ queue \subseteq queue'
          /\ \A q \in queue' : q \in queue \/ (q.key.stream = "push" /\ q.st = "PENDING")
      BY <2>2 DEF insertIgnore, pending_row, event_key
    <3>4. NumbersInv' /\ KeysInv' /\ MarkInv'
      BY <3>1, <3>2 DEF CustodyInv, NumbersInv, KeysInv, MarkInv, server_vars
    <3>5. KnownInv' /\ DoneInv' /\ SeenInv'
      BY <3>1, <3>2, <3>3 DEF CustodyInv, KnownInv, Known, DoneInv, SeenInv, Queued
    <3>6. AnswersInv'
      BY <3>1, <3>2 DEF CustodyInv, AnswersInv, waiting
    <3> QED
      BY <3>4, <3>5, <3>6 DEF CustodyInv
  <2> QED
    BY <1>1, <2>1, <2>2 DEF Happens, Provided
<1>2. ASSUME NEW p \in provider.sms, Restore(p) PROVE CustodyInv'
  <2>1. /\ provider' = [provider EXCEPT !["sms"] = @ \union {[id |-> nextId["sms"], what |-> p.what]}]
        /\ nextId' = [nextId EXCEPT !["sms"] = @ + 1]
    BY <1>2 DEF Restore
  <2> QED
    BY <1>2, <2>1, NewRowCustody DEF Restore, Provided
<1>3. ASSUME NEW k \in Provided, Wipe(k) PROVE FALSE
  BY <1>3 DEF Wipe, NoWipes, Inv, TypesInv
<1> QED
  BY <1>1, <1>2, <1>3 DEF Outside, Provided

(* What the run read of a provider is settled or in the queue when it is   *)
(* done: nothing of what lies between the cursor and the last row read is  *)
(* missing from what was read, and a row with a key already queued is of   *)
(* the same event.                                                         *)
LEMMA ReadIsDense ==
  ASSUME Inv, CustodyInv, NEW k \in Provided, NEW p \in provider[k], NEW t \in since(k),
         mark[k] < p.id, p.id <= t.id
  PROVE  p \in since(k)
<1> DEFINE below(x) == {q \in provider[k] : mark[k] < q.id /\ q.id < x}
<1>1. t \in provider[k] /\ Cardinality(below(t.id)) < MAX_BATCH
  BY DEF since
<1>2. below(p.id) \in SUBSET below(t.id) /\ IsFiniteSet(below(t.id))
  <2>1. IsFiniteSet(provider[k]) /\ below(t.id) \in SUBSET provider[k]
    BY DEF CustodyInv, NumbersInv
  <2>2. IsFiniteSet(below(t.id))
    BY <2>1, FS_Subset
  <2> QED
    BY <1>1, <2>2, NumbersAreNatural
<1>3. /\ Cardinality(below(p.id)) <= Cardinality(below(t.id))
      /\ Cardinality(below(p.id)) \in Nat /\ Cardinality(below(t.id)) \in Nat
  BY <1>2, FS_Subset, FS_CardinalityType
<1>4. Cardinality(below(p.id)) < MAX_BATCH
  BY <1>1, <1>3, EventsAssumption
<1> QED
  BY <1>4, Zenon DEF since

LEMMA HarvestCustody ==
  ASSUME Inv, CustodyInv, NEW k \in Provided, harvest(k)
  PROVE  CustodyInv'
<1>1. UNCHANGED <<world, provider, nextId, mark, req, server_vars, device>>
  BY DEF harvest, outside
<1>2. Recorded' = Recorded /\ \A e : Settled(e)' = Settled(e)
  BY <1>1, RecordedStays DEF server_vars
<1>3. waiting' = waiting
  BY <1>1 DEF waiting
<1>4. KeysInv' /\ MarkInv' /\ AnswersInv'
  BY <1>1, <1>2, <1>3 DEF CustodyInv, KeysInv, MarkInv, AnswersInv, server_vars
<1>5. \A top \in Nat : LET w == next([worker EXCEPT !.seen[k] = top]) IN
        \A c \in Provided : w.seen[c] = IF c = k THEN top ELSE worker.seen[c]
  <2> TAKE top \in Nat
  <2> DEFINE w == [worker EXCEPT !.seen[k] = top]
  <2>1. w \in Worker /\ \A c \in Provided : w.seen[c] = IF c = k THEN top ELSE worker.seen[c]
    BY DEF Inv, TypesInv, Worker, Provided
  <2> HIDE DEF w
  <2>2. next(w).seen = w.seen
    BY <2>1, NextIsTyped
  <2> QED
    BY <2>1, <2>2 DEF w
<1>6. CASE UNCHANGED queue /\ worker' = next([worker EXCEPT !.seen[k] = mark[k]])
  <2>1. \A c \in Provided : worker'.seen[c] = IF c = k THEN mark[c] ELSE worker.seen[c]
    BY <1>5, <1>6, NumbersAreNatural
  <2>2. NumbersInv' /\ KnownInv' /\ DoneInv'
    BY <1>1, <1>2, <1>6, <2>1 DEF CustodyInv, NumbersInv, KnownInv, Known, DoneInv
  <2>3. SeenInv'
    BY <1>1, <1>2, <1>6, <2>1 DEF CustodyInv, SeenInv, MarkInv, Queued
  <2> QED
    BY <1>4, <2>2, <2>3 DEF CustodyInv
<1>7. ASSUME NEW top \in {mark[k]} \union {p.id : p \in since(k)},
             \A p \in since(k) : p.id <= top,
             worker' = next([worker EXCEPT !.seen[k] = top]),
             queue' = insertIgnore({pending_row(k, p.id, p.what) :
                                     p \in {q \in since(k) : q.what \notin world.filtered}})
      PROVE  CustodyInv'
  <2> DEFINE rows == {pending_row(k, p.id, p.what) : p \in {q \in since(k) : q.what \notin world.filtered}}
  <2>1. top \in Nat /\ top < nextId[k]
    <3>1. mark[k] \in Nat /\ mark[k] < nextId[k]
      BY NumbersAreNatural DEF CustodyInv, NumbersInv
    <3>2. \A p \in since(k) : p.id \in Nat /\ p.id < nextId[k]
      <4> TAKE p \in since(k)
      <4>1. p \in provider[k]
        BY DEF since
      <4> QED
        BY <4>1, NumbersAreNatural DEF Inv, ProviderInv
    <3> QED
      BY <1>7, <3>1, <3>2
  <2>2. \A c \in Provided : worker'.seen[c] = IF c = k THEN top ELSE worker.seen[c]
    BY <1>5, <1>7, <2>1
  <2>3. NumbersInv'
    BY <1>1, <2>1, <2>2 DEF CustodyInv, NumbersInv
  <2>4. \A p \in provider[k] :
          LET n == pending_row(k, p.id, p.what) IN
          /\ n.key.stream = k /\ n.key.id = p.id /\ n.what = p.what /\ n.st = "PENDING"
          /\ k # "call" => n.key.hash = p.what
    BY DEF pending_row, event_key
  <2>5. \A n \in rows : \E p \in provider[k] : n = pending_row(k, p.id, p.what)
    BY DEF since
  <2>6. \A p \in since(k) : p.what \in world.filtered \/ pending_row(k, p.id, p.what) \in rows
    OBVIOUS
  <2>7. \A p \in provider[k] : p = [id |-> p.id, what |-> p.what]
    BY NumbersAreNatural DEF ProviderRow
  <2> HIDE DEF rows
  <2>8. /\ queue \subseteq queue' /\ queue' \subseteq queue \union rows
        /\ \A n \in rows : n \in queue' \/ \E q \in queue : q.key = n.key
    BY <1>7 DEF insertIgnore, rows
  <2>9. KnownInv'
    <3>1. \A n \in rows : n.key.stream = "call" => [id |-> n.key.id, what |-> n.what] \in provider.call
      BY <2>4, <2>5, <2>7
    <3> QED
      BY <1>1, <2>8, <3>1 DEF CustodyInv, KnownInv, Known
  <2>10. DoneInv'
    BY <1>2, <2>4, <2>5, <2>8 DEF CustodyInv, DoneInv
  <2>11. ASSUME NEW p \in since(k), p.what \notin world.filtered
         PROVE  Queued(k, p.what)'
    <3> DEFINE n == pending_row(k, p.id, p.what)
    <3>1. p \in provider[k] /\ n \in rows
      BY <2>6, <2>11 DEF since
    <3>2. /\ n.key.stream = k /\ n.key.id = p.id /\ n.what = p.what
          /\ k # "call" => n.key.hash = p.what
      BY <2>4, <3>1
    <3> HIDE DEF n
    <3>3. CASE n \in queue'
      BY <3>2, <3>3 DEF Queued
    <3>4. ASSUME NEW q \in queue, q.key = n.key PROVE Queued(k, p.what)'
      <4>1. CASE k = "call"
        <5>1. [id |-> q.key.id, what |-> q.what] \in provider.call
          BY <3>2, <3>4, <4>1 DEF CustodyInv, KnownInv, Known
        <5>2. [id |-> q.key.id, what |-> q.what] = p
          BY <3>1, <3>2, <3>4, <4>1, <5>1 DEF Inv, ProviderInv, Provided
        <5>3. q.what = p.what
          BY <5>2
        <5> QED
          BY <2>8, <3>2, <3>4, <5>3 DEF Queued
      <4>2. CASE k # "call"
        <5>1. q.what = p.what
          BY <3>2, <3>4, <4>2 DEF Inv, QueueInv, Keyed
        <5> QED
          BY <2>8, <3>2, <3>4, <5>1 DEF Queued
      <4> QED
        BY <4>1, <4>2
    <3> QED
      BY <2>8, <3>1, <3>3, <3>4
  <2>12. SeenInv'
    <3> SUFFICES ASSUME NEW c \in Provided, NEW p \in provider[c], p.id <= worker'.seen[c]
                 PROVE  Settled(p.what) \/ Queued(c, p.what)'
      BY <1>1, <1>2 DEF SeenInv
    <3>1. CASE c # k
      BY <2>2, <2>8, <3>1 DEF CustodyInv, SeenInv, Queued
    <3>2. CASE c = k /\ p.id <= mark[k]
      BY <3>2 DEF CustodyInv, MarkInv
    <3>3. CASE c = k /\ mark[k] < p.id
      <4>1. PICK t \in since(k) : p.id <= t.id
        BY <1>7, <2>2, <3>3, NumbersAreNatural
      <4>2. p \in since(k)
        BY <3>3, <4>1, ReadIsDense
      <4> QED
        BY <2>11, <3>3, <4>2 DEF Settled
    <3> QED
      BY <3>1, <3>2, <3>3, NumbersAreNatural
  <2> QED
    BY <1>4, <2>3, <2>9, <2>10, <2>12 DEF CustodyInv
<1> QED
  BY <1>6, <1>7 DEF harvest

(* The cursor passes what is settled: no row of the stream waits any more. *)
LEMMA SetLastCustody ==
  ASSUME Inv, CustodyInv, NEW k \in Provided, setLast(k)
  PROVE  CustodyInv'
<1>1. UNCHANGED <<world, provider, nextId, queue, req, server_vars>> /\ worker' = next(worker)
  BY DEF setLast, outside
<1>2. Recorded' = Recorded /\ \A e : Settled(e)' = Settled(e)
  BY <1>1, RecordedStays DEF server_vars
<1>3. waiting' = waiting /\ worker'.seen = worker.seen
  BY <1>1, NextIsTyped DEF waiting, Inv, TypesInv
<1>4. KnownInv' /\ KeysInv' /\ AnswersInv' /\ DoneInv' /\ SeenInv'
  BY <1>1, <1>2, <1>3
     DEF CustodyInv, KnownInv, Known, KeysInv, AnswersInv, DoneInv, SeenInv, Queued, server_vars
<1>5. \A c \in Provided : \/ mark'[c] = mark[c]
                          \/ /\ c = k /\ mark'[k] = worker.seen[k]
                             /\ rows_in(k, "PENDING") = {} /\ rows_in(k, "FAILED_PERMANENT") = {}
  BY DEF setLast, Inv, TypesInv, Provided
<1>6. NumbersInv'
  BY <1>1, <1>3, <1>5 DEF CustodyInv, NumbersInv
<1>7. MarkInv'
  <2> SUFFICES ASSUME NEW c \in Provided, NEW p \in provider[c], p.id <= mark'[c]
               PROVE  Settled(p.what)
    BY <1>1, <1>2 DEF MarkInv
  <2>1. CASE mark'[c] = mark[c]
    BY <2>1 DEF CustodyInv, MarkInv
  <2>2. CASE /\ c = k /\ mark'[k] = worker.seen[k]
             /\ rows_in(k, "PENDING") = {} /\ rows_in(k, "FAILED_PERMANENT") = {}
    <3>1. \A q \in queue : q.key.stream = k => q.st = "DONE"
      BY <2>2 DEF rows_in, Inv, TypesInv, QueueRow
    <3>2. Settled(p.what) \/ Queued(k, p.what)
      BY <2>2 DEF CustodyInv, SeenInv
    <3> QED
      BY <3>1, <3>2 DEF Queued, CustodyInv, DoneInv, Settled
  <2> QED
    BY <1>5, <2>1, <2>2
<1> QED
  BY <1>4, <1>6, <1>7 DEF CustodyInv

LEMMA PruneCustody ==
  ASSUME Inv, CustodyInv, pruneDoneBefore
  PROVE  CustodyInv'
<1>1. /\ UNCHANGED <<world, provider, nextId, mark, req, server_vars>>
      /\ queue' \subseteq queue /\ worker' = idle
  BY DEF pruneDoneBefore, outside
<1>2. Recorded' = Recorded /\ \A e : Settled(e)' = Settled(e)
  BY <1>1, RecordedStays DEF server_vars
<1>3. waiting' = waiting /\ \A k \in Provided : worker'.seen[k] = 0
  BY <1>1 DEF waiting, idle, Provided
<1>4. KnownInv' /\ KeysInv' /\ AnswersInv' /\ DoneInv' /\ MarkInv'
  BY <1>1, <1>2, <1>3 DEF CustodyInv, KnownInv, Known, KeysInv, AnswersInv, DoneInv, MarkInv, server_vars
<1>5. NumbersInv'
  BY <1>1, <1>3, NumbersAreNatural DEF CustodyInv, NumbersInv
<1>6. SeenInv'
  BY <1>1, <1>3, NumbersAreNatural DEF SeenInv
<1> QED
  BY <1>4, <1>5, <1>6 DEF CustodyInv

(* An answer settles the rows that were posted.                            *)
LEMMA OutcomeCustody ==
  ASSUME Inv, CustodyInv, NEW r \in Requests, outcome(r)
  PROVE  CustodyInv'
<1>1. /\ UNCHANGED <<world, provider, nextId, mark, server_vars>>
      /\ req' = [req EXCEPT ![r] = NoReq]
  BY DEF outcome, outside
<1>2. Recorded' = Recorded /\ \A e : Settled(e)' = Settled(e)
  BY <1>1, RecordedStays DEF server_vars
<1>3. r \in waiting /\ waiting \subseteq {r} /\ req[r].rows = worker.batch
  BY DEF outcome, waiting, Inv, WaitInv
<1>4. \A s \in Requests : req'[s] = IF s = r THEN NoReq ELSE req[s]
  BY <1>1 DEF Inv, TypesInv
<1>5. waiting' = {}
  BY <1>3, <1>4 DEF waiting
<1>6. worker'.seen = worker.seen
  BY GivesUpIsTyped DEF outcome, Inv, TypesInv, Worker
<1>7. /\ \A q \in queue : \E o \in queue' : o.key = q.key /\ o.what = q.what
      /\ \A o \in queue' : \E q \in queue :
           /\ o.key = q.key /\ o.what = q.what
           /\ o.st = "DONE" => q.st = "DONE" \/ (q \in worker.batch /\ req[r].code = 200)
  <2> DEFINE new(st, q) == IF q \in worker.batch THEN [q EXCEPT !.st = st] ELSE q
  <2>1. \A st \in {"DONE", "FAILED_PERMANENT"} : \A q \in queue :
          /\ new(st, q).key = q.key /\ new(st, q).what = q.what
          /\ new(st, q).st = IF q \in worker.batch THEN st ELSE q.st
    BY DEF Inv, TypesInv, QueueRow
  <2>2. \A st : settle(worker.batch, st) = {new(st, q) : q \in queue}
    BY DEF settle
  <2> HIDE DEF new
  <2>3. CASE queue' = queue
    BY <2>3
  <2>4. CASE queue' = settle(worker.batch, "DONE") /\ req[r].code = 200
    BY <2>1, <2>2, <2>4
  <2>5. CASE queue' = settle(worker.batch, "FAILED_PERMANENT")
    BY <2>1, <2>2, <2>5
  <2> QED
    BY <2>3, <2>4, <2>5 DEF outcome
<1>8. NumbersInv' /\ KeysInv' /\ MarkInv'
  BY <1>1, <1>2, <1>6 DEF CustodyInv, NumbersInv, KeysInv, MarkInv, server_vars
<1>9. KnownInv'
  BY <1>1, <1>4, <1>7 DEF CustodyInv, KnownInv, Known
<1>10. AnswersInv'
  BY <1>5 DEF AnswersInv
<1>11. DoneInv'
  BY <1>2, <1>3, <1>7 DEF CustodyInv, DoneInv, AnswersInv
<1>12. SeenInv'
  BY <1>1, <1>2, <1>6, <1>7 DEF CustodyInv, SeenInv, Queued
<1> QED
  BY <1>8, <1>9, <1>10, <1>11, <1>12 DEF CustodyInv

(* Of the rows of an event in a batch one has the lowest number.           *)
LEMMA LowestOfABatch ==
  ASSUME NEW rows \in SUBSET QueueRow, NEW q \in rows
  PROVE  \E o \in rows : o.what = q.what /\ \A p \in rows : p.what = o.what => o.key.id <= p.key.id
<1> DEFINE same == {p \in rows : p.what = q.what}
           ids  == {p.key.id : p \in same}
<1>1. \A p \in rows : p.key.id \in Nat
  BY DEF QueueRow, Key
<1>2. ids \subseteq Nat /\ ids # {}
  BY <1>1
<1>3. PICK x \in ids : \A y \in ids : ~ (<<y, x>> \in OpToRel(<, Nat))
  BY <1>2, NatLessThanWellFounded, WFMin
<1>4. \A y \in ids : y < x => <<y, x>> \in OpToRel(<, Nat)
  BY <1>2, Zenon DEF OpToRel
<1>5. \A y \in ids : ~ (y < x)
  BY <1>3, <1>4, Zenon
<1>6. PICK o \in same : x = o.key.id
  OBVIOUS
<1>7. \A p \in rows : p.what = o.what => o.key.id <= p.key.id
  BY <1>1, <1>5, <1>6
<1> QED
  BY <1>6, <1>7

(* After a 200 the server holds what the batch was about: what it did not  *)
(* take it had, by its key or by its content.                              *)
LEMMA BatchIsRecorded ==
  ASSUME Inv, CustodyInv, NEW r \in Requests, req[r] # NoReq, UNCHANGED world,
         copies' = [m \in Events |-> copies[m] + Cardinality({q \in accepted(req[r].rows) : q.what = m})],
         rejected' = rejected \union ({q.what : q \in req[r].rows} \cap world.refused)
  PROVE  /\ Recorded \subseteq Recorded'
         /\ \A q \in accepted(req[r].rows) : q.what \in Recorded'
         /\ \A q \in req[r].rows : q.what \in Recorded'
<1> DEFINE rows == req[r].rows
           taken(m) == Cardinality({q \in accepted(rows) : q.what = m})
<1>1. rows \in SUBSET QueueRow /\ OneBatch(rows)
  BY DEF Inv, TypesInv, Request, BatchesInv
<1>2. \A m \in Events : /\ taken(m) \in Nat /\ copies[m] \in Nat
                        /\ (\E q \in accepted(rows) : q.what = m) => taken(m) = 1
  BY AcceptedOnce DEF Inv, TypesInv
<1>3. \A m \in Events : copies'[m] = copies[m] + taken(m)
  OBVIOUS
<1>4. \A q \in rows : q.what \in Events
  BY <1>1 DEF QueueRow
<1>5. accepted(rows) \subseteq rows
  BY DEF accepted
<1> HIDE DEF taken
<1>6. Recorded \subseteq Recorded'
  BY <1>2, <1>3 DEF Recorded
<1>7. \A q \in accepted(rows) : q.what \in Recorded'
  BY <1>2, <1>3, <1>4, <1>5 DEF Recorded
<1>8. ASSUME NEW q \in rows PROVE q.what \in Recorded'
  <2>1. PICK o \in rows : o.what = q.what /\ \A p \in rows : p.what = o.what => o.key.id <= p.key.id
    BY <1>1, LowestOfABatch
  <2>2. CASE o.what \in world.refused
    BY <2>1, <2>2 DEF Recorded
  <2>3. CASE o.what \notin world.refused /\ ~duplicate(o)
    <3>1. o \in accepted(rows)
      BY <2>1, <2>3 DEF accepted
    <3> QED
      BY <1>7, <2>1, <3>1
  <2>4. CASE copies[o.what] > 0
    <3>1. o.what \in Recorded
      BY <1>4, <2>1, <2>4 DEF Recorded
    <3> QED
      BY <1>6, <2>1, <3>1
  <2>5. CASE o.key \in keys
    <3>1. CASE o.key.stream = "call"
      <4>1. PICK p \in provider.call : p.id = o.key.id /\ p.what \in Recorded
        BY <2>5, <3>1 DEF CustodyInv, KeysInv
      <4>2. [id |-> o.key.id, what |-> o.what] \in provider.call
        BY <2>1, <3>1 DEF CustodyInv, KnownInv, Known
      <4>3. p = [id |-> o.key.id, what |-> o.what]
        BY <4>1, <4>2 DEF Inv, ProviderInv, Provided
      <4> QED
        BY <1>6, <2>1, <4>1, <4>3
    <3>2. CASE o.key.stream # "call"
      <4>1. o.key.hash = o.what
        BY <1>1, <2>1, <3>2 DEF OneBatch, Keyed
      <4>2. o.what \in Recorded
        BY <2>5, <3>2, <4>1 DEF CustodyInv, KeysInv
      <4> QED
        BY <1>6, <2>1, <4>2
    <3> QED
      BY <3>1, <3>2
  <2> QED
    BY <2>2, <2>3, <2>4, <2>5 DEF duplicate
<1> QED
  BY <1>6, <1>7, <1>8

(* What the server comes to hold changes nothing the phone waits for.      *)
LEMMA MoreRecorded ==
  ASSUME CustodyInv, UNCHANGED <<outside, phone_vars>>, Recorded \subseteq Recorded'
  PROVE  NumbersInv' /\ DoneInv' /\ MarkInv' /\ SeenInv'
<1>1. \A m : Settled(m) => Settled(m)'
  BY DEF Settled, outside
<1> QED
  BY <1>1 DEF outside, phone_vars, CustodyInv, NumbersInv, DoneInv, MarkInv, SeenInv, Queued

LEMMA IngestCustody ==
  ASSUME Inv, CustodyInv, NEW r \in Requests, ingest_batch(r)
  PROVE  CustodyInv' /\ Recorded \subseteq Recorded'
<1> DEFINE rows == req[r].rows
<1>1. req[r] \in Request /\ req[r] # NoReq /\ req[r].code = 0
  BY DEF ingest_batch, Inv, TypesInv
<1>2. UNCHANGED <<outside, phone_vars>>
  BY DEF ingest_batch
<1> DEFINE Answered(c) == /\ \A s \in Requests : s # r => req'[s] = req[s]
                          /\ req'[r] # NoReq => req'[r].rows = rows /\ req'[r].code = c
<1>3. ASSUME NEW c \in {200, 401, 422}, req' = [req EXCEPT ![r] = answered(r, c)]
      PROVE  Answered(c)
  <2>1. answered(r, c) = NoReq \/ (answered(r, c).rows = rows /\ answered(r, c).code = c)
    BY <1>1 DEF answered, Request
  <2> QED
    BY <1>3, <2>1 DEF Inv, TypesInv
<1>4. ASSUME NEW c \in {200, 401, 422}, Answered(c)
      PROVE  KnownInv'
  <2>1. \A s \in Requests : req'[s] # NoReq => req[s] # NoReq /\ req'[s].rows = req[s].rows
    BY <1>1, <1>4
  <2>2. UNCHANGED <<provider, queue>>
    BY <1>2 DEF outside, phone_vars
  <2> QED
    BY <2>1, <2>2 DEF CustodyInv, KnownInv, Known
<1>5. ASSUME NEW c \in {200, 401, 422}, Answered(c),
             Recorded \subseteq Recorded', c = 200 => \A q \in rows : q.what \in Recorded'
      PROVE  AnswersInv'
  <2> SUFFICES ASSUME NEW s \in waiting', req'[s].code = 200, NEW q \in req'[s].rows
               PROVE  q.what \in Recorded'
    BY DEF AnswersInv
  <2>1. s \in Requests /\ req'[s] # NoReq /\ req'[s].wanted
    BY DEF waiting
  <2>2. CASE s = r
    BY <1>5, <2>1, <2>2
  <2>3. CASE s # r
    <3>1. req'[s] = req[s] /\ s \in waiting
      BY <1>5, <2>1, <2>3 DEF waiting
    <3> QED
      BY <1>5, <3>1 DEF CustodyInv, AnswersInv
  <2> QED
    BY <2>2, <2>3
<1> HIDE DEF Answered
<1>6. ASSUME UNCHANGED server_vars, NEW c \in {401, 422}, req' = [req EXCEPT ![r] = answered(r, c)]
      PROVE  CustodyInv' /\ Recorded \subseteq Recorded'
  <2>1. Recorded' = Recorded
    BY <1>2, <1>6, RecordedStays DEF outside, server_vars
  <2>2. KeysInv'
    BY <1>2, <1>6, <2>1 DEF CustodyInv, KeysInv, outside, server_vars
  <2>3. c \in {200, 401, 422} /\ c # 200
    BY <1>6
  <2>4. Answered(c)
    <3>1. answered(r, c) = NoReq \/ (answered(r, c).rows = rows /\ answered(r, c).code = c)
      BY <1>1, <2>3 DEF answered, Request
    <3> QED
      BY <1>6, <3>1 DEF Inv, TypesInv, Answered
  <2>5. KnownInv' /\ AnswersInv'
    BY <1>4, <1>5, <2>1, <2>3, <2>4
  <2> QED
    BY <1>2, <2>1, <2>2, <2>5, MoreRecorded DEF CustodyInv
<1>7. CASE /\ keys' = keys \union {q.key : q \in accepted(rows)}
           /\ copies' = [m \in Events |-> copies[m] + Cardinality({q \in accepted(rows) : q.what = m})]
           /\ rejected' = rejected \union ({q.what : q \in rows} \cap world.refused)
           /\ req' = [req EXCEPT ![r] = answered(r, 200)]
  <2>1. UNCHANGED world
    BY <1>2 DEF outside
  <2>2. /\ Recorded \subseteq Recorded'
        /\ \A q \in accepted(rows) : q.what \in Recorded'
        /\ \A q \in rows : q.what \in Recorded'
    BY <1>1, <1>7, <2>1, BatchIsRecorded
  <2>3. KeysInv'
    <3> SUFFICES ASSUME NEW key \in keys'
                 PROVE  IF key.stream = "call"
                          THEN \E p \in provider.call : p.id = key.id /\ p.what \in Recorded'
                          ELSE key.hash \in Recorded'
      BY <1>2 DEF KeysInv, outside
    <3>1. CASE key \in keys
      BY <2>2, <3>1 DEF CustodyInv, KeysInv
    <3>2. ASSUME NEW q \in accepted(rows), key = q.key
          PROVE  IF key.stream = "call"
                   THEN \E p \in provider.call : p.id = key.id /\ p.what \in Recorded'
                   ELSE key.hash \in Recorded'
      <4>1. q \in rows /\ q.what \in Recorded'
        BY <2>2 DEF accepted
      <4>2. CASE key.stream = "call"
        <5>1. [id |-> key.id, what |-> q.what] \in provider.call
          BY <1>1, <3>2, <4>1, <4>2 DEF CustodyInv, KnownInv, Known
        <5> QED
          BY <4>1, <4>2, <5>1
      <4>3. CASE key.stream # "call"
        <5>1. key.hash = q.what
          BY <1>1, <3>2, <4>1, <4>3 DEF Inv, BatchesInv, OneBatch, Keyed
        <5> QED
          BY <4>1, <4>3, <5>1
      <4> QED
        BY <4>2, <4>3
    <3> QED
      BY <1>7, <3>1, <3>2
  <2>4. KnownInv' /\ AnswersInv'
    BY <1>3, <1>4, <1>5, <1>7, <2>2
  <2> QED
    BY <1>2, <2>2, <2>3, <2>4, MoreRecorded DEF CustodyInv
<1> QED
  BY <1>6, <1>7 DEF ingest_batch

LEMMA HungUpCustody ==
  ASSUME Inv, UNCHANGED world, req' = hung_up(waiting) \/ req' = [r \in Requests |-> NoReq]
  PROVE  /\ waiting' = {}
         /\ \A r \in Requests : req'[r] # NoReq => req[r] # NoReq /\ req'[r].rows = req[r].rows
<1>1. waiting' = {}
  BY HungUpInv
<1>2. \A r \in Requests : req'[r] # NoReq => req[r] # NoReq /\ req'[r].rows = req[r].rows
  <2>1. \A q \in Request : [q EXCEPT !.wanted = FALSE].rows = q.rows
    BY DEF Request
  <2> QED
    BY <2>1 DEF hung_up, Inv, TypesInv
<1> QED
  BY <1>1, <1>2

LEMMA EndsCustody ==
  ASSUME Inv, CustodyInv, Faults \/ Reinstall
  PROVE  CustodyInv'
<1>1. UNCHANGED <<world, provider, nextId, server_vars>>
  BY DEF Faults, ConnectionLost, ServerDies, PhoneDies, Reinstall, outside
<1>2. /\ waiting' = {}
      /\ \A r \in Requests : req'[r] # NoReq => req[r] # NoReq /\ req'[r].rows = req[r].rows
  BY <1>1, HungUpCustody DEF Faults, ConnectionLost, ServerDies, PhoneDies, Reinstall
<1>3. \A k \in Provided : idle.seen[k] = 0
  BY DEF idle, Provided
<1>4. CASE Faults
  <2>1. UNCHANGED <<queue, mark>> /\ worker' \in {worker, idle, gives_up(worker)}
    BY <1>4 DEF Faults, ConnectionLost, ServerDies, PhoneDies
  <2>2. \A k \in Provided : worker'.seen[k] \in {worker.seen[k], 0}
    BY <1>3, <2>1, GivesUpIsTyped
  <2> QED
    BY <1>1, <1>2, <2>1, <2>2, QuietCustody
<1>5. CASE Reinstall
  <2>1. /\ queue' = {} /\ \A k \in Provided : mark'[k] = 0 /\ worker'.seen[k] = 0
    BY <1>3, <1>5 DEF Reinstall, Provided
  <2> QED
    BY <1>1, <1>2, <2>1, QuietCustody
<1> QED
  BY <1>4, <1>5

LEMMA PostPendingCustody ==
  ASSUME Inv, CustodyInv, NEW k \in Streams, postPending(k)
  PROVE  CustodyInv'
<1>1. UNCHANGED <<world, provider, nextId, server_vars, queue, mark>>
  BY DEF postPending, outside
<1>2. \A c \in Provided : worker'.seen[c] \in {worker.seen[c], 0}
  <2>1. CASE worker' = idle
    BY <2>1 DEF idle, Provided
  <2>2. CASE worker' = next([worker EXCEPT !.ok = @ \union {k}])
    <3>1. LET w == [worker EXCEPT !.ok = @ \union {k}] IN w \in Worker /\ w.seen = worker.seen
      BY DEF Inv, TypesInv, Worker
    <3> QED
      BY <2>2, <3>1, NextIsTyped
  <2>3. CASE worker' = [worker EXCEPT !.batch = nextBatch(k)]
    BY <2>3 DEF Inv, TypesInv, Worker
  <2> QED
    BY <2>1, <2>2, <2>3 DEF postPending
<1>3. \A r \in Requests : \/ req'[r] = req[r]
                          \/ req'[r].rows \subseteq queue /\ req'[r].code = 0
  <2>1. nextBatch(k) \subseteq queue
    BY DEF nextBatch, rows_in
  <2>2. CASE UNCHANGED req
    BY <2>2
  <2>3. ASSUME NEW r \in Requests,
               req' = [req EXCEPT ![r] = [rows |-> nextBatch(k), code |-> 0, wanted |-> TRUE]]
        PROVE  \A s \in Requests : req'[s] = req[s] \/ (req'[s].rows \subseteq queue /\ req'[s].code = 0)
    <3> DEFINE n == [rows |-> nextBatch(k), code |-> 0, wanted |-> TRUE]
    <3>1. n.rows \subseteq queue /\ n.code = 0
      BY <2>1
    <3> HIDE DEF n
    <3>2. \A s \in Requests : req'[s] = IF s = r THEN n ELSE req[s]
      BY <2>3 DEF Inv, TypesInv, n
    <3> QED
      BY <3>1, <3>2
  <2> QED
    BY <2>2, <2>3 DEF postPending
<1>4. \A r \in waiting' : req'[r].code = 200 => r \in waiting /\ req'[r] = req[r]
  BY <1>3 DEF waiting
<1> QED
  BY <1>1, <1>2, <1>3, <1>4, QuietCustody

LEMMA QuietStepsCustody ==
  ASSUME Inv, CustodyInv, doWork \/ saveServer \/ UNCHANGED vars
  PROVE  CustodyInv'
<1>1. UNCHANGED <<world, provider, nextId, server_vars, queue, mark, req>>
  BY DEF doWork, saveServer, vars, outside, phone_vars
<1>2. \A k \in Provided : worker'.seen[k] \in {worker.seen[k], 0}
  <2>1. CASE doWork
    <3>1. \A k \in Provided : idle.seen[k] = 0
      BY DEF idle, Provided
    <3> QED
      BY <2>1, <3>1, StartIsTyped DEF Inv
  <2>2. CASE saveServer \/ UNCHANGED vars
    BY <2>2 DEF saveServer, vars, phone_vars
  <2> QED
    BY <2>1, <2>2
<1>3. waiting' = waiting
  BY <1>1 DEF waiting
<1> QED
  BY <1>1, <1>2, <1>3, QuietCustody

LEMMA NextCustody ==
  ASSUME NoWipes, Inv, CustodyInv, [Next]_vars
  PROVE  CustodyInv'
<1>1. CASE Sync
  BY <1>1, QuietStepsCustody, PruneCustody, HarvestCustody, SetLastCustody, PostPendingCustody,
     OutcomeCustody DEF Sync, Provided
<1>2. CASE Outside
  BY <1>2, OutsideCustody
<1>3. CASE Faults \/ Reinstall
  BY <1>3, EndsCustody
<1>4. CASE saveServer \/ UNCHANGED vars
  BY <1>4, QuietStepsCustody
<1> QED
  BY <1>1, <1>2, <1>3, <1>4, IngestCustody DEF Next

THEOREM CustodyInvariance ==
  ASSUME NoWipes
  PROVE  Spec => [](Inv /\ CustodyInv)
<1>1. Init => Inv /\ CustodyInv
  BY InitInv, InitCustody
<1>2. (Inv /\ CustodyInv) /\ [Next]_vars => (Inv /\ CustodyInv)'
  BY NextInv, NextCustody
<1> QED
  BY <1>1, <1>2, PTL DEF Spec

(* What the phone let go of.                                               *)
LEMMA LetGoOf ==
  /\ \A m : m \in LetGo <=>
       \/ \E q \in queue : q.st = "DONE" /\ q.what = m
       \/ \E k \in Provided : \E p \in provider[k] : p.id <= mark[k] /\ p.what = m
  /\ \A m : m \in LetGo' <=>
       \/ \E q \in queue' : q.st = "DONE" /\ q.what = m
       \/ \E k \in Provided : \E p \in provider'[k] : p.id <= mark'[k] /\ p.what = m
  BY DEF LetGo, Provided

(* The next three lemmas are the refinement: what the phone let go of is   *)
(* held, the phone's steps let go of more or of less, and the server's     *)
(* steps receive.                                                          *)
LEMMA LetGoIsHeld ==
  Inv /\ CustodyInv => LetGo \ world.filtered \subseteq Recorded /\ Recorded \subseteq Events
<1> SUFFICES ASSUME Inv, CustodyInv
             PROVE  LetGo \ world.filtered \subseteq Recorded /\ Recorded \subseteq Events
  OBVIOUS
<1>1. Recorded \subseteq Events
  BY DEF Inv, TypesInv, Recorded
<1>2. \A m \in LetGo : m \in Recorded \/ m \in world.filtered
  BY LetGoOf DEF CustodyInv, DoneInv, MarkInv, Settled
<1> QED
  BY <1>1, <1>2

LEMMA PhoneRefines ==
  ASSUME Inv, CustodyInv, Inv', CustodyInv', UNCHANGED <<world, server_vars>>,
         LetGo \subseteq LetGo' \/ LetGo' \subseteq LetGo
  PROVE  [Handover!Next]_<<Recorded, LetGo \ world.filtered>>
<1> DEFINE gone == LetGo \ world.filtered
<1>1. Recorded' = Recorded
  BY RecordedStays DEF server_vars
<1>2. gone' \subseteq Recorded /\ Recorded \subseteq Events /\ gone' = LetGo' \ world.filtered
  <2>1. (Inv /\ CustodyInv => LetGo \ world.filtered \subseteq Recorded /\ Recorded \subseteq Events)'
    BY LetGoIsHeld, PTL
  <2> QED
    BY <1>1, <2>1
<1>3. CASE LetGo \subseteq LetGo'
  <2>1. gone \subseteq gone'
    BY <1>2, <1>3
  <2> DEFINE C == gone' \ gone
  <2>2. C \in SUBSET Events /\ C \subseteq Recorded \ gone /\ gone' = gone \union C
    BY <1>2, <2>1
  <2>3. Handover!LetGo(C)
    BY <1>1, <2>2 DEF Handover!LetGo
  <2> QED
    BY <2>2, <2>3 DEF Handover!Next
<1>4. CASE LetGo' \subseteq LetGo
  <2>1. gone' \subseteq gone
    BY <1>2, <1>4
  <2> DEFINE C == gone \ gone'
  <2>2. gone' = gone \ C /\ C \in SUBSET Events
    BY <1>2, <2>1, LetGoIsHeld
  <2>3. Handover!Forget(C)
    BY <1>1, <2>2 DEF Handover!Forget
  <2> QED
    BY <2>2, <2>3 DEF Handover!Next
<1> QED
  BY <1>3, <1>4

LEMMA ServerRefines ==
  ASSUME Inv', UNCHANGED <<outside, phone_vars>>, Recorded \subseteq Recorded'
  PROVE  [Handover!Next]_<<Recorded, LetGo \ world.filtered>>
<1> DEFINE C == Recorded' \ Recorded
<1>1. C \in SUBSET Events /\ C \subseteq Events \ Recorded /\ Recorded' = Recorded \union C
  BY DEF Inv, TypesInv, Recorded
<1>2. LetGo' = LetGo /\ world' = world
  BY DEF outside, phone_vars, LetGo
<1>3. Handover!Receive(C)
  BY <1>1, <1>2 DEF Handover!Receive
<1> QED
  BY <1>1, <1>3 DEF Handover!Next

LEMMA LetGoOnlyGrowsOrShrinks ==
  ASSUME NoWipes, Inv, CustodyInv, [Next]_vars, ~ \E r \in Requests : ingest_batch(r)
  PROVE  UNCHANGED <<world, server_vars>> /\ (LetGo \subseteq LetGo' \/ LetGo' \subseteq LetGo)
<1>1. UNCHANGED <<world, server_vars>>
  BY DEF Next, Sync, Outside, Faults, doWork, pruneDoneBefore, harvest, setLast, postPending, outcome,
         Happens, Restore, Wipe, ConnectionLost, ServerDies, PhoneDies, saveServer, Reinstall,
         vars, outside
<1>2. CASE UNCHANGED <<provider, queue, mark>>
  BY <1>1, <1>2 DEF LetGo
<1>3. CASE UNCHANGED <<provider, mark>> /\ queue' \subseteq queue
  BY <1>1, <1>3, LetGoOf
<1>4. CASE UNCHANGED <<provider, mark>> /\ \A q \in queue : q.st = "DONE" => q \in queue'
  BY <1>1, <1>4, LetGoOf
<1>5. ASSUME UNCHANGED <<mark, provider>>, NEW st \in {"DONE", "FAILED_PERMANENT"},
             queue' = settle(worker.batch, st), \A q \in worker.batch : q.st # "DONE"
      PROVE  LetGo \subseteq LetGo'
  <2>1. \A q \in queue : q.st = "DONE" => q \in queue'
    BY <1>5 DEF settle
  <2> QED
    BY <1>5, <2>1, LetGoOf
<1>6. ASSUME NEW k \in Provided, setLast(k) PROVE LetGo \subseteq LetGo'
  <2>1. UNCHANGED <<provider, queue>>
    BY <1>6 DEF setLast, outside
  <2>2. \A c \in Provided : mark[c] <= mark'[c]
    BY <1>6 DEF setLast, Inv, TypesInv, Worker, Provided
  <2>3. \A c \in Provided : \A p \in provider[c] : p.id <= mark[c] => p.id <= mark'[c]
    <3>1. mark' \in [call : Nat, sms : Nat]
      BY <1>6 DEF setLast, Inv, TypesInv, Worker, Provided
    <3> QED
      BY <2>2, <3>1, NumbersAreNatural DEF Provided
  <2> QED
    BY <2>1, <2>3, LetGoOf
<1>7. ASSUME NEW m, NEW k \in Provided, UNCHANGED <<queue, mark>>,
             provider' = [provider EXCEPT ![k] = @ \union {[id |-> nextId[k], what |-> m]}]
      PROVE  LetGo \subseteq LetGo'
  <2>1. \A c \in Provided : provider[c] \subseteq provider'[c]
    BY <1>7 DEF Inv, TypesInv, Provided
  <2> QED
    BY <1>7, <2>1, LetGoOf
<1>8. ASSUME Reinstall PROVE LetGo' \subseteq LetGo
  <2>1. queue' = {} /\ UNCHANGED provider /\ \A k \in Provided : mark'[k] = 0
    BY <1>8 DEF Reinstall, outside, Provided
  <2>2. \A k \in Provided : \A p \in provider[k] : ~(p.id <= 0)
    BY NumbersAreNatural
  <2> QED
    BY <2>1, <2>2, LetGoOf
<1>9. ASSUME NEW r \in Requests, outcome(r) PROVE LetGo \subseteq LetGo'
  <2>1. \A q \in worker.batch : q.st # "DONE"
    BY <1>9 DEF outcome, waiting, Inv, WaitInv, BatchesInv, OneBatch
  <2>2. UNCHANGED <<mark, provider>>
    BY <1>9 DEF outcome, outside
  <2>3. CASE UNCHANGED queue
    BY <2>2, <2>3, LetGoOf
  <2>4. ASSUME NEW st \in {"DONE", "FAILED_PERMANENT"}, queue' = settle(worker.batch, st)
        PROVE  LetGo \subseteq LetGo'
    BY <1>5, <2>1, <2>2, <2>4
  <2> QED
    BY <1>9, <2>3, <2>4 DEF outcome
<1>10. CASE Sync
  BY <1>1, <1>2, <1>3, <1>4, <1>6, <1>9, <1>10
     DEF Sync, doWork, pruneDoneBefore, postPending, harvest, insertIgnore, outside, Provided
<1>11. CASE Outside
  <2>1. ASSUME NEW m \in Events, Happens(m) PROVE LetGo \subseteq LetGo'
    <3>1. CASE UNCHANGED <<provider, mark>> /\ \A q \in queue : q \in queue'
      BY <3>1, LetGoOf
    <3>2. CASE UNCHANGED <<queue, mark>> /\ \E k \in Provided :
                 provider' = [provider EXCEPT ![k] = @ \union {[id |-> nextId[k], what |-> m]}]
      BY <1>7, <3>2
    <3> QED
      BY <2>1, <3>1, <3>2 DEF Happens, insertIgnore, Provided
  <2>2. ASSUME NEW p \in provider.sms, Restore(p) PROVE LetGo \subseteq LetGo'
    BY <1>7, <2>2 DEF Restore, phone_vars, Provided
  <2>3. ASSUME NEW k \in Provided, Wipe(k) PROVE FALSE
    BY <2>3 DEF Wipe, NoWipes, Inv, TypesInv
  <2> QED
    BY <1>1, <1>11, <2>1, <2>2, <2>3 DEF Outside, Provided
<1>12. CASE Faults \/ saveServer \/ UNCHANGED vars
  BY <1>1, <1>2, <1>12
     DEF Faults, ConnectionLost, ServerDies, PhoneDies, saveServer, vars, outside, phone_vars
<1> QED
  BY <1>1, <1>8, <1>10, <1>11, <1>12 DEF Next

(* The phone and the server hand an event over without ever losing it: the *)
(* worker, its queue and its cursors, and the transactions of              *)
(* _ingest_batch, implement the abstract hand-over of Custody, whatever    *)
(* answers are lost and whichever side stops, as long as the phone's       *)
(* providers keep numbering upwards.                                       *)
THEOREM CustodyIsKept ==
  ASSUME NoWipes
  PROVE  Spec => KeepsCustody
<1>1. Init => Handover!Init
  <2> SUFFICES ASSUME Init PROVE Handover!Init
    OBVIOUS
  <2>1. Recorded = {}
    BY DEF Init, Recorded
  <2>2. LetGo = {}
    BY DEF Init, LetGo
  <2> QED
    BY <2>1, <2>2 DEF Handover!Init
<1>2. ASSUME Inv, CustodyInv, [Next]_vars
      PROVE  [Handover!Next]_<<Recorded, LetGo \ world.filtered>>
  <2>1. Inv' /\ CustodyInv'
    BY <1>2, NextInv, NextCustody
  <2>2. CASE \E r \in Requests : ingest_batch(r)
    <3>1. UNCHANGED <<outside, phone_vars>> /\ Recorded \subseteq Recorded'
      BY <1>2, <2>2, IngestCustody DEF ingest_batch
    <3> QED
      BY <2>1, <3>1, ServerRefines
  <2>3. CASE ~ \E r \in Requests : ingest_batch(r)
    BY <1>2, <2>1, <2>3, LetGoOnlyGrowsOrShrinks, PhoneRefines
  <2> QED
    BY <2>2, <2>3
<1>3. Spec => [](Inv /\ CustodyInv)
  BY CustodyInvariance
<1> QED
  BY <1>1, <1>2, <1>3, PTL DEF Spec, KeepsCustody, Handover!Spec
=============================================================================
