---------------------------- MODULE PhoneEvents ----------------------------
(***************************************************************************)
(* Call-log rows, SMS and payment pushes on their way to the server: the   *)
(* providers of the phone, the Room queue and the cursors of               *)
(* EventSyncWorker, the listener that captures pushes, and the batches of  *)
(* services/phone_events.py behind the routes of api/main.py.              *)
(*                                                                         *)
(* An event m is one thing that happened, in the order of its number; its  *)
(* content (number, moment, duration; sender, moment, body) is m.  A       *)
(* provider row [id, what] is its record in the phone; a queue row carries *)
(* the event key minted from it.  A copy a backup app restores is another  *)
(* row of the same event.                                                  *)
(*                                                                         *)
(* world: stream[m]; filtered are SMS the mode does not ask for; refused   *)
(* the events the server rejects by name, malformed those for which the    *)
(* envelope refuses the whole batch; the rest bounds what may happen.      *)
(***************************************************************************)
EXTENDS Naturals, Sequences, FiniteSets

CONSTANTS
  Events, Worlds,
  Requests,                        \* bound: batches the server handles at once
  MAX_BATCH,
  NoReq

Streams == {"call", "sms", "push"}

ASSUME EventsAssumption ==
  /\ Events \subseteq Nat \ {0} /\ IsFiniteSet(Events)
  /\ \A w \in Worlds :
       /\ w.stream \in [Events -> Streams]
       /\ {w.happen, w.filtered, w.refused, w.malformed} \subseteq SUBSET Events
       /\ w.token \in BOOLEAN
       /\ {w.faults, w.reinstalls, w.restores, w.wipes} \subseteq Nat
  /\ MAX_BATCH \in Nat \ {0}

(* One run of EventSyncWorker passes these stages in order *)
Stages == << <<"harvest", "call">>, <<"harvest", "sms">>,
             <<"post", "call">>, <<"post", "sms">>, <<"post", "push">>,
             <<"mark", "call">>, <<"mark", "sms">>, <<"prune", "all">> >>

VARIABLES
  world, happened, provider, nextId,
  queue, mark, latch, device, worker,
  req, keys, copies, rejected, token,
  faults, restores, wipes

phone_vars  == <<queue, mark, latch, device, worker>>
server_vars == <<keys, copies, rejected>>
bounds      == <<faults, restores, wipes>>
outside     == <<world, happened, provider, nextId>>
vars == <<outside, phone_vars, req, server_vars, token, bounds>>

idle == [at |-> 0, authFailed |-> FALSE, seen |-> [call |-> 0, sms |-> 0], ok |-> {}, batch |-> {}]

Init ==
  /\ world \in Worlds
  /\ happened = {}
  /\ provider = [call |-> {}, sms |-> {}] /\ nextId = [call |-> 1, sms |-> 1]
  /\ queue = {} /\ mark = [call |-> 0, sms |-> 0]
  /\ latch = FALSE /\ device = 0 /\ worker = idle
  /\ req = [r \in Requests |-> NoReq]
  /\ keys = {} /\ copies = [m \in Events |-> 0] /\ rejected = {}
  /\ token = world.token
  /\ faults = 0 /\ restores = 0 /\ wipes = 0

Fault == faults < world.faults /\ faults' = faults + 1

-----------------------------------------------------------------------------
(* What happens on the phone *)

(* call: "<device>:call:<id>"; sms: the content is hashed in as well, and a *)
(* push has no id of its own                                                *)
event_key(stream, id, m) ==
  [device |-> device, stream |-> stream, id |-> id, hash |-> IF stream = "call" THEN 0 ELSE m]

pending_row(stream, id, m) == [key |-> event_key(stream, id, m), what |-> m, st |-> "PENDING"]

(* The primary key is the event key: what is queued already stays as it is *)
insertIgnore(rows) ==
  queue \union {n \in rows : \A q \in queue : q.key # n.key}

Happens(m) ==
  /\ m \in world.happen \ happened
  /\ \A n \in world.happen \ happened : m <= n
  /\ happened' = happened \union {m}
  /\ LET k == world.stream[m] IN
     \/ /\ k \in {"call", "sms"}
        /\ provider' = [provider EXCEPT ![k] = @ \union {[id |-> nextId[k], what |-> m]}]
        /\ nextId' = [nextId EXCEPT ![k] = @ + 1]
        /\ UNCHANGED queue
     \/ /\ k = "push"
        /\ queue' = insertIgnore({pending_row("push", 0, m)})
        /\ UNCHANGED <<provider, nextId>>
  /\ UNCHANGED <<world, mark, latch, device, worker, req, server_vars, token, bounds>>

(* A backup app puts an SMS back: the same content under another id *)
Restore(p) ==
  /\ restores < world.restores /\ restores' = restores + 1
  /\ p \in provider.sms
  /\ provider' = [provider EXCEPT !.sms = @ \union {[id |-> nextId.sms, what |-> p.what]}]
  /\ nextId' = [nextId EXCEPT !.sms = @ + 1]
  /\ UNCHANGED <<world, happened, phone_vars, req, server_vars, token, faults, wipes>>

(* The provider's data is wiped: its ids start again *)
Wipe(k) ==
  /\ wipes < world.wipes /\ wipes' = wipes + 1
  /\ provider' = [provider EXCEPT ![k] = {}] /\ nextId' = [nextId EXCEPT ![k] = 1]
  /\ UNCHANGED <<world, happened, phone_vars, req, server_vars, token, faults, restores>>

-----------------------------------------------------------------------------
(* EventSyncWorker: harvest, post, mark *)

rows_in(k, st) == {q \in queue : q.key.stream = k /\ q.st = st}
settle(rows, st) == {IF q \in rows THEN [q EXCEPT !.st = st] ELSE q : q \in queue}

Stage(step, k) == worker.at # 0 /\ Stages[worker.at] = <<step, k>>
next(w) == [w EXCEPT !.at = IF w.at = Len(Stages) THEN 0 ELSE w.at + 1]

(* A run reads its preferences once, here *)
doWork ==
  /\ worker.at = 0
  /\ worker' = [idle EXCEPT !.at = 1, !.authFailed = latch]
  /\ UNCHANGED <<outside, queue, mark, latch, device, req, server_vars, token, bounds>>

(* The first MAX_BATCH rows behind the cursor *)
since(k) ==
  {p \in provider[k] : /\ p.id > mark[k]
                       /\ Cardinality({q \in provider[k] : mark[k] < q.id /\ q.id < p.id}) < MAX_BATCH}

harvest(k) ==
  /\ Stage("harvest", k)
  /\ \/ LET read == since(k) IN
        /\ queue' = insertIgnore({pending_row(k, p.id, p.what) : p \in {q \in read : q.what \notin world.filtered}})
        /\ \E top \in {mark[k]} \union {p.id : p \in read} :
             /\ \A p \in read : p.id <= top
             /\ worker' = next([worker EXCEPT !.seen[k] = top])
        /\ UNCHANGED faults
     \/ /\ Fault                   \* the provider cannot be read
        /\ worker' = next([worker EXCEPT !.seen[k] = mark[k]])
        /\ UNCHANGED queue
  /\ UNCHANGED <<outside, mark, latch, device, req, server_vars, token, restores, wipes>>

nextBatch(k) ==
  LET open == rows_in(k, "PENDING") IN
    {q \in open : Cardinality({p \in open : \/ p.what < q.what
                                            \/ p.what = q.what /\ p.key.id < q.key.id}) < MAX_BATCH}

(* A 401 known when the run began ends it before anything is posted *)
postPending(k) ==
  /\ Stage("post", k) /\ worker.batch = {}
  /\ \/ /\ worker.authFailed      \* so at the first of the streams
        /\ worker' = idle /\ UNCHANGED req
     \/ /\ ~worker.authFailed /\ nextBatch(k) = {}
        /\ worker' = next([worker EXCEPT !.ok = @ \union {k}]) /\ UNCHANGED req
     \/ /\ ~worker.authFailed /\ nextBatch(k) # {}
        /\ worker' = [worker EXCEPT !.batch = nextBatch(k)]
        /\ \E r \in Requests :
             /\ req[r] = NoReq
             /\ req' = [req EXCEPT ![r] = [rows |-> nextBatch(k), code |-> 0, wanted |-> TRUE]]
  /\ UNCHANGED <<outside, queue, mark, latch, device, server_vars, token, bounds>>

gives_up(w) == next([w EXCEPT !.batch = {}])

\* A fault to detect: a 200 settles whatever waits.
outcome_all(r) ==
  /\ req[r] # NoReq /\ req[r].wanted /\ req[r].code # 0
  /\ req' = [req EXCEPT ![r] = NoReq]
  /\ \/ /\ req[r].code = 200
        /\ queue' = settle({q \in queue : q.st = "PENDING"}, "DONE")
        /\ worker' = [worker EXCEPT !.batch = {}] /\ UNCHANGED latch
     \/ /\ req[r].code = 401
        /\ latch' = TRUE /\ worker' = gives_up(worker) /\ UNCHANGED queue
     \/ /\ req[r].code = 422
        /\ queue' = settle(worker.batch, "FAILED_PERMANENT")
        /\ worker' = gives_up(worker) /\ UNCHANGED latch
  /\ UNCHANGED <<outside, mark, device, server_vars, token, bounds>>

\* A fault to detect: a batch refused for good is tried again.
outcome_again(r) ==
  /\ req[r] # NoReq /\ req[r].wanted /\ req[r].code # 0
  /\ req' = [req EXCEPT ![r] = NoReq]
  /\ \/ /\ req[r].code = 200
        /\ queue' = settle(worker.batch, "DONE")
        /\ worker' = [worker EXCEPT !.batch = {}] /\ UNCHANGED latch
     \/ /\ req[r].code = 401
        /\ latch' = TRUE /\ worker' = gives_up(worker) /\ UNCHANGED queue
     \/ /\ req[r].code = 422
        /\ queue' = settle(worker.batch, "PENDING")
        /\ worker' = gives_up(worker) /\ UNCHANGED latch
  /\ UNCHANGED <<outside, mark, device, server_vars, token, bounds>>

(* The answer: a 200 settles the whole batch; the rest ends this stream *)
outcome(r) ==
  /\ req[r] # NoReq /\ req[r].wanted /\ req[r].code # 0
  /\ req' = [req EXCEPT ![r] = NoReq]
  /\ \/ /\ req[r].code = 200
        /\ queue' = settle(worker.batch, "DONE")
        /\ worker' = [worker EXCEPT !.batch = {}] /\ UNCHANGED latch
     \/ /\ req[r].code = 401
        /\ latch' = TRUE /\ worker' = gives_up(worker) /\ UNCHANGED queue
     \/ /\ req[r].code = 422
        /\ queue' = settle(worker.batch, "FAILED_PERMANENT")
        /\ worker' = gives_up(worker) /\ UNCHANGED latch
  /\ UNCHANGED <<outside, mark, device, server_vars, token, bounds>>

(* The cursor moves when every row below it is settled with the server *)
setLast(k) ==
  /\ Stage("mark", k)
  /\ LET settled == k \in worker.ok /\ rows_in(k, "PENDING") = {} /\ rows_in(k, "FAILED_PERMANENT") = {} IN
       mark' = IF settled /\ worker.seen[k] > mark[k] THEN [mark EXCEPT ![k] = worker.seen[k]] ELSE mark
  /\ worker' = next(worker)
  /\ UNCHANGED <<outside, queue, latch, device, req, server_vars, token, bounds>>

(* A week later *)
pruneDoneBefore ==
  /\ Stage("prune", "all")
  /\ \E old \in SUBSET {q \in queue : q.st = "DONE"} : queue' = queue \ old
  /\ worker' = idle
  /\ UNCHANGED <<outside, mark, latch, device, req, server_vars, token, bounds>>

(* The owner pastes a token that works *)
saveServer ==
  /\ ~token /\ token' = TRUE /\ latch' = FALSE
  /\ UNCHANGED <<outside, queue, mark, device, worker, req, server_vars, bounds>>

-----------------------------------------------------------------------------
(* POST /v1/phone/...: one batch, one transaction *)

answered(r, code) == IF req[r].wanted THEN [req[r] EXCEPT !.code = code] ELSE NoReq

\* A fault to detect: only the event key is unique.
duplicate_key(q) == q.key \in keys

(* The unique indexes: the event key, and the content *)
duplicate(q) == q.key \in keys \/ copies[q.what] > 0

(* What of a batch is new, every event of it once *)
accepted(rows) ==
  {q \in rows : /\ q.what \notin world.refused /\ ~duplicate(q)
                /\ \A p \in rows : p.what = q.what => q.key.id <= p.key.id}

ingest_batch(r) ==
  /\ req[r] # NoReq /\ req[r].code = 0
  /\ LET rows == req[r].rows IN
     \/ /\ ~token
        /\ req' = [req EXCEPT ![r] = answered(r, 401)]
        /\ UNCHANGED server_vars
     \/ /\ token /\ \E q \in rows : q.what \in world.malformed
        /\ req' = [req EXCEPT ![r] = answered(r, 422)]
        /\ UNCHANGED server_vars
     \/ /\ token /\ \A q \in rows : q.what \notin world.malformed
        /\ keys' = keys \union {q.key : q \in accepted(rows)}
        /\ copies' = [m \in Events |-> copies[m] + Cardinality({q \in accepted(rows) : q.what = m})]
        /\ rejected' = rejected \union ({q.what : q \in rows} \cap world.refused)
        /\ req' = [req EXCEPT ![r] = answered(r, 200)]
  /\ UNCHANGED <<outside, phone_vars, token, bounds>>

-----------------------------------------------------------------------------
(* Answers that are lost, and ends of either side *)

hung_up(R) == [r \in Requests |-> IF r \notin R \/ req[r] = NoReq THEN req[r]
                                  ELSE IF req[r].code # 0 THEN NoReq
                                  ELSE [req[r] EXCEPT !.wanted = FALSE]]
waiting == {r \in Requests : req[r] # NoReq /\ req[r].wanted}

ConnectionLost ==
  /\ waiting # {} /\ Fault
  /\ worker' = gives_up(worker) /\ req' = hung_up(waiting)
  /\ UNCHANGED <<outside, queue, mark, latch, device, server_vars, token, restores, wipes>>

ServerDies ==
  /\ \E r \in Requests : req[r] # NoReq
  /\ Fault
  /\ worker' = IF waiting = {} THEN worker ELSE gives_up(worker)
  /\ req' = [r \in Requests |-> NoReq]
  /\ UNCHANGED <<outside, queue, mark, latch, device, server_vars, token, restores, wipes>>

PhoneDies ==
  /\ worker.at # 0 /\ Fault
  /\ worker' = idle /\ req' = hung_up(waiting)
  /\ UNCHANGED <<outside, queue, mark, latch, device, server_vars, token, restores, wipes>>

Reinstall ==
  /\ device < world.reinstalls /\ device' = device + 1
  /\ queue' = {} /\ mark' = [call |-> 0, sms |-> 0] /\ latch' = FALSE
  /\ worker' = idle /\ req' = hung_up(waiting)
  /\ UNCHANGED <<outside, server_vars, token, bounds>>

-----------------------------------------------------------------------------
Sync == \/ doWork \/ pruneDoneBefore
        \/ \E k \in {"call", "sms"} : harvest(k) \/ setLast(k)
        \/ \E k \in Streams : postPending(k)
        \/ \E r \in Requests : outcome(r)
Outside == \/ \E m \in Events : Happens(m)
           \/ \E p \in provider.sms : Restore(p)
           \/ \E k \in {"call", "sms"} : Wipe(k)
Faults  == ConnectionLost \/ ServerDies \/ PhoneDies

Next == Sync \/ Outside \/ Faults \/ saveServer \/ Reinstall \/ \E r \in Requests : ingest_batch(r)

Spec == Init /\ [][Next]_vars

(* The 15-minute sweep starts the worker, WorkManager lets it finish, and  *)
(* the server handles what reaches it                                      *)
FairSpec == Spec /\ WF_vars(Sync) /\ \A r \in Requests : WF_vars(ingest_batch(r))

-----------------------------------------------------------------------------
(* Everything stays in its range, and the worker waits for an answer iff a *)
(* batch of it is with the server                                          *)
TypeOK ==
  /\ happened \subseteq Events
  /\ \A k \in {"call", "sms"} : \A p \in provider[k] : p.id < nextId[k] /\ p.what \in Events
  /\ \A q \in queue : q.what \in Events /\ q.st \in {"PENDING", "DONE", "FAILED_PERMANENT"}
  /\ \A p, q \in queue : p.key = q.key => p = q
  /\ worker.at \in 0..Len(Stages) /\ worker.ok \subseteq Streams
  /\ Cardinality(waiting) = IF worker.batch = {} THEN 0 ELSE 1
  /\ \A r \in waiting : req[r].rows = worker.batch
  /\ copies \in [Events -> Nat]

(* One event becomes one interaction, whether it is posted again after a   *)
(* lost answer, harvested again by a reinstalled app under a new device id *)
(* or restored by a backup app under a new provider id                     *)
(* (phone_events.py: "every event becomes exactly one interaction")        *)
EventOnce == \A m \in Events : copies[m] <= 1

Recorded == {m \in Events : copies[m] > 0} \union rejected

(* The phone lets an event go (a settled row, a cursor that has passed it) *)
(* only when the server holds it                                           *)
LetGo == {q.what : q \in {p \in queue : p.st = "DONE"}} \union
         UNION {{p.what : p \in {o \in provider[k] : o.id <= mark[k]}} : k \in {"call", "sms"}}
Handover == INSTANCE Custody WITH Conversations <- Events, held <- Recorded,
                                  let_go <- LetGo \ world.filtered
KeepsCustody == Handover!Spec

(* What happens reaches the server, or the owner is told: a token that is  *)
(* refused, or events of that stream that were refused for good            *)
(* (Heartbeat: events_failed).  Only what is gone from the phone is not    *)
(* waited for: a push goes with the app's queue, a row with its provider.  *)
Gone(m) == /\ \A k \in {"call", "sms"} : \A p \in provider[k] : p.what # m
           /\ \A q \in queue : q.what # m
Told(k) == latch \/ rows_in(k, "FAILED_PERMANENT") # {}
EventsArrive ==
  \A m \in Events :
    m \in happened \ world.filtered
      ~> m \in Recorded \/ Told(world.stream[m]) \/ Gone(m)

=============================================================================
