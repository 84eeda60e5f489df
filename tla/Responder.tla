------------------------------- MODULE Responder -------------------------------
(***************************************************************************)
(* miya/jarvis/responder.py on one chat: a look is claimed with a lease,   *)
(* the chat is read, and either the look ends there (nothing to answer, or *)
(* a message only the owner may answer) or models are asked, which takes   *)
(* its time, and what comes of it is stored.  A look is one transaction    *)
(* from its reading to its end: nothing of it is seen before, and a worker *)
(* that dies leaves only the lease.                                        *)
(*                                                                         *)
(* look.pc is where the worker stands; the other fields are what it read.  *)
(***************************************************************************)
EXTENDS ChatState

VARIABLE look

vars == <<chat_vars, look>>

ALERT_MODES == {"draft", "auto"}
EXPIRING == {"open", "owner_replying"}

NoLook == [pc |-> "idle", lease |-> NoTime, at |-> NoTime, read |-> {},
           trigger |-> 0, stall_after |-> NoTime, owner_at |-> NoTime, seen |-> {}]

Init == ChatInit /\ look = NoLook

-----------------------------------------------------------------------------
(* What a look reads *)

\* A fault to detect: a message answered by a draft is read again.
answered_by_escalations(r) == FALSE /\ rows[r].code \in REDRAFT_CODES

(* A row a client took back answered nothing. *)
answered(r) == ~(rows[r].state = "expired" /\ rows[r].code \in REDRAFT_CODES)

handled_upto ==
  latest({0} \union {rows[r].trigger : r \in {q \in DOMAIN rows : answered(q)}}
             \union UNION {{e.interaction, e.repeated} :
                             e \in {escalations[k] : k \in {j \in DOMAIN escalations :
                                                              ~escalations[j].edited}}})

(* The owner's latest own message, and the latest of anyone on our side.   *)
last_owner == max2(typed_at, chat.owner_replied_at)
last_outgoing ==
  latest({last_owner} \union {rows[r].sent_at : r \in DOMAIN rows})

burst ==
  {m \in DOMAIN inbound : /\ m > handled_upto
                          /\ fresh(m)
                          /\ ~inbound[m].deleted
                          /\ occurred(m) > last_outgoing}

last_of(set) ==
  CHOOSE m \in set : \A q \in set : \/ occurred(q) < occurred(m)
                                    \/ occurred(q) = occurred(m) /\ q <= m

since_first(set) == earliest({occurred(m) : m \in set})
kinds(set) == {inbound[m].kind : m \in set}

(* Nothing to answer, or the owner's to answer. *)
no_reply ==
  \/ chat.last_inbound_at = NoTime \/ chat.last_inbound_at < now - MAX_AGE
  \/ chat.ai_paused_until > now
  \/ last_owner # NoTime /\ last_owner >= chat.last_inbound_at
  \/ chat.owner_seen_at # NoTime /\ chat.owner_seen_at >= chat.last_inbound_at
  \/ burst = {}

typing == chat.owner_composing_at # NoTime /\ chat.owner_composing_at + COMPOSING_HOLD > now

ready_at ==
  LET window == since_first(burst) + OWNER_FIRST
  IN  IF typing THEN max2(window, chat.owner_composing_at + COMPOSING_HOLD) ELSE window

escalates_at_once ==
  /\ "unsafe" \notin kinds(burst)
  /\ kinds(burst) \intersect {"red_line", "injection"} # {}

too_early ==
  /\ now < ready_at
  /\ typing \/ Mode \notin ALERT_MODES \/ ~escalates_at_once

\* A fault to detect: the stall of an early escalation is sent at once.
stall_moment_now == NoTime

(* Read before the window ended: the stall waits for it. *)
stall_moment == IF now < ready_at THEN ready_at ELSE NoTime

-----------------------------------------------------------------------------
(* What a look writes.  `d' is what it read. *)

settled(d) ==
  LET owned == IF d.owner_at = NoTime THEN escalations ELSE resolve_escalation(d.owner_at)
  IN  [k \in DOMAIN owned |->
         IF owned[k].state \in EXPIRING /\ owned[k].created_at <= d.at - DRAFT_EXPIRY
           THEN [owned[k] EXCEPT !.state = "expired"] ELSE owned[k]]

open_in(list) == {k \in DOMAIN list : list[k].state \in ESCALATION_OPEN_STATES}

new_row(d, state, escalation, not_before) ==
  [state |-> state, authored_by |-> AI,
   approved_by |-> IF state = "approved" THEN AUTO_APPROVER ELSE NoApprover,
   approved_at |-> IF state = "approved" THEN d.at ELSE NoTime,
   created_at |-> d.at, has_trigger |-> TRUE, trigger |-> d.trigger,
   not_before |-> not_before,
   expires_at |-> max2(not_before, d.at) + DRAFT_EXPIRY,
   read |-> d.read, escalation |-> escalation, code |-> "", sent_at |-> NoTime]

(* A stall is never sent on its own: its intent is not an AUTO_INTENT. *)
initial_states(escalation) ==
  IF Mode = "auto" THEN {"draft"} \union (IF escalation = 0 THEN {"approved"} ELSE {})
                   ELSE {Mode}

(* outbox.create, contained: a proposal may fail to be stored. *)
Propose(d, escalation, not_before) ==
  \/ \E state \in initial_states(escalation) :
       rows' = Append(rows, new_row(d, state, escalation, not_before))
  \/ UNCHANGED rows

new_escalation(d) ==
  [state |-> "open", interaction |-> d.trigger, repeated |-> 0,
   created_at |-> d.at, edited |-> FALSE]

\* A fault to detect: a push into an open escalation opens another.
EscalateAgain(d, stall) ==
  LET list == settled(d)
  IN  /\ escalations' = Append(list, new_escalation(d))
      /\ IF stall THEN Propose(d, Len(list) + 1, d.stall_after) ELSE UNCHANGED rows

(* One open escalation per chat: a second push is a repeat, with no stall. *)
Escalate(d, stall) ==
  LET list == settled(d)
  IN  IF open_in(list) # {}
        THEN /\ escalations' = [k \in DOMAIN list |->
                  IF k \in open_in(list) THEN [list[k] EXCEPT !.repeated = max2(@, d.trigger)]
                                         ELSE list[k]]
             /\ UNCHANGED rows
        ELSE /\ escalations' = Append(list, new_escalation(d))
             /\ IF stall THEN Propose(d, Len(list) + 1, d.stall_after) ELSE UNCHANGED rows

\* A fault to detect: the end of a look overwrites a newer enqueue.
FinishAnyway(until) ==
  chat' = [chat EXCEPT !.respond_after = until, !.leased = FALSE]

\* A fault to detect: a look that ends keeps the chat in the queue.
Finish_keeping(until) ==
  chat' = IF chat.leased /\ chat.respond_after = look.lease /\ until # NoTime
            THEN [chat EXCEPT !.respond_after = until, !.leased = FALSE] ELSE chat

(* A message that came meanwhile moved respond_after off the lease: it stays.*)
Finish(until) ==
  chat' = IF chat.leased /\ chat.respond_after = look.lease
            THEN [chat EXCEPT !.respond_after = until, !.leased = FALSE] ELSE chat

-----------------------------------------------------------------------------
(* The steps of a look *)

ClaimDue ==
  /\ look.pc = "idle"
  /\ chat.respond_after # NoTime /\ chat.respond_after <= now
  /\ chat' = [chat EXCEPT !.respond_after = now + CLAIM_LEASE, !.leased = TRUE]
  /\ look' = [NoLook EXCEPT !.pc = "claimed", !.lease = now + CLAIM_LEASE]
  /\ UNCHANGED <<now, inbound, typed_at, rows, escalations, notes, unread, spent>>

(* The chats before this one took too long: the next run claims it again.  *)
LeaveForNextRun ==
  /\ look.pc = "claimed" /\ now >= look.lease
  /\ look' = NoLook
  /\ UNCHANGED chat_vars

may_read == look.pc = "claimed" /\ now < look.lease

LookAway ==
  /\ may_read
  /\ \/ no_reply
     \/ ~no_reply /\ ~too_early /\ "unsafe" \in kinds(burst)
  /\ Finish(NoTime)
  /\ unread' = {}
  /\ look' = NoLook
  /\ UNCHANGED <<now, inbound, typed_at, rows, escalations, notes, spent>>

LookAgain ==
  /\ may_read
  /\ ~no_reply /\ too_early
  /\ Finish(ready_at)
  /\ look' = NoLook
  /\ UNCHANGED <<now, inbound, typed_at, rows, escalations, notes, unread, spent>>

answers == may_read /\ ~no_reply /\ ~too_early /\ "unsafe" \notin kinds(burst)

reading ==
  [look EXCEPT !.at = now,
               !.read = {[m |-> m, version |-> inbound[m].version] : m \in burst},
               !.trigger = last_of(burst), !.owner_at = last_owner,
               !.stall_after = stall_moment, !.seen = unread]

sent_today == Cardinality({r \in DOMAIN rows : rows[r].state \in {"sending", "sent"}})

owner_only ==
  \/ open_in(settled(reading)) # {}
  \/ chat.turns >= MAX_AI_TURNS
  \/ sent_today >= CHAT_CAP
  \/ "injection" \in kinds(burst)

(* No model is asked: the chat goes to the owner, for a red line with the  *)
(* one stall.                                                              *)
HandToOwner ==
  /\ answers
  /\ owner_only \/ "red_line" \in kinds(burst)
  /\ Escalate(reading, ~owner_only)
  /\ Finish(NoTime)
  /\ unread' = {}
  /\ look' = NoLook
  /\ UNCHANGED <<now, inbound, typed_at, notes, spent>>

(* The models are asked; nothing is written until they answered. *)
AskModels ==
  /\ answers
  /\ ~owner_only /\ "red_line" \notin kinds(burst)
  /\ look' = [reading EXCEPT !.pc = "thinking"]
  /\ unread' = {}
  /\ UNCHANGED <<now, inbound, typed_at, chat, rows, escalations, notes, spent>>

(* A draft that passed both guards; or an intent, a guard or the cost cap  *)
(* that sends the chat to the owner, with a stall; or a model failure or a *)
(* suspicious thread, without one; or an error, which is let go.           *)
StoreAnswer ==
  /\ look.pc = "thinking"
  /\ \/ Propose(look, 0, NoTime) /\ escalations' = settled(look)
     \/ \E stall \in BOOLEAN : Escalate(look, stall)
     \/ UNCHANGED <<rows, escalations>>
  /\ Finish(NoTime)
  /\ look' = NoLook
  /\ UNCHANGED <<now, inbound, typed_at, notes, unread, spent>>

WorkerDies ==
  /\ spend("crash")
  /\ look.pc # "idle"
  /\ unread' = unread \union look.seen
  /\ look' = NoLook
  /\ UNCHANGED <<now, inbound, typed_at, chat, rows, escalations, notes>>

Look == LookAway \/ LookAgain \/ HandToOwner \/ AskModels

Next ==
  \/ ChatNext /\ UNCHANGED look
  \/ ClaimDue \/ LeaveForNextRun \/ Look \/ StoreAnswer \/ WorkerDies

Spec == Init /\ [][Next]_vars

(* The job runs every 15 seconds, the clock goes on, and a model call ends *)
(* (it has a timeout).                                                     *)
FairSpec ==
  /\ Spec
  /\ WF_vars(ClaimDue) /\ WF_vars(LeaveForNextRun \/ Look) /\ WF_vars(StoreAnswer)
  /\ WF_vars(Tick /\ UNCHANGED look)

-----------------------------------------------------------------------------
(* Properties *)

Rows ==
  [state : PENDING \union {"sending", "sent", "cancelled", "expired", "blocked"},
   authored_by : {AI}, approved_by : {NoApprover, OWNER, AUTO_APPROVER},
   approved_at : OptTime, created_at : Time, has_trigger : {TRUE},
   trigger : DOMAIN inbound, not_before : OptTime, expires_at : Time,
   read : SUBSET [m : DOMAIN inbound, version : Nat],
   escalation : {0} \union DOMAIN escalations, code : STRING, sent_at : OptTime]

(* The columns keep their types, ids point at what exists, and a row is    *)
(* approved by someone exactly while it has a moment of approval.          *)
TypeOK ==
  /\ now \in 0..MaxTime
  /\ typed_at <= now
  /\ \A m \in DOMAIN inbound : occurred(m) \in 0..now /\ inbound[m].kind \in Kinds
  /\ \A r \in DOMAIN rows : /\ rows[r] \in Rows
                            /\ rows[r].approved_by = NoApprover <=> rows[r].approved_at = NoTime
  /\ \A k \in DOMAIN escalations : escalations[k].interaction \in DOMAIN inbound
  /\ chat.leased => chat.respond_after # NoTime
  /\ look.pc \in {"idle", "claimed", "thinking"}
  /\ unread \subseteq DOMAIN inbound

claims(r) == rows[r].state = "approved" /\ rows'[r].state = "sending"

(* A row is handed out only if the owner's last message in the chat is not *)
(* later than what it answers, or than their own tap: even when the signal *)
(* of that message was lost, and for a sticker that only the signal knows. *)
(* outbox.claim_ready reads both.                                          *)
OwnerGoesFirst ==
  [][\A r \in DOMAIN rows : claims(r) =>
       LET tap == IF rows[r].approved_by = OWNER THEN rows[r].approved_at ELSE NoTime
       IN  /\ typed_at <= max2(tap, occurred(rows[r].trigger))
           /\ chat.owner_replied_at <= max2(tap, occurred(rows[r].trigger))]_vars

(* Nothing is sent before the owner had the window to answer themselves,   *)
(* counted from the first message the row read: not the stall of an        *)
(* escalation opened at once, not a row that was held and looked at again. *)
WindowIsKept ==
  [][\A r \in DOMAIN rows : claims(r) =>
       now >= since_first({x.m : x \in rows[r].read}) + OWNER_FIRST]_vars

(* A queued message is never forgotten: the chat leaves the queue only when *)
(* a look has read it, whatever arrives while a look is under way, whoever *)
(* dies, and also for an edit or a deletion that asked for a new draft.    *)
NothingIsLost ==
  chat.respond_after = NoTime => unread = {}

(* One open escalation per chat and at most one stall for each: repeats    *)
(* are silent (responder._escalate).                                       *)
OneStallPerEscalation ==
  /\ Cardinality(open_in(escalations)) <= 1
  /\ \A r, q \in DOMAIN rows :
       rows[r].escalation # 0 /\ rows[r].escalation = rows[q].escalation => r = q

live(r) == rows[r].state \in PENDING \union {"sending", "sent"}

(* "A burst of client messages in a private chat gets one reply": no       *)
(* message is answered twice, no two rows that are pending or sent have    *)
(* read it.  Holds while messages are stored in the order they were sent.  *)
OneAnswerPerMessage ==
  \A r, q \in DOMAIN rows :
    r # q /\ live(r) /\ live(q) =>
      {x.m : x \in rows[r].read} \intersect {x.m : x \in rows[q].read} = {}

(* A queued chat is looked at and leaves the queue: a lease a dead worker  *)
(* left, an owner who types, a window to wait for only delay it.           *)
QueueEmpties == chat.respond_after # NoTime ~> chat.respond_after = NoTime

=============================================================================
