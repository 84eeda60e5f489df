------------------------------ MODULE ChatState ------------------------------
(***************************************************************************)
(* miya/jarvis/chat_state.py and the handlers of miya/userbot/main.py that *)
(* call it: what owner and client do in one private chat, how the signals  *)
(* reach jarvis_chat_state, and what they do to the rows and escalations   *)
(* already there.  The claim reads the chat through the gate's own lines.  *)
(*                                                                         *)
(* A message is stored in one transaction and its signal recorded in a     *)
(* second one; `notes' are the signals between the two.  A reader that     *)
(* dies loses them.  Ids are positions: in `inbound' of client messages,   *)
(* in `rows' of proposals, in `escalations'.                               *)
(*                                                                         *)
(* `unread' is history: the client's messages queued for a look and not    *)
(* read by one since.  `spent' counts the acts that Budget bounds.         *)
(***************************************************************************)
EXTENDS Gate, Sequences, FiniteSets

CONSTANTS
  Mode,            \* the mode of the chat's channel
  Kinds,           \* what a client's message may be
  DEBOUNCE, OWNER_FIRST, MAX_AGE, CLAIM_LEASE, TAKEOVER, SELF_READ_WINDOW,
  DRAFT_EXPIRY, MAX_AI_TURNS, CHAT_CAP,
  Swaps,           \* may an edit swap the media: a subset of BOOLEAN
  Late,            \* bound: how late the reader hears of anything
  Budget,          \* bound: how often each kind of act happens
  ActUntil, MaxTime

ASSUME ChatAssumption ==
  /\ Mode \in {"shadow", "draft", "auto"}
  /\ Kinds \subseteq {"plain", "red_line", "injection", "unsafe"}
  /\ DEBOUNCE \in Nat /\ OWNER_FIRST \in Nat /\ MAX_AGE \in Nat
  /\ CLAIM_LEASE \in Nat \ {0} /\ DRAFT_EXPIRY \in Nat \ {0}
  /\ TAKEOVER \in Nat /\ SELF_READ_WINDOW \in Nat
  /\ MAX_AI_TURNS \in Nat /\ CHAT_CAP \in Nat
  /\ Swaps \subseteq BOOLEAN
  /\ Late \in Nat /\ ActUntil \in Nat /\ MaxTime \in Nat
  /\ Budget \in [{"write", "change", "owner", "crash"} -> Nat]

VARIABLES now, inbound, typed_at, chat, rows, escalations, notes, unread, spent

chat_vars == <<now, inbound, typed_at, chat, rows, escalations, notes, unread, spent>>

PENDING == {"shadow", "draft", "approved"}
OWNER_CANCELS == {"draft", "approved"}
REDRAFT_CODES == {"trigger_edited", "burst_deleted"}
ESCALATION_OPEN_STATES == {"open", "snoozed", "owner_replying"}

latest(S) == CHOOSE t \in S : \A u \in S : u <= t
earliest(S) == CHOOSE t \in S : \A u \in S : t <= u

occurred(m) == inbound[m].occurred_at

NewChat ==
  [known |-> FALSE, respond_after |-> NoTime,
   leased |-> FALSE,                   \* respond_after is the lease of a look
   last_inbound_at |-> NoTime, owner_seen_at |-> NoTime,
   owner_composing_at |-> NoTime, owner_replied_at |-> NoTime,
   ai_paused_until |-> NoTime, last_ai_sent_at |-> NoTime, turns |-> 0]

ChatInit ==
  /\ now = 0
  /\ inbound = <<>>
  /\ typed_at = NoTime
  /\ chat = NewChat
  /\ rows = <<>>
  /\ escalations = <<>>
  /\ notes = {}
  /\ unread = {}
  /\ spent = [act \in DOMAIN Budget |-> 0]

spend(act) ==
  /\ now <= ActUntil
  /\ spent[act] < Budget[act]
  /\ spent' = [spent EXCEPT ![act] = @ + 1]

moments == {t \in 0..now : now - t <= Late}
note(kind, m, at) == [kind |-> kind, m |-> m, at |-> at]

-----------------------------------------------------------------------------
(* Changes of a row or an escalation that several handlers make *)

moved_to(set, new, code) ==
  [r \in DOMAIN rows |->
     IF r \in set THEN [rows[r] EXCEPT !.state = new, !.code = code] ELSE rows[r]]

requeued == [chat EXCEPT !.respond_after = now + DEBOUNCE, !.leased = FALSE]

(* Pending AI rows whose trigger could have come with message m. *)
read_with(m, states) ==
  {r \in DOMAIN rows : /\ rows[r].state \in states
                       /\ occurred(rows[r].trigger) >= occurred(m)
                       /\ occurred(rows[r].trigger) <= occurred(m) + MAX_AGE}

fresh(m) == occurred(m) >= now - MAX_AGE

(* The owner answered the messages up to `at': an open escalation about    *)
(* one of them is theirs.                                                  *)
answered_by_owner(e, at) ==
  /\ e.state \in ESCALATION_OPEN_STATES
  /\ occurred(e.interaction) <= at

resolve_escalation(at) ==
  [k \in DOMAIN escalations |->
     IF answered_by_owner(escalations[k], at)
       THEN [escalations[k] EXCEPT !.state = "resolved"] ELSE escalations[k]]

-----------------------------------------------------------------------------
(* The client writes, edits and deletes *)

StoreInbound(kind, at) ==
  /\ spend("write")
  /\ inbound' = Append(inbound, [occurred_at |-> at, kind |-> kind, version |-> 0,
                                 edited_at |-> NoTime, deleted |-> FALSE])
  /\ notes' = notes \union {note("enqueue", Len(inbound) + 1, at)}
  /\ UNCHANGED <<now, typed_at, chat, rows, escalations, unread>>

newer(m) == chat.last_inbound_at <= occurred(m)

EnqueueCandidate(n) ==
  /\ n.kind = "enqueue"
  /\ notes' = notes \ {n}
  /\ IF fresh(n.m) /\ newer(n.m)
       THEN /\ chat' = [chat EXCEPT !.known = TRUE, !.leased = FALSE,
                          !.last_inbound_at = occurred(n.m),
                          !.respond_after = max2(now, occurred(n.m)) + DEBOUNCE]
            /\ unread' = unread \union {n.m}
       ELSE UNCHANGED <<chat, unread>>
  /\ UNCHANGED <<now, inbound, typed_at, rows, escalations, spent>>

RecordEdit(m, kind, at) ==
  /\ spend("change")
  /\ ~inbound[m].deleted
  /\ inbound' = [inbound EXCEPT ![m].version = @ + 1, ![m].kind = kind,
                                ![m].edited_at = max2(@, at)]
  /\ notes' = notes \union {note("edited", m, at)}
  /\ UNCHANGED <<now, typed_at, chat, rows, escalations, unread>>

cancelled_for_edit(expired) ==
  [k \in DOMAIN escalations |->
     IF escalations[k].state = "open" /\ \E r \in expired : rows[r].escalation = k
       THEN [escalations[k] EXCEPT !.state = "cancelled", !.edited = TRUE]
       ELSE escalations[k]]

read_by(m) == read_with(m, PENDING)

ClientEdited(n, swapped) ==
  /\ n.kind = "edited"
  /\ notes' = notes \ {n}
  /\ LET expired == read_by(n.m)
     IN  /\ rows' = moved_to(expired, "expired", "trigger_edited")
         /\ escalations' = cancelled_for_edit(expired)
         /\ IF expired # {} /\ ~swapped /\ fresh(n.m)
              THEN chat' = requeued /\ unread' = unread \union {n.m}
              ELSE UNCHANGED <<chat, unread>>
  /\ UNCHANGED <<now, inbound, typed_at, spent>>

(* One transaction: the mark, the rows answering the message, and the      *)
(* drafts of its burst.                                                    *)
ClientDeleted(m) ==
  /\ spend("change")
  /\ ~inbound[m].deleted
  /\ inbound' = [inbound EXCEPT ![m].deleted = TRUE]
  /\ LET answering == {r \in DOMAIN rows : rows[r].state \in PENDING /\ rows[r].trigger = m}
         burst == {r \in read_with(m, PENDING) : /\ rows[r].trigger # m
                                                 /\ rows[r].escalation = 0}
     IN  /\ rows' = [r \in DOMAIN rows |->
                       IF r \in answering
                         THEN [rows[r] EXCEPT !.state = "cancelled", !.code = "trigger_deleted"]
                       ELSE IF r \in burst
                         THEN [rows[r] EXCEPT !.state = "expired", !.code = "burst_deleted"]
                       ELSE rows[r]]
         /\ IF burst # {} /\ fresh(m)
              THEN chat' = requeued /\ unread' = unread \union {rows[r].trigger : r \in burst}
              ELSE UNCHANGED <<chat, unread>>
  /\ UNCHANGED <<now, typed_at, escalations, notes>>

-----------------------------------------------------------------------------
(* The owner writes, reads and types *)

StoreOwnerMessage(at) ==
  /\ spend("owner")
  /\ typed_at' = max2(typed_at, at)
  /\ notes' = notes \union {note("wrote", 0, at)}
  /\ UNCHANGED <<now, inbound, chat, rows, escalations, unread>>

(* A tap on the card after the owner wrote is the owner's choice. *)
drafts_answered_by(at) ==
  {r \in DOMAIN rows :
     /\ rows[r].state \in OWNER_CANCELS
     /\ occurred(rows[r].trigger) <= at
     /\ rows[r].approved_by # OWNER \/ rows[r].approved_at <= at}

(* owner_wrote_at, for a message of the owner's sent at `at'. *)
OwnerWroteAt(at) ==
  /\ chat' = [chat EXCEPT !.known = TRUE,
                !.owner_replied_at = max2(@, at),
                !.ai_paused_until = max2(@, at + TAKEOVER),
                !.turns = IF chat.last_ai_sent_at <= at THEN 0 ELSE @]
  /\ rows' = moved_to(drafts_answered_by(at), "cancelled", "owner_replied")
  /\ escalations' = resolve_escalation(at)

NoteOwnerMessage(n) ==
  /\ n.kind = "wrote"
  /\ notes' = notes \ {n}
  /\ OwnerWroteAt(n.at)
  /\ UNCHANGED <<now, inbound, typed_at, unread, spent>>

(* A sticker is never stored: its takeover is all that is kept of it. *)
NoteOwnerSticker(at) ==
  /\ spend("owner")
  /\ OwnerWroteAt(at)
  /\ UNCHANGED <<now, inbound, typed_at, notes, unread>>

\* A read while MIYA sends into the chat is the sender's own.
sending_now ==
  \/ chat.last_ai_sent_at # NoTime /\ chat.last_ai_sent_at >= now - SELF_READ_WINDOW
  \/ \E r \in DOMAIN rows : rows[r].state = "sending"

(* The owner has the alert of this escalation before them. *)
shown(k) == Mode # "shadow" /\ escalations[k].state \in ESCALATION_OPEN_STATES

OwnerRead ==
  /\ spend("owner")
  /\ chat.known
  /\ ~sending_now
  /\ \E m \in DOMAIN inbound : ~inbound[m].deleted
  /\ chat' = [chat EXCEPT !.owner_seen_at = now]
  /\ UNCHANGED <<now, inbound, typed_at, rows, escalations, notes, unread>>

OwnerComposing(at) ==
  /\ spend("owner")
  /\ chat.known
  /\ chat' = [chat EXCEPT !.owner_composing_at = max2(@, at)]
  /\ UNCHANGED <<now, inbound, typed_at, rows, escalations, notes, unread>>

(* The owner says on a card that they will write themselves: the draft is  *)
(* cancelled, or the escalation marked and its stall cancelled, and the AI *)
(* paused (pause_ai).                                                      *)
OwnerWillWrite ==
  /\ spend("owner")
  /\ \/ \E r \in DOMAIN rows :
          /\ rows[r].state = "draft" /\ rows[r].escalation = 0
          /\ rows' = moved_to({r}, "cancelled", "owner_will_write")
          /\ UNCHANGED escalations
     \/ \E k \in DOMAIN escalations :
          /\ shown(k) /\ escalations[k].state # "owner_replying"
          /\ escalations' = [escalations EXCEPT ![k].state = "owner_replying"]
          /\ rows' = moved_to({r \in DOMAIN rows : /\ rows[r].escalation = k
                                                  /\ rows[r].state \in OWNER_CANCELS},
                              "cancelled", "owner_will_write")
  /\ chat' = [chat EXCEPT !.known = TRUE, !.ai_paused_until = max2(@, now + TAKEOVER)]
  /\ UNCHANGED <<now, inbound, typed_at, notes, unread>>

-----------------------------------------------------------------------------
(* The outbox: the part of a row's life the chat takes part in *)

(* The owner taps send on a card: of the draft, or of its escalation. *)
Approve(r) ==
  /\ spend("owner")
  /\ rows[r].state = "draft" /\ rows[r].expires_at > now
  /\ rows[r].escalation # 0 => shown(rows[r].escalation)
  /\ rows' = [rows EXCEPT ![r].state = "approved", ![r].approved_by = OWNER,
                          ![r].approved_at = now]
  /\ UNCHANGED <<now, inbound, typed_at, chat, escalations, notes, unread>>

Expire(r) ==
  /\ rows[r].state \in PENDING /\ rows[r].expires_at <= now
  /\ rows' = moved_to({r}, "expired", "expired")
  /\ UNCHANGED <<now, inbound, typed_at, chat, escalations, notes, unread, spent>>

\* A fault to detect: the claim rests on the reader's signal alone.
owner_last_wrote_by_signal == chat.owner_replied_at

(* The claim reads the owner's stored messages besides the signal. *)
owner_last_wrote == max2(chat.owner_replied_at, typed_at)

claim_context(r) ==
  [now |-> now,
   trigger |-> [exists |-> TRUE, occurred_at |-> occurred(rows[r].trigger),
                edited_at |-> inbound[rows[r].trigger].edited_at,
                deleted |-> inbound[rows[r].trigger].deleted],
   chat_state |-> [owner_seen_at |-> chat.owner_seen_at,
                   owner_composing_at |-> chat.owner_composing_at,
                   owner_replied_at |-> owner_last_wrote,
                   ai_paused_until |-> chat.ai_paused_until]]

(* The two lines of the gate that read the chat; the others are silent. *)
objection(r) ==
  LET by_chat == chat_state_line(rows[r], claim_context(r))
  IN  IF by_chat.action # "none" THEN by_chat
      ELSE trigger_line(rows[r], claim_context(r))

outcome_state == [none |-> "sending", block |-> "blocked", expire |-> "expired",
               cancel |-> "cancelled"]

(* A held row stays as it is and is claimed again. *)
ClaimReady(r) ==
  /\ rows[r].state = "approved"
  /\ objection(r).action \in DOMAIN outcome_state
  /\ rows' = moved_to({r}, outcome_state[objection(r).action], objection(r).code)
  /\ UNCHANGED <<now, inbound, typed_at, chat, escalations, notes, unread, spent>>

(* Sent; _note_ai_sent counts the turn. *)
Complete(r) ==
  /\ rows[r].state = "sending"
  /\ rows' = [rows EXCEPT ![r].state = "sent", ![r].sent_at = now]
  /\ chat' = [chat EXCEPT !.known = TRUE, !.last_ai_sent_at = now, !.turns = @ + 1]
  /\ UNCHANGED <<now, inbound, typed_at, escalations, notes, unread, spent>>

-----------------------------------------------------------------------------
Client ==
  \/ \E kind \in Kinds, at \in moments : StoreInbound(kind, at)
  \/ \E m \in DOMAIN inbound, kind \in Kinds, at \in moments : RecordEdit(m, kind, at)
  \/ \E m \in DOMAIN inbound : ClientDeleted(m)

Owner ==
  \/ \E at \in moments : \/ StoreOwnerMessage(at)
                         \/ NoteOwnerSticker(at)
                         \/ OwnerComposing(at)
  \/ OwnerRead
  \/ OwnerWillWrite
  \/ \E r \in DOMAIN rows : Approve(r)

(* The second transaction of a handler. *)
Reader ==
  \E n \in notes :
    \/ EnqueueCandidate(n)
    \/ NoteOwnerMessage(n)
    \/ \E swapped \in Swaps : ClientEdited(n, swapped)

ReaderDies ==
  /\ spend("crash")
  /\ notes # {}
  /\ notes' = {}
  /\ UNCHANGED <<now, inbound, typed_at, chat, rows, escalations, unread>>

Sending == \E r \in DOMAIN rows : ClaimReady(r) \/ Complete(r) \/ Expire(r)

Tick ==
  /\ now < MaxTime
  /\ now' = now + 1
  /\ UNCHANGED <<inbound, typed_at, chat, rows, escalations, notes, unread, spent>>

ChatNext == Client \/ Owner \/ Reader \/ ReaderDies \/ Sending \/ Tick
=============================================================================
