-------------------------------- MODULE Outbox --------------------------------
(***************************************************************************)
(* miya/jarvis/outbox.py over the table outbox_messages: the one way a     *)
(* message leaves in the owner's name.  Every action is one committed      *)
(* transaction of one of the processes that share the table: the responder *)
(* and the bot (create, approve, cancel, owner_text), the worker           *)
(* (expire_due, reconcile, the notices) and an adapter (claim_ready,       *)
(* complete, fail).  Rows are locked, so a transaction on a row is atomic; *)
(* create is two steps, because two callers may look the same key up       *)
(* before either inserts it.                                               *)
(*                                                                         *)
(* A column is a function on Rows.  What the code reads from other tables  *)
(* at the moment of an operation (the rules, the chat's state, the         *)
(* trigger, the switches) is the operation's input, one of Facts.          *)
(***************************************************************************)
EXTENDS Gate, FiniteSets

CONSTANTS
  Rows,            \* row ids, naturals in order of creation
  Proposals,       \* what callers propose
  Creators,        \* concurrent callers of create
  Messages,        \* platform message ids
  OwnerTexts,      \* bodies the owner may type over a draft
  Facts,           \* what an operation may read outside the outbox
  GuardAnswers,    \* verdicts the red-line guard may give a new body
  OwnMessages,     \* [chat, body] the reader may see going out besides MIYA's
  OwnerModes,      \* modes the owner may choose
  PolicyActs,      \* what happens to the policy, of "pause", "demote", "breaker"
  Channel,         \* the adapter's channel
  SEND_LEASE, HOLD_POLL, ECHO_SLACK, DRAFT_EXPIRY, BREAKER_FOR, DAY,
  MAX_ATTEMPTS, MAX_REVISIONS, AUTO_CAP, CHAT_CAP, SEND_GAP,
  MaxTime,         \* bound of the clock
  CreateUntil      \* bound: nothing is proposed later

NoRow == 0
NoMessage == "none"
NoProposal == [origin |-> "none", authored_by |-> AI, intent |-> "none",
               chat |-> "none", source |-> "none", body |-> "none", delay |-> 0]

Bodies == {p.body : p \in Proposals \union OwnMessages \union {NoProposal}} \union OwnerTexts
Chats == {p.chat : p \in Proposals \union OwnMessages \union {NoProposal}}

ASSUME OutboxAssumption ==
  /\ Rows \subseteq Nat \ {0}
  /\ Channel \in Channels
  /\ NoMessage \notin Messages
  /\ SEND_LEASE \in Nat \ {0} /\ HOLD_POLL \in Nat \ {0} /\ ECHO_SLACK \in Nat
  /\ DRAFT_EXPIRY \in Nat \ {0} /\ BREAKER_FOR \in Nat \ {0} /\ DAY \in Nat \ {0}
  /\ MAX_ATTEMPTS \in Nat \ {0} /\ MAX_REVISIONS \in Nat
  /\ AUTO_CAP \in Nat /\ CHAT_CAP \in Nat /\ SEND_GAP \in Nat
  /\ MaxTime \in Nat /\ CreateUntil \in Nat
  /\ GuardAnswers \subseteq GuardResults
  /\ OwnerModes \subseteq Modes
  /\ \A p \in Proposals : /\ p.authored_by \in {AI, OWNER}
                          /\ p.intent \in Intents
                          /\ p.delay \in Nat
                          /\ p.authored_by = AI => p.source # "none"
  /\ \A f \in Facts : f.guard.result \in GuardResults

States == {"shadow", "draft", "approved", "sending", "sent", "failed",
           "unknown", "cancelled", "expired", "blocked"}
Absent == "absent"
PENDING == {"shadow", "draft", "approved"}
WIRE_STATES == {"sending", "sent", "unknown"}
Terminal == {"sent", "failed", "cancelled", "expired", "blocked"}

TRANSITIONS ==
  [s \in States \union {Absent} |->
     CASE s = Absent     -> {"shadow", "draft", "approved", "blocked"}
       [] s = "shadow"   -> {"cancelled", "expired"}
       [] s = "draft"    -> {"approved", "blocked", "cancelled", "expired"}
       [] s = "approved" -> {"sending", "draft", "blocked", "cancelled", "expired"}
       [] s = "sending"  -> {"sent", "failed", "approved", "unknown"}
       [] s = "unknown"  -> {"sent", "failed"}
       [] OTHER          -> {}]

REDRAFT_CODES == {"trigger_edited", "burst_deleted"}

VARIABLES
  state, proposal, revision, created_at, not_before,
  author, body, guard, guarded_body, warned,
  approver, approved_at,
  next_attempt, lease, attempts, last_error,
  sent_at, external, told,
  echoes,      \* the stored interactions of outgoing messages
  policies,    \* the rows of jarvis_policy
  creating,    \* per caller of create: the key it found free
  now

identity == <<proposal, revision, created_at, not_before>>
text == <<author, body, guard, guarded_body, warned>>
approval == <<approver, approved_at>>
claim == <<next_attempt, lease, attempts>>
report == <<sent_at, external>>
outside == <<echoes, policies, creating, now>>

vars == <<state, identity, text, approval, claim, last_error, report, told, outside>>

NotCreating == [proposal |-> NoProposal, revision |-> 0]
NoGuard == [verdict |-> "block", shapes_ok |-> FALSE, shapes |-> {}]
NoEcho == [stored |-> FALSE, tag |-> NoRow, tagged_by |-> "none",
           body |-> "none", chat |-> "none", at |-> 0]

Echoes == [stored : BOOLEAN, tag : Rows \union {NoRow}, tagged_by : {"none", AI, OWNER},
           body : Bodies, chat : Chats, at : Nat]

Init ==
  /\ state = [r \in Rows |-> Absent]
  /\ proposal = [r \in Rows |-> NoProposal]
  /\ revision = [r \in Rows |-> 0]
  /\ created_at = [r \in Rows |-> 0]
  /\ not_before = [r \in Rows |-> NoTime]
  /\ author = [r \in Rows |-> AI]
  /\ body = [r \in Rows |-> "none"]
  /\ guard = [r \in Rows |-> NoGuard]
  /\ guarded_body = [r \in Rows |-> "none"]
  /\ warned = [r \in Rows |-> FALSE]
  /\ approver = [r \in Rows |-> NoApprover]
  /\ approved_at = [r \in Rows |-> NoTime]
  /\ next_attempt = [r \in Rows |-> NoTime]
  /\ lease = [r \in Rows |-> NoTime]
  /\ attempts = [r \in Rows |-> 0]
  /\ last_error = [r \in Rows |-> "none"]
  /\ sent_at = [r \in Rows |-> NoTime]
  /\ external = [r \in Rows |-> NoMessage]
  /\ told = [r \in Rows |-> FALSE]
  /\ echoes = [m \in Messages |-> NoEcho]
  /\ policies = [s \in Scopes |->
                   [EmptyRow EXCEPT !.mode = IF s = GLOBAL THEN "auto" ELSE NoMode]]
  /\ creating = [c \in Creators |-> NotCreating]
  /\ now = 0

-----------------------------------------------------------------------------
(* Helpers *)

chat(r) == proposal[r].chat
ExpiresAt(r) ==
  (IF not_before[r] # NoTime THEN not_before[r] ELSE created_at[r]) + DRAFT_EXPIRY
\* A fault to detect: only what waits for the owner expires.
due_drafts(r) == state[r] \in {"shadow", "draft"} /\ ExpiresAt(r) <= now

due(r) == state[r] \in PENDING /\ ExpiresAt(r) <= now

mode_of(i, f) == effective_mode(policies, Channel, i, f.ceiling)

(* _transition: only the moves of TRANSITIONS; the code is the row's       *)
(* last_error, kept as far as anything reads it back.                      *)
transition(r, new, code) ==
  /\ new \in TRANSITIONS[state[r]]
  /\ state' = [state EXCEPT ![r] = new]
  /\ last_error' = [last_error EXCEPT ![r] = IF code \in REDRAFT_CODES THEN code ELSE "other"]

bind(r, g, b) ==
  /\ guard' = [guard EXCEPT ![r] = g]
  /\ guarded_body' = [guarded_body EXCEPT ![r] = b]

Bound(r) == guarded_body[r] = body[r]

-----------------------------------------------------------------------------
(* create *)

Key(p, n) == <<p.origin, p.source, p.chat, p.body, n>>
RowsOfKey(key) ==
  {r \in Rows : state[r] # Absent /\ Key(proposal[r], revision[r]) = key}

superseded(r) ==
  \/ state[r] = "expired" /\ last_error[r] \in REDRAFT_CODES
  \/ /\ proposal[r].origin = "escalation"
     /\ author[r] = OWNER
     /\ state[r] \in {"cancelled", "expired"}

(* Revisions whose row, if there is one, is the answer to the proposal.    *)
open_revisions(p) ==
  {n \in 0..MAX_REVISIONS : \A r \in RowsOfKey(Key(p, n)) : ~superseded(r)}

CreateLookup(c, p, f) ==
  /\ creating[c] = NotCreating
  /\ now <= CreateUntil
  /\ f.enabled /\ f.ceiling # "off"
  /\ open_revisions(p) # {}
  /\ LET n == lowest(open_revisions(p))
     IN  /\ RowsOfKey(Key(p, n)) = {}
         /\ creating' = [creating EXCEPT ![c] = [proposal |-> p, revision |-> n]]
  /\ UNCHANGED <<state, identity, text, approval, claim, last_error, report, told,
                 echoes, policies, now>>

(* _initial_state for MIYA's text; "off" stores nothing. *)
initial_ai_state(p, f, g) ==
  LET mode == mode_of(p.intent, f)
      auto_mode == /\ mode = "auto"
                   /\ p.intent \in AUTO_INTENTS
                   /\ rule_mode(f.rules) # "draft"
                   /\ ~f.cost_over_cap
  IN  IF mode = "off" THEN Absent
      ELSE IF ai_refusal(f.chat, f.rules, "unknown") # "none" THEN "blocked"
      ELSE IF mode = "shadow" THEN "shadow"
      ELSE IF g.verdict # "pass" THEN "blocked"
      ELSE IF auto_mode /\ auto_shapes_ok(p.intent, g.shapes_ok, g.shapes) THEN "approved"
      ELSE "draft"

initial_state(p, f, g) ==
  IF p.authored_by = OWNER THEN IF f.chat.excluded THEN "blocked" ELSE "draft"
  ELSE initial_ai_state(p, f, g)

Insert(r, p, n, new, g) ==
  /\ transition(r, new, "created")
  /\ proposal' = [proposal EXCEPT ![r] = p]
  /\ revision' = [revision EXCEPT ![r] = n]
  /\ created_at' = [created_at EXCEPT ![r] = now]
  /\ not_before' = [not_before EXCEPT ![r] = IF p.delay = 0 THEN NoTime ELSE now + p.delay]
  /\ author' = [author EXCEPT ![r] = p.authored_by]
  /\ body' = [body EXCEPT ![r] = p.body]
  /\ bind(r, g, p.body)
  /\ approver' = [approver EXCEPT ![r] = IF new = "approved" THEN AUTO_APPROVER ELSE NoApprover]
  /\ approved_at' = [approved_at EXCEPT ![r] = IF new = "approved" THEN now ELSE NoTime]
  /\ UNCHANGED <<warned, claim, report, told>>

\* A fault to detect: no unique index on the key.
taken_never(p, n) == RowsOfKey(Key(p, n)) = Rows

(* The insert.  A key taken meanwhile is the other caller's row: the unique *)
(* index refuses the second one and create returns the first.               *)
taken(p, n) == RowsOfKey(Key(p, n)) # {}

CreateStore(c, f, g) ==
  LET p == creating[c].proposal
      n == creating[c].revision
      new == initial_state(p, f, g)
      free == {r \in Rows : state[r] = Absent}
  IN  /\ creating[c] # NotCreating
      /\ now <= CreateUntil
      /\ creating' = [creating EXCEPT ![c] = NotCreating]
      /\ UNCHANGED <<echoes, policies, now>>
      /\ IF new = Absent \/ taken(p, n)
           THEN UNCHANGED <<state, identity, text, approval, claim, last_error, report, told>>
           ELSE /\ free # {}
                /\ Insert(lowest(free), p, n, new, g)

-----------------------------------------------------------------------------
(* The owner's decisions *)

(* The tap on a draft's card: everything is validated again.  A refusal    *)
(* that changes nothing (the mode is off or shadow) is no step.            *)
refused(r, f) == author[r] = AI /\ ai_refusal(f.chat, f.rules, "unknown") # "none"

needs_guard(r) == ~(Bound(r) /\ (author[r] = AI => guard[r].verdict = "pass"))

Grant(r) ==
  /\ transition(r, "approved", "none")
  /\ approver' = [approver EXCEPT ![r] = OWNER]
  /\ approved_at' = [approved_at EXCEPT ![r] = now]
  /\ next_attempt' = [next_attempt EXCEPT ![r] = NoTime]
  /\ UNCHANGED <<lease, attempts>>

ApproveInTime(r, f, g) ==
  /\ ~due(r) /\ ~refused(r, f)
  /\ author[r] = AI => mode_of(proposal[r].intent, f) \in {"draft", "auto"}
  /\ IF needs_guard(r) THEN bind(r, g, body[r]) ELSE UNCHANGED <<guard, guarded_body>>
  /\ IF needs_guard(r) /\ author[r] = AI /\ g.verdict # "pass"
       THEN UNCHANGED <<state, last_error, approval, claim>>
       ELSE Grant(r)
  /\ UNCHANGED <<author, body, warned>>

Approve(r, f, g) ==
  /\ state[r] = "draft"
  /\ f.enabled
  /\ \/ /\ due(r)
        /\ transition(r, "expired", "expired")
        /\ UNCHANGED <<text, approval, claim>>
     \/ /\ ~due(r) /\ refused(r, f)
        /\ transition(r, "blocked", "refused")
        /\ UNCHANGED <<text, approval, claim>>
     \/ ApproveInTime(r, f, g)
  /\ UNCHANGED <<identity, report, told, outside>>

\* A fault to detect: an approved or claimed row takes new words.
OwnerText_late(r, b, g) ==
  /\ state[r] \in {"draft", "approved", "sending"}
  /\ author' = [author EXCEPT ![r] = OWNER]
  /\ body' = [body EXCEPT ![r] = b]
  /\ bind(r, g, b)
  /\ last_error' = [last_error EXCEPT ![r] = "none"]
  /\ UNCHANGED <<state, identity, warned, approval, claim, report, told, outside>>

(* The owner's own words replace the draft's; the guard flags them only.   *)
OwnerText(r, b, g) ==
  /\ state[r] = "draft"
  /\ author' = [author EXCEPT ![r] = OWNER]
  /\ body' = [body EXCEPT ![r] = b]
  /\ bind(r, g, b)
  /\ last_error' = [last_error EXCEPT ![r] = "none"]
  /\ UNCHANGED <<state, identity, warned, approval, claim, report, told, outside>>

(* A card showed the owner the warnings of the chat. *)
RecordWarning(r) ==
  /\ state[r] = "draft"
  /\ ~warned[r]
  /\ warned' = [warned EXCEPT ![r] = TRUE]
  /\ UNCHANGED <<state, identity, author, body, guard, guarded_body, approval, claim,
                 last_error, report, told, outside>>

Withdraw(r, new, code) ==
  /\ transition(r, new, code)
  /\ UNCHANGED <<identity, text, approval, claim, report, told, outside>>

(* The owner's cross, or the owner's own message in the chat. *)
Cancel(r) == state[r] \in PENDING /\ Withdraw(r, "cancelled", "cancelled")

(* One row of the expiry job. *)
Expire(r) == due(r) /\ Withdraw(r, "expired", "expired")

(* The client took back the words the draft answers. *)
ExpireEdited(r, code) ==
  state[r] \in PENDING /\ author[r] = AI /\ Withdraw(r, "expired", code)
-----------------------------------------------------------------------------
(* claim_ready: the only way an adapter gets a row *)

day_start(t) == t - (t % DAY)

(* When a row went on the wire: sent_at, else its claim.                   *)
wire_moment(r) ==
  IF sent_at[r] # NoTime THEN sent_at[r]
  ELSE IF lease[r] # NoTime THEN lease[r] - SEND_LEASE ELSE NoTime

on_wire == {r \in Rows : state[r] \in WIRE_STATES}
\* A fault to detect: rows in doubt are not counted.
on_wire_today_certain == {r \in on_wire : state[r] # "unknown" /\ wire_moment(r) >= day_start(now)}

on_wire_today == {r \in on_wire : wire_moment(r) >= day_start(now)}

last_send_at == IF on_wire = {} THEN NoTime
                ELSE CHOOSE t \in {wire_moment(r) : r \in on_wire} :
                       \A r \in on_wire : wire_moment(r) <= t

Caps(r, f) ==
  [auto_sent |-> Cardinality({q \in on_wire_today : approver[q] = AUTO_APPROVER}),
   chat_ai_sent |-> Cardinality({q \in on_wire_today : author[q] = AI /\ chat(q) = chat(r)}),
   channel_sent |-> 0, channel_cap |-> 1,    \* Telegram has no cap of its own
   last_send_at |-> last_send_at, gap_seconds |-> SEND_GAP,
   auto_cap |-> AUTO_CAP, per_chat_cap |-> CHAT_CAP,
   cost_over_cap |-> f.cost_over_cap,
   resets_at |-> day_start(now) + DAY]

snapshot(r) ==
  [channel |-> Channel, intent |-> proposal[r].intent, authored_by |-> author[r],
   approved_by |-> approver[r], plain_text |-> TRUE, bound |-> Bound(r), guard |-> guard[r],
   has_trigger |-> proposal[r].authored_by = AI, created_at |-> created_at[r],
   approved_at |-> approved_at[r], not_before |-> not_before[r], expires_at |-> ExpiresAt(r),
   warned_personal |-> warned[r], warned_safety |-> IF warned[r] THEN 1 ELSE 0]

when(happened) == IF happened THEN now ELSE NoTime

Context(r, f) ==
  [now |-> now, jarvis_enabled |-> f.enabled, channel_send_enabled |-> f.channel_on,
   env_ceiling |-> f.ceiling, policies |-> policies, chat |-> f.chat, rules |-> f.rules,
   trigger |-> [exists |-> f.trigger # "gone", occurred_at |-> created_at[r],
                edited_at |-> when(f.trigger = "edited"), deleted |-> f.trigger = "deleted",
                to_me |-> TRUE],
   unsafe_inbound_ids |-> f.unsafe, safety_readable |-> TRUE,
   chat_state |-> [owner_seen_at |-> when(f.owner = "seen"),
                   owner_composing_at |-> when(f.owner = "composing"),
                   owner_replied_at |-> when(f.owner = "replied"),
                   ai_paused_until |-> NoTime],
   caps |-> Caps(r, f), guard |-> f.guard,
   quiet_until |-> IF f.quiet THEN now + 1 ELSE NoTime, auto_in_quiet_hours |-> FALSE]

ready == {r \in Rows : /\ state[r] = "approved"
                       /\ next_attempt[r] <= now}    \* NoTime is due at once

order(r) == IF not_before[r] # NoTime THEN not_before[r] ELSE approved_at[r]

(* CLAIM_LIMIT is 1 and claims are serialised: the oldest ready row.       *)
first_ready ==
  CHOOSE r \in ready :
    \A q \in ready : order(r) < order(q) \/ (order(r) = order(q) /\ r <= q)

(* _apply: one gate decision written to the row.  A fresh verdict is bound *)
(* first, and takes the policy's approval away when it has no shapes.      *)
unearned(r, d, f) ==
  /\ d.rebind /\ d.action # "send"
  /\ approver[r] = AUTO_APPROVER /\ author[r] = AI
  /\ ~shapes_passed(f.guard.result)

drop_approval(r) ==
  /\ approver' = [approver EXCEPT ![r] = NoApprover]
  /\ approved_at' = [approved_at EXCEPT ![r] = NoTime]

Apply(r, d, f) ==
  /\ IF d.rebind THEN bind(r, f.guard.result, body[r]) ELSE UNCHANGED <<guard, guarded_body>>
  /\ \/ /\ d.action = "send"
        /\ transition(r, "sending", "none")
        /\ lease' = [lease EXCEPT ![r] = now + SEND_LEASE]
        /\ attempts' = [attempts EXCEPT ![r] = @ + 1]
        /\ next_attempt' = [next_attempt EXCEPT ![r] = NoTime]
        /\ UNCHANGED approval
     \/ /\ d.action = "hold"
        /\ next_attempt' = [next_attempt EXCEPT ![r] =
                              IF d.retry_at # NoTime THEN d.retry_at ELSE now + HOLD_POLL]
        /\ last_error' = [last_error EXCEPT ![r] = "other"]
        /\ UNCHANGED <<state, approval, lease, attempts>>
     \/ /\ d.action = "redraft"
        /\ transition(r, "draft", d.code)
        /\ drop_approval(r)
        /\ next_attempt' = [next_attempt EXCEPT ![r] = NoTime]
        /\ UNCHANGED <<lease, attempts>>
     \/ /\ d.action \in {"block", "expire", "cancel"}
        /\ transition(r, [block |-> "blocked", expire |-> "expired",
                          cancel |-> "cancelled"][d.action], d.code)
        /\ IF unearned(r, d, f) THEN drop_approval(r) ELSE UNCHANGED approval
        /\ UNCHANGED claim
  /\ UNCHANGED <<identity, author, body, warned, report, told, outside>>

(* A row whose gate run raised waits, untouched otherwise.                 *)
HoldAfterError(r) ==
  /\ next_attempt' = [next_attempt EXCEPT ![r] = now + HOLD_POLL]
  /\ last_error' = [last_error EXCEPT ![r] = "other"]
  /\ UNCHANGED <<state, identity, text, approval, lease, attempts, report, told, outside>>

decision(r, f) == evaluate(snapshot(r), Context(r, f))

ClaimReady(r, f) ==
  /\ f.enabled
  /\ ready # {} /\ r = first_ready
  /\ IF f.raises THEN HoldAfterError(r) ELSE Apply(r, decision(r, f), f)

hands_out(r, f) == ~f.raises /\ decision(r, f).action = "send"

-----------------------------------------------------------------------------
(* The adapter's report *)

(* _write_echo: the stored interaction of the message is tagged, or a      *)
(* tagged one is written.                                                  *)
echo_of(m, r) ==
  LET old == echoes[m]
  IN  [stored |-> TRUE, tag |-> r, tagged_by |-> author[r], chat |-> chat(r),
       body |-> IF old.stored THEN old.body ELSE body[r],
       at |-> IF old.stored THEN old.at ELSE now]

tagged(m, r) == [echoes EXCEPT ![m] = echo_of(m, r)]

(* The index on (channel, external_message_id) refuses a message another   *)
(* row already has; the whole report is then lost.                         *)
free_message(m, r) == \A q \in Rows \ {r} : external[q] # m

Sent(r, m, at) ==
  /\ transition(r, "sent", "other")
  /\ external' = [external EXCEPT ![r] = m]
  /\ sent_at' = [sent_at EXCEPT ![r] = at]
  /\ lease' = [lease EXCEPT ![r] = NoTime]
  /\ echoes' = tagged(m, r)
  /\ UNCHANGED <<identity, text, approval, next_attempt, attempts, told, policies, creating, now>>

Complete(r, m) ==
  /\ state[r] \in {"sending", "unknown"}
  /\ free_message(m, r)
  /\ Sent(r, m, now)

\* A fault to detect: one attempt too many.
retries_once_more(r, retry_at) ==
  state[r] = "sending" /\ retry_at # NoTime /\ attempts[r] <= MAX_ATTEMPTS

retries(r, retry_at) ==
  state[r] = "sending" /\ retry_at # NoTime /\ attempts[r] < MAX_ATTEMPTS

(* retry_at: Telegram's own time, or NoTime when the failure is final.     *)
Fail(r, retry_at) ==
  /\ state[r] \in {"sending", "unknown"}
  /\ lease' = [lease EXCEPT ![r] = NoTime]
  /\ IF retries(r, retry_at)
       THEN /\ transition(r, "approved", "other")
            /\ next_attempt' = [next_attempt EXCEPT ![r] = retry_at]
       ELSE /\ transition(r, "failed", "other")
            /\ UNCHANGED next_attempt
  /\ UNCHANGED <<identity, text, approval, attempts, report, told, outside>>

(* _find_echo: the message tagged with the row, else one of the chat with  *)
(* exactly its text that nothing of MIYA's is tagged on, from the claim on.*)
found_echoes(r) ==
  LET own == {m \in Messages : echoes[m].stored /\ echoes[m].tag = r}
      untagged == {m \in Messages : /\ echoes[m].stored /\ echoes[m].tag = NoRow
                                    /\ echoes[m].chat = chat(r) /\ echoes[m].body = body[r]
                                    /\ echoes[m].at >= lease[r] - SEND_LEASE - ECHO_SLACK}
  IN  IF own # {} THEN own
      ELSE {m \in untagged : \A q \in untagged : echoes[m].at <= echoes[q].at}

InDoubt(r) ==
  /\ transition(r, "unknown", "other")
  /\ UNCHANGED <<identity, text, approval, claim, report, told, outside>>

(* One row of the reconcile job.  An echo found is "sent"; none leaves the *)
(* row in doubt, its lease kept so that the caps go on counting it.        *)
Reconcile(r) ==
  /\ state[r] = "sending" /\ lease[r] < now
  /\ \/ \E m \in found_echoes(r) : free_message(m, r) /\ Sent(r, m, echoes[m].at)
     \/ found_echoes(r) = {} /\ InDoubt(r)

(* The worker tells the owner of a send in doubt, and notes it.            *)
TellUnknown(r) ==
  /\ state[r] = "unknown" /\ ~told[r]
  /\ told' = [told EXCEPT ![r] = TRUE]
  /\ UNCHANGED <<state, identity, text, approval, claim, last_error, report, outside>>

-----------------------------------------------------------------------------
(* jarvis_policy *)

SetPolicies(new) ==
  /\ policies' = new
  /\ UNCHANGED <<state, identity, text, approval, claim, last_error, report, told,
                 echoes, creating, now>>

OwnerPauses ==
  /\ ~policies[GLOBAL].paused
  /\ SetPolicies([policies EXCEPT ![GLOBAL].paused = TRUE])

(* /jarvis yoq lifts the pause and the breaker of one scope.               *)
OwnerResumes ==
  \E scope \in {GLOBAL, channel_scope(Channel)} :
    /\ policies[scope].paused \/ policies[scope].breaker_until # NoTime
    /\ SetPolicies([policies EXCEPT ![scope].paused = FALSE, ![scope].paused_until = NoTime,
                                    ![scope].breaker_until = NoTime])

OwnerSetsMode(mode) ==
  /\ policies[GLOBAL].mode # mode
  /\ SetPolicies([policies EXCEPT ![GLOBAL].mode = mode])

demoted(old, i) ==
  IF stored_mode(old, Channel, i) = "auto"
    THEN [old EXCEPT ![channel_intent_scope(Channel, i)].mode = "draft"]
    ELSE old

(* The breaker holds the channel, and every kind it sent on its own goes   *)
(* back to draft.                                                          *)
tripped_policies(until) ==
  [s \in Scopes |->
     IF s = channel_scope(Channel) THEN [policies[s] EXCEPT !.breaker_until = until]
     ELSE IF \E i \in AUTO_INTENTS : /\ s = channel_intent_scope(Channel, i)
                                     /\ stored_mode(policies, Channel, i) = "auto"
       THEN [policies[s] EXCEPT !.mode = "draft"]
     ELSE policies[s]]

TripBreaker(until) == SetPolicies(tripped_policies(until))

Demote(i) ==
  /\ i \in AUTO_INTENTS /\ stored_mode(policies, Channel, i) = "auto"
  /\ SetPolicies(demoted(policies, i))

Tick ==
  /\ now < MaxTime
  /\ now' = now + 1
  /\ UNCHANGED <<state, identity, text, approval, claim, last_error, report, told,
                 echoes, policies, creating>>

-----------------------------------------------------------------------------
(* The userbot stores an outgoing message it sees, tagged when a row        *)
(* already carries its id (find_echo).                                      *)
StoreOutgoing(m, c, b, at) ==
  LET carriers == {r \in Rows : external[r] = m}
  IN  /\ ~echoes[m].stored
      /\ echoes' = [echoes EXCEPT ![m] =
           [stored |-> TRUE, body |-> b, chat |-> c, at |-> at,
            tag |-> IF carriers = {} THEN NoRow ELSE lowest(carriers),
            tagged_by |-> IF carriers = {} THEN "none" ELSE author[lowest(carriers)]]]
      /\ UNCHANGED <<state, identity, text, approval, claim, last_error, report, told,
                     policies, creating, now>>

-----------------------------------------------------------------------------
(* The specification.  The adapter is any adapter: it may report any        *)
(* claimed row at any time, or never.                                       *)

Create == \E c \in Creators, f \in Facts :
            \/ \E p \in Proposals : CreateLookup(c, p, f)
            \/ \E g \in GuardAnswers : CreateStore(c, f, g)

OwnerDecides == \E r \in Rows :
  \/ \E f \in Facts, g \in GuardAnswers : Approve(r, f, g)
  \/ \E b \in OwnerTexts, g \in GuardAnswers : OwnerText(r, b, g)
  \/ RecordWarning(r)
  \/ Cancel(r)

ClientTakesBack == \E r \in Rows, code \in REDRAFT_CODES : ExpireEdited(r, code)

AdapterClaims == \E r \in Rows, f \in Facts : ClaimReady(r, f)

AdapterReports == \E r \in Rows :
  \/ \E m \in Messages : Complete(r, m)
  \/ \E at \in {NoTime, now, now + 1} : Fail(r, at)

Job(r) == Expire(r) \/ Reconcile(r) \/ TellUnknown(r)

PolicyChanges ==
  \/ "pause" \in PolicyActs /\ (OwnerPauses \/ OwnerResumes)
  \/ \E mode \in OwnerModes : OwnerSetsMode(mode)
  \/ "demote" \in PolicyActs /\ \E i \in AUTO_INTENTS : Demote(i)
  \/ "breaker" \in PolicyActs /\ TripBreaker(now + BREAKER_FOR)

ReaderStores == \E m \in Messages, o \in OwnMessages : StoreOutgoing(m, o.chat, o.body, now)

Next ==
  \/ Create \/ OwnerDecides \/ ClientTakesBack
  \/ AdapterClaims \/ AdapterReports
  \/ \E r \in Rows : Job(r)
  \/ PolicyChanges \/ ReaderStores \/ Tick

Spec == Init /\ [][Next]_vars

(* The scheduler runs the worker's outbox job every minute, and time goes on. *)
FairSpec == Spec /\ WF_vars(Tick) /\ \A r \in Rows : WF_vars(Job(r))

-----------------------------------------------------------------------------
(* Properties *)

TypeOK ==
  /\ state \in [Rows -> States \union {Absent}]
  /\ proposal \in [Rows -> Proposals \union {NoProposal}]
  /\ revision \in [Rows -> 0..MAX_REVISIONS]
  /\ created_at \in [Rows -> Time]
  /\ not_before \in [Rows -> OptTime]
  /\ author \in [Rows -> {AI, OWNER}]
  /\ body \in [Rows -> Bodies]
  /\ guard \in [Rows -> GuardResults]
  /\ guarded_body \in [Rows -> Bodies]
  /\ warned \in [Rows -> BOOLEAN]
  /\ approver \in [Rows -> {NoApprover, OWNER, AUTO_APPROVER}]
  /\ approved_at \in [Rows -> OptTime]
  /\ next_attempt \in [Rows -> OptTime]
  /\ lease \in [Rows -> OptTime]
  /\ attempts \in [Rows -> 0..MAX_ATTEMPTS]
  /\ last_error \in [Rows -> {"none", "other"} \union REDRAFT_CODES]
  /\ sent_at \in [Rows -> OptTime]
  /\ external \in [Rows -> Messages \union {NoMessage}]
  /\ told \in [Rows -> BOOLEAN]
  /\ echoes \in [Messages -> Echoes]
  /\ policies \in [Scopes -> PolicyRow]
  /\ creating \in [Creators -> [proposal : Proposals \union {NoProposal},
                                revision : 0..MAX_REVISIONS]]
  /\ now \in 0..MaxTime

(* What a row may carry once it is approved, until it is over: somebody     *)
(* approved it, the verdict is about exactly this text, MIYA's text passed, *)
(* and what nobody tapped is made of approved statements only.  The CHECKs  *)
(* of outbox_messages say part of this; they must never be what refuses.    *)
Committed == {"approved", "sending", "unknown", "sent"}

OnlyGuardedTextLeaves ==
  \A r \in Rows : state[r] \in Committed =>
    /\ approver[r] # NoApprover
    /\ Bound(r)
    /\ author[r] = AI => guard[r].verdict = "pass"
    /\ author[r] = AI /\ approver[r] = AUTO_APPROVER => shapes_passed(guard[r])

(* The text somebody approved is the text that leaves: between the approval *)
(* and the end neither the words nor their author change.                   *)
ApprovedTextIsFrozen ==
  [][\A r \in Rows : state[r] \in Committed /\ state'[r] \in Committed =>
       body'[r] = body[r] /\ author'[r] = author[r]]_vars

(* A proposal made again, by a redelivered message or by two callers at     *)
(* once, is one row: every earlier row of it was taken back first.          *)
OneRowPerProposal ==
  \A r, q \in Rows :
    /\ r # q /\ state[r] # Absent /\ state[q] # Absent
    /\ Key(proposal[r], 0) = Key(proposal[q], 0)
    => revision[r] # revision[q] /\ (superseded(r) \/ superseded(q))

(* A row that may be on the wire always has a moment the caps can count it  *)
(* from: claimed, in doubt or sent.                                         *)
WireRowsAreCounted ==
  \A r \in Rows : state[r] \in WIRE_STATES => wire_moment(r) \in 0..now

(* Within one day no sequence of claims, lost reports, late answers and     *)
(* retries puts more rows on the wire than the caps allow.                  *)
DailyCapsHold ==
  LET out == {r \in Rows : /\ state[r] \in {"sending", "sent", "unknown"}
                           /\ wire_moment(r) >= day_start(now)}
  IN  /\ Cardinality({r \in out : approver[r] = AUTO_APPROVER}) <= AUTO_CAP
      /\ \A c \in {p.chat : p \in Proposals} :
           Cardinality({r \in out : author[r] = AI /\ chat(r) = c}) <= CHAT_CAP

(* A row is handed out only before it expires, not before its time, and     *)
(* while nothing stops its channel.                                         *)
ClaimsAreTimely ==
  [][\A r \in Rows : state[r] = "approved" /\ state'[r] = "sending" =>
       /\ now < ExpiresAt(r)
       /\ not_before[r] <= now
       /\ ~stopped(policies, GLOBAL, now)
       /\ ~stopped(policies, channel_scope(Channel), now)]_vars

(* Nothing waits for ever: what is pending is handed out, withdrawn or      *)
(* expires, a row whose adapter never reports does not stay with it, and    *)
(* the owner hears of every send in doubt that is not settled before.       *)
RowsSettle ==
  \A r \in Rows :
    /\ state[r] \in PENDING ~> state[r] \notin PENDING
    /\ state[r] = "sending" ~> state[r] # "sending"
    /\ state[r] = "unknown" ~> told[r] \/ state[r] # "unknown"
=============================================================================
