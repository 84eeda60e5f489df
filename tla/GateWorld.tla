------------------------------- MODULE GateWorld -------------------------------
(***************************************************************************)
(* An approved row waiting for its claim, and what the owner, the client,  *)
(* the platform and the clock may do to the facts the gate reads meanwhile.*)
(* Every event but the passing of time only ever restricts what may leave. *)
(*                                                                         *)
(* `events' counts what happened; MaxEvents and MaxTime bound the runs.    *)
(***************************************************************************)
EXTENDS Gate

CONSTANTS Channel,     \* the channel the row leaves on
          Rows,        \* the approved rows looked at
          MaxEvents, MaxTime

(* What the outbox keeps of a row it lets the gate look at: its verdict is *)
(* about its text, and MIYA's text passed (OnlyGuardedTextLeaves).         *)
ASSUME GateWorldAssumption ==
  /\ Channel \in Channels
  /\ MaxTime \in Nat /\ MaxEvents \in Nat
  /\ \A r \in Rows : /\ r \in RowSnapshots
                     /\ r.channel = Channel /\ r.bound
                     /\ ai(r) => r.guard.verdict = "pass"

VARIABLES row, ctx, events

vars == <<row, ctx, events>>

(* Nothing objects: sending is on, in automatic mode, the client has just  *)
(* written (a message addressed to the owner) and nobody touched the chat. *)
open_ctx ==
  [now |-> 2, jarvis_enabled |-> TRUE, channel_send_enabled |-> TRUE,
   env_ceiling |-> "auto",
   policies |-> [s \in Scopes |-> [EmptyRow EXCEPT !.mode = IF s = GLOBAL THEN "auto" ELSE NoMode]],
   chat |-> [excluded |-> FALSE, group |-> FALSE],
   rules |-> <<>>,
   trigger |-> [exists |-> TRUE, occurred_at |-> 0, edited_at |-> NoTime,
                deleted |-> FALSE, to_me |-> TRUE],
   unsafe_inbound_ids |-> {}, safety_readable |-> TRUE,
   chat_state |-> [owner_seen_at |-> NoTime, owner_composing_at |-> NoTime,
                   owner_replied_at |-> NoTime, ai_paused_until |-> NoTime],
   caps |-> [auto_sent |-> 0, chat_ai_sent |-> 0, channel_sent |-> 0,
             last_send_at |-> NoTime, cost_over_cap |-> FALSE,
             auto_cap |-> 1, per_chat_cap |-> 1, gap_seconds |-> 1,
             channel_cap |-> 2, resets_at |-> MaxTime + 1],
   guard |-> [registered |-> TRUE,
              result |-> [verdict |-> "pass", shapes_ok |-> TRUE,
                          shapes |-> {"courtesy", KB_SHAPE}]],
   quiet_until |-> NoTime, auto_in_quiet_hours |-> FALSE]

Init ==
  /\ row \in Rows
  /\ ctx = open_ctx
  /\ events = 0

Event(new) ==
  /\ events < MaxEvents
  /\ new # ctx
  /\ ctx' = new
  /\ events' = events + 1
  /\ UNCHANGED row

TimePasses ==
  /\ ctx.now < MaxTime
  /\ ctx' = [ctx EXCEPT !.now = @ + 1,
               !.quiet_until = IF @ <= ctx.now + 1 THEN NoTime ELSE @]
  /\ UNCHANGED <<row, events>>

OwnerPauses ==
  \E scope \in {GLOBAL, channel_scope(Channel)}, until \in {NoTime, ctx.now + 1} :
    /\ ~paused(ctx.policies[scope], ctx.now)
    /\ Event([ctx EXCEPT !.policies[scope].paused = TRUE,
                         !.policies[scope].paused_until = until])

BreakerTrips ==
  LET broken == [ctx EXCEPT !.policies[channel_scope(Channel)].breaker_until = ctx.now + 2]
  IN  Event(IF /\ row.intent \in AUTO_INTENTS
               /\ stored_mode(ctx.policies, Channel, row.intent) = "auto"
              THEN [broken EXCEPT
                      !.policies[channel_intent_scope(Channel, row.intent)].mode = "draft"]
              ELSE broken)

Demoted ==
  /\ stored_mode(ctx.policies, Channel, row.intent) = "auto"
  /\ Event([ctx EXCEPT !.policies[channel_intent_scope(Channel, row.intent)].mode = "draft"])

ShadowedByTheOwner ==
  Event([ctx EXCEPT !.policies[GLOBAL].mode = "shadow"])

SwitchedOff ==
  \/ Event([ctx EXCEPT !.jarvis_enabled = FALSE, !.env_ceiling = "off"])
  \/ Event([ctx EXCEPT !.channel_send_enabled = FALSE])
  \/ Event([ctx EXCEPT !.env_ceiling = "draft"])

MarkedPersonal ==
  /\ ~never_rule(ctx.rules)
  /\ Event([ctx EXCEPT !.rules =
              Append(@, [subject |-> "chat", mode |-> "never", reason |-> "personal"])])

ShieldFlagsMessage ==
  \E id \in 1..2 : Event([ctx EXCEPT !.unsafe_inbound_ids = @ \union {id}])

OwnerActs ==
  \/ Event([ctx EXCEPT !.chat_state.owner_replied_at = ctx.now,
                       !.chat_state.ai_paused_until = ctx.now + 2])
  \/ Event([ctx EXCEPT !.chat_state.owner_composing_at = ctx.now])
  \/ Event([ctx EXCEPT !.chat_state.owner_seen_at = ctx.now])

ClientActs ==
  \/ Event([ctx EXCEPT !.trigger.edited_at = ctx.now])
  \/ Event([ctx EXCEPT !.trigger.deleted = TRUE])

OthersWereSent ==
  \/ Event([ctx EXCEPT !.caps.auto_sent = 1, !.caps.chat_ai_sent = 1,
                       !.caps.channel_sent = 1, !.caps.last_send_at = ctx.now])
  \/ Event([ctx EXCEPT !.caps.channel_sent = 2, !.caps.last_send_at = ctx.now])
  \/ Event([ctx EXCEPT !.caps.cost_over_cap = TRUE])

ApprovedTextRetired ==
  Event([ctx EXCEPT !.guard.result.shapes_ok = FALSE, !.guard.result.shapes = {"courtesy"}])

QuietHoursBegin ==
  /\ ctx.quiet_until = NoTime
  /\ Event([ctx EXCEPT !.quiet_until = ctx.now + 2])

Restricts ==
  \/ OwnerPauses \/ BreakerTrips \/ Demoted \/ ShadowedByTheOwner \/ SwitchedOff
  \/ MarkedPersonal \/ ShieldFlagsMessage \/ OwnerActs \/ ClientActs
  \/ OthersWereSent \/ ApprovedTextRetired \/ QuietHoursBegin

Next == Restricts \/ TimePasses

Spec == Init /\ [][Next]_vars

-----------------------------------------------------------------------------
(* Properties *)

(* The gate always answers with one of its decisions, whatever the facts.  *)
TypeOK ==
  /\ row \in RowSnapshots
  /\ evaluate(row, ctx).action \in {"send", "hold", "redraft", "block", "expire", "cancel"}
  /\ evaluate(row, ctx).retry_at \in OptTime

(* No new stop ever lets out a row that was stopped: the precedence of the *)
(* scopes, the rules and the lines cannot turn a restriction into a send.  *)
RestrictionNeverReleases ==
  [][Restricts => (sends(row, ctx)' => sends(row, ctx))]_vars

(* An autonomous text leaves only in automatic mode for an intent that may *)
(* ever be automatic, with the allowlist passed by the records in force    *)
(* now, in a chat the owner has neither written in, nor read, nor started  *)
(* typing in within the hold since the client wrote, and outside quiet     *)
(* hours.                                                                  *)
AutonomyIsEarned ==
  sends(row, ctx) /\ auto(row) =>
    /\ row.intent \in AUTO_INTENTS
    /\ effective_mode(ctx.policies, row.channel, row.intent, ctx.env_ceiling) = "auto"
    /\ LET last == IF row.guard.shapes \intersect RECHECKED_SHAPES # {}
                    THEN ctx.guard.result ELSE row.guard
       IN  auto_shapes_ok(row.intent, shapes_passed(last), last.shapes)
    /\ ctx.chat_state.owner_replied_at <= ctx.trigger.occurred_at
    /\ ctx.chat_state.owner_seen_at <= ctx.trigger.occurred_at
    /\ ctx.chat_state.owner_composing_at + COMPOSING_HOLD <= ctx.now
         \/ ctx.chat_state.owner_composing_at <= ctx.trigger.occurred_at
    /\ ctx.quiet_until = NoTime

(* What the owner wrote is never thrown away by a line meant for MIYA's    *)
(* words: it waits, goes back to its card, or expires, and is blocked only *)
(* when everything is off or nobody may write to the chat.                 *)
OwnerWordsAreKept ==
  LET d == evaluate(row, ctx)
  IN  ~ai(row) /\ d.action \in {"block", "cancel"} =>
        ctx.env_ceiling = "off" \/ ctx.chat.excluded \/ ~row.plain_text

(* A tap made after looking at the chat is overridden only by what the     *)
(* owner did after that tap; and then it is.                               *)
TapWinsOverEarlierActs ==
  ai(row) /\ row.approved_by = OWNER /\ ctx.trigger.exists =>
    /\ evaluate(row, ctx).code = "owner_replied" =>
         ctx.chat_state.owner_replied_at > row.approved_at
    /\ ctx.chat_state.owner_replied_at > max2(row.approved_at, ctx.trigger.occurred_at) =>
         ~sends(row, ctx)
=============================================================================
