--------------------------------- MODULE Gate ---------------------------------
(***************************************************************************)
(* miya/jarvis/gate.py: the pure decision about one approved outbox row at *)
(* the moment an adapter asks for it.  Eleven lines are read in a fixed    *)
(* order and the first that objects decides; no objection sends the row.   *)
(*                                                                         *)
(* A row's body is abstracted to whether it is plain text and whether the  *)
(* stored verdict is bound to it (same SHA-256); the guard's verdict to    *)
(* pass or block, the outcome of the statement allowlist and the names of  *)
(* the approved shapes the text leaned on.                                 *)
(***************************************************************************)
EXTENDS PolicyRules

CONSTANTS KB_ONLY_INTENTS,  \* auto intents that need a knowledge-base quote
          COMPOSING_HOLD    \* how long "the owner is typing" holds a row

ASSUME GateAssumption ==
  /\ AUTO_INTENTS \subseteq Intents
  /\ KB_ONLY_INTENTS \subseteq AUTO_INTENTS
  /\ COMPOSING_HOLD \in Nat \ {0}

AI == "ai"
OWNER == "owner"
AUTO_APPROVER == "auto:policy"
NoApprover == "none"

KB_SHAPE == "kb"
QUESTION_SHAPE == "question"
RECHECKED_SHAPES == {KB_SHAPE, QUESTION_SHAPE}
Shapes == {"courtesy"} \union RECHECKED_SHAPES

(* A red-line verdict; shapes_ok is only ever said of a text that passed. *)
GuardResults ==
  {g \in [verdict : {"pass", "block"}, shapes_ok : BOOLEAN, shapes : SUBSET Shapes] :
     g.shapes_ok => g.verdict = "pass"}

RowSnapshots ==
  [channel : Channels, intent : Intents, authored_by : {AI, OWNER},
   approved_by : {NoApprover, OWNER, AUTO_APPROVER},
   plain_text : BOOLEAN, bound : BOOLEAN, guard : GuardResults,
   has_trigger : BOOLEAN, created_at : Time, approved_at : OptTime,
   not_before : OptTime, expires_at : OptTime,
   warned_personal : BOOLEAN,
   warned_safety : Nat]      \* newest flagged message the card showed, 0: none

Decisions ==
  [action : {"none", "send", "hold", "redraft", "block", "expire", "cancel"},
   code : STRING,
   retry_at : OptTime,
   rebind : BOOLEAN]         \* the fresh guard verdict is bound to the row

Pass == [action |-> "none", code |-> "", retry_at |-> NoTime, rebind |-> FALSE]
Decision(action, code) == [Pass EXCEPT !.action = action, !.code = code]
Rebinding(action, code) == [Decision(action, code) EXCEPT !.rebind = TRUE]
Hold(code, until) == [Decision("hold", code) EXCEPT !.retry_at = until]

ai(r) == r.authored_by # OWNER
auto(r) == ai(r) /\ r.approved_by = AUTO_APPROVER

shapes_passed(g) == g.verdict = "pass" /\ g.shapes_ok

\* A fault to detect: any statement is an approved one.
auto_shapes_ok_free(intent, shapes_ok, shapes) ==
  TRUE \/ (intent \in KB_ONLY_INTENTS => KB_SHAPE \in shapes)

auto_shapes_ok(intent, shapes_ok, shapes) ==
  shapes_ok /\ (intent \in KB_ONLY_INTENTS => KB_SHAPE \in shapes)

max2(a, b) == IF a >= b THEN a ELSE b

-----------------------------------------------------------------------------
(* The lines, in the order they are read.  c is the context of the claim.  *)

kill_switch(r, c) ==
  IF ~c.jarvis_enabled THEN Hold("jarvis_disabled", NoTime)
  ELSE IF ~c.channel_send_enabled THEN Hold("channel_disabled", NoTime)
  ELSE Pass

pause_line(r, c) ==
  LET stop == stop_for(c.policies, r.channel, c.now)
  IN  IF stop.code = "none" THEN Pass ELSE Hold(stop.code, stop.until)

mode_line(r, c) ==
  LET mode == effective_mode(c.policies, r.channel, r.intent, c.env_ceiling)
  IN  IF c.env_ceiling = "off" THEN Decision("block", "mode_off")
      ELSE IF ~ai(r) THEN Pass
      ELSE IF auto(r) /\ r.intent \notin AUTO_INTENTS THEN Decision("redraft", "never_auto")
      ELSE IF auto(r) /\ mode = "draft" THEN Decision("redraft", "demoted")
      ELSE IF mode \in {"off", "shadow"} THEN Decision("block", "mode")
      ELSE Pass

\* A fault to detect: a personal chat blocks the owner's words too.
rules_line_blocking(r, c) ==
  LET addressed == IF c.trigger.exists /\ c.trigger.to_me THEN "yes" ELSE "no"
      refused == ai_refusal(c.chat, c.rules, addressed)
  IN  IF ~ai(r) /\ never_rule(c.rules) /\ ~r.warned_personal
        THEN Decision("block", "personal_warning")
      ELSE IF ~ai(r) /\ c.chat.excluded THEN Decision("block", "excluded")
      ELSE IF ~ai(r) THEN Pass
      ELSE IF refused # "none" THEN Decision("block", refused)
      ELSE IF auto(r) /\ rule_mode(c.rules) = "draft" THEN Decision("redraft", "rule_draft")
      ELSE Pass

rules_line(r, c) ==
  LET addressed == IF c.trigger.exists /\ c.trigger.to_me THEN "yes" ELSE "no"
      refused == ai_refusal(c.chat, c.rules, addressed)
  IN  IF ~ai(r) /\ never_rule(c.rules) /\ ~r.warned_personal
        THEN Decision("redraft", "personal_warning")
      ELSE IF ~ai(r) /\ c.chat.excluded THEN Decision("block", "excluded")
      ELSE IF ~ai(r) THEN Pass
      ELSE IF refused # "none" THEN Decision("block", refused)
      ELSE IF auto(r) /\ rule_mode(c.rules) = "draft" THEN Decision("redraft", "rule_draft")
      ELSE Pass

\* A fault to detect: one warned message excuses the others.
safety_line_any(r, c) ==
  IF ~c.safety_readable
    THEN IF ai(r) THEN Decision("block", "safety_unreadable")
                  ELSE Hold("safety_unreadable", NoTime)
  ELSE IF c.unsafe_inbound_ids = {} THEN Pass
  ELSE IF ai(r) THEN Decision("block", "unsafe_chat")
  ELSE IF \E id \in c.unsafe_inbound_ids : id <= r.warned_safety THEN Pass
  ELSE Decision("redraft", "safety_warning")

safety_line(r, c) ==
  IF ~c.safety_readable
    THEN IF ai(r) THEN Decision("block", "safety_unreadable")
                  ELSE Hold("safety_unreadable", NoTime)
  ELSE IF c.unsafe_inbound_ids = {} THEN Pass
  ELSE IF ai(r) THEN Decision("block", "unsafe_chat")
  ELSE IF \A id \in c.unsafe_inbound_ids : id <= r.warned_safety THEN Pass
  ELSE Decision("redraft", "safety_warning")

\* A fault to detect: the tap does not move the moment.
since_ignoring_tap(r, c) ==
  LET from == IF c.trigger.exists THEN c.trigger.occurred_at ELSE r.created_at
  IN  from

(* What the owner did in the chat counts against AI text from the client's  *)
(* message on; once the owner tapped send, only from that tap on.           *)
since(r, c) ==
  LET from == IF c.trigger.exists THEN c.trigger.occurred_at ELSE r.created_at
  IN  IF ~auto(r) THEN max2(from, r.approved_at) ELSE from

composing(s, from, now) ==
  s.owner_composing_at > from /\ s.owner_composing_at + COMPOSING_HOLD > now

chat_state_line(r, c) ==
  LET s == c.chat_state
      from == since(r, c)
  IN  IF ~ai(r) THEN Pass
      ELSE IF s.owner_replied_at > from THEN Decision("cancel", "owner_replied")
      ELSE IF composing(s, from, c.now)
             THEN Hold("owner_composing", s.owner_composing_at + COMPOSING_HOLD)
      ELSE IF auto(r) /\ s.owner_seen_at > from THEN Decision("block", "owner_seen")
      ELSE IF auto(r) /\ s.ai_paused_until > c.now THEN Decision("block", "ai_paused")
      ELSE Pass

trigger_line(r, c) ==
  LET t == c.trigger
  IN  IF ai(r) /\ ~r.has_trigger THEN Decision("block", "no_trigger")
      ELSE IF ai(r) /\ t.exists /\ t.deleted THEN Decision("cancel", "trigger_deleted")
      ELSE IF ai(r) /\ t.exists /\ t.edited_at >= r.created_at
             THEN Decision("expire", "trigger_edited")
      ELSE IF ai(r) /\ ~t.exists THEN Decision("cancel", "trigger_missing")
      ELSE IF r.expires_at # NoTime /\ r.expires_at <= c.now THEN Decision("expire", "expired")
      ELSE IF r.not_before > c.now THEN Hold("not_before", r.not_before)
      ELSE Pass

caps_line(r, c) ==
  LET caps == c.caps
      ready == caps.last_send_at + caps.gap_seconds
  IN  IF auto(r) /\ caps.auto_sent >= caps.auto_cap
        THEN Hold("auto_cap", caps.resets_at)
      ELSE IF ai(r) /\ caps.chat_ai_sent >= caps.per_chat_cap
        THEN Hold("chat_cap", caps.resets_at)
      ELSE IF caps.last_send_at # NoTime /\ caps.gap_seconds > 0 /\ ready > c.now
        THEN Hold("send_gap", ready)
      ELSE IF caps.channel_sent >= caps.channel_cap
        THEN Hold("channel_cap", caps.resets_at)
      ELSE IF auto(r) /\ caps.cost_over_cap THEN Hold("cost_cap", caps.resets_at)
      ELSE Pass

\* A fault to detect: a quoted record is trusted as it was.
leaned_never(r) == FALSE

(* An autonomous text approved for a knowledge-base quote or a bank question *)
(* is guarded again with the records in force now.                           *)
leaned(r) == auto(r) /\ r.guard.shapes \intersect RECHECKED_SHAPES # {}

guard_line(r, c) ==
  LET fresh == c.guard.result
  IN  IF ai(r) /\ r.bound /\ r.guard.verdict = "pass" /\ ~leaned(r)
        THEN IF auto(r) /\ ~(shapes_passed(r.guard)
                             /\ auto_shapes_ok(r.intent, TRUE, r.guard.shapes))
               THEN Decision("redraft", "unapproved_statement")
               ELSE Pass
      ELSE IF ~ai(r) /\ r.bound THEN Pass
      ELSE IF ~ai(r)
        THEN IF c.guard.registered THEN Rebinding("redraft", "body_changed")
                                   ELSE Decision("redraft", "body_changed")
      ELSE IF ~c.guard.registered THEN Decision("block", "guard_unavailable")
      ELSE IF fresh.verdict # "pass" THEN Rebinding("block", "guard_failed")
      ELSE IF ~auto(r)
        THEN IF r.plain_text THEN Rebinding("redraft", "body_changed") ELSE Pass
      ELSE IF ~auto_shapes_ok(r.intent, fresh.shapes_ok, fresh.shapes)
        THEN Rebinding("redraft", "unapproved_statement")
      ELSE Rebinding("send", "reguarded")

payload_line(r, c) ==
  IF r.plain_text THEN Pass ELSE Decision("block", "payload_not_text")

quiet_hours_line(r, c) ==
  IF auto(r) /\ c.quiet_until # NoTime /\ ~c.auto_in_quiet_hours
    THEN Hold("quiet_hours", c.quiet_until)
    ELSE Pass

LINES(r, c) ==
  <<kill_switch(r, c), pause_line(r, c), mode_line(r, c), rules_line(r, c),
    safety_line(r, c), chat_state_line(r, c), trigger_line(r, c),
    caps_line(r, c), guard_line(r, c), payload_line(r, c),
    quiet_hours_line(r, c)>>

(* The first objection decides; a re-guarded row is sent with its fresh    *)
(* verdict only when no later line objects.                                *)
evaluate(r, c) ==
  LET lines == LINES(r, c)
      objections == {k \in 1..11 : lines[k].action \notin {"none", "send"}}
      reguarded == {k \in 1..11 : lines[k].action = "send"}
  IN  IF objections # {} THEN lines[lowest(objections)]
      ELSE IF reguarded # {} THEN lines[lowest(reguarded)]
      ELSE Decision("send", "")

sends(r, c) == evaluate(r, c).action = "send"
=============================================================================
