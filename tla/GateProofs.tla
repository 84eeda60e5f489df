------------------------------ MODULE GateProofs ------------------------------
(***************************************************************************)
(* Theorems about the gate and the events it is asked among, for every     *)
(* channel, intent, row and number of events.                              *)
(***************************************************************************)
EXTENDS GateWorld, WellFoundedInduction, TLAPS

(* A non-empty set of naturals has a least element, and `lowest' is it.    *)
LEMMA LeastExists ==
  ASSUME NEW S, S \subseteq Nat, S # {}
  PROVE  lowest(S) \in S /\ \A j \in S : lowest(S) <= j
<1>1. PICK x \in S : \A y \in S : ~ (<<y, x>> \in OpToRel(<, Nat))
  BY NatLessThanWellFounded, WFMin
<1>2. \A y \in S : y < x => <<y, x>> \in OpToRel(<, Nat)
  BY Zenon DEF OpToRel
<1>3. \A y \in S : ~ (y < x)
  BY <1>1, <1>2, Zenon
<1>4. \A y \in S : x <= y
  BY <1>3
<1> QED
  BY <1>4, <1>1, Zenon DEF lowest

(* A line does not object.                                                 *)
Silent(line) == line.action \in {"none", "send"}

(* The gate sends exactly what no line objects to, and otherwise answers   *)
(* with a line that objects.                                               *)
LEMMA SendsWhenSilent ==
  ASSUME NEW r, NEW c
  PROVE  /\ sends(r, c) <=> \A k \in 1..11 : Silent(LINES(r, c)[k])
         /\ ~sends(r, c) => \E k \in 1..11 : /\ evaluate(r, c) = LINES(r, c)[k]
                                             /\ ~Silent(LINES(r, c)[k])
<1> DEFINE lines == LINES(r, c)
           objections == {k \in 1..11 : lines[k].action \notin {"none", "send"}}
           reguarded == {k \in 1..11 : lines[k].action = "send"}
<1>1. evaluate(r, c) = IF objections # {} THEN lines[lowest(objections)]
                       ELSE IF reguarded # {} THEN lines[lowest(reguarded)]
                       ELSE Decision("send", "")
  BY DEF evaluate
<1>2. objections # {} => lowest(objections) \in objections
  BY LeastExists
<1>3. reguarded # {} => lowest(reguarded) \in reguarded
  BY LeastExists
<1>4. Decision("send", "").action = "send"
  BY DEF Decision, Pass
<1> HIDE DEF lines
<1> QED
  BY <1>1, <1>2, <1>3, <1>4 DEF sends, Silent, lines

(* Which of the eleven lines are silent, each in its own words.            *)
LEMMA SilentLines ==
  ASSUME NEW r, NEW c
  PROVE  (\A k \in 1..11 : Silent(LINES(r, c)[k])) <=>
           /\ Silent(kill_switch(r, c)) /\ Silent(pause_line(r, c)) /\ Silent(mode_line(r, c))
           /\ Silent(rules_line(r, c)) /\ Silent(safety_line(r, c)) /\ Silent(chat_state_line(r, c))
           /\ Silent(trigger_line(r, c)) /\ Silent(caps_line(r, c)) /\ Silent(guard_line(r, c))
           /\ Silent(payload_line(r, c)) /\ Silent(quiet_hours_line(r, c))
<1> HIDE DEF Silent
<1>1. /\ LINES(r, c)[1] = kill_switch(r, c) /\ LINES(r, c)[2] = pause_line(r, c)
      /\ LINES(r, c)[3] = mode_line(r, c) /\ LINES(r, c)[4] = rules_line(r, c)
      /\ LINES(r, c)[5] = safety_line(r, c) /\ LINES(r, c)[6] = chat_state_line(r, c)
      /\ LINES(r, c)[7] = trigger_line(r, c) /\ LINES(r, c)[8] = caps_line(r, c)
      /\ LINES(r, c)[9] = guard_line(r, c) /\ LINES(r, c)[10] = payload_line(r, c)
      /\ LINES(r, c)[11] = quiet_hours_line(r, c)
  BY DEF LINES
<1>2. \A k \in 1..11 : k \in {1, 2, 3, 4, 5, 6, 7, 8, 9, 10, 11}
  OBVIOUS
<1>3. \A k \in {1, 2, 3, 4, 5, 6, 7, 8, 9, 10, 11} : k \in 1..11
  OBVIOUS
<1> QED
  BY <1>1, <1>2, <1>3

-----------------------------------------------------------------------------
(* What each line lets through. *)

(* The fields of a decision are those it was built with.                   *)
LEMMA DecisionFields ==
  ASSUME NEW action, NEW code, NEW until
  PROVE  /\ Pass.action = "none" /\ Pass.code = "" /\ Pass.retry_at = NoTime
         /\ Decision(action, code).action = action
         /\ Decision(action, code).code = code
         /\ Decision(action, code).retry_at = NoTime
         /\ Rebinding(action, code).action = action
         /\ Rebinding(action, code).code = code
         /\ Rebinding(action, code).retry_at = NoTime
         /\ Hold(code, until).action = "hold"
         /\ Hold(code, until).code = code
         /\ Hold(code, until).retry_at = until
  BY DEF Pass, Decision, Rebinding, Hold

LEMMA SilentDecisions ==
  ASSUME NEW code, NEW until
  PROVE  /\ Silent(Pass) /\ Silent(Rebinding("send", code))
         /\ ~Silent(Hold(code, until))
         /\ ~Silent(Decision("redraft", code)) /\ ~Silent(Decision("block", code))
         /\ ~Silent(Decision("expire", code)) /\ ~Silent(Decision("cancel", code))
         /\ ~Silent(Rebinding("redraft", code)) /\ ~Silent(Rebinding("block", code))
<1>1. Silent(Pass) /\ Silent(Rebinding("send", code))
  BY DEF Pass, Decision, Rebinding, Hold, Silent
<1>2. ~Silent(Hold(code, until))
  BY DEF Pass, Decision, Rebinding, Hold, Silent
<1>3. ~Silent(Decision("redraft", code)) /\ ~Silent(Decision("block", code))
  BY DEF Pass, Decision, Rebinding, Hold, Silent
<1>4. ~Silent(Decision("expire", code)) /\ ~Silent(Decision("cancel", code))
  BY DEF Pass, Decision, Rebinding, Hold, Silent
<1>5. ~Silent(Rebinding("redraft", code)) /\ ~Silent(Rebinding("block", code))
  BY DEF Pass, Decision, Rebinding, Hold, Silent
<1> QED
  BY <1>1, <1>2, <1>3, <1>4, <1>5

(* The reason why MIYA may not write in a chat is a word of its own.       *)
LEMMA RefusalWords ==
  ASSUME NEW chat, NEW rules, NEW addressed
  PROVE  ai_refusal(chat, rules, addressed)
           \in {"none", "personal_chat", "excluded", "group_off", "group_not_addressed"}
  BY DEF ai_refusal

LEMMA SwitchesSilent ==
  ASSUME NEW r, NEW c
  PROVE  Silent(kill_switch(r, c)) <=> c.jarvis_enabled /\ c.channel_send_enabled
  BY SilentDecisions DEF kill_switch

LEMMA PauseSilent ==
  ASSUME NEW r, NEW c
  PROVE  Silent(pause_line(r, c)) <=>
           /\ ~stopped(c.policies, GLOBAL, c.now)
           /\ ~stopped(c.policies, channel_scope(r.channel), c.now)
<1>1. stop_for(c.policies, r.channel, c.now).code = "none" <=>
           /\ ~stopped(c.policies, GLOBAL, c.now)
           /\ ~stopped(c.policies, channel_scope(r.channel), c.now)
  <2> HIDE DEF stopped, paused
  <2> QED
    BY DEF stop_for, Stop, NoStop
<1> QED
  BY <1>1, SilentDecisions DEF pause_line

LEMMA ModeSilent ==
  ASSUME NEW r, NEW c
  PROVE  Silent(mode_line(r, c)) <=>
           /\ c.env_ceiling # "off"
           /\ LET mode == effective_mode(c.policies, r.channel, r.intent, c.env_ceiling)
              IN  ai(r) => /\ auto(r) => r.intent \in AUTO_INTENTS /\ mode # "draft"
                           /\ mode \notin {"off", "shadow"}
  BY SilentDecisions DEF mode_line

(* Who writes decides what a rule means: MIYA is refused or not, the owner *)
(* is asked once about a personal chat.                                    *)
Addressed(c) == IF c.trigger.exists /\ c.trigger.to_me THEN "yes" ELSE "no"

LEMMA RulesSilent ==
  ASSUME NEW r, NEW c
  PROVE  Silent(rules_line(r, c)) <=>
           /\ ~ai(r) => /\ never_rule(c.rules) => r.warned_personal
                        /\ ~c.chat.excluded
           /\ ai(r) => /\ ai_refusal(c.chat, c.rules, Addressed(c)) = "none"
                       /\ auto(r) => rule_mode(c.rules) # "draft"
<1> HIDE DEF ai_refusal, rule_mode, never_rule
<1> QED
  BY SilentDecisions DEF rules_line, Addressed, auto

LEMMA SafetySilent ==
  ASSUME NEW r, NEW c
  PROVE  Silent(safety_line(r, c)) <=>
           /\ c.safety_readable
           /\ \/ c.unsafe_inbound_ids = {}
              \/ ~ai(r) /\ \A id \in c.unsafe_inbound_ids : id <= r.warned_safety
  BY SilentDecisions DEF safety_line

LEMMA ChatStateSilent ==
  ASSUME NEW r, NEW c
  PROVE  Silent(chat_state_line(r, c)) <=>
           (ai(r) => /\ ~(c.chat_state.owner_replied_at > since(r, c))
                     /\ ~composing(c.chat_state, since(r, c), c.now)
                     /\ auto(r) => /\ ~(c.chat_state.owner_seen_at > since(r, c))
                                   /\ ~(c.chat_state.ai_paused_until > c.now))
<1> HIDE DEF since, composing
<1> QED
  BY SilentDecisions DEF chat_state_line

LEMMA TriggerSilent ==
  ASSUME NEW r, NEW c
  PROVE  Silent(trigger_line(r, c)) <=>
           /\ ai(r) => /\ r.has_trigger /\ c.trigger.exists /\ ~c.trigger.deleted
                       /\ ~(c.trigger.edited_at >= r.created_at)
           /\ ~(r.expires_at # NoTime /\ r.expires_at <= c.now)
           /\ ~(r.not_before > c.now)
  BY SilentDecisions DEF trigger_line

LEMMA CapsSilent ==
  ASSUME NEW r, NEW c
  PROVE  Silent(caps_line(r, c)) <=>
           /\ auto(r) => ~(c.caps.auto_sent >= c.caps.auto_cap)
           /\ ai(r) => ~(c.caps.chat_ai_sent >= c.caps.per_chat_cap)
           /\ ~(/\ c.caps.last_send_at # NoTime /\ c.caps.gap_seconds > 0
                /\ c.caps.last_send_at + c.caps.gap_seconds > c.now)
           /\ ~(c.caps.channel_sent >= c.caps.channel_cap)
           /\ auto(r) => ~c.caps.cost_over_cap
  BY SilentDecisions DEF caps_line

(* Said of a row as the outbox keeps it: bound, MIYA's text passed.        *)
LEMMA GuardSilent ==
  ASSUME NEW r, NEW c, r.bound, ai(r) => r.guard.verdict = "pass"
  PROVE  Silent(guard_line(r, c)) <=>
           (auto(r) =>
              IF leaned(r)
                THEN /\ c.guard.registered
                     /\ c.guard.result.verdict = "pass"
                     /\ auto_shapes_ok(r.intent, c.guard.result.shapes_ok, c.guard.result.shapes)
                ELSE /\ shapes_passed(r.guard)
                     /\ auto_shapes_ok(r.intent, TRUE, r.guard.shapes))
<1>1. leaned(r) => auto(r)
  BY DEF leaned
<1>2. auto(r) => ai(r)
  BY DEF auto
<1> HIDE DEF auto_shapes_ok, shapes_passed, leaned, auto, ai
<1> QED
  BY <1>1, <1>2, SilentDecisions DEF guard_line

LEMMA PayloadSilent ==
  ASSUME NEW r, NEW c
  PROVE  Silent(payload_line(r, c)) <=> r.plain_text
  BY SilentDecisions DEF payload_line

LEMMA QuietSilent ==
  ASSUME NEW r, NEW c
  PROVE  Silent(quiet_hours_line(r, c)) <=>
           (auto(r) => c.quiet_until = NoTime \/ c.auto_in_quiet_hours)
  BY SilentDecisions DEF quiet_hours_line

(* Everything a row of this world needs for its line to be silent, in the  *)
(* gate's order.                                                           *)
Unopposed(r, c) ==
  /\ c.jarvis_enabled /\ c.channel_send_enabled
  /\ ~stopped(c.policies, GLOBAL, c.now)
  /\ ~stopped(c.policies, channel_scope(r.channel), c.now)
  /\ Silent(mode_line(r, c)) /\ Silent(rules_line(r, c))
  /\ Silent(safety_line(r, c)) /\ Silent(chat_state_line(r, c))
  /\ Silent(trigger_line(r, c)) /\ Silent(caps_line(r, c))
  /\ Silent(guard_line(r, c)) /\ Silent(payload_line(r, c))
  /\ Silent(quiet_hours_line(r, c))

LEMMA SendsUnopposed ==
  ASSUME NEW r, NEW c
  PROVE  sends(r, c) <=> Unopposed(r, c)
<1> HIDE DEF Silent, sends, stopped
<1> QED
  BY SendsWhenSilent, SilentLines, SwitchesSilent, PauseSilent DEF Unopposed

-----------------------------------------------------------------------------
(* The mode of a row. *)

(* The narrowest scope with a mode of its own gives it.                    *)
LEMMA StoredMode ==
  ASSUME NEW policies, NEW ch, NEW i
  PROVE  stored_mode(policies, ch, i) =
           IF policies[channel_intent_scope(ch, i)].mode # NoMode
             THEN policies[channel_intent_scope(ch, i)].mode
           ELSE IF policies[intent_scope(i)].mode # NoMode
             THEN policies[intent_scope(i)].mode
           ELSE IF policies[channel_scope(ch)].mode # NoMode
             THEN policies[channel_scope(ch)].mode
           ELSE IF policies[GLOBAL].mode # NoMode
             THEN policies[GLOBAL].mode
           ELSE DEFAULT_MODE
<1> DEFINE m(k) == IF k = 1 THEN policies[channel_intent_scope(ch, i)].mode
                   ELSE IF k = 2 THEN policies[intent_scope(i)].mode
                   ELSE IF k = 3 THEN policies[channel_scope(ch)].mode
                   ELSE policies[GLOBAL].mode
           set == {k \in 1..4 : m(k) # NoMode}
<1>1. stored_mode(policies, ch, i) = IF set = {} THEN DEFAULT_MODE ELSE m(lowest(set))
  <2> DEFINE narrowest == <<channel_intent_scope(ch, i), intent_scope(i), channel_scope(ch), GLOBAL>>
             given == {k \in 1..4 : policies[narrowest[k]].mode # NoMode}
  <2>1. \A k \in 1..4 : policies[narrowest[k]].mode = m(k)
    <3>1. /\ narrowest[1] = channel_intent_scope(ch, i) /\ narrowest[2] = intent_scope(i)
          /\ narrowest[3] = channel_scope(ch) /\ narrowest[4] = GLOBAL
      OBVIOUS
    <3>2. \A k \in 1..4 : k = 1 \/ k = 2 \/ k = 3 \/ k = 4
      OBVIOUS
    <3> HIDE DEF narrowest
    <3> QED
      BY <3>1, <3>2
  <2>2. stored_mode(policies, ch, i) =
          IF given = {} THEN DEFAULT_MODE ELSE policies[narrowest[lowest(given)]].mode
    BY DEF stored_mode
  <2> HIDE DEF narrowest, m
  <2>3. given = set
    BY <2>1
  <2>4. given # {} => lowest(given) \in 1..4
    BY LeastExists
  <2> QED
    BY <2>1, <2>2, <2>3, <2>4
<1>2. set # {} => lowest(set) \in set /\ \A j \in set : lowest(set) <= j
  <2> HIDE DEF m
  <2> QED
    BY LeastExists
<1>3. \A k \in 1..4 : k = 1 \/ k = 2 \/ k = 3 \/ k = 4
  OBVIOUS
<1>4. 1 \in 1..4 /\ 2 \in 1..4 /\ 3 \in 1..4 /\ 4 \in 1..4
  OBVIOUS
<1>5. CASE set = {}
  BY <1>1, <1>4, <1>5
<1>6. CASE set # {}
  <2>1. PICK k \in 1..4 : k = lowest(set)
    BY <1>2, <1>6
  <2>2. m(k) # NoMode /\ \A j \in 1..4 : j < k => m(j) = NoMode
    <3> HIDE DEF m
    <3> QED
      BY <1>2, <1>6, <2>1
  <2>3. stored_mode(policies, ch, i) = m(k)
    BY <1>1, <1>6, <2>1
  <2>4. (k > 1 => m(1) = NoMode) /\ (k > 2 => m(2) = NoMode) /\ (k > 3 => m(3) = NoMode)
    <3> HIDE DEF m
    <3> QED
      BY <2>2
  <2> QED
    BY <2>2, <2>3, <2>4, <1>3
<1> QED
  BY <1>5, <1>6

(* What the gate may be told: the program's settings, the policy rows, the *)
(* rules, and moments that are past, or none.                              *)
Policies == [Scopes -> PolicyRow]

Triggers == [exists : {TRUE}, occurred_at : {0}, edited_at : OptTime,
             deleted : BOOLEAN, to_me : {TRUE}]

ChatMoments == [owner_seen_at : OptTime, owner_composing_at : OptTime,
                owner_replied_at : OptTime, ai_paused_until : OptTime]

Counters == [auto_sent : Nat, chat_ai_sent : Nat, channel_sent : Nat,
             last_send_at : OptTime, cost_over_cap : BOOLEAN,
             auto_cap : Nat, per_chat_cap : Nat, gap_seconds : {1},
             channel_cap : Nat, resets_at : Time]

Contexts ==
  [now : Time, jarvis_enabled : BOOLEAN, channel_send_enabled : BOOLEAN,
   env_ceiling : {"auto", "draft", "off"}, policies : Policies, chat : ChatFacts,
   rules : Seq(Rules), trigger : Triggers, unsafe_inbound_ids : SUBSET Nat,
   safety_readable : {TRUE}, chat_state : ChatMoments, caps : Counters,
   guard : [registered : {TRUE}, result : GuardResults],
   quiet_until : OptTime, auto_in_quiet_hours : {FALSE}]

(* Nothing is dated after now, and MIYA is off when its ceiling is.        *)
Dated(c) ==
  /\ c.trigger.edited_at <= c.now
  /\ c.chat_state.owner_seen_at <= c.now
  /\ c.chat_state.owner_composing_at <= c.now
  /\ c.chat_state.owner_replied_at <= c.now
  /\ c.env_ceiling = "off" => ~c.jarvis_enabled

WorldInv == row \in Rows /\ ctx \in Contexts /\ Dated(ctx)

(* What a row of the world is.                                             *)
LEMMA RowFacts ==
  ASSUME WorldInv
  PROVE  /\ row \in RowSnapshots /\ row.channel = Channel /\ row.bound
         /\ Channel \in Channels /\ row.intent \in Intents
         /\ ai(row) => row.guard.verdict = "pass"
  BY GateWorldAssumption DEF WorldInv, RowSnapshots

(* A mode that was resolved is a mode.                                     *)
LEMMA ModeType ==
  ASSUME NEW policies \in Policies, NEW ch \in Channels, NEW i \in Intents
  PROVE  stored_mode(policies, ch, i) \in Modes
<1>1. /\ channel_intent_scope(ch, i) \in Scopes /\ intent_scope(i) \in Scopes
      /\ channel_scope(ch) \in Scopes /\ GLOBAL \in Scopes
  BY DEF Scopes
<1>2. \A s \in Scopes : policies[s].mode \in Modes \union {NoMode}
  BY DEF Policies, PolicyRow
<1>3. DEFAULT_MODE \in Modes
  BY DEF DEFAULT_MODE, Modes
<1> HIDE DEF channel_intent_scope, intent_scope, channel_scope, GLOBAL
<1> QED
  BY <1>1, <1>2, <1>3, StoredMode

(* The ceiling lowers a mode and never raises it.                          *)
LEMMA CeilingLowers ==
  ASSUME NEW mode \in Modes, NEW ceiling \in {"auto", "draft", "off"}
  PROVE  /\ ceiling = "auto" => lower_mode(mode, ceiling) = mode
         /\ ceiling = "draft" =>
              lower_mode(mode, ceiling) = IF mode = "auto" THEN "draft" ELSE mode
         /\ ceiling = "off" => lower_mode(mode, ceiling) = "off"
  BY DEF Modes, lower_mode, MODE_RANK

-----------------------------------------------------------------------------
(* The invariant. *)

LEMMA InitWorld == Init => WorldInv
<1> SUFFICES ASSUME Init PROVE WorldInv
  OBVIOUS
<1> DEFINE result == [verdict |-> "pass", shapes_ok |-> TRUE, shapes |-> {"courtesy", KB_SHAPE}]
           opened == [s \in Scopes |-> [EmptyRow EXCEPT !.mode = IF s = GLOBAL THEN "auto" ELSE NoMode]]
<1>1. result \in GuardResults
  BY DEF GuardResults, Shapes, RECHECKED_SHAPES, KB_SHAPE
<1>2. opened \in Policies
  <2>1. \A s \in Scopes :
          [EmptyRow EXCEPT !.mode = IF s = GLOBAL THEN "auto" ELSE NoMode] \in PolicyRow
    BY DEF EmptyRow, PolicyRow, Modes, NoMode, OptTime
  <2> QED
    BY <2>1 DEF Policies
<1>3. <<>> \in Seq(Rules)
  OBVIOUS
<1>4. NoTime \in OptTime /\ NoTime \in Int /\ NoTime <= 2 /\ MaxTime + 1 \in Nat
  BY GateWorldAssumption DEF OptTime, NoTime
<1> HIDE DEF result, opened
<1>5. open_ctx \in Contexts
  BY <1>1, <1>2, <1>3, <1>4 DEF open_ctx, Contexts, ChatFacts, Triggers, ChatMoments, Counters, Time,
    result, opened
<1>6. Dated(open_ctx)
  BY <1>4 DEF open_ctx, Dated
<1> QED
  BY <1>5, <1>6 DEF Init, WorldInv

(* The scopes an event writes are scopes.                                  *)
LEMMA ScopesOfTheRow ==
  ASSUME WorldInv
  PROVE  /\ GLOBAL \in Scopes /\ channel_scope(Channel) \in Scopes
         /\ channel_intent_scope(Channel, row.intent) \in Scopes
  BY RowFacts DEF Scopes

(* A policy row with a field set is a policy row.                          *)
LEMMA PolicyEdits ==
  ASSUME NEW c \in Contexts, NEW s \in Scopes,
         NEW mode \in Modes, NEW until \in OptTime
  PROVE  /\ [c EXCEPT !.policies[s].mode = mode] \in Contexts
         /\ [c EXCEPT !.policies[s].breaker_until = until] \in Contexts
         /\ [c EXCEPT !.policies[s].paused = TRUE,
                      !.policies[s].paused_until = until] \in Contexts
<1> DEFINE put(p) == [c EXCEPT !.policies = p]
<1>1. \A p \in Policies : put(p) \in Contexts
  BY DEF Contexts
<1>2. c.policies \in Policies
  BY DEF Contexts
<1>3. \A p \in Policies, x \in PolicyRow : [p EXCEPT ![s] = x] \in Policies
  BY DEF Policies
<1>4. \A p \in Policies : p[s] \in PolicyRow
  BY DEF Policies
<1>5. \A x \in PolicyRow : /\ [x EXCEPT !.mode = mode] \in PolicyRow
                           /\ [x EXCEPT !.breaker_until = until] \in PolicyRow
                           /\ [x EXCEPT !.paused = TRUE, !.paused_until = until] \in PolicyRow
  BY DEF PolicyRow
<1>6. /\ [c EXCEPT !.policies[s].mode = mode]
           = put([c.policies EXCEPT ![s] = [c.policies[s] EXCEPT !.mode = mode]])
      /\ [c EXCEPT !.policies[s].breaker_until = until]
           = put([c.policies EXCEPT ![s] = [c.policies[s] EXCEPT !.breaker_until = until]])
  OBVIOUS
<1>7. [c EXCEPT !.policies[s].paused = TRUE, !.policies[s].paused_until = until]
        = put([c.policies EXCEPT ![s] = [c.policies[s] EXCEPT !.paused = TRUE, !.paused_until = until]])
  <2> DEFINE p1 == [c.policies EXCEPT ![s] = [c.policies[s] EXCEPT !.paused = TRUE]]
             x2 == [c.policies[s] EXCEPT !.paused = TRUE, !.paused_until = until]
  <2>1. [c EXCEPT !.policies[s].paused = TRUE, !.policies[s].paused_until = until]
          = put([p1 EXCEPT ![s] = [p1[s] EXCEPT !.paused_until = until]])
    BY DEF Contexts
  <2>2. [p1[s] EXCEPT !.paused_until = until] = x2
    BY <1>2 DEF Policies
  <2>3. [p1 EXCEPT ![s] = x2] = [c.policies EXCEPT ![s] = x2]
    BY <1>2 DEF Policies
  <2> QED
    BY <2>1, <2>2, <2>3
<1> HIDE DEF put
<1> QED
  BY <1>1, <1>2, <1>3, <1>4, <1>5, <1>6, <1>7

(* Every event leaves a context that may be, dated as it should be.        *)
LEMMA NextWorld == WorldInv /\ [Next]_vars => WorldInv'
<1> SUFFICES ASSUME WorldInv, [Next]_vars PROVE WorldInv'
  OBVIOUS
<1>a. /\ ctx \in Contexts /\ Dated(ctx) /\ row \in Rows /\ ctx.now \in Nat
      /\ ctx.now \in OptTime /\ ctx.now + 1 \in OptTime /\ ctx.now + 2 \in OptTime
      /\ NoTime \in OptTime
  <2>1. ctx \in Contexts /\ Dated(ctx) /\ row \in Rows
    BY DEF WorldInv
  <2>2. ctx.now \in Nat
    BY <2>1 DEF Contexts, Time
  <2> QED
    BY <2>1, <2>2 DEF OptTime, Time
<1>b. \A new : Event(new) /\ new \in Contexts /\ Dated(new) => WorldInv'
  BY <1>a DEF Event, WorldInv
<1>c. ASSUME NEW s \in Scopes, NEW mode \in Modes, NEW until \in OptTime
      PROVE  /\ Dated([ctx EXCEPT !.policies[s].mode = mode])
             /\ Dated([ctx EXCEPT !.policies[s].breaker_until = until])
             /\ Dated([ctx EXCEPT !.policies[s].paused = TRUE, !.policies[s].paused_until = until])
  BY <1>a DEF Dated, Contexts
<1>d. "draft" \in Modes /\ "shadow" \in Modes
  BY DEF Modes
<1>1. CASE OwnerPauses
  BY <1>1, <1>a, <1>b, <1>c, <1>d, ScopesOfTheRow, PolicyEdits DEF OwnerPauses
<1>2. CASE BreakerTrips
  <2> DEFINE broken == [ctx EXCEPT !.policies[channel_scope(Channel)].breaker_until = ctx.now + 2]
             lowered == [broken EXCEPT !.policies[channel_intent_scope(Channel, row.intent)].mode = "draft"]
  <2>1. broken \in Contexts /\ Dated(broken)
    BY <1>a, <1>c, <1>d, ScopesOfTheRow, PolicyEdits
  <2>2. lowered \in Contexts
    <3> HIDE DEF broken
    <3> QED
      BY <1>a, <1>d, <2>1, ScopesOfTheRow, PolicyEdits
  <2>3. Dated(lowered)
    <3> HIDE DEF broken
    <3> QED
      BY <2>1 DEF Dated, Contexts
  <2>4. Event(broken) \/ Event(lowered)
    BY <1>2 DEF BreakerTrips
  <2> HIDE DEF broken, lowered
  <2> QED
    BY <2>1, <2>2, <2>3, <2>4, <1>b
<1>3. CASE Demoted
  BY <1>3, <1>a, <1>b, <1>c, <1>d, ScopesOfTheRow, PolicyEdits DEF Demoted
<1>4. CASE ShadowedByTheOwner
  BY <1>4, <1>a, <1>b, <1>c, <1>d, ScopesOfTheRow, PolicyEdits DEF ShadowedByTheOwner
<1>5. CASE SwitchedOff
  <2> DEFINE n1 == [ctx EXCEPT !.jarvis_enabled = FALSE, !.env_ceiling = "off"]
             n2 == [ctx EXCEPT !.channel_send_enabled = FALSE]
             n3 == [ctx EXCEPT !.env_ceiling = "draft"]
  <2>1. n1 \in Contexts /\ n2 \in Contexts /\ n3 \in Contexts
    BY <1>a DEF Contexts
  <2>2. Dated(n1) /\ Dated(n2) /\ Dated(n3)
    BY <1>a DEF Dated, Contexts
  <2>3. Event(n1) \/ Event(n2) \/ Event(n3)
    BY <1>5 DEF SwitchedOff
  <2> HIDE DEF n1, n2, n3
  <2> QED
    BY <2>1, <2>2, <2>3, <1>b
<1>6. CASE MarkedPersonal
  <2> DEFINE rule == [subject |-> "chat", mode |-> "never", reason |-> "personal"]
             n1 == [ctx EXCEPT !.rules = Append(ctx.rules, rule)]
  <2>1. rule \in Rules
    BY DEF Rules
  <2>2. n1 \in Contexts
    <3>1. Append(ctx.rules, rule) \in Seq(Rules)
      <4> HIDE DEF rule
      <4> QED
        BY <1>a, <2>1 DEF Contexts
    <3> QED
      BY <1>a, <3>1 DEF Contexts
  <2>3. Dated(n1)
    BY <1>a DEF Dated, Contexts
  <2>4. Event(n1)
    BY <1>6 DEF MarkedPersonal
  <2> HIDE DEF n1
  <2> QED
    BY <2>2, <2>3, <2>4, <1>b
<1>7. CASE ShieldFlagsMessage
  <2>1. PICK id \in 1..2 :
          Event([ctx EXCEPT !.unsafe_inbound_ids = ctx.unsafe_inbound_ids \union {id}])
    BY <1>7 DEF ShieldFlagsMessage
  <2> DEFINE n1 == [ctx EXCEPT !.unsafe_inbound_ids = ctx.unsafe_inbound_ids \union {id}]
  <2>2. ctx.unsafe_inbound_ids \union {id} \in SUBSET Nat
    BY <1>a DEF Contexts
  <2>3. n1 \in Contexts
    BY <1>a, <2>2 DEF Contexts
  <2>4. Dated(n1)
    BY <1>a DEF Contexts, Dated
  <2> HIDE DEF n1
  <2> QED
    BY <2>1, <2>3, <2>4, <1>b DEF n1
<1>8. CASE OwnerActs
  <2> DEFINE n1 == [ctx EXCEPT !.chat_state.owner_replied_at = ctx.now,
                               !.chat_state.ai_paused_until = ctx.now + 2]
             n2 == [ctx EXCEPT !.chat_state.owner_composing_at = ctx.now]
             n3 == [ctx EXCEPT !.chat_state.owner_seen_at = ctx.now]
  <2>1. n1 \in Contexts /\ n2 \in Contexts /\ n3 \in Contexts
    BY <1>a DEF Contexts, ChatMoments
  <2>2. Dated(n1)
    <3>1. /\ n1.now = ctx.now /\ n1.trigger = ctx.trigger /\ n1.env_ceiling = ctx.env_ceiling
          /\ n1.jarvis_enabled = ctx.jarvis_enabled
      BY <1>a DEF Contexts
    <3>2. n1.chat_state = [ctx.chat_state EXCEPT !.owner_replied_at = ctx.now,
                                                 !.ai_paused_until = ctx.now + 2]
      BY <1>a DEF Contexts, ChatMoments
    <3>3. /\ n1.chat_state.owner_replied_at = ctx.now
          /\ n1.chat_state.owner_seen_at = ctx.chat_state.owner_seen_at
          /\ n1.chat_state.owner_composing_at = ctx.chat_state.owner_composing_at
      BY <1>a, <3>2 DEF Contexts, ChatMoments
    <3> HIDE DEF n1
    <3> QED
      BY <1>a, <3>1, <3>3 DEF Dated
  <2>4. Dated(n2) /\ Dated(n3)
    BY <1>a DEF Dated, Contexts, ChatMoments
  <2>3. Event(n1) \/ Event(n2) \/ Event(n3)
    BY <1>8 DEF OwnerActs
  <2> HIDE DEF n1, n2, n3
  <2> QED
    BY <2>1, <2>2, <2>3, <2>4, <1>b
<1>9. CASE ClientActs
  <2> DEFINE n1 == [ctx EXCEPT !.trigger.edited_at = ctx.now]
             n2 == [ctx EXCEPT !.trigger.deleted = TRUE]
  <2>1. n1 \in Contexts /\ n2 \in Contexts
    BY <1>a DEF Contexts, Triggers
  <2>2. Dated(n1) /\ Dated(n2)
    BY <1>a DEF Dated, Contexts, Triggers
  <2>3. Event(n1) \/ Event(n2)
    BY <1>9 DEF ClientActs
  <2> HIDE DEF n1, n2
  <2> QED
    BY <2>1, <2>2, <2>3, <1>b
<1>10. CASE OthersWereSent
  <2> DEFINE n1 == [ctx EXCEPT !.caps.auto_sent = 1, !.caps.chat_ai_sent = 1,
                               !.caps.channel_sent = 1, !.caps.last_send_at = ctx.now]
             n2 == [ctx EXCEPT !.caps.channel_sent = 2, !.caps.last_send_at = ctx.now]
             n3 == [ctx EXCEPT !.caps.cost_over_cap = TRUE]
  <2>1. n1 \in Contexts /\ n2 \in Contexts /\ n3 \in Contexts
    BY <1>a DEF Contexts, Counters
  <2>2. Dated(n1) /\ Dated(n2) /\ Dated(n3)
    BY <1>a DEF Dated, Contexts, Counters
  <2>3. Event(n1) \/ Event(n2) \/ Event(n3)
    BY <1>10 DEF OthersWereSent
  <2> HIDE DEF n1, n2, n3
  <2> QED
    BY <2>1, <2>2, <2>3, <1>b
<1>11. CASE ApprovedTextRetired
  <2> DEFINE n1 == [ctx EXCEPT !.guard.result.shapes_ok = FALSE, !.guard.result.shapes = {"courtesy"}]
  <2>1. /\ n1.guard.result.verdict = ctx.guard.result.verdict
        /\ n1.guard.result.shapes_ok = FALSE /\ n1.guard.result.shapes = {"courtesy"}
    BY <1>a DEF Contexts, GuardResults
  <2>2. n1 \in Contexts
    <3> DEFINE g1 == [ctx.guard EXCEPT !.result.shapes_ok = FALSE, !.result.shapes = {"courtesy"}]
    <3>1. n1 = [ctx EXCEPT !.guard = g1]
      BY <1>a DEF Contexts
    <3>2. g1.result \in GuardResults /\ g1.registered = TRUE
      BY <1>a DEF Contexts, GuardResults, Shapes
    <3>3. g1 \in [registered : {TRUE}, result : GuardResults]
      BY <1>a, <3>2 DEF Contexts
    <3> HIDE DEF n1, g1
    <3> QED
      BY <1>a, <3>1, <3>3 DEF Contexts
  <2>3. Dated(n1)
    BY <1>a DEF Dated, Contexts
  <2>4. Event(n1)
    BY <1>11 DEF ApprovedTextRetired
  <2> HIDE DEF n1
  <2> QED
    BY <2>2, <2>3, <2>4, <1>b
<1>12. CASE QuietHoursBegin
  <2> DEFINE n1 == [ctx EXCEPT !.quiet_until = ctx.now + 2]
  <2>1. n1 \in Contexts /\ Dated(n1)
    BY <1>a DEF Contexts, Dated
  <2> HIDE DEF n1
  <2> QED
    BY <1>12, <2>1, <1>b DEF QuietHoursBegin, n1
<1>13. CASE TimePasses
  <2>1. PICK quiet \in OptTime : ctx' = [ctx EXCEPT !.now = ctx.now + 1, !.quiet_until = quiet]
    BY <1>13, <1>a DEF TimePasses, Contexts
  <2> DEFINE n1 == [ctx EXCEPT !.now = ctx.now + 1, !.quiet_until = quiet]
  <2>2. n1 \in Contexts
    <3>1. ctx.now + 1 \in Time
      BY <1>a DEF Time
    <3> QED
      BY <1>a, <3>1 DEF Contexts
  <2>3. Dated(n1)
    BY <1>a DEF Contexts, Dated, ChatMoments, Triggers, OptTime, Time, NoTime
  <2> HIDE DEF n1
  <2> QED
    BY <2>1, <2>2, <2>3, <1>a, <1>13 DEF WorldInv, TimePasses, n1
<1>14. CASE UNCHANGED vars
  BY <1>14 DEF vars, WorldInv
<1> QED
  BY <1>1, <1>2, <1>3, <1>4, <1>5, <1>6, <1>7, <1>8, <1>9, <1>10, <1>11, <1>12, <1>13, <1>14
     DEF Next, Restricts

(* The context is always one that may be.                                  *)
THEOREM WorldInvariance == Spec => []WorldInv
  BY InitWorld, NextWorld, PTL DEF Spec

-----------------------------------------------------------------------------
(* What the gate answers. *)

(* Where an autonomous row's fate turns, it turns on the client's message. *)
LEMMA AutonomousSince ==
  ASSUME NEW r, NEW c, auto(r), c.trigger.exists
  PROVE  since(r, c) = c.trigger.occurred_at
  BY DEF since

(* A text nobody tapped leaves only in automatic mode for an intent that   *)
(* may be automatic, over a statement approved now, in a chat the owner has *)
(* left alone since the client wrote, outside quiet hours (gate.evaluate). *)
THEOREM AutonomyHolds == Spec => []AutonomyIsEarned
<1>1. WorldInv => AutonomyIsEarned
  <2> SUFFICES ASSUME WorldInv, sends(row, ctx), auto(row)
               PROVE  AutonomyIsEarned
    BY Zenon DEF AutonomyIsEarned
  <2>a. /\ ctx \in Contexts /\ row \in RowSnapshots /\ row.bound
        /\ row.channel \in Channels /\ row.intent \in Intents
        /\ ai(row) /\ row.guard.verdict = "pass" /\ ctx.trigger.exists
    BY RowFacts DEF WorldInv, auto, Contexts, Triggers
  <2>b. Unopposed(row, ctx)
    BY SendsUnopposed
  <2>1. /\ row.intent \in AUTO_INTENTS
        /\ effective_mode(ctx.policies, row.channel, row.intent, ctx.env_ceiling) = "auto"
    <3> DEFINE mode == effective_mode(ctx.policies, row.channel, row.intent, ctx.env_ceiling)
    <3>1. row.intent \in AUTO_INTENTS /\ mode \notin {"draft", "off", "shadow"}
      BY <2>a, <2>b, ModeSilent DEF Unopposed
    <3>2. mode \in Modes
      <4>1. stored_mode(ctx.policies, row.channel, row.intent) \in Modes
        BY <2>a, ModeType DEF Contexts
      <4>2. ctx.env_ceiling \in {"auto", "draft", "off"}
        BY <2>a DEF Contexts
      <4> QED
        BY <4>1, <4>2 DEF effective_mode, lower_mode, Modes
    <3> QED
      BY <3>1, <3>2 DEF Modes
  <2>2. LET last == IF row.guard.shapes \intersect RECHECKED_SHAPES # {}
                      THEN ctx.guard.result ELSE row.guard
        IN  auto_shapes_ok(row.intent, shapes_passed(last), last.shapes)
    <3>1. Silent(guard_line(row, ctx))
      BY <2>b DEF Unopposed
    <3>2. CASE leaned(row)
      <4>1. /\ ctx.guard.result.verdict = "pass"
            /\ auto_shapes_ok(row.intent, ctx.guard.result.shapes_ok, ctx.guard.result.shapes)
        BY <2>a, <3>1, <3>2, GuardSilent
      <4> QED
        BY <4>1, <3>2 DEF leaned, auto_shapes_ok, shapes_passed
    <3>3. CASE ~leaned(row)
      <4>1. /\ shapes_passed(row.guard)
            /\ auto_shapes_ok(row.intent, TRUE, row.guard.shapes)
        BY <2>a, <3>1, <3>3, GuardSilent
      <4> QED
        BY <4>1, <3>3 DEF leaned, auto_shapes_ok
    <3> QED
      BY <3>2, <3>3
  <2>3. /\ ctx.chat_state.owner_replied_at <= ctx.trigger.occurred_at
        /\ ctx.chat_state.owner_seen_at <= ctx.trigger.occurred_at
        /\ ctx.chat_state.owner_composing_at + COMPOSING_HOLD <= ctx.now
             \/ ctx.chat_state.owner_composing_at <= ctx.trigger.occurred_at
    <3>1. since(row, ctx) = ctx.trigger.occurred_at
      BY <2>a, AutonomousSince
    <3>2. /\ ~(ctx.chat_state.owner_replied_at > ctx.trigger.occurred_at)
          /\ ~composing(ctx.chat_state, ctx.trigger.occurred_at, ctx.now)
          /\ ~(ctx.chat_state.owner_seen_at > ctx.trigger.occurred_at)
      BY <2>a, <2>b, <3>1, ChatStateSilent DEF Unopposed
    <3>3. /\ ctx.chat_state.owner_replied_at \in Int /\ ctx.chat_state.owner_seen_at \in Int
          /\ ctx.chat_state.owner_composing_at \in Int
          /\ ctx.trigger.occurred_at \in Int /\ ctx.now \in Int /\ COMPOSING_HOLD \in Int
      BY <2>a, GateAssumption DEF Contexts, ChatMoments, Triggers, OptTime, Time, NoTime
    <3> QED
      BY <3>2, <3>3 DEF composing
  <2>4. ctx.quiet_until = NoTime
    BY <2>a, <2>b, QuietSilent DEF Unopposed, Contexts
  <2> QED
    BY <2>1, <2>2, <2>3, <2>4 DEF AutonomyIsEarned
<1> QED
  BY <1>1, WorldInvariance, PTL

(* The owner's own words are blocked only when everything is off, nobody   *)
(* may write to the chat, or they are no text; no line meant for MIYA's    *)
(* words throws them away.                                                 *)
THEOREM OwnerIsHeard == Spec => []OwnerWordsAreKept
<1>1. WorldInv => OwnerWordsAreKept
  <2> DEFINE d == evaluate(row, ctx)
             dropped(x) == x.action \in {"block", "cancel"}
  <2> SUFFICES ASSUME WorldInv, ~ai(row), dropped(d)
               PROVE  ctx.env_ceiling = "off" \/ ctx.chat.excluded \/ ~row.plain_text
    BY DEF OwnerWordsAreKept
  <2>a. /\ row.bound /\ ~auto(row)
    BY RowFacts DEF auto
  <2>1. ~sends(row, ctx)
    BY DEF sends
  <2>2. PICK k \in 1..11 : d = LINES(row, ctx)[k]
    BY <2>1, SendsWhenSilent
  <2>3. /\ ~dropped(kill_switch(row, ctx)) /\ ~dropped(pause_line(row, ctx))
        /\ ~dropped(chat_state_line(row, ctx)) /\ ~dropped(caps_line(row, ctx))
        /\ ~dropped(quiet_hours_line(row, ctx))
    BY <2>a DEF kill_switch, pause_line, chat_state_line, caps_line, quiet_hours_line,
                Pass, Hold, Decision
  <2>4. ~dropped(safety_line(row, ctx)) /\ ~dropped(trigger_line(row, ctx))
    BY DEF safety_line, trigger_line, Pass, Hold, Decision
  <2>5. ~dropped(guard_line(row, ctx))
    BY <2>a DEF guard_line, Pass
  <2>6. dropped(mode_line(row, ctx)) => ctx.env_ceiling = "off"
    BY DEF mode_line, Pass
  <2>7. dropped(rules_line(row, ctx)) => ctx.chat.excluded
    BY DEF rules_line, Pass, Decision
  <2>8. dropped(payload_line(row, ctx)) => ~row.plain_text
    BY DEF payload_line, Pass
  <2> HIDE DEF dropped
  <2> QED
    BY <2>2, <2>3, <2>4, <2>5, <2>6, <2>7, <2>8 DEF LINES
<1> QED
  BY <1>1, WorldInvariance, PTL

(* "owner_replied" is the answer of one line, and only about MIYA's text   *)
(* when the owner wrote after the moment that counts.                      *)
LEMMA OwnerReplied ==
  ASSUME NEW r, NEW c, evaluate(r, c).code = "owner_replied"
  PROVE  ai(r) /\ c.chat_state.owner_replied_at > since(r, c)
<1> DEFINE said(x) == x.code = "owner_replied"
<1>1. \A k \in 1..11 : said(LINES(r, c)[k]) => said(chat_state_line(r, c))
  <2>1. ~said(kill_switch(r, c)) /\ ~said(payload_line(r, c)) /\ ~said(quiet_hours_line(r, c))
    BY DEF kill_switch, payload_line, quiet_hours_line, Pass, Hold, Decision
  <2>2. ~said(pause_line(r, c))
    <3> HIDE DEF stopped, paused
    <3> QED
      BY DEF pause_line, stop_for, Stop, NoStop, Pass, Hold, Decision
  <2>3. ~said(mode_line(r, c))
    <3> HIDE DEF effective_mode
    <3> QED
      BY DEF mode_line, Pass, Decision
  <2>4. ~said(rules_line(r, c))
    <3> HIDE DEF ai_refusal, rule_mode, never_rule
    <3>1. ai_refusal(c.chat, c.rules, Addressed(c)) # "owner_replied"
      BY RefusalWords, Zenon
    <3> QED
      BY <3>1 DEF rules_line, Addressed, Pass, Decision
  <2>5. ~said(safety_line(r, c)) /\ ~said(trigger_line(r, c)) /\ ~said(caps_line(r, c))
    <3>1. ~said(safety_line(r, c))
      BY DEF safety_line, Pass, Hold, Decision
    <3>2. ~said(trigger_line(r, c))
      BY DEF trigger_line, Pass, Hold, Decision
    <3>3. ~said(caps_line(r, c))
      BY DEF caps_line, Pass, Hold, Decision
    <3> QED
      BY <3>1, <3>2, <3>3
  <2>6. ~said(guard_line(r, c))
    <3> HIDE DEF leaned, auto, ai, auto_shapes_ok, shapes_passed
    <3> QED
      BY DEF guard_line, Pass, Rebinding, Decision
  <2> HIDE DEF said
  <2> QED
    BY <2>1, <2>2, <2>3, <2>4, <2>5, <2>6 DEF LINES
<1>2. ~said(Decision("send", ""))
  BY DEF Decision, Pass
<1>3. said(chat_state_line(r, c))
  <2> DEFINE lines == LINES(r, c)
             objections == {k \in 1..11 : lines[k].action \notin {"none", "send"}}
             reguarded == {k \in 1..11 : lines[k].action = "send"}
  <2>1. evaluate(r, c) = IF objections # {} THEN lines[lowest(objections)]
                         ELSE IF reguarded # {} THEN lines[lowest(reguarded)]
                         ELSE Decision("send", "")
    BY DEF evaluate
  <2>2. objections # {} => lowest(objections) \in 1..11
    BY LeastExists
  <2>3. reguarded # {} => lowest(reguarded) \in 1..11
    BY LeastExists
  <2> HIDE DEF lines, objections, reguarded
  <2>4. said(evaluate(r, c))
    OBVIOUS
  <2> HIDE DEF said
  <2> QED
    BY <2>1, <2>2, <2>3, <2>4, <1>1, <1>2 DEF lines
<1> QED
  BY <1>3 DEF chat_state_line, Pass, Hold, Decision

(* After the owner looked at a chat and tapped, only what the owner does   *)
(* there after the tap overrides it, and that always does.                 *)
THEOREM TapsHold == Spec => []TapWinsOverEarlierActs
<1>1. WorldInv => TapWinsOverEarlierActs
  <2> SUFFICES ASSUME WorldInv, ai(row), row.approved_by = OWNER, ctx.trigger.exists
               PROVE  /\ evaluate(row, ctx).code = "owner_replied" =>
                           ctx.chat_state.owner_replied_at > row.approved_at
                      /\ ctx.chat_state.owner_replied_at > max2(row.approved_at, ctx.trigger.occurred_at) =>
                           ~sends(row, ctx)
    BY DEF TapWinsOverEarlierActs
  <2>1. /\ row.approved_at \in Int /\ ctx.trigger.occurred_at \in Int
        /\ ctx.chat_state.owner_replied_at \in Int
    <3>1. row \in RowSnapshots /\ ctx \in Contexts
      BY RowFacts DEF WorldInv
    <3> QED
      BY <3>1 DEF RowSnapshots, Contexts, Triggers, ChatMoments, OptTime, Time, NoTime
  <2>2. since(row, ctx) = max2(ctx.trigger.occurred_at, row.approved_at)
    BY DEF since, auto, OWNER, AUTO_APPROVER
  <2>3. since(row, ctx) = max2(row.approved_at, ctx.trigger.occurred_at)
    BY <2>1, <2>2 DEF max2
  <2>4. since(row, ctx) >= row.approved_at /\ since(row, ctx) \in Int
    BY <2>1, <2>3 DEF max2
  <2>5. evaluate(row, ctx).code = "owner_replied" =>
          ctx.chat_state.owner_replied_at > row.approved_at
    BY <2>1, <2>4, OwnerReplied
  <2>6. sends(row, ctx) => ~(ctx.chat_state.owner_replied_at > since(row, ctx))
    BY SendsUnopposed, ChatStateSilent DEF Unopposed
  <2> QED
    BY <2>3, <2>5, <2>6
<1> QED
  BY <1>1, WorldInvariance, PTL

-----------------------------------------------------------------------------
(* No restriction releases a row. *)

(* A restriction is an event about the same row.                           *)
LEMMA RestrictsOneRow == Restricts => row' = row
  BY DEF Restricts, OwnerPauses, BreakerTrips, Demoted, ShadowedByTheOwner, SwitchedOff,
         MarkedPersonal, ShieldFlagsMessage, OwnerActs, ClientActs, OthersWereSent,
         ApprovedTextRetired, QuietHoursBegin, Event

(* A mode that was set elsewhere leaves every pause and breaker in force.  *)
LEMMA ModeStopsNothing ==
  ASSUME NEW policies \in Policies, NEW s \in Scopes, NEW mode, NEW t \in Scopes, NEW now
  PROVE  stopped([policies EXCEPT ![s].mode = mode], t, now) <=> stopped(policies, t, now)
<1> DEFINE new == [policies EXCEPT ![s].mode = mode]
<1>1. /\ new[t].paused = policies[t].paused
      /\ new[t].paused_until = policies[t].paused_until
      /\ new[t].breaker_until = policies[t].breaker_until
  BY DEF Policies, PolicyRow
<1> HIDE DEF new
<1> QED
  BY <1>1 DEF stopped, paused, tripped

LEMMA PauseHolds ==
  ASSUME WorldInv, OwnerPauses
  PROVE  ~Unopposed(row, ctx')
<1>1. PICK scope \in {GLOBAL, channel_scope(Channel)}, until \in {NoTime, ctx.now + 1} :
        ctx' = [ctx EXCEPT !.policies[scope].paused = TRUE, !.policies[scope].paused_until = until]
  BY DEF OwnerPauses, Event
<1>2. ctx \in Contexts /\ ctx.policies \in Policies /\ ctx.now \in Nat /\ scope \in Scopes
  BY ScopesOfTheRow DEF WorldInv, Contexts, Time
<1>3. /\ ctx'.now = ctx.now
      /\ ctx'.policies[scope].paused = TRUE /\ ctx'.policies[scope].paused_until = until
  BY <1>1, <1>2 DEF Contexts, Policies, PolicyRow
<1>4. until = NoTime \/ until > ctx.now
  BY <1>2
<1>5. stopped(ctx'.policies, scope, ctx'.now)
  BY <1>3, <1>4 DEF stopped, paused
<1>6. scope = GLOBAL \/ scope = channel_scope(row.channel)
  BY RowFacts
<1> QED
  BY <1>5, <1>6, Zenon DEF Unopposed

LEMMA BreakerHolds ==
  ASSUME WorldInv, BreakerTrips
  PROVE  ~Unopposed(row, ctx')
<1> DEFINE scope == channel_scope(Channel)
           broken == [ctx EXCEPT !.policies[channel_scope(Channel)].breaker_until = ctx.now + 2]
           lowered == [broken EXCEPT !.policies[channel_intent_scope(Channel, row.intent)].mode = "draft"]
<1>1. ctx' = broken \/ ctx' = lowered
  BY DEF BreakerTrips, Event
<1>2. /\ ctx \in Contexts /\ ctx.policies \in Policies /\ ctx.now \in Nat
      /\ scope \in Scopes /\ channel_intent_scope(Channel, row.intent) \in Scopes
  BY ScopesOfTheRow DEF WorldInv, Contexts, Time
<1>3. broken \in Contexts /\ broken.policies \in Policies
  <2>1. ctx.now + 2 \in OptTime
    BY <1>2 DEF OptTime, Time
  <2>2. broken \in Contexts
    BY <1>2, <2>1, PolicyEdits DEF Modes
  <2> QED
    BY <2>2 DEF Contexts
<1>4. broken.now = ctx.now /\ broken.policies[scope].breaker_until = ctx.now + 2
  BY <1>2 DEF Contexts, Policies, PolicyRow
<1>5. lowered.now = ctx.now /\ lowered.policies[scope].breaker_until = ctx.now + 2
  <2> HIDE DEF broken
  <2> QED
    BY <1>2, <1>3, <1>4 DEF Contexts, Policies, PolicyRow
<1> HIDE DEF broken, lowered
<1>6. ctx'.now = ctx.now /\ ctx'.policies[scope].breaker_until = ctx.now + 2
  BY <1>1, <1>4, <1>5
<1>7. stopped(ctx'.policies, scope, ctx'.now)
  BY <1>2, <1>6 DEF stopped, tripped, NoTime
<1>8. scope = channel_scope(row.channel)
  BY RowFacts
<1> QED
  BY <1>7, <1>8 DEF Unopposed

(* What each line reads of the context.                                    *)
LEMMA LinesRead ==
  ASSUME NEW r, NEW c, NEW d
  PROVE  /\ c.policies = d.policies /\ c.env_ceiling = d.env_ceiling =>
              mode_line(r, c) = mode_line(r, d)
         /\ c.chat = d.chat /\ c.rules = d.rules /\ c.trigger = d.trigger =>
              rules_line(r, c) = rules_line(r, d)
         /\ c.safety_readable = d.safety_readable /\ c.unsafe_inbound_ids = d.unsafe_inbound_ids =>
              safety_line(r, c) = safety_line(r, d)
         /\ c.chat_state = d.chat_state /\ c.trigger = d.trigger /\ c.now = d.now =>
              chat_state_line(r, c) = chat_state_line(r, d)
         /\ c.trigger = d.trigger /\ c.now = d.now => trigger_line(r, c) = trigger_line(r, d)
         /\ c.caps = d.caps /\ c.now = d.now => caps_line(r, c) = caps_line(r, d)
         /\ c.guard = d.guard => guard_line(r, c) = guard_line(r, d)
         /\ payload_line(r, c) = payload_line(r, d)
         /\ c.quiet_until = d.quiet_until /\ c.auto_in_quiet_hours = d.auto_in_quiet_hours =>
              quiet_hours_line(r, c) = quiet_hours_line(r, d)
<1>1. c.policies = d.policies /\ c.env_ceiling = d.env_ceiling =>
        mode_line(r, c) = mode_line(r, d)
  BY Zenon DEF mode_line
<1>2. c.chat = d.chat /\ c.rules = d.rules /\ c.trigger = d.trigger =>
        rules_line(r, c) = rules_line(r, d)
  BY Zenon DEF rules_line
<1>3. c.safety_readable = d.safety_readable /\ c.unsafe_inbound_ids = d.unsafe_inbound_ids =>
        safety_line(r, c) = safety_line(r, d)
  BY Zenon DEF safety_line
<1>4. c.chat_state = d.chat_state /\ c.trigger = d.trigger /\ c.now = d.now =>
        chat_state_line(r, c) = chat_state_line(r, d)
  BY Zenon DEF chat_state_line, since
<1>5. c.trigger = d.trigger /\ c.now = d.now => trigger_line(r, c) = trigger_line(r, d)
  BY Zenon DEF trigger_line
<1>6. c.caps = d.caps /\ c.now = d.now => caps_line(r, c) = caps_line(r, d)
  BY Zenon DEF caps_line
<1>7. c.guard = d.guard => guard_line(r, c) = guard_line(r, d)
  BY Zenon DEF guard_line
<1>8. payload_line(r, c) = payload_line(r, d)
  BY Zenon DEF payload_line
<1>9. c.quiet_until = d.quiet_until /\ c.auto_in_quiet_hours = d.auto_in_quiet_hours =>
        quiet_hours_line(r, c) = quiet_hours_line(r, d)
  BY Zenon DEF quiet_hours_line
<1> QED
  BY <1>1, <1>2, <1>3, <1>4, <1>5, <1>6, <1>7, <1>8, <1>9, Zenon

(* Another mode changes the answer of the mode's line only.                *)
LEMMA ModeIsOneLine ==
  ASSUME WorldInv, NEW s \in Scopes, NEW mode,
         ctx' = [ctx EXCEPT !.policies[s].mode = mode],
         Unopposed(row, ctx'),
         Silent(mode_line(row, ctx')) => Silent(mode_line(row, ctx))
  PROVE  Unopposed(row, ctx)
<1>1. ctx \in Contexts /\ ctx.policies \in Policies
  BY DEF WorldInv, Contexts
<1>2. /\ ctx'.now = ctx.now /\ ctx'.jarvis_enabled = ctx.jarvis_enabled
      /\ ctx'.channel_send_enabled = ctx.channel_send_enabled
      /\ ctx'.chat = ctx.chat /\ ctx'.rules = ctx.rules /\ ctx'.trigger = ctx.trigger
      /\ ctx'.unsafe_inbound_ids = ctx.unsafe_inbound_ids
      /\ ctx'.safety_readable = ctx.safety_readable /\ ctx'.chat_state = ctx.chat_state
      /\ ctx'.caps = ctx.caps /\ ctx'.guard = ctx.guard
      /\ ctx'.quiet_until = ctx.quiet_until
      /\ ctx'.auto_in_quiet_hours = ctx.auto_in_quiet_hours
  BY <1>1 DEF Contexts
<1>3. ctx'.policies = [ctx.policies EXCEPT ![s].mode = mode]
  BY <1>1 DEF Contexts
<1>4. GLOBAL \in Scopes /\ channel_scope(row.channel) \in Scopes
  BY RowFacts, ScopesOfTheRow
<1>5. /\ ~stopped(ctx.policies, GLOBAL, ctx.now)
      /\ ~stopped(ctx.policies, channel_scope(row.channel), ctx.now)
  <2> DEFINE new == [ctx.policies EXCEPT ![s].mode = mode]
  <2>1. /\ stopped(new, GLOBAL, ctx.now) <=> stopped(ctx.policies, GLOBAL, ctx.now)
        /\ stopped(new, channel_scope(row.channel), ctx.now)
             <=> stopped(ctx.policies, channel_scope(row.channel), ctx.now)
    BY <1>1, <1>4, ModeStopsNothing
  <2>2. ctx'.policies = new
    BY <1>3
  <2> HIDE DEF new, stopped
  <2> QED
    BY <1>2, <2>1, <2>2 DEF Unopposed
<1> HIDE DEF Silent
<1> QED
  BY <1>2, <1>5, LinesRead DEF Unopposed

LEMMA DemotionHolds ==
  ASSUME WorldInv, Demoted, Unopposed(row, ctx')
  PROVE  Unopposed(row, ctx)
<1> DEFINE s == channel_intent_scope(Channel, row.intent)
           before == stored_mode(ctx.policies, Channel, row.intent)
           after == stored_mode(ctx'.policies, Channel, row.intent)
<1>1. /\ before = "auto"
      /\ ctx' = [ctx EXCEPT !.policies[s].mode = "draft"]
  BY DEF Demoted, Event
<1>2. ctx \in Contexts /\ ctx.policies \in Policies /\ s \in Scopes
  BY ScopesOfTheRow DEF WorldInv, Contexts
<1>3. /\ ctx'.policies = [ctx.policies EXCEPT ![s].mode = "draft"]
      /\ ctx'.env_ceiling = ctx.env_ceiling
  BY <1>1, <1>2 DEF Contexts
<1>4. after = "draft"
  <2>1. ctx'.policies[s].mode = "draft"
    BY <1>2, <1>3 DEF Policies, PolicyRow
  <2> QED
    BY <2>1, StoredMode DEF NoMode
<1>5. Silent(mode_line(row, ctx')) => Silent(mode_line(row, ctx))
  <2>1. /\ effective_mode(ctx.policies, row.channel, row.intent, ctx.env_ceiling)
             = lower_mode("auto", ctx.env_ceiling)
        /\ effective_mode(ctx'.policies, row.channel, row.intent, ctx'.env_ceiling)
             = lower_mode("draft", ctx.env_ceiling)
    BY <1>1, <1>3, <1>4, RowFacts DEF effective_mode
  <2>2. ctx.env_ceiling \in {"auto", "draft", "off"}
    BY <1>2 DEF Contexts
  <2>3. "auto" \in Modes /\ "draft" \in Modes
    BY DEF Modes
  <2> HIDE DEF Silent
  <2>4. auto(row) => ai(row)
    BY DEF auto
  <2> QED
    BY <1>3, <2>1, <2>2, <2>3, <2>4, ModeSilent, CeilingLowers
<1> HIDE DEF Silent
<1> QED
  BY <1>1, <1>2, <1>5, ModeIsOneLine

LEMMA ShadowHolds ==
  ASSUME WorldInv, ShadowedByTheOwner, Unopposed(row, ctx')
  PROVE  Unopposed(row, ctx)
<1> DEFINE before == stored_mode(ctx.policies, Channel, row.intent)
           after == stored_mode(ctx'.policies, Channel, row.intent)
<1>1. ctx' = [ctx EXCEPT !.policies[GLOBAL].mode = "shadow"]
  BY DEF ShadowedByTheOwner, Event
<1>2. /\ ctx \in Contexts /\ ctx.policies \in Policies /\ GLOBAL \in Scopes
      /\ channel_scope(Channel) \in Scopes
      /\ channel_intent_scope(Channel, row.intent) \in Scopes
  BY ScopesOfTheRow DEF WorldInv, Contexts
<1>3. /\ ctx'.policies = [ctx.policies EXCEPT ![GLOBAL].mode = "shadow"]
      /\ ctx'.env_ceiling = ctx.env_ceiling
  BY <1>1, <1>2 DEF Contexts
<1>4. after = "shadow" \/ after = before
  <2>1. intent_scope(row.intent) \in Scopes
    BY RowFacts DEF Scopes
  <2>2. \A t \in Scopes : ctx'.policies[t].mode =
                            IF t = GLOBAL THEN "shadow" ELSE ctx.policies[t].mode
    BY <1>2, <1>3 DEF Policies, PolicyRow
  <2>3. "shadow" # NoMode
    BY DEF NoMode
  <2> HIDE DEF GLOBAL, channel_scope, intent_scope, channel_intent_scope
  <2>4. after = IF ctx'.policies[channel_intent_scope(Channel, row.intent)].mode # NoMode
             THEN ctx'.policies[channel_intent_scope(Channel, row.intent)].mode
           ELSE IF ctx'.policies[intent_scope(row.intent)].mode # NoMode
             THEN ctx'.policies[intent_scope(row.intent)].mode
           ELSE IF ctx'.policies[channel_scope(Channel)].mode # NoMode
             THEN ctx'.policies[channel_scope(Channel)].mode
           ELSE IF ctx'.policies[GLOBAL].mode # NoMode
             THEN ctx'.policies[GLOBAL].mode
           ELSE DEFAULT_MODE
    BY StoredMode
  <2> HIDE DEF after
  <2> QED
    BY <1>2, <2>1, <2>2, <2>3, <2>4, StoredMode
<1>5. Silent(mode_line(row, ctx')) => Silent(mode_line(row, ctx))
  <2>1. /\ effective_mode(ctx.policies, row.channel, row.intent, ctx.env_ceiling)
             = lower_mode(before, ctx.env_ceiling)
        /\ effective_mode(ctx'.policies, row.channel, row.intent, ctx'.env_ceiling)
             = lower_mode(after, ctx.env_ceiling)
    BY <1>3, RowFacts DEF effective_mode
  <2>2. ctx.env_ceiling \in {"auto", "draft", "off"}
    BY <1>2 DEF Contexts
  <2>3. "shadow" \in Modes
    BY DEF Modes
  <2>4. lower_mode("shadow", ctx.env_ceiling) \in {"shadow", "off"}
    BY <2>2, <2>3, CeilingLowers
  <2>5. auto(row) => ai(row)
    BY DEF auto
  <2> HIDE DEF Silent, before, after
  <2> QED
    BY <1>3, <1>4, <2>1, <2>4, <2>5, ModeSilent
<1> HIDE DEF Silent
<1> QED
  BY <1>1, <1>2, <1>5, ModeIsOneLine

LEMMA SwitchesHold ==
  ASSUME WorldInv, SwitchedOff, Unopposed(row, ctx')
  PROVE  Unopposed(row, ctx)
<1> HIDE DEF Silent, stopped
<1>1. ctx \in Contexts /\ Dated(ctx)
  BY DEF WorldInv
<1>2. ctx' = [ctx EXCEPT !.env_ceiling = "draft"]
  <2>1. CASE ctx' = [ctx EXCEPT !.jarvis_enabled = FALSE, !.env_ceiling = "off"]
    <3>1. ctx'.jarvis_enabled = FALSE
      BY <1>1, <2>1 DEF Contexts
    <3> QED
      BY <3>1 DEF Unopposed
  <2>2. CASE ctx' = [ctx EXCEPT !.channel_send_enabled = FALSE]
    <3>1. ctx'.channel_send_enabled = FALSE
      BY <1>1, <2>2 DEF Contexts
    <3> QED
      BY <3>1 DEF Unopposed
  <2> QED
    BY <2>1, <2>2 DEF SwitchedOff, Event
<1>3. /\ ctx'.now = ctx.now /\ ctx'.jarvis_enabled = ctx.jarvis_enabled
      /\ ctx'.channel_send_enabled = ctx.channel_send_enabled
      /\ ctx'.policies = ctx.policies
      /\ ctx'.chat = ctx.chat /\ ctx'.rules = ctx.rules /\ ctx'.trigger = ctx.trigger
      /\ ctx'.unsafe_inbound_ids = ctx.unsafe_inbound_ids
      /\ ctx'.safety_readable = ctx.safety_readable /\ ctx'.chat_state = ctx.chat_state
      /\ ctx'.caps = ctx.caps /\ ctx'.guard = ctx.guard
      /\ ctx'.quiet_until = ctx.quiet_until
      /\ ctx'.auto_in_quiet_hours = ctx.auto_in_quiet_hours
      /\ ctx'.env_ceiling = "draft"
  BY <1>1, <1>2 DEF Contexts
<1>4. ctx.env_ceiling \in {"auto", "draft"}
  BY <1>1, <1>3 DEF Unopposed, Dated, Contexts
<1>5. Silent(mode_line(row, ctx))
  <2> DEFINE stored == stored_mode(ctx.policies, row.channel, row.intent)
  <2>1. stored \in Modes
    BY <1>1, RowFacts, ModeType DEF Contexts
  <2>2. /\ effective_mode(ctx.policies, row.channel, row.intent, ctx.env_ceiling)
             = lower_mode(stored, ctx.env_ceiling)
        /\ effective_mode(ctx'.policies, row.channel, row.intent, ctx'.env_ceiling)
             = lower_mode(stored, "draft")
    BY <1>3 DEF effective_mode
  <2>3. lower_mode(stored, ctx.env_ceiling) \in {stored, lower_mode(stored, "draft")}
    BY <1>4, <2>1, CeilingLowers
  <2>4. lower_mode(stored, "draft") = IF stored = "auto" THEN "draft" ELSE stored
    BY <2>1, CeilingLowers
  <2>5. Silent(mode_line(row, ctx'))
    BY DEF Unopposed
  <2>6. auto(row) => ai(row)
    BY DEF auto
  <2> HIDE DEF stored
  <2> QED
    BY <1>3, <1>4, <2>2, <2>3, <2>4, <2>5, <2>6, ModeSilent
<1> QED
  BY <1>3, <1>5, LinesRead DEF Unopposed

LEMMA PersonalHolds ==
  ASSUME WorldInv, MarkedPersonal, Unopposed(row, ctx')
  PROVE  Unopposed(row, ctx)
<1> HIDE DEF Silent, stopped
<1> DEFINE rule == [subject |-> "chat", mode |-> "never", reason |-> "personal"]
           rules == Append(ctx.rules, rule)
<1>1. ctx \in Contexts /\ ctx.rules \in Seq(Rules)
  BY DEF WorldInv, Contexts
<1>2. ~never_rule(ctx.rules) /\ ctx' = [ctx EXCEPT !.rules = rules]
  BY DEF MarkedPersonal, Event
<1>3. never_rule(rules)
  <2>1. Len(ctx.rules) + 1 \in DOMAIN rules /\ rules[Len(ctx.rules) + 1] = rule
    BY <1>1
  <2> HIDE DEF rules
  <2> QED
    BY <2>1 DEF never_rule
<1> HIDE DEF rules
<1>4. /\ ctx'.now = ctx.now /\ ctx'.jarvis_enabled = ctx.jarvis_enabled
      /\ ctx'.channel_send_enabled = ctx.channel_send_enabled
      /\ ctx'.policies = ctx.policies /\ ctx'.env_ceiling = ctx.env_ceiling
      /\ ctx'.chat = ctx.chat /\ ctx'.trigger = ctx.trigger
      /\ ctx'.unsafe_inbound_ids = ctx.unsafe_inbound_ids
      /\ ctx'.safety_readable = ctx.safety_readable /\ ctx'.chat_state = ctx.chat_state
      /\ ctx'.caps = ctx.caps /\ ctx'.guard = ctx.guard
      /\ ctx'.quiet_until = ctx.quiet_until
      /\ ctx'.auto_in_quiet_hours = ctx.auto_in_quiet_hours
      /\ ctx'.rules = rules
  BY <1>1, <1>2 DEF Contexts
<1>5. Silent(rules_line(row, ctx'))
  BY DEF Unopposed
<1>6. ~ai(row) /\ ~ctx.chat.excluded
  <2>1. ai_refusal(ctx'.chat, ctx'.rules, Addressed(ctx')) = "personal_chat"
    BY <1>3, <1>4 DEF ai_refusal
  <2> QED
    BY <1>4, <1>5, <2>1, RulesSilent
<1>7. Silent(rules_line(row, ctx))
  BY <1>2, <1>6, RulesSilent DEF auto
<1> QED
  BY <1>4, <1>7, LinesRead DEF Unopposed

LEMMA ShieldHolds ==
  ASSUME WorldInv, ShieldFlagsMessage, Unopposed(row, ctx')
  PROVE  Unopposed(row, ctx)
<1> HIDE DEF Silent, stopped
<1>1. PICK id \in 1..2 :
        ctx' = [ctx EXCEPT !.unsafe_inbound_ids = ctx.unsafe_inbound_ids \union {id}]
  BY DEF ShieldFlagsMessage, Event
<1>2. ctx \in Contexts
  BY DEF WorldInv
<1>3. /\ ctx'.now = ctx.now /\ ctx'.jarvis_enabled = ctx.jarvis_enabled
      /\ ctx'.channel_send_enabled = ctx.channel_send_enabled
      /\ ctx'.policies = ctx.policies /\ ctx'.env_ceiling = ctx.env_ceiling
      /\ ctx'.chat = ctx.chat /\ ctx'.rules = ctx.rules /\ ctx'.trigger = ctx.trigger
      /\ ctx'.safety_readable = ctx.safety_readable /\ ctx'.chat_state = ctx.chat_state
      /\ ctx'.caps = ctx.caps /\ ctx'.guard = ctx.guard
      /\ ctx'.quiet_until = ctx.quiet_until
      /\ ctx'.auto_in_quiet_hours = ctx.auto_in_quiet_hours
      /\ ctx'.unsafe_inbound_ids = ctx.unsafe_inbound_ids \union {id}
  BY <1>1, <1>2 DEF Contexts
<1>4. Silent(safety_line(row, ctx'))
  BY DEF Unopposed
<1>5. Silent(safety_line(row, ctx))
  BY <1>3, <1>4, SafetySilent
<1> QED
  BY <1>3, <1>5, LinesRead DEF Unopposed

LEMMA OwnerActsHold ==
  ASSUME WorldInv, OwnerActs, Unopposed(row, ctx')
  PROVE  Unopposed(row, ctx)
<1> HIDE DEF Silent, stopped
<1>1. ctx \in Contexts /\ Dated(ctx) /\ row \in RowSnapshots
  BY RowFacts DEF WorldInv
<1>2. /\ ctx'.now = ctx.now /\ ctx'.jarvis_enabled = ctx.jarvis_enabled
      /\ ctx'.channel_send_enabled = ctx.channel_send_enabled
      /\ ctx'.policies = ctx.policies /\ ctx'.env_ceiling = ctx.env_ceiling
      /\ ctx'.chat = ctx.chat /\ ctx'.rules = ctx.rules /\ ctx'.trigger = ctx.trigger
      /\ ctx'.unsafe_inbound_ids = ctx.unsafe_inbound_ids
      /\ ctx'.safety_readable = ctx.safety_readable
      /\ ctx'.caps = ctx.caps /\ ctx'.guard = ctx.guard
      /\ ctx'.quiet_until = ctx.quiet_until
      /\ ctx'.auto_in_quiet_hours = ctx.auto_in_quiet_hours
  BY <1>1 DEF OwnerActs, Event, Contexts
<1>3. \/ /\ ctx'.chat_state.owner_replied_at = ctx.now
         /\ ctx'.chat_state.ai_paused_until = ctx.now + 2
         /\ ctx'.chat_state.owner_composing_at = ctx.chat_state.owner_composing_at
         /\ ctx'.chat_state.owner_seen_at = ctx.chat_state.owner_seen_at
      \/ /\ ctx'.chat_state.owner_replied_at = ctx.chat_state.owner_replied_at
         /\ ctx'.chat_state.ai_paused_until = ctx.chat_state.ai_paused_until
         /\ ctx'.chat_state.owner_composing_at = ctx.now
         /\ ctx'.chat_state.owner_seen_at = ctx.chat_state.owner_seen_at
      \/ /\ ctx'.chat_state.owner_replied_at = ctx.chat_state.owner_replied_at
         /\ ctx'.chat_state.ai_paused_until = ctx.chat_state.ai_paused_until
         /\ ctx'.chat_state.owner_composing_at = ctx.chat_state.owner_composing_at
         /\ ctx'.chat_state.owner_seen_at = ctx.now
  <2>1. CASE ctx' = [ctx EXCEPT !.chat_state.owner_replied_at = ctx.now,
                                !.chat_state.ai_paused_until = ctx.now + 2]
    <3>1. ctx'.chat_state = [ctx.chat_state EXCEPT !.owner_replied_at = ctx.now,
                                                   !.ai_paused_until = ctx.now + 2]
      BY <1>1, <2>1 DEF Contexts, ChatMoments
    <3> QED
      BY <1>1, <3>1 DEF Contexts, ChatMoments
  <2>2. CASE ctx' = [ctx EXCEPT !.chat_state.owner_composing_at = ctx.now]
    BY <1>1, <2>2 DEF Contexts, ChatMoments
  <2>3. CASE ctx' = [ctx EXCEPT !.chat_state.owner_seen_at = ctx.now]
    BY <1>1, <2>3 DEF Contexts, ChatMoments
  <2> QED
    BY <2>1, <2>2, <2>3 DEF OwnerActs, Event
<1>4. Silent(chat_state_line(row, ctx'))
  BY DEF Unopposed
<1>5. since(row, ctx') = since(row, ctx)
  BY <1>2 DEF since
<1>6. since(row, ctx) \in Int
  BY <1>1 DEF since, max2, Contexts, Triggers, RowSnapshots, OptTime, Time, NoTime
<1>7. /\ ctx.now \in Nat /\ COMPOSING_HOLD \in Nat \ {0}
      /\ ctx.chat_state.owner_replied_at \in Int /\ ctx.chat_state.owner_seen_at \in Int
      /\ ctx.chat_state.owner_composing_at \in Int /\ ctx.chat_state.ai_paused_until \in Int
      /\ ctx.chat_state.owner_replied_at <= ctx.now
      /\ ctx.chat_state.owner_composing_at <= ctx.now
      /\ ctx.chat_state.owner_seen_at <= ctx.now
  BY <1>1, GateAssumption DEF Contexts, ChatMoments, OptTime, Time, NoTime, Dated
<1>8. Silent(chat_state_line(row, ctx))
  <2> HIDE DEF since
  <2> QED
    BY <1>2, <1>3, <1>4, <1>5, <1>6, <1>7, ChatStateSilent DEF composing
<1> QED
  BY <1>2, <1>8, LinesRead DEF Unopposed

LEMMA ClientActsHold ==
  ASSUME WorldInv, ClientActs, Unopposed(row, ctx')
  PROVE  Unopposed(row, ctx)
<1> HIDE DEF Silent, stopped
<1>1. ctx \in Contexts /\ Dated(ctx) /\ row \in RowSnapshots
  BY RowFacts DEF WorldInv
<1>2. /\ ctx'.now = ctx.now /\ ctx'.jarvis_enabled = ctx.jarvis_enabled
      /\ ctx'.channel_send_enabled = ctx.channel_send_enabled
      /\ ctx'.policies = ctx.policies /\ ctx'.env_ceiling = ctx.env_ceiling
      /\ ctx'.chat = ctx.chat /\ ctx'.rules = ctx.rules
      /\ ctx'.unsafe_inbound_ids = ctx.unsafe_inbound_ids
      /\ ctx'.safety_readable = ctx.safety_readable /\ ctx'.chat_state = ctx.chat_state
      /\ ctx'.caps = ctx.caps /\ ctx'.guard = ctx.guard
      /\ ctx'.quiet_until = ctx.quiet_until
      /\ ctx'.auto_in_quiet_hours = ctx.auto_in_quiet_hours
  BY <1>1 DEF ClientActs, Event, Contexts
<1>3. /\ ctx'.trigger.exists = ctx.trigger.exists /\ ctx'.trigger.to_me = ctx.trigger.to_me
      /\ ctx'.trigger.occurred_at = ctx.trigger.occurred_at
      /\ \/ ctx'.trigger.edited_at = ctx.now /\ ctx'.trigger.deleted = ctx.trigger.deleted
         \/ ctx'.trigger.edited_at = ctx.trigger.edited_at /\ ctx'.trigger.deleted = TRUE
  <2>1. CASE ctx' = [ctx EXCEPT !.trigger.edited_at = ctx.now]
    BY <1>1, <2>1 DEF Contexts, Triggers
  <2>2. CASE ctx' = [ctx EXCEPT !.trigger.deleted = TRUE]
    BY <1>1, <2>2 DEF Contexts, Triggers
  <2> QED
    BY <2>1, <2>2 DEF ClientActs, Event
<1>4. Silent(trigger_line(row, ctx'))
  BY DEF Unopposed
<1>5. /\ ctx.now \in Nat /\ ctx.trigger.edited_at \in Int /\ row.created_at \in Int
      /\ ctx.trigger.edited_at <= ctx.now
  BY <1>1 DEF Contexts, Triggers, RowSnapshots, OptTime, Time, NoTime, Dated
<1>6. Silent(trigger_line(row, ctx))
  BY <1>2, <1>3, <1>4, <1>5, TriggerSilent
<1>7. /\ rules_line(row, ctx') = rules_line(row, ctx)
      /\ chat_state_line(row, ctx') = chat_state_line(row, ctx)
  BY <1>2, <1>3, Zenon DEF rules_line, chat_state_line, since
<1> QED
  BY <1>2, <1>6, <1>7, LinesRead DEF Unopposed

LEMMA OthersHold ==
  ASSUME WorldInv, OthersWereSent, Unopposed(row, ctx')
  PROVE  Unopposed(row, ctx)
<1> HIDE DEF Silent, stopped
<1>1. ctx \in Contexts
  BY DEF WorldInv
<1>2. /\ ctx'.now = ctx.now /\ ctx'.jarvis_enabled = ctx.jarvis_enabled
      /\ ctx'.channel_send_enabled = ctx.channel_send_enabled
      /\ ctx'.policies = ctx.policies /\ ctx'.env_ceiling = ctx.env_ceiling
      /\ ctx'.chat = ctx.chat /\ ctx'.rules = ctx.rules /\ ctx'.trigger = ctx.trigger
      /\ ctx'.unsafe_inbound_ids = ctx.unsafe_inbound_ids
      /\ ctx'.safety_readable = ctx.safety_readable /\ ctx'.chat_state = ctx.chat_state
      /\ ctx'.guard = ctx.guard /\ ctx'.quiet_until = ctx.quiet_until
      /\ ctx'.auto_in_quiet_hours = ctx.auto_in_quiet_hours
  BY <1>1 DEF OthersWereSent, Event, Contexts
<1>3. Silent(caps_line(row, ctx'))
  BY DEF Unopposed
<1>4. ctx'.caps = [ctx.caps EXCEPT !.cost_over_cap = TRUE]
  <2>1. ctx'.caps.last_send_at # ctx.now \/ ctx'.caps.gap_seconds # 1
    <3>1. ctx.now \in Nat
      BY <1>1 DEF Contexts, Time
    <3> QED
      BY <1>2, <1>3, <3>1, CapsSilent DEF NoTime
  <2>2. ASSUME ctx' = [ctx EXCEPT !.caps.auto_sent = 1, !.caps.chat_ai_sent = 1,
                                  !.caps.channel_sent = 1, !.caps.last_send_at = ctx.now]
        PROVE  FALSE
    <3>1. ctx'.caps = [ctx.caps EXCEPT !.auto_sent = 1, !.chat_ai_sent = 1,
                                       !.channel_sent = 1, !.last_send_at = ctx.now]
      BY <1>1, <2>2 DEF Contexts, Counters
    <3> QED
      BY <1>1, <2>1, <3>1 DEF Contexts, Counters
  <2>3. ASSUME ctx' = [ctx EXCEPT !.caps.channel_sent = 2, !.caps.last_send_at = ctx.now]
        PROVE  FALSE
    <3>1. ctx'.caps = [ctx.caps EXCEPT !.channel_sent = 2, !.last_send_at = ctx.now]
      BY <1>1, <2>3 DEF Contexts, Counters
    <3> QED
      BY <1>1, <2>1, <3>1 DEF Contexts, Counters
  <2>4. ctx' = [ctx EXCEPT !.caps.cost_over_cap = TRUE]
    BY <2>2, <2>3 DEF OthersWereSent, Event
  <2> QED
    BY <1>1, <2>4 DEF Contexts, Counters
<1>5. /\ ctx'.caps.cost_over_cap = TRUE
      /\ ctx'.caps.auto_sent = ctx.caps.auto_sent /\ ctx'.caps.auto_cap = ctx.caps.auto_cap
      /\ ctx'.caps.chat_ai_sent = ctx.caps.chat_ai_sent
      /\ ctx'.caps.per_chat_cap = ctx.caps.per_chat_cap
      /\ ctx'.caps.last_send_at = ctx.caps.last_send_at
      /\ ctx'.caps.gap_seconds = ctx.caps.gap_seconds
      /\ ctx'.caps.channel_sent = ctx.caps.channel_sent
      /\ ctx'.caps.channel_cap = ctx.caps.channel_cap
  BY <1>1, <1>4 DEF Contexts, Counters
<1>6. Silent(caps_line(row, ctx))
  <2> HIDE DEF auto, ai
  <2> QED
    BY <1>2, <1>3, <1>5, CapsSilent
<1> QED
  BY <1>2, <1>6, LinesRead DEF Unopposed

LEMMA RetirementHolds ==
  ASSUME WorldInv, ApprovedTextRetired, Unopposed(row, ctx')
  PROVE  Unopposed(row, ctx)
<1> HIDE DEF Silent, stopped
<1>1. ctx \in Contexts
  BY DEF WorldInv
<1>2. ctx' = [ctx EXCEPT !.guard.result.shapes_ok = FALSE, !.guard.result.shapes = {"courtesy"}]
  BY DEF ApprovedTextRetired, Event
<1>3. ctx'.guard.result.shapes_ok = FALSE
  BY <1>1, <1>2 DEF Contexts, GuardResults
<1>4. /\ ctx'.now = ctx.now /\ ctx'.jarvis_enabled = ctx.jarvis_enabled
      /\ ctx'.channel_send_enabled = ctx.channel_send_enabled
      /\ ctx'.policies = ctx.policies /\ ctx'.env_ceiling = ctx.env_ceiling
      /\ ctx'.chat = ctx.chat /\ ctx'.rules = ctx.rules /\ ctx'.trigger = ctx.trigger
      /\ ctx'.unsafe_inbound_ids = ctx.unsafe_inbound_ids
      /\ ctx'.safety_readable = ctx.safety_readable /\ ctx'.chat_state = ctx.chat_state
      /\ ctx'.caps = ctx.caps /\ ctx'.quiet_until = ctx.quiet_until
      /\ ctx'.auto_in_quiet_hours = ctx.auto_in_quiet_hours
  BY <1>1, <1>2 DEF Contexts
<1>5. Silent(guard_line(row, ctx'))
  BY DEF Unopposed
<1>6. row.bound /\ (ai(row) => row.guard.verdict = "pass")
  BY RowFacts
<1>7. Silent(guard_line(row, ctx))
  <2>1. auto(row) => ~leaned(row)
    BY <1>3, <1>5, <1>6, GuardSilent DEF auto_shapes_ok
  <2> HIDE DEF leaned, auto, ai
  <2> QED
    BY <1>5, <1>6, <2>1, GuardSilent
<1> QED
  BY <1>4, <1>7, LinesRead DEF Unopposed

LEMMA QuietHolds ==
  ASSUME WorldInv, QuietHoursBegin, Unopposed(row, ctx')
  PROVE  Unopposed(row, ctx)
<1> HIDE DEF Silent, stopped
<1>1. ctx \in Contexts /\ ctx.quiet_until = NoTime
  BY DEF WorldInv, QuietHoursBegin
<1>2. /\ ctx'.now = ctx.now /\ ctx'.jarvis_enabled = ctx.jarvis_enabled
      /\ ctx'.channel_send_enabled = ctx.channel_send_enabled
      /\ ctx'.policies = ctx.policies /\ ctx'.env_ceiling = ctx.env_ceiling
      /\ ctx'.chat = ctx.chat /\ ctx'.rules = ctx.rules /\ ctx'.trigger = ctx.trigger
      /\ ctx'.unsafe_inbound_ids = ctx.unsafe_inbound_ids
      /\ ctx'.safety_readable = ctx.safety_readable /\ ctx'.chat_state = ctx.chat_state
      /\ ctx'.caps = ctx.caps /\ ctx'.guard = ctx.guard
  BY <1>1 DEF QuietHoursBegin, Event, Contexts
<1>3. Silent(quiet_hours_line(row, ctx))
  BY <1>1, QuietSilent
<1> QED
  BY <1>2, <1>3, LinesRead DEF Unopposed

(* No pause, breaker, demotion, rule, warning, act of the owner or of the  *)
(* client, cap or quiet hour ever turns a row that was stopped into one    *)
(* that is sent: the precedence of scopes, rules and lines is monotone.    *)
THEOREM RestrictionsHold == Spec => RestrictionNeverReleases
<1>1. WorldInv /\ Restricts => (sends(row, ctx)' => sends(row, ctx))
  <2> SUFFICES ASSUME WorldInv, Restricts, sends(row', ctx') PROVE sends(row, ctx)
    OBVIOUS
  <2>1. row' = row
    BY RestrictsOneRow
  <2>2. Unopposed(row, ctx')
    BY <2>1, SendsUnopposed
  <2>3. Unopposed(row, ctx)
    BY <2>2, PauseHolds, BreakerHolds, DemotionHolds, ShadowHolds, SwitchesHold, PersonalHolds,
       ShieldHolds, OwnerActsHold, ClientActsHold, OthersHold, RetirementHolds, QuietHolds
       DEF Restricts
  <2> QED
    BY <2>3, SendsUnopposed
<1>2. WorldInv /\ [Next]_vars => [Restricts => (sends(row, ctx)' => sends(row, ctx))]_vars
  BY <1>1
<1> QED
  BY <1>2, WorldInvariance, PTL DEF Spec, RestrictionNeverReleases
=============================================================================
