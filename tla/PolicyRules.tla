------------------------------ MODULE PolicyRules ------------------------------
(***************************************************************************)
(* The pure half of miya/jarvis/policy.py: how a mode is resolved from the *)
(* scopes of jarvis_policy, when a pause or a breaker stops sending, and   *)
(* why MIYA may not put its own words in a chat.                           *)
(*                                                                         *)
(* `policies' maps every scope to its row; a scope without a row is a row  *)
(* with nothing set.  Times are naturals, NoTime is SQL NULL.              *)
(***************************************************************************)
EXTENDS Integers, Sequences

CONSTANTS Channels,     \* channels a reply may leave on
          Intents,      \* intents a reply may have
          AUTO_INTENTS  \* those that may ever be sent without a tap

NoTime == -1
Time == Nat
OptTime == Time \union {NoTime}

Modes == {"off", "shadow", "draft", "auto"}
NoMode == "none"
DEFAULT_MODE == "shadow"

MODE_RANK == [off |-> 0, shadow |-> 1, draft |-> 2, auto |-> 3]

lowest(S) == CHOOSE k \in S : \A j \in S : k <= j

lower_mode(a, b) == IF MODE_RANK[a] <= MODE_RANK[b] THEN a ELSE b

(* Scopes of jarvis_policy; <<"channel", ch, "intent", i>> is the narrowest. *)
GLOBAL == <<"global">>
channel_scope(ch) == <<"channel", ch>>
intent_scope(i) == <<"intent", i>>
channel_intent_scope(ch, i) == <<"channel", ch, "intent", i>>

Scopes == {GLOBAL}
            \union {channel_scope(ch) : ch \in Channels}
            \union {intent_scope(i) : i \in Intents}
            \union {channel_intent_scope(ch, i) : ch \in Channels, i \in Intents}

PolicyRow == [mode : Modes \union {NoMode},
              paused : BOOLEAN,          \* pause_reason IS NOT NULL
              paused_until : OptTime,    \* NoTime: until resumed
              breaker_until : OptTime]

EmptyRow == [mode |-> NoMode, paused |-> FALSE,
             paused_until |-> NoTime, breaker_until |-> NoTime]

(* The most specific mode that is set; the migration's seed otherwise. *)
stored_mode(policies, ch, i) ==
  LET narrowest == <<channel_intent_scope(ch, i), intent_scope(i),
                     channel_scope(ch), GLOBAL>>
      set == {k \in 1..4 : policies[narrowest[k]].mode # NoMode}
  IN  IF set = {}
        THEN DEFAULT_MODE
        ELSE policies[narrowest[lowest(set)]].mode

effective_mode(policies, ch, i, env_ceiling) ==
  lower_mode(stored_mode(policies, ch, i), env_ceiling)

paused(row, now) ==
  row.paused /\ (row.paused_until = NoTime \/ row.paused_until > now)

tripped(row, now) == row.breaker_until # NoTime /\ row.breaker_until > now

stopped(policies, scope, now) ==
  paused(policies[scope], now) \/ tripped(policies[scope], now)

(* The pause or breaker in force: the global scope is looked at first, and *)
(* in a scope its pause before its breaker.                                *)
Stop(policies, scope, now) ==
  LET row == policies[scope]
  IN  IF paused(row, now)
        THEN [code |-> IF scope = GLOBAL THEN "paused" ELSE "channel_paused",
              until |-> row.paused_until]
        ELSE [code |-> "breaker", until |-> row.breaker_until]

NoStop == [code |-> "none", until |-> NoTime]

\* A fault to detect: only the global scope is looked at.
stop_for_global(policies, ch, now) ==
  IF stopped(policies, GLOBAL, now) THEN Stop(policies, GLOBAL, now)
  ELSE NoStop

stop_for(policies, ch, now) ==
  IF stopped(policies, GLOBAL, now) THEN Stop(policies, GLOBAL, now)
  ELSE IF stopped(policies, channel_scope(ch), now)
         THEN Stop(policies, channel_scope(ch), now)
         ELSE NoStop

-----------------------------------------------------------------------------
(* Reply rules and hard exclusions.  The active rules that name a chat are a *)
(* sequence, oldest first (load_rules).  Of the chat itself only two facts   *)
(* matter: whether a hard exclusion names it (Saved Messages, a service      *)
(* chat, a bot, a channel, a broadcast, the owner) and whether it is a group.*)

Rules == [subject : {"chat", "person", "address"},
          mode : {"never", "draft", "auto"},
          reason : {"personal", "group", "owner"}]

ChatFacts == [excluded : BOOLEAN, group : BOOLEAN]

never_rule(rules) == \E k \in DOMAIN rules : rules[k].mode = "never"

(* The chat's rule, else the person's (or an address's), oldest first. *)
rule_mode(rules) ==
  LET about(subjects) == {k \in DOMAIN rules : rules[k].subject \in subjects}
  IN  IF about({"chat"}) # {} THEN rules[lowest(about({"chat"}))].mode
      ELSE IF rules # <<>> THEN rules[lowest(DOMAIN rules)].mode
      ELSE NoMode

group_enabled(rules) ==
  \E k \in DOMAIN rules : /\ rules[k].subject = "chat"
                          /\ rules[k].reason = "group"
                          /\ rules[k].mode \in {"draft", "auto"}

(* `addressed' is "yes", "no" or "unknown" (a row whose trigger is not read). *)
ai_refusal(chat, rules, addressed) ==
  IF never_rule(rules) THEN "personal_chat"
  ELSE IF chat.excluded THEN "excluded"
  ELSE IF chat.group /\ ~group_enabled(rules) THEN "group_off"
  ELSE IF chat.group /\ addressed = "no" THEN "group_not_addressed"
  ELSE "none"
=============================================================================
