------------------------------- MODULE MCOutbox -------------------------------
(***************************************************************************)
(* Instances of Outbox.  Facts are the open world and worlds that differ   *)
(* from it in one or two facts, one for each way the outbox is stopped by  *)
(* something outside it.                                                   *)
(***************************************************************************)
EXTENDS Outbox, TLC

MCChannels == {"telegram"}
MCIntents == {"greeting", "stall", "none"}
MCAutoIntents == {"greeting"}
MCKbOnly == {}

passed == [verdict |-> "pass", shapes_ok |-> TRUE, shapes |-> {"courtesy"}]
free_form == [verdict |-> "pass", shapes_ok |-> FALSE, shapes |-> {"courtesy"}]
refusal == [verdict |-> "block", shapes_ok |-> FALSE, shapes |-> {}]

OpenGuard == {passed}
MCGuardAnswers == {passed, free_form}

open_world ==
  [enabled |-> TRUE, channel_on |-> TRUE, ceiling |-> "auto", raises |-> FALSE,
   chat |-> [excluded |-> FALSE, group |-> FALSE], rules |-> <<>>,
   trigger |-> "there", owner |-> "away", unsafe |-> {}, cost_over_cap |-> FALSE,
   quiet |-> FALSE, guard |-> [registered |-> TRUE, result |-> passed]]

personal == <<[subject |-> "chat", mode |-> "never", reason |-> "personal"]>>

MCFacts ==
  {open_world,
   [open_world EXCEPT !.raises = TRUE],
   [open_world EXCEPT !.ceiling = "draft"],
   [open_world EXCEPT !.rules = personal],
   [open_world EXCEPT !.chat.excluded = TRUE],
   [open_world EXCEPT !.trigger = "edited"],
   [open_world EXCEPT !.owner = "replied"],
   [open_world EXCEPT !.quiet = TRUE],
   [open_world EXCEPT !.guard.result = free_form],
   [open_world EXCEPT !.guard.result = refusal]}

OpenFacts == {open_world}

greeting == [origin |-> "auto_reply", authored_by |-> AI, intent |-> "greeting",
             chat |-> "ali", source |-> "msg1", body |-> "salom", delay |-> 0]
stalling == [origin |-> "stall", authored_by |-> AI, intent |-> "stall",
             chat |-> "ali", source |-> "msg1", body |-> "aniqlayman", delay |-> 0]
command == [origin |-> "owner_command", authored_by |-> OWNER, intent |-> "none",
            chat |-> "ali", source |-> "cmd1", body |-> "keling", delay |-> 1]

(* One row, everything that happens to words and approvals. *)
WordProposals == {greeting, command}

(* Two of three texts, each proposed by two callers at once, competing for  *)
(* the one place of a day: in one chat, and on their own in two chats.      *)
CapsProposals ==
  {greeting, [greeting EXCEPT !.chat = "vali", !.source = "msg2"], stalling}

SameMessages == Permutations(Messages)
NoOverheard == {}
=============================================================================
