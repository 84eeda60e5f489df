------------------------------ MODULE MCResponder ------------------------------
(***************************************************************************)
(* Instances of Responder: one chat, one or two messages of the client's.  *)
(***************************************************************************)
EXTENDS Responder

MCChannels == {"telegram"}
MCIntents == {"greeting", "stall", "none"}
MCAutoIntents == {"greeting"}
MCKbOnly == {}

acts(writes, changes, owner, crashes) ==
  [write |-> writes, change |-> changes, owner |-> owner, crash |-> crashes]

MessageAlone == acts(1, 0, 2, 1)
Crashes == acts(2, 1, 0, 1)
=============================================================================
