--------------------------- MODULE MCTelegramSender ---------------------------
(***************************************************************************)
(* Instances of TelegramSender over the worlds and proposals of MCOutbox:  *)
(* nothing outside the outbox objects, so that what stops a row is the     *)
(* outbox, the sender, the network or the owner.                           *)
(***************************************************************************)
EXTENDS TelegramSender, MCOutbox

SenderProposals == {stalling}
AnswerTexts == {[chat |-> "ali", body |-> b] : b \in {"aniqlayman", "xayr"}}
=============================================================================
