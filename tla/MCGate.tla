-------------------------------- MODULE MCGate --------------------------------
(***************************************************************************)
(* Instance of GateWorld: one channel, an intent of each kind (automatic,  *)
(* automatic with a knowledge-base quote only, never automatic), rows of   *)
(* every author and approver the outbox can hold approved.                 *)
(***************************************************************************)
EXTENDS GateWorld, TLC

MCChannels == {"telegram"}
MCChannel == "telegram"
MCIntents == {"greeting", "general_question", "stall"}
MCAutoIntents == {"greeting", "general_question"}
MCKbOnly == {"general_question"}

base == [channel |-> "telegram", plain_text |-> TRUE, bound |-> TRUE,
         has_trigger |-> TRUE, created_at |-> 0, not_before |-> NoTime,
         expires_at |-> 4, warned_personal |-> FALSE, warned_safety |-> 0]

verdict(ok, shapes) == [verdict |-> "pass", shapes_ok |-> ok, shapes |-> shapes]

row_of(author, approver, intent, g, tapped, warned) ==
  [base EXCEPT !.warned_personal = warned, !.warned_safety = IF warned THEN 1 ELSE 0]
    @@ [authored_by |-> author, approved_by |-> approver, intent |-> intent,
        guard |-> g, approved_at |-> tapped]

(* Approved by the policy: the shape check of the insert holds. *)
AutoRows ==
  {row_of(AI, AUTO_APPROVER, "greeting", verdict(TRUE, s), 0, FALSE) :
     s \in {{"courtesy"}, {"courtesy", QUESTION_SHAPE}}}
    \union {row_of(AI, AUTO_APPROVER, "general_question", verdict(TRUE, {KB_SHAPE}), 0, FALSE)}

(* Approved by the owner's tap, at the client's message or after it. *)
TappedRows ==
  {row_of(AI, OWNER, i, verdict(FALSE, {"courtesy"}), at, FALSE) :
     i \in MCIntents, at \in {1, 2}}

(* The owner's own words, with and without the warnings on their card. *)
OwnerRows ==
  {row_of(OWNER, OWNER, "stall", g, 1, w) :
     g \in {verdict(FALSE, {}), [verdict |-> "block", shapes_ok |-> FALSE, shapes |-> {}]},
     w \in BOOLEAN}
    \union {[r EXCEPT !.not_before = 3] : r \in {row_of(OWNER, OWNER, "stall", verdict(FALSE, {}), 1, TRUE)}}

MCRows == AutoRows \union TappedRows \union OwnerRows
=============================================================================
