------------------------------- MODULE SendOnce -------------------------------
(***************************************************************************)
(* What the outbox and its adapter promise together about each row, and no *)
(* more: its text is handed over, may be taken back while no copy of it is *)
(* out, goes out in at most one copy, arrives at most once, and the row is *)
(* over without having been sent only if no copy of it was out.            *)
(*                                                                         *)
(* A row may be confirmed without its own copy having arrived: the outbox  *)
(* takes a message with exactly its text, sent from the account, for it.   *)
(***************************************************************************)
EXTENDS Naturals

CONSTANT Rows

VARIABLES status,     \* where the row stands
          launched,   \* rows with a copy on its way or in the chat
          delivered   \* copies of each row in the chat

vars == <<status, launched, delivered>>

Statuses == {"held", "handed", "doubt", "sent", "over"}
Handed == {"handed", "doubt", "sent"}

Init ==
  /\ status = [r \in Rows |-> "held"]
  /\ launched = {}
  /\ delivered = [r \in Rows |-> 0]

Move(r, from, to) ==
  /\ status[r] \in from
  /\ status' = [status EXCEPT ![r] = to]
  /\ UNCHANGED <<launched, delivered>>

HandOver(r) == Move(r, {"held"}, "handed")
TakeBack(r) == r \notin launched /\ Move(r, {"handed"}, "held")
Doubt(r) == Move(r, {"handed"}, "doubt")
Confirm(r) == Move(r, {"handed", "doubt"}, "sent")
Drop(r) == r \notin launched /\ Move(r, {"held", "handed", "doubt"}, "over")

Launch(r) ==
  /\ status[r] \in Handed
  /\ r \notin launched
  /\ launched' = launched \union {r}
  /\ UNCHANGED <<status, delivered>>

(* The platform refused the copy: it will never arrive. *)
Refuse(r) ==
  /\ r \in launched /\ delivered[r] = 0
  /\ launched' = launched \ {r}
  /\ UNCHANGED <<status, delivered>>

Deliver(r) ==
  /\ r \in launched /\ delivered[r] = 0
  /\ delivered' = [delivered EXCEPT ![r] = 1]
  /\ UNCHANGED <<status, launched>>

Next == \E r \in Rows :
  \/ HandOver(r) \/ TakeBack(r) \/ Doubt(r) \/ Confirm(r) \/ Drop(r)
  \/ Launch(r) \/ Refuse(r) \/ Deliver(r)

Spec == Init /\ [][Next]_vars
=============================================================================
