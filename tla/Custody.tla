------------------------------ MODULE Custody ------------------------------
(***************************************************************************)
(* What the companion app and the server owe the owner together: every     *)
(* recorded conversation, and every event of the phone, is at any moment   *)
(* held by someone.  The phone may let one go (report it done, delete the  *)
(* file, move its cursor past it) only when the server answers for it, and *)
(* what the server answers for it keeps.                                   *)
(***************************************************************************)
CONSTANT Conversations

VARIABLES
  held,                            \* what the server answers for
  let_go                           \* what the phone no longer answers for

TypeOK == held \subseteq Conversations /\ let_go \subseteq held

Init == held = {} /\ let_go = {}

Receive(C) ==
  /\ C \subseteq Conversations \ held
  /\ held' = held \union C
  /\ UNCHANGED let_go

LetGo(C) ==
  /\ C \subseteq held \ let_go
  /\ let_go' = let_go \union C
  /\ UNCHANGED held

(* A reinstalled phone remembers nothing of what it handed over, and finds *)
(* what is still there once more                                           *)
Forget(C) ==
  /\ let_go' = let_go \ C
  /\ UNCHANGED held

Next == \E C \in SUBSET Conversations : Receive(C) \/ LetGo(C) \/ Forget(C)

Spec == Init /\ [][Next]_<<held, let_go>>
=============================================================================
