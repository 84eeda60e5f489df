--------------------------- MODULE MCPhoneEvents ---------------------------
EXTENDS PhoneEvents

(* Events 1 and 2 are SMS, 3 is a call, 4 a push, 5 an SMS *)
World(H, fa, re, rs) ==
  [stream |-> <<"sms", "sms", "call", "push", "sms">>, happen |-> H,
   filtered |-> {}, refused |-> {}, malformed |-> {}, token |-> TRUE,
   faults |-> fa, reinstalls |-> re, restores |-> rs, wipes |-> 0]

MCWorlds ==
  {World({1, 2, 5}, 1, 0, 0),
   World({1, 3}, 2, 1, 0),
   World({1, 2}, 1, 1, 1),
   World({3, 4}, 1, 1, 0),
   [World({1, 2, 5}, 1, 0, 0) EXCEPT !.filtered = {1}, !.refused = {2}],
   [World({1, 3}, 0, 0, 0) EXCEPT !.token = FALSE],
   [World({2, 3, 5}, 1, 0, 0) EXCEPT !.malformed = {2}],
   [World({3}, 0, 0, 0) EXCEPT !.wipes = 1]}
=============================================================================
