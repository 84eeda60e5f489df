---------------------------- MODULE MCRecordings ----------------------------
EXTENDS Recordings

Row(id, moment) == [id |-> id, moment |-> moment]
numbered == <<Row(1, 1), Row(2, 2)>>
half     == <<Row(1, 1), Row(0, 2)>>

World(F, S, n, rw, fa, re) ==
  [files |-> F, synced |-> S, short |-> {}, unreadable |-> {}, token |-> "works",
   deleting |-> TRUE, number |-> n, rewrites |-> rw, faults |-> fa, reinstalls |-> re]

MCWorlds ==
  {World({1}, {}, numbered, 1, 1, 0),
   [World({1}, {}, numbered, 1, 0, 1) EXCEPT !.deleting = FALSE],
   [World({1}, {1}, numbered, 0, 1, 1) EXCEPT !.deleting = FALSE],
   World({1, 2}, {2}, numbered, 0, 0, 0),
   [World({2}, {2}, half, 0, 2, 0) EXCEPT !.token = "refused"],
   [World({1, 2}, {}, half, 0, 1, 0) EXCEPT !.short = {1}, !.unreadable = {2}, !.token = "missing"]}

(* The call log was cleared between the two calls: its ids start again *)
MCReused == {World({1, 2}, {}, <<Row(1, 1), Row(1, 2)>>, 0, 0, 0)}
=============================================================================
