------------------------------- MODULE MCSheets -------------------------------
(* Two clients share the tab of follow-ups, a receipt has a tab of its own. *)
EXTENDS Sheets

MCTab == [e \in Entities |-> IF e = 3 THEN "receipts" ELSE "followups"]

none == [change |-> 0, close |-> 0, purge |-> 0, resync |-> 0, delete |-> 0,
         fault |-> 0, lost |-> 0, crash |-> 0]

(* A first run that has to make the tab, while calls fail, answers are lost *)
(* and workers die.                                                         *)
fresh == [entities |-> {1, 2}, room |-> 0,
          may |-> [none EXCEPT !.change = 1, !.close = 1, !.fault = 1, !.lost = 1, !.crash = 1]]

(* Words forgotten at any moment.                                           *)
forgetting == [entities |-> {1, 2}, room |-> 1,
               may |-> [none EXCEPT !.change = 1, !.purge = 1, !.resync = 1, !.lost = 1, !.crash = 1]]

(* The owner deletes a tab while writes fail.                               *)
deleted == [entities |-> {1, 2}, room |-> 1,
            may |-> [none EXCEPT !.change = 1, !.delete = 1, !.fault = 2, !.resync = 1]]

(* One of two tabs fails, is deleted or is made again.                      *)
two_tabs == [entities |-> {1, 3}, room |-> 0,
             may |-> [none EXCEPT !.change = 1, !.delete = 1, !.fault = 2]]

MCWorlds == {fresh, forgetting, deleted, two_tabs}
=============================================================================
