-------------------------------- MODULE Sheets --------------------------------
(***************************************************************************)
(* services/sheets_sync.py: the one-way mirror of promises, tasks,         *)
(* clients and receipts in the owner's spreadsheet.                        *)
(*                                                                         *)
(* A run renders every tab from SQL, plans its writes in sheet_rows and    *)
(* commits; only then it talks to Google, with no transaction held, and    *)
(* records the outcome on the rows nothing else changed meanwhile.  Runs   *)
(* do not overlap (the job has max_instances=1), but the owner's purges,   *)
(* resyncs and the words themselves change between any two steps, calls    *)
(* fail, their answers are lost, and the worker dies.                      *)
(*                                                                         *)
(* The cells of a row are the version of its entity; the hash of the cells *)
(* is that version.  The header row is left out and rows count from 1; a   *)
(* backoff is on or over, without its length; the batch of a run has no    *)
(* limit (WRITE_BATCH).                                                    *)
(***************************************************************************)
EXTENDS Naturals, FiniteSets, FiniteSetsExt

CONSTANTS
  Tabs,              \* SHEET_TABS
  Entities,          \* ids, a set of numbers: rendered in this order
  tab_of,            \* the tab each entity is shown in
  Clients,           \* entities that leave their tab without being deleted
  NEW_TAB_ROWS, GROW_ROWS,
  MaxVersion,        \* bound: how often the words of an entity change
  Worlds             \* which entities there will be, the rows of each tab
                     \* at first (0: no such tab) and what may happen

ASSUME EntitiesAssumption == Entities \subseteq Nat \ {0} /\ IsFiniteSet(Entities)
ASSUME TabsAssumption == tab_of \in [Entities -> Tabs] /\ Clients \subseteq Entities
ASSUME RoomAssumption == NEW_TAB_ROWS \in Nat \ {0} /\ GROW_ROWS \in Nat
ASSUME WorldsAssumption == MaxVersion \in Nat \ {0} /\ \A w \in Worlds : w.room \in Nat

VARIABLES
  life, ver,         \* SQL: whether an entity is there and listed, and its words
  rows,              \* sheet_rows
  sheet,             \* the spreadsheet: the rows of each tab and their cells
  run,               \* the run of the job, in the worker's memory
  layout_checked,    \* SheetsAPI.layout_checked: this process looked at the tabs
  left               \* bound: what may still happen

vars == <<life, ver, rows, sheet, run, layout_checked, left>>
sql == <<life, ver>>

GONE == {"tombstone", "cleared"}
BLANK_HASH == 0
Blank == [of |-> 0, ver |-> 0]
Absent == [n |-> 0, state |-> "none", hash |-> BLANK_HASH, waits |-> FALSE]
NoRun == [pc |-> "idle"]
Cells == [1..Cardinality(Entities) -> {Blank} \union [of : Entities, ver : 1..MaxVersion]]

planned(e) == rows[e].n # 0
in_tab(t) == {e \in Entities : tab_of[e] = t}
listed == {e \in Entities : life[e] = "listed"}
cell(e) == sheet[tab_of[e]].cells[rows[e].n]

May(what) == left[what] > 0 /\ left' = [left EXCEPT ![what] = @ - 1]

Init == \E w \in Worlds :
  /\ life = [e \in Entities |-> IF e \in w.entities THEN "none" ELSE "gone"] /\ ver = [e \in Entities |-> 0]
  /\ rows = [e \in Entities |-> Absent]
  /\ sheet = [t \in Tabs |-> [room |-> w.room, cells |-> [i \in 1..Cardinality(Entities) |-> Blank]]]
  /\ run = NoRun /\ layout_checked = FALSE
  /\ left = w.may

-----------------------------------------------------------------------------
(* SQL, the owner and the spreadsheet *)

Appears(e) ==
  /\ life[e] \in {"none", "closed"}
  /\ \/ life[e] = "none" /\ UNCHANGED left
     \/ life[e] = "closed" /\ May("change")
  /\ life' = [life EXCEPT ![e] = "listed"]
  /\ ver' = [ver EXCEPT ![e] = IF @ = 0 THEN 1 ELSE @]
  /\ UNCHANGED <<rows, sheet, run, layout_checked>>

Changes(e) ==
  /\ e \in listed /\ ver[e] < MaxVersion /\ May("change")
  /\ ver' = [ver EXCEPT ![e] = @ + 1]
  /\ UNCHANGED <<life, rows, sheet, run, layout_checked>>

(* A client with nothing open any more is not listed. *)
Closes(e) ==
  /\ e \in listed \intersect Clients /\ May("close")
  /\ life' = [life EXCEPT ![e] = "closed"]
  /\ UNCHANGED <<ver, rows, sheet, run, layout_checked>>

tombstone(r) == [r EXCEPT !.state = "tombstone", !.hash = BLANK_HASH, !.waits = FALSE]

(* /unut deletes the entity; tombstone_missing, in the same transaction,   *)
(* marks its row, unless that fails.                                       *)
Purge(e) ==
  /\ life[e] \in {"listed", "closed"} /\ left["purge"] > 0
  /\ life' = [life EXCEPT ![e] = "gone"]
  /\ \/ /\ rows' = IF planned(e) /\ rows[e].state \notin GONE
                     THEN [rows EXCEPT ![e] = tombstone(@)] ELSE rows
        /\ left' = [left EXCEPT !["purge"] = @ - 1]
     \/ /\ left["fault"] > 0
        /\ left' = [left EXCEPT !["purge"] = @ - 1, !["fault"] = @ - 1]
        /\ UNCHANGED rows
  /\ UNCHANGED <<ver, sheet, run, layout_checked>>

request_resync ==
  /\ May("resync")
  /\ rows' = [e \in Entities |-> IF rows[e].state \in {"synced", "failed"}
                                   THEN [rows[e] EXCEPT !.state = "pending", !.waits = FALSE]
                                   ELSE rows[e]]
  /\ UNCHANGED <<sql, sheet, run, layout_checked>>

OwnerDeletesTab(t) ==
  /\ sheet[t].room > 0 /\ May("delete")
  /\ sheet' = [sheet EXCEPT ![t] = [room |-> 0, cells |-> [i \in DOMAIN @.cells |-> Blank]]]
  /\ UNCHANGED <<sql, rows, run, layout_checked>>

-----------------------------------------------------------------------------
(* Plan: render, read sheet_rows, bring them in line *)

rendered(skipped, unbuilt) ==
  [pc |-> "look", skipped |-> skipped, unbuilt |-> unbuilt,
   built |-> [e \in {d \in listed : d \notin skipped /\ tab_of[d] \notin unbuilt} |-> ver[e]]]

(* A row that cannot be rendered is skipped, and a tab that cannot be      *)
(* built is left out of the run.                                           *)
Build ==
  /\ run.pc = "idle"
  /\ \/ run' = rendered({}, {}) /\ UNCHANGED left
     \/ /\ May("fault")
        /\ \/ \E e \in listed : run' = rendered({e}, {})
           \/ \E t \in Tabs : run' = rendered({}, {t})
  /\ UNCHANGED <<sql, rows, sheet, layout_checked>>

Look ==
  /\ run.pc = "look"
  /\ run' = [pc |-> "plan", built |-> run.built, skipped |-> run.skipped,
             unbuilt |-> run.unbuilt, existing |-> rows]
  /\ UNCHANGED <<sql, rows, sheet, layout_checked, left>>

\* A fault to detect: rows of entities that are gone are given away.
next_row_living(existing, t) ==
  Max({existing[e].n : e \in {d \in in_tab(t) : existing[d].state \notin GONE}} \union {0})

next_row(existing, t) == Max({existing[e].n : e \in in_tab(t)} \union {0})

(* The updates go by id, whatever the row has become since it was read.    *)
_plan_rows(e) ==
  LET old == run.existing[e]
      is_built == e \in DOMAIN run.built
      digest == run.built[e]
      new == {d \in DOMAIN run.built : tab_of[d] = tab_of[e] /\ run.existing[d].n = 0}
      wakes == old.state \in GONE
      changed == old.hash # digest
  IN  CASE is_built /\ old.n = 0 ->
             [n |-> next_row(run.existing, tab_of[e]) + Cardinality({d \in new : d <= e}),
              state |-> "pending", hash |-> digest, waits |-> FALSE]
        [] is_built /\ old.n # 0 ->
             [rows[e] EXCEPT
                !.state = IF wakes \/ (changed /\ old.state # "failed") THEN "pending" ELSE @,
                !.waits = ~wakes /\ @,
                !.hash = IF changed THEN digest ELSE @]
        [] /\ ~is_built /\ e \notin run.skipped /\ tab_of[e] \notin run.unbuilt
           /\ old.n # 0 /\ old.state \notin GONE ->
             tombstone(rows[e])
        [] OTHER -> rows[e]

(* A row that was not rendered is written once it is.                      *)
_due(after) ==
  {e \in Entities :
     LET r == after[e] IN
     /\ r.n # 0 /\ tab_of[e] \notin run.unbuilt
     /\ r.state = "pending" \/ (r.state \in {"failed", "tombstone"} /\ ~r.waits)
     /\ r.state = "tombstone" \/ e \in DOMAIN run.built}

Planned(e, r) == [e |-> e, state |-> r.state, hash |-> r.hash,
                  cells |-> IF r.state = "tombstone" THEN Blank ELSE [of |-> e, ver |-> run.built[e]]]

Plan ==
  /\ run.pc = "plan"
  /\ \/ LET after == [e \in Entities |-> _plan_rows(e)] IN
        /\ rows' = after
        /\ run' = [pc |-> "layout", items |-> {Planned(e, after[e]) : e \in _due(after)},
                   todo |-> {}, created |-> {}, failed |-> {}]
        /\ UNCHANGED left
     \/ May("fault") /\ run' = NoRun /\ UNCHANGED rows
  /\ UNCHANGED <<sql, sheet, layout_checked>>

-----------------------------------------------------------------------------
(* Write and record *)

of_tab(t) == {i \in run.items : tab_of[i.e] = t}
due_tabs == {tab_of[i.e] : i \in run.items}
needed(t) == Max({rows[i.e].n : i \in of_tab(t)} \union {0})
missing == {t \in Tabs : sheet[t].room = 0}

layout_requests ==
  [t \in Tabs |->
     IF t \in missing THEN [sheet[t] EXCEPT !.room = Max({NEW_TAB_ROWS, needed(t) + GROW_ROWS})]
     ELSE IF sheet[t].room < needed(t) THEN [sheet[t] EXCEPT !.room = needed(t) + GROW_ROWS]
     ELSE sheet[t]]

Layout ==
  /\ run.pc = "layout"
  /\ \/ /\ run.items = {} /\ layout_checked
        /\ run' = NoRun
        /\ UNCHANGED <<sheet, layout_checked, left>>
     \/ /\ run.items # {} \/ ~layout_checked
        /\ \/ /\ sheet' = layout_requests /\ layout_checked' = TRUE
              /\ run' = [run EXCEPT !.pc = "write", !.created = missing, !.todo = due_tabs]
              /\ UNCHANGED left
           \/ /\ \/ May("fault") /\ UNCHANGED sheet
                 \/ May("lost") /\ sheet' = layout_requests
              /\ run' = [run EXCEPT !.pc = "record", !.failed = due_tabs]
              /\ UNCHANGED layout_checked
  /\ UNCHANGED <<sql, rows>>

fits(t) == sheet[t].room >= needed(t)

written(t) ==
  LET at(n) == {i \in of_tab(t) : rows[i.e].n = n}
  IN  [n \in DOMAIN sheet[t].cells |->
         IF at(n) = {} THEN sheet[t].cells[n] ELSE (CHOOSE i \in at(n) : TRUE).cells]

(* One values.batchUpdate per tab, each row at its own range: it fails     *)
(* whole on a tab that is gone or too small, and its answer may be lost.   *)
write_values(t) ==
  /\ run.pc = "write" /\ t \in run.todo
  /\ \/ /\ fits(t)
        /\ sheet' = [sheet EXCEPT ![t].cells = written(t)]
        /\ run' = [run EXCEPT !.todo = @ \ {t}]
        /\ UNCHANGED left
     \/ /\ \/ ~fits(t) /\ UNCHANGED <<sheet, left>>
           \/ fits(t) /\ May("fault") /\ sheet' \in {sheet, [sheet EXCEPT ![t].cells = written(t)]}
        /\ run' = [run EXCEPT !.todo = @ \ {t}, !.failed = @ \union {t}]
  /\ UNCHANGED <<sql, rows, layout_checked>>

(* The outcome goes only onto a row that is still as it was planned.       *)
recorded(e) ==
  LET mine == {i \in run.items : i.e = e /\ rows[e].state = i.state /\ rows[e].hash = i.hash}
  IN  IF mine = {} THEN rows[e]
      ELSE LET i == CHOOSE i \in mine : TRUE
               failed == tab_of[e] \in run.failed
           IN  [rows[e] EXCEPT
                  !.state = IF failed THEN (IF i.cells = Blank THEN "tombstone" ELSE "failed")
                            ELSE IF i.cells = Blank THEN "cleared" ELSE "synced",
                  !.waits = failed]

\* A fault to detect: a new tab is taken as written.
requeued_never(e, r) == r

(* What a new tab held and this run did not write is written by the next.  *)
requeued(e, r) ==
  IF tab_of[e] \notin run.created THEN r
  ELSE IF r.state = "synced" /\ ~(\E i \in run.items : i.e = e /\ tab_of[e] \notin run.failed)
    THEN [r EXCEPT !.state = "pending"]
  ELSE IF r.state = "tombstone" THEN [r EXCEPT !.state = "cleared", !.waits = FALSE]
  ELSE r

_record ==
  /\ \/ run.pc = "record"
     \/ run.pc = "write" /\ run.todo = {}
  /\ run' = NoRun
  /\ \/ rows' = [e \in Entities |-> requeued(e, recorded(e))] /\ UNCHANGED left
     \/ May("lost") /\ UNCHANGED rows
  /\ UNCHANGED <<sql, sheet, layout_checked>>

BackoffElapses(e) ==
  /\ rows[e].waits
  /\ rows' = [rows EXCEPT ![e].waits = FALSE]
  /\ UNCHANGED <<sql, sheet, run, layout_checked, left>>

WorkerDies ==
  /\ May("crash")
  /\ run' = NoRun /\ layout_checked' = FALSE
  /\ UNCHANGED <<sql, rows, sheet>>

-----------------------------------------------------------------------------
Job == Build \/ Look \/ Plan \/ Layout \/ (\E t \in Tabs : write_values(t)) \/ _record

Others ==
  \/ \E e \in Entities : Appears(e) \/ Changes(e) \/ Closes(e) \/ Purge(e)
  \/ request_resync
  \/ \E t \in Tabs : OwnerDeletesTab(t)
  \/ WorkerDies

Next == Job \/ Others \/ \E e \in Entities : BackoffElapses(e)

Spec == Init /\ [][Next]_vars

(* The scheduler starts a run every SHEETS_SYNC_SECONDS, a run goes on, and *)
(* every backoff ends (RETRY_CAP).                                         *)
FairSpec == Spec /\ WF_vars(Job) /\ \A e \in Entities : WF_vars(BackoffElapses(e))

-----------------------------------------------------------------------------
(* Properties *)

TypeOK ==
  /\ life \in [Entities -> {"none", "listed", "closed", "gone"}]
  /\ ver \in [Entities -> 0..MaxVersion]
  /\ rows \in [Entities -> [n : 0..Cardinality(Entities),
                           state : {"none", "pending", "synced", "failed"} \union GONE,
                           hash : 0..MaxVersion, waits : BOOLEAN]]
  /\ sheet \in [Tabs -> [room : Nat, cells : Cells]]
  /\ layout_checked \in BOOLEAN

(* An entity keeps its row of the tab for good, so a retry rewrites the     *)
(* same cells: no two entities have one row, and what stands in a row is   *)
(* the words of the entity it belongs to, whatever was closed, purged,     *)
(* written twice or written late in between.                               *)
OneEntityPerSheetRow ==
  /\ \A d, e \in Entities : planned(d) /\ tab_of[d] = tab_of[e] /\ rows[d].n = rows[e].n => d = e
  /\ \A t \in Tabs : \A n \in DOMAIN sheet[t].cells :
       LET c == sheet[t].cells[n] IN c # Blank => tab_of[c.of] = t /\ rows[c.of].n = n

(* What the owner reads is what SQL says: the words of every listed entity *)
(* in its row and blanks for every other.  A tab the owner deleted is      *)
(* noticed when something is due again.                                    *)
Mirrored(e) ==
  IF sheet[tab_of[e]].room = 0
    THEN life[e] = "none" \/ rows[e].state \in {"none", "synced", "cleared"}
  ELSE IF life[e] = "listed" THEN planned(e) /\ cell(e) = [of |-> e, ver |-> ver[e]]
  ELSE planned(e) => cell(e) = Blank

(* However a run fails, is interrupted or is overtaken by a change, a purge *)
(* or a resync, the mirror catches up with SQL and stays there.            *)
MirrorCatchesUp == <>[](\A e \in Entities : Mirrored(e))
=============================================================================
