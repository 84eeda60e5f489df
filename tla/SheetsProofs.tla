----------------------------- MODULE SheetsProofs -----------------------------
(***************************************************************************)
(* Theorems about the spreadsheet's mirror, for every value of the         *)
(* constants of Sheets.                                                    *)
(***************************************************************************)
EXTENDS Sheets, FiniteSetTheorems, WellFoundedInduction, TLAPS

(* Max of naturals with a bound is one of them, and none is above it.      *)
LEMMA MaxIsGreatest ==
  ASSUME NEW S, NEW b \in Nat, S \subseteq 0..b, S # {}
  PROVE  Max(S) \in S /\ \A y \in S : y <= Max(S)
<1> DEFINE D == {b - u : u \in S}
<1>0. \A u \in S : u \in Nat /\ b - u \in Nat
  OBVIOUS
<1>1. D \subseteq Nat /\ D # {}
  BY <1>0
<1>2. PICK x \in D : \A y \in D : ~ (<<y, x>> \in OpToRel(<, Nat))
  BY <1>1, NatLessThanWellFounded, WFMin
<1>3. \A y \in D : y < x => <<y, x>> \in OpToRel(<, Nat)
  BY <1>1, Zenon DEF OpToRel
<1>4. \A y \in D : ~ (y < x)
  BY <1>2, <1>3, Zenon
<1>5. PICK m \in S : x = b - m
  OBVIOUS
<1>6. \A y \in S : m >= y
  <2> TAKE y \in S
  <2>1. ~ (b - y < b - m)
    BY <1>4, <1>5
  <2> QED
    BY <2>1
<1>7. \E q \in S : \A y \in S : q >= y
  BY <1>6
<1>8. Max(S) \in S /\ \A y \in S : Max(S) >= y
  BY <1>7, Zenon DEF Max
<1> QED
  BY <1>8

(* Max of the numbers of some rows is a natural no smaller than any.       *)
LEMMA MaxOfNumbers ==
  ASSUME NEW S, NEW b \in Nat, S \subseteq 0..b
  PROVE  /\ Max(S \union {0}) \in Nat
         /\ Max(S \union {0}) <= b
         /\ \A y \in S : y <= Max(S \union {0})
<1> DEFINE T == S \union {0}
<1>1. T \subseteq 0..b /\ T # {}
  OBVIOUS
<1> HIDE DEF T
<1>2. Max(T) \in T /\ \A y \in T : y <= Max(T)
  BY <1>1, MaxIsGreatest
<1>3. S \subseteq T
  BY DEF T
<1>4. \A m \in T : m \in Nat /\ m <= b
  BY <1>1
<1>5. Max(T) \in Nat /\ Max(T) <= b /\ \A y \in S : y <= Max(T)
  BY <1>2, <1>3, <1>4, Zenon
<1> QED
  BY <1>5, Zenon DEF T

-----------------------------------------------------------------------------
(* The inductive invariant *)

RowStates == {"none", "pending", "synced", "failed"} \union GONE
Row == [n : Nat, state : RowStates, hash : 0..MaxVersion, waits : BOOLEAN]
Words == {Blank} \union [of : Entities, ver : 1..MaxVersion]
Item == [e : Entities, state : RowStates, hash : 0..MaxVersion, cells : Words]
places(t) == {e \in in_tab(t) : planned(e)}

TypesInv ==
  /\ life \in [Entities -> {"none", "listed", "closed", "gone"}]
  /\ ver \in [Entities -> 0..MaxVersion]
  /\ \A e \in listed : ver[e] # 0
  /\ rows \in [Entities -> Row]
  /\ sheet \in [Tabs -> [room : Nat, cells : Cells]]
  /\ layout_checked \in BOOLEAN

(* What a run holds in memory: what it rendered, then the rows it read,    *)
(* whose numbers nothing else gives out, then what it planned.             *)
Rendered ==
  /\ DOMAIN run.built \subseteq Entities
  /\ \A e \in DOMAIN run.built : run.built[e] \in 1..MaxVersion
Reading ==
  /\ run.existing \in [Entities -> Row]
  /\ \A e \in Entities : run.existing[e].n = rows[e].n
Writing ==
  /\ run \in [pc : {"layout", "write", "record"}, items : SUBSET Item,
              todo : SUBSET Tabs, created : SUBSET Tabs, failed : SUBSET Tabs]
  /\ \A i \in run.items : planned(i.e) /\ (i.cells # Blank => i.cells.of = i.e)
RunInv ==
  \/ run = NoRun
  \/ run.pc = "look" /\ Rendered
  \/ run.pc = "plan" /\ Rendered /\ Reading
  \/ Writing

(* The numbers of a tab are given out once and without gaps.               *)
NumbersInv ==
  /\ \A d, e \in Entities : planned(d) /\ tab_of[d] = tab_of[e] /\ rows[d].n = rows[e].n => d = e
  /\ \A e \in Entities : rows[e].n <= Cardinality(places(tab_of[e]))

CellsInv ==
  \A t \in Tabs : \A n \in DOMAIN sheet[t].cells :
    LET c == sheet[t].cells[n] IN c # Blank => tab_of[c.of] = t /\ rows[c.of].n = n

Inv == TypesInv /\ RunInv /\ NumbersInv /\ CellsInv

LEMMA RowChanges ==
  ASSUME NEW r \in Row, NEW s \in RowStates, NEW h \in 0..MaxVersion, NEW w \in BOOLEAN
  PROVE  LET c == [r EXCEPT !.state = s, !.hash = h, !.waits = w] IN c \in Row /\ c.n = r.n
  BY DEF Row

LEMMA TombstoneIsARow ==
  ASSUME NEW r \in Row
  PROVE  tombstone(r) \in Row /\ tombstone(r).n = r.n
<1>1. "tombstone" \in RowStates /\ 0 \in 0..MaxVersion /\ FALSE \in BOOLEAN
  BY WorldsAssumption DEF RowStates, GONE
<1> QED
  BY <1>1, RowChanges, Zenon DEF tombstone, BLANK_HASH

LEMMA SizesAreNatural ==
  /\ Cardinality(Entities) \in Nat
  /\ \A t : IsFiniteSet(places(t)) /\ Cardinality(places(t)) \in Nat
             /\ Cardinality(places(t)) <= Cardinality(Entities)
<1>1. \A t : places(t) \in SUBSET Entities
  BY DEF places, in_tab
<1> QED
  BY <1>1, EntitiesAssumption, FS_CardinalityType, FS_Subset

LEMMA InitInv == Init => Inv
<1> SUFFICES ASSUME Init PROVE Inv
  OBVIOUS
<1>1. PICK w \in Worlds :
        /\ life = [e \in Entities |-> IF e \in w.entities THEN "none" ELSE "gone"]
        /\ sheet = [t \in Tabs |-> [room |-> w.room, cells |-> [i \in 1..Cardinality(Entities) |-> Blank]]]
  BY DEF Init
<1>2. TypesInv
  <2>1. rows \in [Entities -> Row]
    BY WorldsAssumption DEF Init, Row, RowStates, GONE, Absent, BLANK_HASH
  <2>2. [i \in 1..Cardinality(Entities) |-> Blank] \in Cells
    BY DEF Cells
  <2>3. sheet \in [Tabs -> [room : Nat, cells : Cells]]
    BY <1>1, <2>2, WorldsAssumption
  <2>4. listed = {}
    BY <1>1 DEF listed
  <2>5. life \in [Entities -> {"none", "listed", "closed", "gone"}]
    BY <1>1
  <2>6. ver \in [Entities -> 0..MaxVersion]
    BY WorldsAssumption DEF Init
  <2>7. layout_checked \in BOOLEAN
    BY DEF Init
  <2> QED
    BY <2>1, <2>3, <2>4, <2>5, <2>6, <2>7 DEF TypesInv
<1>3. RunInv
  BY DEF Init, RunInv
<1>4. \A e \in Entities : rows[e].n = 0
  BY DEF Init, Absent
<1>5. NumbersInv
  BY <1>4, SizesAreNatural DEF NumbersInv, planned
<1>6. CellsInv
  BY <1>1 DEF CellsInv
<1> QED
  BY <1>2, <1>3, <1>5, <1>6 DEF Inv

(* A step that gives out no number and writes no cell keeps the numbers    *)
(* and the cells as they are.                                              *)
LEMMA NumbersStay ==
  ASSUME Inv, \A e \in Entities : rows'[e].n = rows[e].n
  PROVE  /\ NumbersInv'
         /\ (\A t \in Tabs : sheet'[t].cells = sheet[t].cells) => CellsInv'
<1>1. \A t : places(t)' = places(t)
  BY DEF places, planned, in_tab
<1>2. NumbersInv'
  BY <1>1, TabsAssumption DEF Inv, NumbersInv, planned
<1>3. ASSUME \A t \in Tabs : sheet'[t].cells = sheet[t].cells
      PROVE  CellsInv'
  <2> SUFFICES ASSUME NEW t \in Tabs, NEW n \in DOMAIN sheet[t].cells, sheet[t].cells[n] # Blank
               PROVE  /\ tab_of[sheet[t].cells[n].of] = t
                      /\ rows'[sheet[t].cells[n].of].n = n
    BY <1>3 DEF CellsInv
  <2>1. sheet[t].cells[n].of \in Entities
    <3>1. sheet[t].cells \in Cells
      BY DEF Inv, TypesInv
    <3>2. sheet[t].cells[n] \in {Blank} \union [of : Entities, ver : 1..MaxVersion]
      BY <3>1 DEF Cells
    <3> QED
      BY <3>2
  <2> QED
    BY <2>1 DEF Inv, CellsInv
<1> QED
  BY <1>2, <1>3

(* SQL, the owner's words and the backoffs touch no number and no cell.     *)
LEMMA SqlInv ==
  ASSUME Inv, NEW e \in Entities, Appears(e) \/ Changes(e) \/ Closes(e)
  PROVE  Inv'
<1>1. UNCHANGED <<rows, sheet, run, layout_checked>>
  BY DEF Appears, Changes, Closes
<1>2. life' \in [Entities -> {"none", "listed", "closed", "gone"}]
  BY DEF Appears, Changes, Closes, Inv, TypesInv
<1>3. ver' \in [Entities -> 0..MaxVersion] /\ \A d \in listed' : ver'[d] # 0
  <2>1. CASE Appears(e)
    BY <2>1, WorldsAssumption DEF Appears, Inv, TypesInv, listed
  <2>2. CASE Changes(e)
    BY <2>2, WorldsAssumption DEF Changes, Inv, TypesInv, listed
  <2>3. CASE Closes(e)
    BY <2>3 DEF Closes, Inv, TypesInv, listed
  <2> QED
    BY <2>1, <2>2, <2>3
<1>4. TypesInv'
  BY <1>1, <1>2, <1>3 DEF Inv, TypesInv
<1>5. RunInv'
  BY <1>1 DEF Inv, RunInv, Rendered, Reading, Writing, planned
<1> QED
  BY <1>1, <1>4, <1>5, NumbersStay DEF Inv

(* Rows that change their state and keep their numbers.                    *)
LEMMA RowsInv ==
  ASSUME Inv, rows' \in [Entities -> Row], \A e \in Entities : rows'[e].n = rows[e].n,
         UNCHANGED <<ver, sheet, run, layout_checked>>,
         life' = life \/ \E e \in Entities : life' = [life EXCEPT ![e] = "gone"]
  PROVE  Inv'
<1>1. TypesInv'
  <2>1. life' \in [Entities -> {"none", "listed", "closed", "gone"}] /\ listed' \subseteq listed
    BY DEF Inv, TypesInv, listed
  <2> QED
    BY <2>1 DEF Inv, TypesInv
<1>2. RunInv'
  <2>1. Reading => Reading'
    BY DEF Reading
  <2>2. Writing => Writing'
    BY DEF Writing, Item, planned
  <2> QED
    BY <2>1, <2>2 DEF Inv, RunInv, Rendered
<1> QED
  BY <1>1, <1>2, NumbersStay DEF Inv

LEMMA PurgeInv ==
  ASSUME Inv, NEW e \in Entities, Purge(e)
  PROVE  Inv'
<1>1. rows' \in [Entities -> Row] /\ \A d \in Entities : rows'[d].n = rows[d].n
  <2>1. \A d \in Entities : rows[d] \in Row
    BY DEF Inv, TypesInv
  <2>2. tombstone(rows[e]) \in Row /\ tombstone(rows[e]).n = rows[e].n
    BY <2>1, TombstoneIsARow
  <2>3. rows' = rows \/ rows' = [rows EXCEPT ![e] = tombstone(rows[e])]
    BY DEF Purge
  <2> QED
    BY <2>1, <2>2, <2>3 DEF Inv, TypesInv
<1> QED
  BY <1>1, RowsInv DEF Purge

LEMMA ResyncInv == Inv /\ request_resync => Inv'
<1> SUFFICES ASSUME Inv, request_resync PROVE Inv'
  OBVIOUS
<1>1. rows' \in [Entities -> Row] /\ \A d \in Entities : rows'[d].n = rows[d].n
  <2>1. \A d \in Entities : rows[d] \in Row
    BY DEF Inv, TypesInv
  <2>2. \A d \in Entities : rows'[d] \in Row /\ rows'[d].n = rows[d].n
    BY <2>1 DEF request_resync, Row, RowStates
  <2> QED
    BY <2>2 DEF request_resync
<1> QED
  BY <1>1, RowsInv DEF request_resync, sql

LEMMA BackoffInv ==
  ASSUME Inv, NEW e \in Entities, BackoffElapses(e)
  PROVE  Inv'
<1>1. rows' \in [Entities -> Row] /\ \A d \in Entities : rows'[d].n = rows[d].n
  BY DEF BackoffElapses, Inv, TypesInv, Row, RowStates
<1> QED
  BY <1>1, RowsInv DEF BackoffElapses, sql

LEMMA DeletedTabInv ==
  ASSUME Inv, NEW t \in Tabs, OwnerDeletesTab(t)
  PROVE  Inv'
<1>1. sheet[t].cells \in Cells
  BY DEF Inv, TypesInv
<1>2. DOMAIN sheet[t].cells = 1..Cardinality(Entities)
  BY <1>1 DEF Cells
<1> DEFINE blank == [i \in 1..Cardinality(Entities) |-> Blank]
<1>3. sheet' = [sheet EXCEPT ![t] = [room |-> 0, cells |-> blank]]
  BY <1>2 DEF OwnerDeletesTab
<1>4. blank \in Cells
  BY DEF Cells
<1>5. sheet' \in [Tabs -> [room : Nat, cells : Cells]]
  BY <1>3, <1>4 DEF Inv, TypesInv
<1>6. TypesInv'
  BY <1>5 DEF OwnerDeletesTab, sql, Inv, TypesInv, listed
<1>7. RunInv'
  BY DEF OwnerDeletesTab, Inv, RunInv, Rendered, Reading, Writing, planned
<1>8. NumbersInv'
  BY DEF OwnerDeletesTab, Inv, NumbersInv, places, in_tab, planned
<1>9. CellsInv'
  <2> SUFFICES ASSUME NEW u \in Tabs, NEW n \in DOMAIN sheet'[u].cells, sheet'[u].cells[n] # Blank
               PROVE  /\ tab_of[sheet'[u].cells[n].of] = u
                      /\ rows'[sheet'[u].cells[n].of].n = n
    BY DEF CellsInv
  <2>1. u # t
    BY <1>3 DEF Inv, TypesInv
  <2>2. sheet'[u] = sheet[u] /\ rows' = rows
    BY <1>3, <2>1 DEF OwnerDeletesTab, Inv, TypesInv
  <2> QED
    BY <2>2 DEF Inv, CellsInv
<1> QED
  BY <1>6, <1>7, <1>8, <1>9 DEF Inv

-----------------------------------------------------------------------------
(* The steps of a run *)

(* A step of the run that leaves the rows and the cells alone.             *)
LEMMA RunMovesInv ==
  ASSUME Inv, RunInv', UNCHANGED <<life, ver, rows, sheet>>, layout_checked' \in BOOLEAN
  PROVE  Inv'
<1>1. TypesInv'
  BY DEF Inv, TypesInv, listed
<1> QED
  BY <1>1, NumbersStay DEF Inv

LEMMA BuildInv == Inv /\ Build => Inv'
<1> SUFFICES ASSUME Inv, Build PROVE Inv'
  OBVIOUS
<1>1. PICK skipped, unbuilt : run' = rendered(skipped, unbuilt)
  BY DEF Build
<1>2. listed \subseteq Entities /\ \A e \in listed : ver[e] \in 1..MaxVersion
  BY WorldsAssumption DEF Inv, TypesInv, listed
<1>3. run'.pc = "look" /\ Rendered'
  BY <1>1, <1>2 DEF rendered, Rendered
<1>4. RunInv'
  BY <1>3 DEF RunInv
<1> QED
  BY <1>4, RunMovesInv DEF Build, sql, Inv, TypesInv

LEMMA LookInv == Inv /\ Look => Inv'
<1> SUFFICES ASSUME Inv, Look PROVE Inv'
  OBVIOUS
<1>1. Rendered
  BY DEF Look, Inv, RunInv, NoRun, Writing
<1>2. run'.pc = "plan" /\ run'.built = run.built /\ run'.existing = rows
  BY DEF Look
<1>3. Rendered' /\ Reading'
  BY <1>1, <1>2 DEF Rendered, Reading, Look, Inv, TypesInv
<1>4. RunInv'
  BY <1>2, <1>3 DEF RunInv
<1> QED
  BY <1>4, RunMovesInv DEF Look, sql, Inv, TypesInv

LEMMA WorkerDiesInv == Inv /\ WorkerDies => Inv'
  BY RunMovesInv DEF WorkerDies, RunInv, sql

LEMMA LayoutInv == Inv /\ Layout => Inv'
<1> SUFFICES ASSUME Inv, Layout PROVE Inv'
  OBVIOUS
<1>1. Writing
  BY DEF Layout, Inv, RunInv, NoRun
<1>2. sheet' \in [Tabs -> [room : Nat, cells : Cells]]
      /\ \A t \in Tabs : sheet'[t].cells = sheet[t].cells
  <2>1. \A t \in Tabs : needed(t) \in Nat
    <3> TAKE t \in Tabs
    <3> DEFINE S == {rows[i.e].n : i \in of_tab(t)}
    <3>1. S \subseteq 0..Cardinality(Entities)
      <4> SUFFICES ASSUME NEW i \in run.items PROVE rows[i.e].n \in 0..Cardinality(Entities)
        BY DEF of_tab
      <4>1. i.e \in Entities
        BY <1>1 DEF Writing, Item
      <4>2. rows[i.e].n \in Nat /\ rows[i.e].n <= Cardinality(places(tab_of[i.e]))
        BY <4>1 DEF Inv, NumbersInv, TypesInv, Row
      <4> QED
        BY <4>2, SizesAreNatural
    <3> QED
      BY <3>1, MaxOfNumbers, SizesAreNatural, Zenon DEF needed
  <2>2. \A t \in Tabs : Max({NEW_TAB_ROWS, needed(t) + GROW_ROWS}) \in Nat
    <3> TAKE t \in Tabs
    <3> DEFINE n == needed(t) + GROW_ROWS
               S == {NEW_TAB_ROWS, n}
    <3>1. n \in Nat
      BY <2>1, RoomAssumption
    <3>2. S \subseteq 0..(NEW_TAB_ROWS + n) /\ S # {} /\ NEW_TAB_ROWS + n \in Nat
      BY <3>1, RoomAssumption
    <3>3. Max(S) \in S
      BY <3>2, MaxIsGreatest, Zenon
    <3>4. \A m \in S : m \in Nat
      BY <3>1, RoomAssumption
    <3> QED
      BY <3>3, <3>4, Zenon
  <2> DEFINE top(t) == Max({NEW_TAB_ROWS, needed(t) + GROW_ROWS})
  <2>3. \A t \in Tabs : top(t) \in Nat
    BY <2>2
  <2>4. layout_requests = [t \in Tabs |->
          IF t \in missing THEN [sheet[t] EXCEPT !.room = top(t)]
          ELSE IF sheet[t].room < needed(t) THEN [sheet[t] EXCEPT !.room = needed(t) + GROW_ROWS]
          ELSE sheet[t]]
    BY DEF layout_requests
  <2> HIDE DEF top
  <2>5. \A t \in Tabs : /\ layout_requests[t] \in [room : Nat, cells : Cells]
                        /\ layout_requests[t].cells = sheet[t].cells
    BY <2>1, <2>3, <2>4, RoomAssumption DEF Inv, TypesInv
  <2>6. layout_requests \in [Tabs -> [room : Nat, cells : Cells]]
    BY <2>4, <2>5
  <2>7. sheet' \in {sheet, layout_requests}
    BY DEF Layout
  <2> QED
    BY <2>5, <2>6, <2>7 DEF Inv, TypesInv
<1>3. layout_checked' \in BOOLEAN
  BY DEF Layout, Inv, TypesInv
<1>4. RunInv'
  <2>1. due_tabs \subseteq Tabs /\ missing \subseteq Tabs
    BY <1>1, TabsAssumption DEF due_tabs, missing, Writing, Item
  <2>2. run' = NoRun \/ Writing'
    BY <1>1, <2>1 DEF Layout, Writing, Item, planned
  <2> QED
    BY <2>2 DEF RunInv
<1>5. TypesInv'
  BY <1>2, <1>3 DEF Layout, sql, Inv, TypesInv, listed
<1> QED
  BY <1>2, <1>4, <1>5, NumbersStay DEF Layout, Inv

LEMMA WriteValuesInv ==
  ASSUME Inv, NEW t \in Tabs, write_values(t)
  PROVE  Inv'
<1>1. Writing
  BY DEF write_values, Inv, RunInv, NoRun
<1> DEFINE there(n) == {i \in of_tab(t) : rows[i.e].n = n}
           put(n) == (CHOOSE i \in there(n) : TRUE).cells
<1>2. ASSUME NEW n, there(n) # {}
      PROVE  /\ put(n) \in Words
             /\ put(n) # Blank => tab_of[put(n).of] = t /\ rows[put(n).of].n = n
  <2>1. PICK i \in there(n) : put(n) = i.cells
    BY <1>2, Zenon
  <2> HIDE DEF put
  <2>2. i \in run.items /\ tab_of[i.e] = t /\ rows[i.e].n = n
    BY <2>1 DEF of_tab
  <2> QED
    BY <1>1, <2>1, <2>2 DEF Writing, Item
<1>3. sheet[t].cells \in Cells
  BY DEF Inv, TypesInv
<1>4. DOMAIN sheet[t].cells = 1..Cardinality(Entities)
      /\ \A n \in 1..Cardinality(Entities) : sheet[t].cells[n] \in Words
  BY <1>3 DEF Cells, Words
<1>5. written(t) = [n \in 1..Cardinality(Entities) |->
                     IF there(n) = {} THEN sheet[t].cells[n] ELSE put(n)]
  BY <1>4, Zenon DEF written
<1> HIDE DEF put, there
<1>6. written(t) \in Cells
  BY <1>2, <1>4, <1>5 DEF Cells, Words
<1>7. ASSUME NEW n \in 1..Cardinality(Entities), written(t)[n] # Blank
      PROVE  tab_of[written(t)[n].of] = t /\ rows[written(t)[n].of].n = n
  <2>1. CASE there(n) = {}
    <3>1. written(t)[n] = sheet[t].cells[n] /\ n \in DOMAIN sheet[t].cells
      BY <1>4, <1>5, <2>1
    <3> QED
      BY <1>7, <3>1 DEF Inv, CellsInv
  <2>2. CASE there(n) # {}
    BY <1>2, <1>5, <1>7, <2>2
  <2> QED
    BY <2>1, <2>2
<1>8. DOMAIN written(t) = 1..Cardinality(Entities)
  BY <1>5
<1> DEFINE w == written(t)
<1> HIDE DEF w
<1>9. sheet' = sheet \/ sheet' = [sheet EXCEPT ![t].cells = w]
  BY DEF write_values, w
<1>10. sheet' \in [Tabs -> [room : Nat, cells : Cells]]
  BY <1>6, <1>9 DEF Inv, TypesInv, w
<1>11. TypesInv'
  BY <1>10 DEF write_values, sql, Inv, TypesInv, listed
<1>12. RunInv'
  <2>1. /\ run' \in [pc : {"layout", "write", "record"}, items : SUBSET Item,
                     todo : SUBSET Tabs, created : SUBSET Tabs, failed : SUBSET Tabs]
        /\ run'.items = run.items
    <3>1. run.todo \ {t} \in SUBSET Tabs /\ run.failed \union {t} \in SUBSET Tabs
      BY <1>1 DEF Writing
    <3>2. \/ run' = [run EXCEPT !.todo = run.todo \ {t}]
          \/ run' = [run EXCEPT !.todo = run.todo \ {t}, !.failed = run.failed \union {t}]
      BY DEF write_values
    <3> QED
      BY <1>1, <3>1, <3>2 DEF Writing
  <2>2. Writing'
    BY <1>1, <2>1 DEF write_values, Writing, planned
  <2> QED
    BY <2>2 DEF RunInv
<1>13. NumbersInv'
  BY DEF write_values, Inv, NumbersInv, places, in_tab, planned
<1>14. CellsInv'
  <2> SUFFICES ASSUME NEW u \in Tabs, NEW n \in DOMAIN sheet'[u].cells, sheet'[u].cells[n] # Blank
               PROVE  /\ tab_of[sheet'[u].cells[n].of] = u
                      /\ rows'[sheet'[u].cells[n].of].n = n
    BY DEF CellsInv
  <2>1. rows' = rows
    BY DEF write_values
  <2>2. CASE sheet'[u].cells = sheet[u].cells
    BY <2>1, <2>2 DEF Inv, CellsInv
  <2>3. CASE u = t /\ sheet'[u].cells = w
    BY <2>1, <2>3, <1>7, <1>8 DEF w
  <2> QED
    BY <1>9, <2>2, <2>3 DEF Inv, TypesInv
<1> QED
  BY <1>11, <1>12, <1>13, <1>14 DEF Inv

LEMMA RecordInv == Inv /\ _record => Inv'
<1> SUFFICES ASSUME Inv, _record PROVE Inv'
  OBVIOUS
<1>1. ASSUME NEW e \in Entities
      PROVE  /\ requeued(e, recorded(e)) \in Row
             /\ requeued(e, recorded(e)).n = rows[e].n
  <2>1. rows[e] \in Row
    BY DEF Inv, TypesInv
  <2>2. recorded(e) \in Row /\ recorded(e).n = rows[e].n
    <3> DEFINE mine == {i \in run.items : i.e = e /\ rows[e].state = i.state /\ rows[e].hash = i.hash}
               i == CHOOSE i \in mine : TRUE
               failed == tab_of[e] \in run.failed
               s == IF failed THEN (IF i.cells = Blank THEN "tombstone" ELSE "failed")
                    ELSE IF i.cells = Blank THEN "cleared" ELSE "synced"
    <3>1. recorded(e) \in {rows[e], [rows[e] EXCEPT !.state = s, !.waits = failed]}
      BY Zenon DEF recorded
    <3>2. s \in RowStates /\ failed \in BOOLEAN
      BY DEF RowStates, GONE
    <3> HIDE DEF s, failed
    <3>3. [rows[e] EXCEPT !.state = s, !.waits = failed] \in Row
          /\ [rows[e] EXCEPT !.state = s, !.waits = failed].n = rows[e].n
      BY <2>1, <3>2 DEF Row
    <3> QED
      BY <2>1, <3>1, <3>3
  <2> QED
    BY <2>2 DEF requeued, Row, RowStates, GONE
<1>2. rows' \in [Entities -> Row] /\ \A e \in Entities : rows'[e].n = rows[e].n
  BY <1>1 DEF _record, Inv, TypesInv
<1>3. TypesInv'
  BY <1>2 DEF _record, sql, Inv, TypesInv, listed
<1>4. RunInv'
  BY DEF _record, RunInv
<1> QED
  BY <1>2, <1>3, <1>4, NumbersStay DEF _record, Inv

(* Plan is the only step that gives numbers out.  A rendered entity        *)
(* without one gets one above all of its tab's, by its place among the     *)
(* rendered ones.                                                          *)
new(t) == {d \in DOMAIN run.built : tab_of[d] = t /\ run.existing[d].n = 0}
upto(t, e) == {d \in new(t) : d <= e}

LEMMA NewNumbers ==
  ASSUME Inv, Rendered, Reading, NEW e \in Entities
  PROVE  LET t == tab_of[e]
             m == next_row(run.existing, t)
             k == Cardinality(upto(t, e))
         IN  /\ e \in new(t) => _plan_rows(e).n = m + k
             /\ e \notin new(t) => _plan_rows(e).n = rows[e].n
             /\ _plan_rows(e) \in Row
             /\ m \in Nat /\ m <= Cardinality(places(t))
             /\ \A d \in in_tab(t) : rows[d].n <= m
<1> DEFINE t == tab_of[e]
           m == next_row(run.existing, t)
           k == Cardinality(upto(t, e))
           S == {run.existing[d].n : d \in in_tab(t)}
<1>1. new(t) \subseteq Entities /\ upto(t, e) \in SUBSET Entities
  BY DEF new, upto, Rendered
<1>2. k \in Nat
  BY <1>1, EntitiesAssumption, FS_Subset, FS_CardinalityType
<1>3. S \subseteq 0..Cardinality(places(t))
  <2> SUFFICES ASSUME NEW d \in in_tab(t)
               PROVE  run.existing[d].n \in 0..Cardinality(places(t))
    OBVIOUS
  <2>1. d \in Entities /\ tab_of[d] = t
    BY DEF in_tab
  <2> QED
    BY <2>1, SizesAreNatural DEF Reading, Inv, TypesInv, NumbersInv, Row
<1>4. m \in Nat /\ m <= Cardinality(places(t)) /\ \A y \in S : y <= m
  BY <1>3, SizesAreNatural, MaxOfNumbers, Zenon DEF next_row
<1>5. \A d \in in_tab(t) : rows[d].n <= m
  BY <1>4 DEF Reading, in_tab
<1> HIDE DEF m, k, S
<1>6. rows[e] \in Row /\ run.existing[e] \in Row /\ run.existing[e].n = rows[e].n
  BY DEF Inv, TypesInv, Reading
<1>7. e \in new(t) <=> e \in DOMAIN run.built /\ run.existing[e].n = 0
  BY DEF new
<1>8. e \in DOMAIN run.built => run.built[e] \in 0..MaxVersion
  BY WorldsAssumption DEF Rendered
<1>9. CASE e \in new(t)
  <2>1. _plan_rows(e) = [n |-> m + k, state |-> "pending", hash |-> run.built[e], waits |-> FALSE]
    BY <1>7, <1>9 DEF _plan_rows, m, k, upto, new
  <2> QED
    BY <1>2, <1>4, <1>5, <1>7, <1>8, <1>9, <2>1 DEF Row, RowStates, m, k
<1>10. CASE e \notin new(t)
  <2>1. _plan_rows(e) \in Row /\ _plan_rows(e).n = rows[e].n
    <3> DEFINE old == run.existing[e]
               wakes == old.state \in GONE
               changed == old.hash # run.built[e]
               s == IF wakes \/ (changed /\ old.state # "failed") THEN "pending" ELSE rows[e].state
               h == IF changed THEN run.built[e] ELSE rows[e].hash
               w == ~wakes /\ rows[e].waits
    <3>1. _plan_rows(e) \in {[rows[e] EXCEPT !.state = s, !.waits = w, !.hash = h],
                             tombstone(rows[e]), rows[e]}
          /\ (e \notin DOMAIN run.built => _plan_rows(e) \in {tombstone(rows[e]), rows[e]})
      BY <1>7, <1>10, Zenon DEF _plan_rows
    <3>2. tombstone(rows[e]) \in Row /\ tombstone(rows[e]).n = rows[e].n
      BY <1>6, TombstoneIsARow
    <3>3. CASE e \in DOMAIN run.built
      <4>1. s \in RowStates /\ h \in 0..MaxVersion /\ w \in BOOLEAN
        BY <1>6, <1>8, <3>3 DEF Row, RowStates
      <4> HIDE DEF s, h, w
      <4>2. [rows[e] EXCEPT !.state = s, !.waits = w, !.hash = h] \in Row
            /\ [rows[e] EXCEPT !.state = s, !.waits = w, !.hash = h].n = rows[e].n
        BY <1>6, <4>1 DEF Row
      <4> QED
        BY <1>6, <3>1, <3>2, <4>2
    <3> QED
      BY <1>6, <3>1, <3>2, <3>3
  <2> QED
    BY <1>4, <1>5, <1>10, <2>1 DEF m
<1> QED
  BY <1>9, <1>10

(* Of two new entities of a tab the later one has more before it.          *)
LEMMA LaterIsHigher ==
  ASSUME Rendered, NEW t, NEW d \in new(t), NEW e \in new(t), d < e
  PROVE  /\ Cardinality(upto(t, d)) \in Nat /\ Cardinality(upto(t, e)) \in Nat
         /\ Cardinality(upto(t, d)) < Cardinality(upto(t, e))
<1>1. new(t) \subseteq Nat /\ upto(t, e) \in SUBSET Entities
  BY EntitiesAssumption DEF new, upto, Rendered
<1>2. upto(t, d) \in SUBSET upto(t, e) /\ e \in upto(t, e) /\ e \notin upto(t, d)
  BY <1>1 DEF upto
<1>3. IsFiniteSet(upto(t, e))
  BY <1>1, EntitiesAssumption, FS_Subset
<1> QED
  BY <1>2, <1>3, FS_Subset, FS_CardinalityType

LEMMA PlannedNumbers ==
  ASSUME Inv, Rendered, Reading, rows' = [e \in Entities |-> _plan_rows(e)]
  PROVE  /\ rows' \in [Entities -> Row]
         /\ \A e \in Entities : planned(e) => rows'[e].n = rows[e].n
         /\ NumbersInv'
<1> DEFINE m(t) == next_row(run.existing, t)
           k(e) == Cardinality(upto(tab_of[e], e))
<1>1. \A e \in Entities : e \in new(tab_of[e]) => rows[e].n = 0
  BY DEF new, Reading
<1>2. \A e \in Entities :
        /\ e \in new(tab_of[e]) => rows'[e].n = m(tab_of[e]) + k(e)
        /\ e \notin new(tab_of[e]) => rows'[e].n = rows[e].n
        /\ rows'[e] \in Row
        /\ m(tab_of[e]) \in Nat /\ m(tab_of[e]) <= Cardinality(places(tab_of[e]))
        /\ \A d \in in_tab(tab_of[e]) : rows[d].n <= m(tab_of[e])
  BY NewNumbers
<1> HIDE DEF m, k
<1>3. \A e \in Entities : k(e) \in Nat /\ k(e) <= Cardinality(new(tab_of[e]))
                           /\ (e \in new(tab_of[e]) => k(e) # 0)
  <2> TAKE e \in Entities
  <2>1. new(tab_of[e]) \in SUBSET Entities /\ upto(tab_of[e], e) \in SUBSET new(tab_of[e])
    BY DEF new, upto, Rendered
  <2>2. IsFiniteSet(new(tab_of[e])) /\ IsFiniteSet(upto(tab_of[e], e))
    BY <2>1, EntitiesAssumption, FS_Subset
  <2>3. e \in new(tab_of[e]) => upto(tab_of[e], e) # {}
    BY EntitiesAssumption DEF upto
  <2> QED
    BY <2>1, <2>2, <2>3, FS_Subset, FS_CardinalityType, FS_EmptySet DEF k
<1>4. ASSUME NEW d \in Entities, NEW e \in Entities, tab_of[d] = tab_of[e], d < e,
             d \in new(tab_of[e]), e \in new(tab_of[e])
      PROVE  k(d) < k(e)
  BY <1>4, LaterIsHigher DEF k
<1>5. \A e \in Entities : rows[e] \in Row
  BY DEF Inv, TypesInv
<1>6. \A e \in Entities : rows'[e].n <= Cardinality(places(tab_of[e])')
  <2> TAKE e \in Entities
  <2> DEFINE old == places(tab_of[e])
             add == new(tab_of[e])
             both == places(tab_of[e])'
  <2>1. old \in SUBSET Entities /\ add \in SUBSET Entities /\ both \in SUBSET Entities
    BY DEF places, in_tab, new, Rendered
  <2>2. IsFiniteSet(old) /\ IsFiniteSet(add) /\ IsFiniteSet(both)
    BY <2>1, EntitiesAssumption, FS_Subset
  <2>3. old \intersect add = {}
    BY <1>1 DEF places, new, planned, in_tab
  <2>4. old \union add \in SUBSET both
    <3>1. ASSUME NEW d \in add PROVE d \in both
      <4>1. d \in Entities /\ tab_of[d] = tab_of[e]
        BY <2>1 DEF new
      <4>2. rows'[d].n = m(tab_of[e]) + k(d) /\ m(tab_of[e]) \in Nat /\ k(d) \in Nat /\ k(d) # 0
        BY <1>2, <1>3, <4>1
      <4> QED
        BY <4>1, <4>2 DEF places, in_tab, planned
    <3>2. ASSUME NEW d \in old PROVE d \in both
      BY <1>1, <1>2 DEF places, in_tab, planned
    <3> QED
      BY <3>1, <3>2
  <2>5. Cardinality(old) + Cardinality(add) <= Cardinality(both)
    <3>1. Cardinality(old \union add) = Cardinality(old) + Cardinality(add) - Cardinality({})
      BY <2>2, <2>3, FS_Union
    <3>2. Cardinality(old \union add) <= Cardinality(both)
      BY <2>2, <2>4, FS_Subset
    <3> QED
      BY <2>2, <3>1, <3>2, FS_EmptySet, FS_CardinalityType
  <2>6. Cardinality(old) \in Nat /\ Cardinality(add) \in Nat /\ Cardinality(both) \in Nat
    BY <2>2, FS_CardinalityType
  <2>7. rows[e].n <= Cardinality(old)
    BY DEF Inv, NumbersInv
  <2> HIDE DEF old, add, both
  <2>8. rows[e].n \in Nat
    BY <1>5 DEF Row
  <2>9. m(tab_of[e]) \in Nat /\ m(tab_of[e]) <= Cardinality(old) /\ k(e) \in Nat /\ k(e) <= Cardinality(add)
    BY <1>2, <1>3 DEF old, add
  <2> QED
    BY <1>2, <2>5, <2>6, <2>7, <2>8, <2>9 DEF both
<1>7. ASSUME NEW d \in Entities, NEW e \in Entities, rows'[d].n # 0,
             tab_of[d] = tab_of[e], rows'[d].n = rows'[e].n
      PROVE  d = e
  <2> DEFINE t == tab_of[e]
  <2>1. m(t) \in Nat /\ k(d) \in Nat /\ k(e) \in Nat /\ rows[d].n \in Nat /\ rows[e].n \in Nat
    BY <1>2, <1>3, <1>5 DEF Row
  <2>2. rows[d].n <= m(t) /\ rows[e].n <= m(t)
    BY <1>2, <1>7 DEF in_tab
  <2>3. CASE d \in new(t) /\ e \in new(t)
    <3>1. k(d) = k(e)
      BY <1>2, <1>7, <2>1, <2>3
    <3>2. ~ (d < e) /\ ~ (e < d)
      BY <1>4, <1>7, <2>1, <2>3, <3>1
    <3> QED
      BY <3>2, EntitiesAssumption
  <2>4. CASE d \in new(t) /\ e \notin new(t)
    BY <1>2, <1>3, <1>7, <2>1, <2>2, <2>4
  <2>5. CASE d \notin new(t) /\ e \in new(t)
    BY <1>2, <1>3, <1>7, <2>1, <2>2, <2>5
  <2>6. CASE d \notin new(t) /\ e \notin new(t)
    BY <1>2, <1>7, <2>6 DEF Inv, NumbersInv, planned
  <2> QED
    BY <2>3, <2>4, <2>5, <2>6
<1>8. rows' \in [Entities -> Row]
  BY <1>2
<1>9. \A e \in Entities : planned(e) => rows'[e].n = rows[e].n
  BY <1>1, <1>2 DEF planned
<1>10. NumbersInv'
  BY <1>6, <1>7 DEF NumbersInv, planned
<1> QED
  BY <1>8, <1>9, <1>10

LEMMA PlanInv == Inv /\ Plan => Inv'
<1> SUFFICES ASSUME Inv, Plan PROVE Inv'
  OBVIOUS
<1>1. Rendered /\ Reading
  BY DEF Plan, Inv, RunInv, NoRun, Writing
<1> DEFINE after == [e \in Entities |-> _plan_rows(e)]
<1>2. CASE run' = NoRun /\ rows' = rows
  <2>1. RunInv'
    BY <1>2 DEF RunInv
  <2> QED
    BY <1>2, <2>1, RunMovesInv DEF Plan, sql, Inv, TypesInv
<1>3. CASE /\ rows' = after
           /\ run' = [pc |-> "layout", items |-> {Planned(e, after[e]) : e \in _due(after)},
                      todo |-> {}, created |-> {}, failed |-> {}]
  <2>1. /\ rows' \in [Entities -> Row]
        /\ \A e \in Entities : planned(e) => rows'[e].n = rows[e].n
        /\ NumbersInv'
    BY <1>1, <1>3, PlannedNumbers
  <2>2. TypesInv'
    BY <2>1 DEF Plan, sql, Inv, TypesInv, listed
  <2>3. ASSUME NEW e \in _due(rows')
        PROVE  LET i == Planned(e, rows'[e]) IN
               i \in Item /\ rows'[i.e].n # 0 /\ (i.cells # Blank => i.cells.of = i.e)
    <3>1. e \in Entities /\ rows'[e].n # 0 /\ (rows'[e].state = "tombstone" \/ e \in DOMAIN run.built)
      BY DEF _due
    <3>2. rows'[e].state \in RowStates /\ rows'[e].hash \in 0..MaxVersion
      BY <2>1, <3>1 DEF Row
    <3>3. CASE rows'[e].state = "tombstone"
      BY <3>1, <3>2, <3>3 DEF Planned, Item, Words
    <3>4. CASE rows'[e].state # "tombstone"
      BY <1>1, <3>1, <3>2, <3>4 DEF Planned, Item, Words, Rendered
    <3> QED
      BY <3>3, <3>4
  <2>4. run' = [pc |-> "layout", items |-> {Planned(e, rows'[e]) : e \in _due(rows')},
                todo |-> {}, created |-> {}, failed |-> {}]
    BY <1>3
  <2>5. Writing'
    BY <2>3, <2>4 DEF Writing, planned
  <2>6. CellsInv'
    <3> SUFFICES ASSUME NEW t \in Tabs, NEW n \in DOMAIN sheet[t].cells, sheet[t].cells[n] # Blank
                 PROVE  /\ tab_of[sheet[t].cells[n].of] = t
                        /\ rows'[sheet[t].cells[n].of].n = n
      BY DEF Plan, CellsInv
    <3>1. sheet[t].cells \in Cells
      BY DEF Inv, TypesInv
    <3>2. sheet[t].cells[n] \in {Blank} \union [of : Entities, ver : 1..MaxVersion]
          /\ n \in 1..Cardinality(Entities)
      BY <3>1 DEF Cells
    <3>3. sheet[t].cells[n].of \in Entities
      BY <3>2
    <3>4. tab_of[sheet[t].cells[n].of] = t /\ rows[sheet[t].cells[n].of].n = n
      BY DEF Inv, CellsInv
    <3> QED
      BY <2>1, <3>2, <3>3, <3>4 DEF planned
  <2> QED
    BY <2>1, <2>2, <2>5, <2>6 DEF Inv, RunInv
<1> QED
  BY <1>2, <1>3, Zenon DEF Plan

LEMMA NextInv == Inv /\ [Next]_vars => Inv'
<1> SUFFICES ASSUME Inv, [Next]_vars PROVE Inv'
  OBVIOUS
<1>1. CASE Job
  BY <1>1, BuildInv, LookInv, PlanInv, LayoutInv, WriteValuesInv, RecordInv DEF Job
<1>2. CASE Others
  BY <1>2, SqlInv, PurgeInv, ResyncInv, DeletedTabInv, WorkerDiesInv DEF Others
<1>3. ASSUME NEW e \in Entities, BackoffElapses(e) PROVE Inv'
  BY <1>3, BackoffInv
<1>4. CASE UNCHANGED vars
  BY <1>4, RunMovesInv DEF vars, Inv, TypesInv, RunInv, Rendered, Reading, Writing, planned
<1> QED
  BY <1>1, <1>2, <1>3, <1>4 DEF Next

-----------------------------------------------------------------------------
(* The theorems *)

THEOREM Invariance == Spec => []Inv
<1>1. QED
  BY InitInv, NextInv, PTL DEF Spec

(* The variables keep their types, and no tab is given more rows than      *)
(* there are entities.                                                     *)
THEOREM TypeCorrectness == Spec => []TypeOK
<1>1. Inv => TypeOK
  <2> SUFFICES ASSUME Inv PROVE TypeOK
    OBVIOUS
  <2>1. \A e \in Entities : rows[e] \in Row /\ rows[e].n <= Cardinality(Entities)
    BY SizesAreNatural DEF Inv, TypesInv, NumbersInv, Row
  <2>2. \A e \in Entities : rows[e] \in [n : 0..Cardinality(Entities), state : RowStates,
                                       hash : 0..MaxVersion, waits : BOOLEAN]
    BY <2>1, SizesAreNatural DEF Row
  <2>3. rows \in [Entities -> [n : 0..Cardinality(Entities), state : RowStates,
                              hash : 0..MaxVersion, waits : BOOLEAN]]
    BY <2>2 DEF Inv, TypesInv
  <2> QED
    BY <2>3 DEF Inv, TypesInv, TypeOK, RowStates
<1> QED
  BY <1>1, Invariance, PTL

(* _plan_rows: no two entities of a tab have one row, and what stands in a *)
(* row are the words of the entity the row was given to.                   *)
THEOREM RowsAreApart == Spec => []OneEntityPerSheetRow
<1>1. Inv => OneEntityPerSheetRow
  BY DEF Inv, NumbersInv, CellsInv, OneEntityPerSheetRow
<1> QED
  BY <1>1, Invariance, PTL
=============================================================================
