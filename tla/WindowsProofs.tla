---------------------------- MODULE WindowsProofs ----------------------------
(***************************************************************************)
(* Theorems about windows and batches, for any messages, windows, edits,   *)
(* purges, deaths and answers of the models.                               *)
(***************************************************************************)
EXTENDS Windows, FiniteSetTheorems, SequenceTheorems, WellFoundedInduction, TLAPS

-----------------------------------------------------------------------------
(* Types. *)

WordRecords == [row : Nat, edits : Nat, heard : BOOLEAN]
RowRecords ==
  [kind : Kinds \cup {"window"}, at : Nat, alive : BOOLEAN, text : SUBSET WordRecords,
   edits : Nat, heard : BOOLEAN, media : {"none", "pending", "processed"}, to_me : BOOLEAN,
   window : Nat, processed : BOOLEAN, edited_after_extraction : BOOLEAN,
   needs_review : BOOLEAN, extracted : Nat]
WindowRecords ==
  [alive : BOOLEAN, status : {"pending", "submitted", "applied", "failed"},
   text : SUBSET WordRecords, made : Nat, ended : Nat, instant : BOOLEAN, batch : Nat,
   attempts : Nat, read : SUBSET WordRecords, asked : SUBSET WordRecords, calls : Int]

IsLooking(l) == l = [ids |-> l.ids, seen |-> l.seen, at |-> l.at]

TypesInv ==
  /\ now \in Nat
  /\ rows \in Seq(RowRecords)
  /\ windows \in Seq(WindowRecords)
  /\ IsLooking(looking)
  /\ looking.ids \in Seq(Nat) /\ looking.at \in Nat

(* What the window job still has to ask about, and what the submit job     *)
(* sends, is waiting, each window on its own path and once.                *)
Waiting(w, instant) ==
  /\ w \in DOMAIN windows
  /\ windows[w].alive => windows[w].status = "pending" /\ windows[w].instant = instant

JobsInv ==
  /\ \A k \in DOMAIN looking.ids : /\ Waiting(looking.ids[k], TRUE)
                                   /\ looking.ids[k] # looking.at
  /\ \A j, k \in DOMAIN looking.ids : looking.ids[j] = looking.ids[k] => j = k
  /\ looking.at # none => /\ Waiting(looking.at, TRUE)
                          /\ windows[looking.at].alive => looking.at \in DOMAIN looking.seen
  /\ \A w \in sending.ids : Waiting(w, FALSE)

(* A row that is there is in a window that is there; until the window is   *)
(* applied nothing was made of it, and a failed one is up for review.  No  *)
(* row that a window ended in has media to come.                           *)
Open == {"pending", "submitted"}
Reviewed(w) ==
  \E j \in DOMAIN rows : /\ rows[j].alive /\ rows[j].kind = "window" /\ rows[j].window = w
                         /\ rows[j].needs_review

RowsInv ==
  /\ \A i \in DOMAIN rows :
       LET r == rows[i]
       IN  /\ r.kind = "window" => r.media = "none"
           /\ r.window # none => /\ r.alive
                                 /\ r.window \in DOMAIN windows
                                 /\ windows[r.window].alive
           /\ r.window # none /\ windows[r.window].status \in Open => ~r.processed
           /\ r.window # none /\ windows[r.window].status = "applied" /\ r.kind # "window"
                => r.processed
           /\ r.extracted <= 1 /\ (r.extracted = 1 => r.processed)
           /\ r.kind # "window" /\ r.processed => r.extracted = 1
  /\ \A w \in DOMAIN windows : windows[w].alive /\ windows[w].status = "failed" => Reviewed(w)

(* Words are of rows that nobody purged; those of a voice not heard were   *)
(* taken when there was nothing to hear, or after the cutoff.              *)
Waited(R, i, moment) ==
  R[i].alive /\ (R[i].media = "pending" \/ R[i].heard) => moment >= R[i].at + MEDIA_CUTOFF
Good(R, gone, text, moment) ==
  \A v \in text : /\ v.row \in DOMAIN R /\ v.row \notin gone
                  /\ ~v.heard => Waited(R, v.row, moment)
GoodNow(text, moment) == Good(rows, forgotten, text, moment)

WordsInv ==
  /\ forgotten \subseteq DOMAIN rows /\ \A i \in forgotten : ~rows[i].alive
  /\ \A w \in DOMAIN windows : windows[w].alive =>
       /\ windows[w].made <= now
       /\ GoodNow(windows[w].text, windows[w].made)
       /\ GoodNow(windows[w].asked, windows[w].made)
       /\ GoodNow(windows[w].read, windows[w].made)
       /\ w \in DOMAIN looking.seen => looking.seen[w] \subseteq WordRecords
                                       /\ GoodNow(looking.seen[w], windows[w].made)
       /\ w \in sending.ids => sending.seen[w] \subseteq WordRecords
                               /\ GoodNow(sending.seen[w], windows[w].made)
  /\ \A j \in DOMAIN rows : rows[j].alive =>
       /\ rows[j].kind = "window" => GoodNow(rows[j].text, now)
       /\ rows[j].media = "pending" /\ rows[j].window # none
            => windows[rows[j].window].made >= rows[j].at + MEDIA_CUTOFF

(* What a window was asked for and not answered with something of no use,  *)
(* and what is still to be charged to it: a batch being sent of which one  *)
(* window is gone will run for nobody.                                     *)
Spendings == [{"edit", "purge", "mishap"} -> Nat]
Out(w) == IF looking.at = w \/ windows[w].status \in {"submitted", "applied"} THEN 1 ELSE 0
Wasted(w) == IF w \in sending.ids /\ \E v \in sending.ids : ~windows[v].alive THEN 1 ELSE 0
PaidInv ==
  /\ spent \in Spendings
  /\ \A w \in DOMAIN windows :
       windows[w].alive => windows[w].calls + Wasted(w) <= mishaps + Out(w)

Inv == TypesInv /\ JobsInv /\ RowsInv /\ PaidInv /\ WordsInv

-----------------------------------------------------------------------------
(* The lists of a set. *)

(* A finite set that some relation puts in order has a list in that order: *)
(* the place of a member is the number of those up to it.                  *)
LEMMA OrderedListing ==
  ASSUME NEW S, IsFiniteSet(S), NEW R,
         \A x, y \in S : x # y => <<x, y>> \in R \/ <<y, x>> \in R,
         \A x, y \in S : <<x, y>> \in R => x # y,
         \A x, y, z \in S : <<x, y>> \in R /\ <<y, z>> \in R => <<x, z>> \in R
  PROVE  \E s \in listings(S) : \A j, k \in DOMAIN s : j < k => <<s[j], s[k]>> \in R
<1> DEFINE n == Cardinality(S)
           upto(x) == {y \in S : y = x \/ <<y, x>> \in R}
           place == [x \in S |-> Cardinality(upto(x))]
<1>1. n \in Nat /\ IsFiniteSet(1..n) /\ Cardinality(1..n) = n
  BY FS_CardinalityType, FS_Interval
<1>2. \A x \in S : place[x] \in 1..n
  <2> TAKE x \in S
  <2>1. upto(x) \in SUBSET S /\ x \in upto(x)
    OBVIOUS
  <2>2. IsFiniteSet(upto(x)) /\ Cardinality(upto(x)) <= n
    BY <2>1, FS_Subset
  <2>3. Cardinality(upto(x)) \in Nat /\ Cardinality(upto(x)) # 0
    BY <2>1, <2>2, FS_EmptySet, FS_CardinalityType
  <2> QED
    BY <1>1, <2>2, <2>3
<1>3. ASSUME NEW x \in S, NEW y \in S, <<x, y>> \in R
      PROVE  place[x] < place[y]
  <2>1. upto(y) \in SUBSET S
    OBVIOUS
  <2>2. IsFiniteSet(upto(y))
    BY <2>1, FS_Subset
  <2>3. upto(x) \in SUBSET upto(y)
    BY <1>3
  <2>4. y \in upto(y) /\ y \notin upto(x)
    BY <1>3
  <2>5. Cardinality(upto(x)) <= Cardinality(upto(y)) /\ Cardinality(upto(x)) # Cardinality(upto(y))
    BY <2>2, <2>3, <2>4, FS_Subset
  <2> QED
    BY <1>2, <2>5
<1>4. place \in Injection(S, 1..n)
  <2>1. place \in [S -> 1..n]
    BY <1>2
  <2>2. \A x, y \in S : place[x] = place[y] => x = y
    <3> HIDE DEF place
    <3> SUFFICES ASSUME NEW x \in S, NEW y \in S, x # y PROVE place[x] # place[y]
      OBVIOUS
    <3>1. place[x] \in Nat /\ place[y] \in Nat
      BY <1>1, <1>2
    <3>2. place[x] < place[y] \/ place[y] < place[x]
      BY <1>3
    <3> QED
      BY <3>1, <3>2
  <2> QED
    BY <2>1, <2>2 DEF Injection, IsInjective
<1>5. place \in Surjection(S, 1..n)
  BY <1>1, <1>4, FS_Injection
<1>6. \A k \in 1..n : \E x \in S : place[x] = k
  BY <1>5 DEF Surjection
<1> DEFINE s == [k \in 1..n |-> CHOOSE x \in S : place[x] = k]
<1> HIDE DEF place
<1>7. \A k \in 1..n : s[k] \in S /\ place[s[k]] = k
  BY <1>6
<1>8. s \in listings(S)
  BY <1>7 DEF listings
<1>9. ASSUME NEW j \in 1..n, NEW k \in 1..n, j < k
      PROVE  <<s[j], s[k]>> \in R
  <2>1. s[j] \in S /\ s[k] \in S /\ place[s[j]] = j /\ place[s[k]] = k
    BY <1>7
  <2>2. s[j] # s[k] /\ ~(<<s[k], s[j]>> \in R)
    BY <1>3, <1>9, <1>1, <2>1
  <2> QED
    BY <2>1, <2>2
<1> QED
  BY <1>8, <1>9

(* A list that repeats nothing has every member once.                      *)
LEMMA ListingIsWhole ==
  ASSUME NEW S, IsFiniteSet(S), NEW s \in listings(S),
         \A j, k \in DOMAIN s : j < k => s[j] # s[k]
  PROVE  /\ s \in Seq(S) /\ DOMAIN s = 1..Cardinality(S) /\ Len(s) = Cardinality(S)
         /\ \A x \in S : \E k \in DOMAIN s : s[k] = x
         /\ \A j, k \in DOMAIN s : s[j] = s[k] => j = k
<1> DEFINE n == Cardinality(S)
<1>1. n \in Nat /\ IsFiniteSet(1..n) /\ Cardinality(1..n) = n
  BY FS_CardinalityType, FS_Interval
<1>2. s \in [1..n -> S] /\ DOMAIN s = 1..n
  BY DEF listings
<1>3. s \in Seq(S) /\ Len(s) = n
  BY <1>1, <1>2
<1>4. \A j, k \in 1..n : s[j] = s[k] => j = k
  BY <1>1, <1>2
<1>5. s \in Injection(1..n, S)
  BY <1>2, <1>4 DEF Injection, IsInjective
<1>6. s \in Surjection(1..n, S)
  BY <1>1, <1>5, FS_Injection
<1> QED
  BY <1>2, <1>3, <1>4, <1>6 DEF Surjection

LEMMA ById ==
  ASSUME NEW S, IsFiniteSet(S), S \subseteq Nat
  PROVE  /\ by_id(S) \in Seq(S)
         /\ \A x \in S : \E k \in DOMAIN by_id(S) : by_id(S)[k] = x
         /\ \A j, k \in DOMAIN by_id(S) : by_id(S)[j] = by_id(S)[k] => j = k
<1> DEFINE R == {p \in S \X S : p[1] < p[2]}
<1>1. \E s \in listings(S) : \A j, k \in DOMAIN s : j < k => <<s[j], s[k]>> \in R
  <2> HIDE DEF R
  <2>1. \A x, y \in S : <<x, y>> \in R <=> x < y
    BY DEF R
  <2>2. \A x, y \in S : x # y => <<x, y>> \in R \/ <<y, x>> \in R
    BY <2>1
  <2>3. \A x, y \in S : <<x, y>> \in R => x # y
    BY <2>1
  <2>4. \A x, y, z \in S : <<x, y>> \in R /\ <<y, z>> \in R => <<x, z>> \in R
    BY <2>1
  <2> QED
    BY <2>2, <2>3, <2>4, OrderedListing
<1>2. \E s \in listings(S) : \A j, k \in DOMAIN s : j < k => s[j] < s[k]
  BY <1>1
<1>3. /\ by_id(S) \in listings(S)
      /\ \A j, k \in DOMAIN by_id(S) : j < k => by_id(S)[j] < by_id(S)[k]
  BY <1>2 DEF by_id
<1>4. \A j \in DOMAIN by_id(S) : by_id(S)[j] \in Nat
  BY <1>3 DEF listings
<1> QED
  BY <1>3, <1>4, ListingIsWhole

LEMMA ByTime ==
  ASSUME TypesInv, NEW S, S \subseteq DOMAIN rows
  PROVE  by_time(S) \in Seq(S)
<1> DEFINE R == {p \in S \X S : earlier(p[1], p[2])}
<1>1. IsFiniteSet(S) /\ S \subseteq Nat /\ \A i \in S : rows[i].at \in Nat
  <2>1. DOMAIN rows = 1..Len(rows) /\ Len(rows) \in Nat /\ \A i \in DOMAIN rows : rows[i] \in RowRecords
    BY DEF TypesInv
  <2>2. IsFiniteSet(DOMAIN rows)
    BY <2>1, FS_Interval
  <2> QED
    BY <2>1, <2>2, FS_Subset DEF RowRecords
<1>2. \E s \in listings(S) : \A j, k \in DOMAIN s : j < k => <<s[j], s[k]>> \in R
  <2> HIDE DEF R
  <2>1. \A x, y \in S : <<x, y>> \in R <=> earlier(x, y)
    BY DEF R
  <2>2. \A x, y \in S : x # y => <<x, y>> \in R \/ <<y, x>> \in R
    BY <1>1, <2>1 DEF earlier
  <2>3. \A x, y \in S : <<x, y>> \in R => x # y
    BY <1>1, <2>1 DEF earlier
  <2>4. \A x, y, z \in S : <<x, y>> \in R /\ <<y, z>> \in R => <<x, z>> \in R
    BY <1>1, <2>1 DEF earlier
  <2> QED
    BY <1>1, <2>2, <2>3, <2>4, OrderedListing
<1>3. \E s \in listings(S) : \A j, k \in DOMAIN s : j < k => earlier(s[j], s[k])
  BY <1>2
<1>4. /\ by_time(S) \in listings(S)
      /\ \A j, k \in DOMAIN by_time(S) : j < k => earlier(by_time(S)[j], by_time(S)[k])
  BY <1>3 DEF by_time
<1>5. \A j, k \in DOMAIN by_time(S) : j < k => by_time(S)[j] # by_time(S)[k]
  BY <1>1, <1>4 DEF earlier, listings
<1> QED
  BY <1>1, <1>4, <1>5, ListingIsWhole

-----------------------------------------------------------------------------
(* The runs a backlog is cut into. *)

(* What the loop of flush_ready_windows is, once its steps are known.      *)
Cut(f, n, step, piece) ==
  f = [k \in 1..(n + 1) |-> IF step[k] = 0 THEN <<>> ELSE <<piece[k]>> \o f[k + step[k]]]

CutOf(n, step, piece, P) ==
  /\ n \in Nat /\ step \in [1..(n + 1) -> Nat]
  /\ \A k \in 1..(n + 1) : k + step[k] <= n + 1 /\ (step[k] # 0 => piece[k] \in P)

LEMMA LeastOf ==
  ASSUME NEW S, S \subseteq Nat, S # {}
  PROVE  \E x \in S : \A y \in S : x <= y
<1>1. PICK x \in S : \A y \in S : ~ (<<y, x>> \in OpToRel(<, Nat))
  BY NatLessThanWellFounded, WFMin
<1>2. \A y \in S : y < x => <<y, x>> \in OpToRel(<, Nat)
  BY Zenon DEF OpToRel
<1>3. \A y \in S : ~ (y < x)
  BY <1>1, <1>2, Zenon
<1> QED
  BY <1>3

LEMMA MinIsLeast ==
  ASSUME NEW S, S \subseteq Nat, S # {}
  PROVE  Min(S) \in S /\ \A y \in S : Min(S) <= y
  BY LeastOf DEF Min

(* The recursion ends: it is defined from the end of the backlog on, and   *)
(* there is no last place where it is not.                                 *)
LEMMA CutExists ==
  ASSUME NEW n, NEW step, NEW piece, NEW P, CutOf(n, step, piece, P)
  PROVE  \E f : Cut(f, n, step, piece)
<1> USE DEF CutOf
<1> DEFINE Value(g, k) == IF step[k] = 0 THEN <<>> ELSE <<piece[k]>> \o g[k + step[k]]
           Part(m, g) == g \in [m..(n + 1) -> Seq(P)] /\ \A k \in m..(n + 1) : g[k] = Value(g, k)
           Bad == {d \in 0..n : ~ \E g : Part(n + 1 - d, g)}
<1>1. ASSUME Bad # {} PROVE FALSE
  <2>1. PICK d \in Bad : \A e \in Bad : d <= e
    <3>1. Bad \subseteq Nat
      OBVIOUS
    <3> HIDE DEF Bad
    <3> QED
      BY <1>1, <3>1, LeastOf
  <2>2. d \in 0..n /\ n + 1 - d \in 1..(n + 1)
    OBVIOUS
  <2>3. CASE d = 0
    <3> DEFINE g == [k \in (n + 1)..(n + 1) |-> <<>>]
    <3>1. step[n + 1] = 0
      OBVIOUS
    <3>2. g \in [(n + 1)..(n + 1) -> Seq(P)]
      OBVIOUS
    <3>3. \A k \in (n + 1)..(n + 1) : g[k] = Value(g, k)
      BY <3>1
    <3>4. Part(n + 1 - d, g)
      BY <2>3, <3>2, <3>3
    <3> QED
      BY <3>4
  <2>4. CASE d # 0
    <3> DEFINE m == n + 1 - d
    <3>1. d - 1 \in 0..n /\ d - 1 \notin Bad
      <4>1. d - 1 \in 0..n /\ ~(d <= d - 1)
        BY <2>2, <2>4
      <4> HIDE DEF Bad
      <4> QED
        BY <2>1, <4>1
    <3>2. PICK g : Part(m + 1, g)
      <4>1. n + 1 - (d - 1) = m + 1
        BY <2>2
      <4> QED
        BY <3>1, <4>1
    <3> DEFINE h == [k \in m..(n + 1) |-> IF k = m THEN Value(g, m) ELSE g[k]]
    <3>3. m \in 1..(n + 1) /\ \A k \in m..(n + 1) : k # m => k \in (m + 1)..(n + 1)
      BY <2>2
    <3>4. Value(g, m) \in Seq(P)
      <4>1. CASE step[m] = 0
        BY <4>1
      <4>2. CASE step[m] # 0
        <5>1. m + step[m] \in (m + 1)..(n + 1)
          BY <3>3, <4>2
        <5>2. g[m + step[m]] \in Seq(P) /\ <<piece[m]>> \in Seq(P)
          BY <3>2, <3>3, <4>2, <5>1
        <5> QED
          BY <4>2, <5>2, ConcatProperties
      <4> QED
        BY <4>1, <4>2
    <3>5. h \in [m..(n + 1) -> Seq(P)]
      BY <3>2, <3>3, <3>4
    <3>6. ASSUME NEW k \in m..(n + 1) PROVE h[k] = Value(h, k)
      <4>1. step[k] # 0 => h[k + step[k]] = g[k + step[k]]
        <5>1. step[k] # 0 => k + step[k] \in m..(n + 1) /\ k + step[k] # m
          BY <3>3
        <5> QED
          BY <5>1
      <4>2. Value(h, k) = Value(g, k)
        BY <4>1
      <4> QED
        BY <3>2, <3>3, <4>2
    <3>7. Part(m, h)
      BY <3>5, <3>6
    <3> QED
      BY <2>1, <3>7
  <2> QED
    BY <2>3, <2>4
<1>2. PICK g : Part(1, g)
  <2>1. n \in 0..n /\ n + 1 - n = 1
    OBVIOUS
  <2>2. n \notin Bad
    <3> HIDE DEF Bad
    <3> QED
      BY <1>1
  <2>3. \E g : Part(n + 1 - n, g)
    <3> HIDE DEF Part
    <3> QED
      BY <2>1, <2>2
  <2> HIDE DEF Part
  <2> QED
    BY <2>1, <2>3
<1>3. g = [k \in 1..(n + 1) |-> Value(g, k)]
  BY <1>2
<1> QED
  BY <1>3 DEF Cut

(* And it yields a sequence of pieces, from every place.                   *)
LEMMA CutValues ==
  ASSUME NEW n, NEW step, NEW piece, NEW P, CutOf(n, step, piece, P),
         NEW f, Cut(f, n, step, piece)
  PROVE  \A k \in 1..(n + 1) : f[k] \in Seq(P)
<1> USE DEF CutOf
<1> DEFINE Bad == {d \in 0..n : f[n + 1 - d] \notin Seq(P)}
<1>1. \A k \in 1..(n + 1) :
        f[k] = IF step[k] = 0 THEN <<>> ELSE <<piece[k]>> \o f[k + step[k]]
  BY DEF Cut
<1>2. ASSUME Bad # {} PROVE FALSE
  <2>1. PICK d \in Bad : \A e \in Bad : d <= e
    <3>1. Bad \subseteq Nat
      OBVIOUS
    <3> HIDE DEF Bad
    <3> QED
      BY <1>2, <3>1, LeastOf
  <2> DEFINE m == n + 1 - d
  <2>2. d \in 0..n /\ m \in 1..(n + 1) /\ f[m] \notin Seq(P)
    OBVIOUS
  <2>3. step[m] # 0
    <3>1. <<>> \in Seq(P)
      OBVIOUS
    <3> QED
      BY <1>1, <2>2, <3>1
  <2>4. m + step[m] \in 1..(n + 1) /\ d - step[m] \in 0..n /\ n + 1 - (d - step[m]) = m + step[m]
    BY <2>2
  <2>5. f[m + step[m]] \in Seq(P)
    <3>1. d - step[m] \notin Bad
      <4>1. step[m] \in Nat /\ ~(d <= d - step[m])
        BY <2>2, <2>3
      <4> HIDE DEF Bad, m
      <4> QED
        BY <2>1, <4>1
    <3> QED
      BY <2>4, <3>1
  <2>6. <<piece[m]>> \in Seq(P)
    BY <2>2, <2>3
  <2> QED
    BY <1>1, <2>2, <2>3, <2>5, <2>6, ConcatProperties
<1>3. ASSUME NEW k \in 1..(n + 1) PROVE f[k] \in Seq(P)
  <2>1. n + 1 - k \in 0..n /\ n + 1 - (n + 1 - k) = k
    OBVIOUS
  <2>2. n + 1 - k \notin Bad
    BY <1>2
  <2> QED
    BY <2>1, <2>2
<1> QED
  BY <1>3

(* The messages of a run were in the backlog.                              *)
LEMMA SubSeqIsRun ==
  ASSUME NEW s \in Seq(DOMAIN rows), NEW j \in 1..Len(s), NEW k \in j..Len(s)
  PROVE  /\ SubSeq(s, j, k) \in Seq(DOMAIN rows) /\ Len(SubSeq(s, j, k)) = k - j + 1
         /\ Range(SubSeq(s, j, k)) \subseteq Range(s)
<1>1. \A i \in j..k : s[i] \in DOMAIN rows /\ i \in DOMAIN s
  OBVIOUS
<1>2. /\ SubSeq(s, j, k) \in Seq(DOMAIN rows) /\ Len(SubSeq(s, j, k)) = k - j + 1
      /\ \A i \in 1..(k - j + 1) : SubSeq(s, j, k)[i] = s[j + i - 1]
  BY <1>1, SubSeqProperties
<1>3. \A i \in 1..(k - j + 1) : j + i - 1 \in DOMAIN s
  OBVIOUS
<1> QED
  BY <1>2, <1>3 DEF Range

(* A run is at most the backlog.                                           *)
LEMMA SizeOfARun ==
  ASSUME TypesInv, NEW s \in Seq(DOMAIN rows), NEW idle
  PROVE  slice_to_flush(s, idle) \in 0..Len(s)
<1> DEFINE long == {k \in DOMAIN s : rows[s[k]].kind \in Long}
<1>1. Len(s) \in Nat /\ DOMAIN s = 1..Len(s) /\ (s = <<>> <=> Len(s) = 0)
  OBVIOUS
<1>2. long # {} => Min(long) \in 1..Len(s)
  <2>1. long \subseteq 1..Len(s) /\ long \subseteq Nat
    BY <1>1
  <2> HIDE DEF long
  <2> QED
    BY <2>1, MinIsLeast
<1>3. WINDOW_MAX_MESSAGES \in Nat \ {0}
  BY WindowsAssumption
<1>4. CASE s = <<>>
  BY <1>1, <1>3, <1>4 DEF slice_to_flush
<1>5. CASE s # <<>> /\ Len(s) >= WINDOW_MAX_MESSAGES
  BY <1>1, <1>3, <1>5 DEF slice_to_flush
<1>6. CASE s # <<>> /\ ~(Len(s) >= WINDOW_MAX_MESSAGES) /\ long # {}
  <2>1. Len(s) \in 1..(WINDOW_MAX_MESSAGES - 1)
    BY <1>1, <1>3, <1>6
  <2>2. slice_to_flush(s, idle) = Min(long)
    BY <1>6, <2>1 DEF slice_to_flush
  <2> QED
    BY <1>2, <1>6, <2>2
<1>7. CASE s # <<>> /\ ~(Len(s) >= WINDOW_MAX_MESSAGES) /\ long = {}
  <2>1. slice_to_flush(s, idle) \in {0, Len(s)}
    BY <1>7 DEF slice_to_flush
  <2> QED
    BY <1>1, <2>1
<1> QED
  BY <1>4, <1>5, <1>6, <1>7

(* Every run is of messages of the backlog, one or more.                   *)
Run(s) == {t \in Seq(DOMAIN rows) : t # <<>> /\ Range(t) \subseteq Range(s)}

LEMMA SlicesAreRuns ==
  ASSUME TypesInv, NEW s \in Seq(DOMAIN rows)
  PROVE  slices(s) \in Seq(Run(s))
<1> DEFINE idle == idle_minutes_for(wants_instant(s))
           n == Len(s)
           step == [k \in 1..(n + 1) |-> slice_to_flush(SubSeq(s, k, n), idle)]
           piece == [k \in 1..(n + 1) |-> SubSeq(s, k, k + step[k] - 1)]
<1>1. slices(s) = (CHOOSE f : Cut(f, n, step, piece))[1]
  BY DEF slices, Cut
<1>2. n \in Nat
  OBVIOUS
<1>3. \A k \in 1..(n + 1) : step[k] \in 0..(n - k + 1)
  <2> TAKE k \in 1..(n + 1)
  <2>1. SubSeq(s, k, n) \in Seq(DOMAIN rows) /\ Len(SubSeq(s, k, n)) = n - k + 1
    <3>1. \A i \in k..n : s[i] \in DOMAIN rows
      OBVIOUS
    <3> QED
      BY <3>1, SubSeqProperties
  <2> HIDE DEF idle
  <2>2. slice_to_flush(SubSeq(s, k, n), idle) \in 0..(n - k + 1)
    BY <2>1, SizeOfARun
  <2> QED
    BY <2>2
<1>4. step \in [1..(n + 1) -> Nat]
  BY <1>3
<1>5. \A k \in 1..(n + 1) : step[k] # 0 => piece[k] \in Run(s)
  <2> SUFFICES ASSUME NEW k \in 1..(n + 1), step[k] # 0 PROVE piece[k] \in Run(s)
    OBVIOUS
  <2> HIDE DEF step
  <2>1. k \in 1..n /\ k + step[k] - 1 \in k..n
    BY <1>2, <1>3
  <2>2. piece[k] = SubSeq(s, k, k + step[k] - 1)
    OBVIOUS
  <2> HIDE DEF piece
  <2>3. /\ piece[k] \in Seq(DOMAIN rows) /\ Len(piece[k]) = (k + step[k] - 1) - k + 1
        /\ Range(piece[k]) \subseteq Range(s)
    BY <2>1, <2>2, SubSeqIsRun
  <2> QED
    BY <2>1, <2>3 DEF Run
<1> HIDE DEF step, piece
<1>6. CutOf(n, step, piece, Run(s))
  BY <1>2, <1>3, <1>4, <1>5 DEF CutOf
<1> HIDE DEF n
<1>7. Cut(CHOOSE f : Cut(f, n, step, piece), n, step, piece)
  BY <1>6, CutExists
<1>8. 1 \in 1..(n + 1)
  BY <1>2
<1> QED
  BY <1>1, <1>6, <1>7, <1>8, CutValues

-----------------------------------------------------------------------------
(* Shapes and types of the steps. *)

LEMMA Shapes ==
  ASSUME TypesInv
  PROVE  /\ Len(rows) \in Nat /\ DOMAIN rows = 1..Len(rows) /\ IsFiniteSet(DOMAIN rows)
         /\ Len(windows) \in Nat /\ DOMAIN windows = 1..Len(windows)
         /\ IsFiniteSet(DOMAIN windows)
         /\ \A i \in DOMAIN rows : rows[i] \in RowRecords
         /\ \A w \in DOMAIN windows : windows[w] \in WindowRecords
         /\ DOMAIN rows \subseteq Nat \ {0} /\ DOMAIN windows \subseteq Nat \ {0}
<1>1. /\ Len(rows) \in Nat /\ DOMAIN rows = 1..Len(rows)
      /\ Len(windows) \in Nat /\ DOMAIN windows = 1..Len(windows)
      /\ \A i \in DOMAIN rows : rows[i] \in RowRecords
      /\ \A w \in DOMAIN windows : windows[w] \in WindowRecords
  BY DEF TypesInv
<1>2. IsFiniteSet(1..Len(rows)) /\ IsFiniteSet(1..Len(windows))
  BY <1>1, FS_Interval
<1> QED
  BY <1>1, <1>2

LEMMA Members ==
  ASSUME NEW S, NEW s \in Seq(S), NEW k \in DOMAIN s
  PROVE  s[k] \in S
OBVIOUS

(* A sequence rewritten place by place.                                    *)
LEMMA Rewritten ==
  ASSUME NEW S, NEW T, NEW s \in Seq(S), NEW t, t = [k \in DOMAIN s |-> t[k]],
         \A k \in DOMAIN s : t[k] \in T
  PROVE  t \in Seq(T) /\ Len(t) = Len(s) /\ DOMAIN t = DOMAIN s
<1>1. Len(s) \in Nat /\ DOMAIN s = 1..Len(s)
  OBVIOUS
<1> DEFINE n == Len(s)
<1>2. t \in [1..n -> T] /\ DOMAIN t = 1..n
  BY <1>1
<1> QED
  BY <1>1, <1>2

LEMMA WordsTyped ==
  ASSUME TypesInv
  PROVE  /\ \A i \in DOMAIN rows : words(i) \subseteq WordRecords
         /\ \A S \in SUBSET DOMAIN rows : render_window(S) \subseteq WordRecords
<1>1. ASSUME NEW i \in DOMAIN rows PROVE words(i) \subseteq WordRecords
  <2>1. i \in Nat /\ rows[i] \in RowRecords
    BY Shapes
  <2>2. CASE rows[i].kind = "window"
    BY <2>1, <2>2 DEF words, RowRecords
  <2>3. CASE rows[i].kind # "window"
    BY <2>1, <2>3 DEF words, RowRecords, WordRecords
  <2> QED
    BY <2>2, <2>3
<1> QED
  BY <1>1 DEF render_window

LEMMA NewRowTyped ==
  ASSUME NEW kind \in Kinds \cup {"window"}, NEW at \in Nat
  PROVE  NewRow(kind, at) \in RowRecords
  BY DEF NewRow, RowRecords, none

LEMMA NewWindowTyped ==
  ASSUME TypesInv, NEW S \in SUBSET DOMAIN rows, NEW ended \in Nat, NEW instant \in BOOLEAN
  PROVE  NewWindow(S, ended, instant) \in WindowRecords
<1>1. render_window(S) \subseteq WordRecords /\ now \in Nat
  BY WordsTyped DEF TypesInv
<1> QED
  BY <1>1 DEF NewWindow, WindowRecords, none

LEMMA NextBatch == ASSUME TypesInv PROVE next_batch \in Nat
<1> DEFINE waited == {w \in DOMAIN windows : windows[w].status = "submitted"}
           room == 1..(Len(windows) + 1)
<1>1. Len(windows) \in Nat /\ IsFiniteSet(DOMAIN windows) /\ DOMAIN windows = 1..Len(windows)
  BY Shapes
<1>2. Cardinality(DOMAIN windows) = Len(windows)
  <2>1. Cardinality(1..Len(windows)) = IF 1 > Len(windows) THEN 0 ELSE Len(windows) - 1 + 1
    BY <1>1, FS_Interval
  <2> QED
    BY <1>1, <2>1
<1>3. IsFiniteSet(room) /\ Cardinality(room) = Len(windows) + 1
  BY <1>1, FS_Interval
<1>4. IsFiniteSet(waited) /\ Cardinality(waited) <= Len(windows)
  BY <1>1, <1>2, FS_Subset
<1>5. IsFiniteSet(batches) /\ Cardinality(batches) <= Cardinality(waited)
  <2>1. batches = {windows[w].batch : w \in waited}
    BY DEF batches
  <2> DEFINE f == [w \in waited |-> windows[w].batch]
  <2>2. f \in Surjection(waited, batches)
    BY <2>1 DEF Surjection
  <2> QED
    BY <1>4, <2>2, FS_Surjection
<1>6. room \ batches # {}
  <2> SUFFICES ASSUME room \subseteq batches PROVE FALSE
    OBVIOUS
  <2>1. Cardinality(room) <= Cardinality(batches)
    BY <1>5, FS_Subset
  <2>2. Cardinality(batches) \in Nat /\ Cardinality(waited) \in Nat
    BY <1>4, <1>5, FS_CardinalityType
  <2> QED
    BY <1>1, <1>3, <1>4, <1>5, <2>1, <2>2
<1>7. room \ batches \subseteq Nat
  BY <1>1
<1> QED
  BY <1>6, <1>7, MinIsLeast DEF next_batch

-----------------------------------------------------------------------------
(* What a step leaves as it was. *)

(* Rows that stay, with less to hear than before.                          *)
Fades(R, gone, R2, gone2) ==
  \A i \in DOMAIN R :
    /\ i \in DOMAIN R2 /\ (i \in gone2 => i \in gone)
    /\ R2[i].alive /\ (R2[i].media = "pending" \/ R2[i].heard) =>
         R[i].alive /\ (R[i].media = "pending" \/ R[i].heard) /\ R2[i].at = R[i].at

LEMMA GoodStays ==
  ASSUME NEW R, NEW gone, NEW R2, NEW gone2, Fades(R, gone, R2, gone2),
         \A i \in DOMAIN R : R[i].at \in Nat,
         NEW text, NEW moment \in Nat, NEW later \in Nat, moment <= later,
         Good(R, gone, text, moment)
  PROVE  Good(R2, gone2, text, later)
<1> SUFFICES ASSUME NEW v \in text
             PROVE  /\ v.row \in DOMAIN R2 /\ v.row \notin gone2
                    /\ ~v.heard => Waited(R2, v.row, later)
  BY DEF Good
<1>1. /\ v.row \in DOMAIN R /\ v.row \notin gone
      /\ ~v.heard => Waited(R, v.row, moment)
  BY DEF Good
<1>2. MEDIA_CUTOFF \in Nat
  BY WindowsAssumption
<1> QED
  BY <1>1, <1>2 DEF Fades, Waited

LEMMA WordsStay ==
  ASSUME TypesInv, TypesInv', Fades(rows, forgotten, rows', forgotten'), now <= now',
         forgotten' \subseteq DOMAIN rows' /\ \A i \in forgotten' : ~rows'[i].alive,
         \A w \in DOMAIN windows' : windows'[w].alive =>
           /\ windows'[w].made <= now'
           /\ GoodNow(windows'[w].text, windows'[w].made)
           /\ GoodNow(windows'[w].asked, windows'[w].made)
           /\ GoodNow(windows'[w].read, windows'[w].made)
           /\ w \in DOMAIN looking'.seen =>
                /\ looking'.seen[w] \subseteq WordRecords
                /\ GoodNow(looking'.seen[w], windows'[w].made)
           /\ w \in sending'.ids =>
                /\ sending'.seen[w] \subseteq WordRecords
                /\ GoodNow(sending'.seen[w], windows'[w].made),
         \A j \in DOMAIN rows' : rows'[j].alive =>
           /\ rows'[j].kind = "window" => GoodNow(rows'[j].text, now)
           /\ rows'[j].media = "pending" /\ rows'[j].window # none
                => windows'[rows'[j].window].made >= rows'[j].at + MEDIA_CUTOFF
  PROVE  WordsInv'
<1>1. /\ \A i \in DOMAIN rows : rows[i].at \in Nat
      /\ \A w \in DOMAIN windows' : windows'[w].made \in Nat
  <2>1. windows' \in Seq(WindowRecords)
    BY DEF TypesInv
  <2>2. \A w \in DOMAIN windows' : windows'[w] \in WindowRecords
    BY <2>1
  <2>3. \A i \in DOMAIN rows : rows[i] \in RowRecords
    BY Shapes
  <2> QED
    BY <2>2, <2>3 DEF RowRecords, WindowRecords
<1>2. now \in Nat /\ now' \in Nat
  BY DEF TypesInv
<1>3. ASSUME NEW text, NEW moment \in Nat, NEW later \in Nat, moment <= later,
             GoodNow(text, moment)
      PROVE  Good(rows', forgotten', text, later)
  BY <1>1, <1>3, GoodStays, Zenon DEF GoodNow
<1>4. ASSUME NEW w \in DOMAIN windows', windows'[w].alive
      PROVE  /\ windows'[w].made <= now'
             /\ Good(rows', forgotten', windows'[w].text, windows'[w].made)
             /\ Good(rows', forgotten', windows'[w].asked, windows'[w].made)
             /\ Good(rows', forgotten', windows'[w].read, windows'[w].made)
             /\ w \in DOMAIN looking'.seen =>
                  /\ looking'.seen[w] \subseteq WordRecords
                  /\ Good(rows', forgotten', looking'.seen[w], windows'[w].made)
             /\ w \in sending'.ids =>
                  /\ sending'.seen[w] \subseteq WordRecords
                  /\ Good(rows', forgotten', sending'.seen[w], windows'[w].made)
  <2>1. windows'[w].made \in Nat /\ windows'[w].made <= windows'[w].made
    BY <1>1
  <2> QED
    BY <1>3, <1>4, <2>1
<1>5. ASSUME NEW j \in DOMAIN rows', rows'[j].alive
      PROVE  /\ rows'[j].kind = "window" => Good(rows', forgotten', rows'[j].text, now')
             /\ rows'[j].media = "pending" /\ rows'[j].window # none
                  => windows'[rows'[j].window].made >= rows'[j].at + MEDIA_CUTOFF
  BY <1>2, <1>3, <1>5
<1> QED
  BY <1>4, <1>5 DEF WordsInv, GoodNow

(* A row and a window that stand where they stood.                         *)
RowKept(i) ==
  /\ i \in DOMAIN rows'
  /\ rows'[i].kind = rows[i].kind /\ rows'[i].alive = rows[i].alive
  /\ rows'[i].window = rows[i].window /\ rows'[i].processed = rows[i].processed
  /\ rows'[i].extracted = rows[i].extracted /\ rows'[i].at = rows[i].at
  /\ rows[i].kind = "window" => /\ rows'[i].needs_review = rows[i].needs_review
                                /\ rows'[i].media = rows[i].media
WindowKept(w) ==
  /\ w \in DOMAIN windows'
  /\ windows'[w].alive = windows[w].alive /\ windows'[w].made = windows[w].made
  /\ windows'[w].status = windows[w].status \/ {windows[w].status, windows'[w].status} \subseteq Open

LEMMA RowsStay ==
  ASSUME TypesInv, TypesInv', RowsInv, DOMAIN windows' = DOMAIN windows,
         \A i \in DOMAIN rows : RowKept(i), \A w \in DOMAIN windows : WindowKept(w),
         \A i \in DOMAIN rows' \ DOMAIN rows :
           /\ rows'[i].kind # "window" /\ rows'[i].window = none
           /\ ~rows'[i].processed /\ rows'[i].extracted = 0
  PROVE  RowsInv'
<1>1. ASSUME NEW i \in DOMAIN rows'
      PROVE  LET r == rows'[i]
             IN  /\ r.kind = "window" => r.media = "none"
                 /\ r.window # none => /\ r.alive
                                       /\ r.window \in DOMAIN windows'
                                       /\ windows'[r.window].alive
                 /\ r.window # none /\ windows'[r.window].status \in Open => ~r.processed
                 /\ r.window # none /\ windows'[r.window].status = "applied" /\ r.kind # "window"
                      => r.processed
                 /\ r.extracted <= 1 /\ (r.extracted = 1 => r.processed)
                 /\ r.kind # "window" /\ r.processed => r.extracted = 1
  <2>1. CASE i \in DOMAIN rows
    BY <2>1 DEF RowsInv, RowKept, WindowKept, Open
  <2>2. CASE i \notin DOMAIN rows
    BY <2>2
  <2> QED
    BY <2>1, <2>2
<1>2. ASSUME NEW w \in DOMAIN windows', windows'[w].alive, windows'[w].status = "failed"
      PROVE  Reviewed(w)'
  <2>1. windows[w].alive /\ windows[w].status = "failed"
    BY <1>2 DEF WindowKept, Open
  <2>2. Reviewed(w)
    BY <2>1 DEF RowsInv
  <2> QED
    BY <2>1, <2>2 DEF Reviewed, RowKept
<1> QED
  BY <1>1, <1>2 DEF RowsInv

StillWaiting(w, instant) ==
  /\ w \in DOMAIN windows'
  /\ windows'[w].alive => windows'[w].status = "pending" /\ windows'[w].instant = instant

LEMMA JobsStay ==
  ASSUME TypesInv, JobsInv, looking' = looking, sending' = sending,
         \A w \in DOMAIN windows :
           /\ w \in DOMAIN windows'
           /\ windows'[w].alive =>
                /\ windows[w].alive
                /\ windows[w].status = "pending" =>
                     windows'[w].status = "pending" /\ windows'[w].instant = windows[w].instant
  PROVE  JobsInv'
<1>1. ASSUME NEW w, NEW instant, Waiting(w, instant) PROVE Waiting(w, instant)'
  BY <1>1 DEF Waiting
<1> QED
  BY <1>1 DEF JobsInv, Waiting

LEMMA MishapsCount ==
  ASSUME spent \in Spendings
  PROVE  mishaps \in Nat
BY DEF Spendings, mishaps

LEMMA Spent ==
  ASSUME PaidInv, NEW act \in {"edit", "purge", "mishap"}, Spend(act)
  PROVE  /\ spent' \in Spendings
         /\ mishaps' = IF act = "edit" THEN mishaps ELSE mishaps + 1
<1>1. spent \in Spendings /\ spent' = [spent EXCEPT ![act] = spent[act] + 1]
  BY DEF PaidInv, Spend
<1> QED
  BY <1>1 DEF Spendings, mishaps

LEMMA WastedStays ==
  ASSUME JobsInv, sending' = sending \/ sending'.ids = {},
         \A w \in DOMAIN windows : windows'[w].alive = windows[w].alive
  PROVE  \A w : Wasted(w) \in {0, 1} /\ Wasted(w)' \in {0, Wasted(w)}
<1>1. \A w \in sending.ids : w \in DOMAIN windows
  BY DEF JobsInv, Waiting
<1> QED
  BY <1>1 DEF Wasted

(* What a step charges to a window it takes off what is out for it, or owes *)
(* to a mishap.                                                             *)
LEMMA PaidMoves ==
  ASSUME TypesInv, JobsInv, PaidInv, TypesInv', spent' \in Spendings,
         sending' = sending \/ sending'.ids = {},
         DOMAIN windows' = DOMAIN windows,
         \A w \in DOMAIN windows :
           /\ windows'[w].alive = windows[w].alive
           /\ windows[w].alive =>
                windows'[w].calls + mishaps + Out(w) <= windows[w].calls + mishaps' + Out(w)'
  PROVE  PaidInv'
<1>1. \A w : Wasted(w) \in {0, 1} /\ Wasted(w)' \in {0, Wasted(w)}
  BY WastedStays
<1>2. mishaps \in Nat /\ mishaps' \in Nat
  <2>1. mishaps \in Nat
    BY MishapsCount DEF PaidInv
  <2>2. mishaps' \in Nat
    BY DEF Spendings, mishaps
  <2> QED
    BY <2>1, <2>2
<1>3. ASSUME NEW w \in DOMAIN windows', windows'[w].alive
      PROVE  windows'[w].calls + Wasted(w)' <= mishaps' + Out(w)'
  <2>1. windows[w].calls \in Int /\ windows'[w].calls \in Int
    <3>1. windows' \in Seq(WindowRecords)
      BY DEF TypesInv
    <3>2. windows[w] \in WindowRecords /\ windows'[w] \in WindowRecords
      BY <1>3, <3>1, Shapes, Members
    <3> QED
      BY <3>2 DEF WindowRecords
  <2>2. windows[w].calls + Wasted(w) <= mishaps + Out(w)
    BY <1>3 DEF PaidInv
  <2>3. Out(w)' \in {0, 1} /\ Out(w) \in {0, 1}
    BY DEF Out
  <2>4. windows'[w].calls + mishaps + Out(w) <= windows[w].calls + mishaps' + Out(w)'
    BY <1>3
  <2> QED
    BY <1>1, <1>2, <2>1, <2>2, <2>3, <2>4
<1> QED
  BY <1>3 DEF PaidInv

-----------------------------------------------------------------------------
(* The steps, one lemma for each. *)

LEMMA InitInv == Init => Inv
<1> SUFFICES ASSUME Init PROVE Inv
  OBVIOUS
<1>1. TypesInv
  BY DEF Init, TypesInv, IsLooking, idle_looking, none
<1>2. JobsInv
  BY DEF Init, JobsInv, idle_looking, idle_sending, none
<1>3. RowsInv /\ PaidInv /\ WordsInv
  <2>1. spent \in Spendings
    BY WindowsAssumption DEF Init, Spendings
  <2> QED
    BY <2>1 DEF Init, RowsInv, PaidInv, WordsInv
<1> QED
  BY <1>1, <1>2, <1>3 DEF Inv

LEMMA StoreInv ==
  ASSUME Inv, NEW kind \in Kinds, Store(kind)
  PROVE  Inv'
<1> DEFINE new == NewRow(kind, now)
<1>1. TypesInv /\ JobsInv /\ RowsInv /\ PaidInv /\ WordsInv
  BY DEF Inv
<1>2. /\ rows' = Append(rows, new)
      /\ windows' = windows /\ looking' = looking /\ sending' = sending
      /\ forgotten' = forgotten /\ now' = now /\ spent' = spent
  BY DEF Store
<1>3. now \in Nat /\ rows \in Seq(RowRecords) /\ new \in RowRecords
  BY <1>1, NewRowTyped DEF TypesInv
<1>4. kind # "window"
  BY WindowsAssumption
<1>5. /\ new.kind # "window" /\ new.window = none /\ ~new.processed /\ new.extracted = 0
      /\ new.at = now
  BY <1>4 DEF NewRow
<1> HIDE DEF new
<1>6. /\ rows' \in Seq(RowRecords) /\ DOMAIN rows = 1..Len(rows) /\ Len(rows) \in Nat
      /\ DOMAIN rows' = 1..(Len(rows) + 1) /\ rows'[Len(rows) + 1] = new
      /\ \A i \in DOMAIN rows : rows'[i] = rows[i]
  BY <1>2, <1>3
<1>7. /\ DOMAIN rows \subseteq DOMAIN rows'
      /\ \A i \in DOMAIN rows' \ DOMAIN rows : rows'[i] = new
  BY <1>6
<1>8. TypesInv'
  BY <1>1, <1>2, <1>6 DEF TypesInv
<1>9. JobsInv' /\ PaidInv'
  <2>1. JobsInv'
    BY <1>1, <1>2 DEF JobsInv, Waiting
  <2>2. PaidInv'
    BY <1>1, <1>2 DEF PaidInv, Wasted, Out, mishaps
  <2> QED
    BY <2>1, <2>2
<1>10. RowsInv'
  <2>1. \A i \in DOMAIN rows : RowKept(i)
    BY <1>6, <1>7 DEF RowKept
  <2>2. \A w \in DOMAIN windows : WindowKept(w)
    BY <1>2 DEF WindowKept
  <2> QED
    BY <1>1, <1>2, <1>5, <1>7, <1>8, <2>1, <2>2, RowsStay
<1>11. WordsInv'
  <2>1. Fades(rows, forgotten, rows', forgotten')
    BY <1>2, <1>6, <1>7 DEF Fades
  <2>2. forgotten' \subseteq DOMAIN rows' /\ \A i \in forgotten' : ~rows'[i].alive
    BY <1>1, <1>2, <1>6, <1>7 DEF WordsInv
  <2>3. ASSUME NEW j \in DOMAIN rows', rows'[j].alive
        PROVE  /\ rows'[j].kind = "window" => GoodNow(rows'[j].text, now)
               /\ rows'[j].media = "pending" /\ rows'[j].window # none
                    => windows'[rows'[j].window].made >= rows'[j].at + MEDIA_CUTOFF
    <3>1. CASE j \in DOMAIN rows
      BY <1>1, <1>2, <1>6, <2>3, <3>1 DEF WordsInv
    <3>2. CASE j \notin DOMAIN rows
      BY <1>5, <1>7, <3>2
    <3> QED
      BY <3>1, <3>2
  <2> QED
    BY <1>1, <1>2, <1>3, <1>8, <2>1, <2>2, <2>3, WordsStay DEF WordsInv
<1> QED
  BY <1>8, <1>9, <1>10, <1>11 DEF Inv

LEMMA PersistInv ==
  ASSUME Inv, NEW i \in DOMAIN rows, NEW heard \in BOOLEAN, persist_media(i, heard)
  PROVE  Inv'
<1> DEFINE new == [rows[i] EXCEPT !.media = "processed", !.heard = heard, !.needs_review = ~heard,
                    !.to_me = \/ rows[i].to_me
                              \/ /\ heard /\ ChatType = "group"
                                 /\ rows[i].window = none /\ rows[i].kind \in Naming]
<1>1. TypesInv /\ JobsInv /\ RowsInv /\ PaidInv /\ WordsInv
  BY DEF Inv
<1>2. /\ rows' = [rows EXCEPT ![i] = new] /\ rows[i].alive /\ rows[i].media = "pending"
      /\ windows' = windows /\ looking' = looking /\ sending' = sending
      /\ forgotten' = forgotten /\ now' = now /\ spent' = spent
  BY DEF persist_media
<1>3. rows[i] \in RowRecords /\ now \in Nat
  BY <1>1, Shapes DEF TypesInv
<1>4. new \in RowRecords
  BY <1>3 DEF RowRecords
<1>5. /\ new.kind = rows[i].kind /\ new.alive = rows[i].alive /\ new.window = rows[i].window
      /\ new.processed = rows[i].processed /\ new.extracted = rows[i].extracted
      /\ new.at = rows[i].at /\ new.media = "processed" /\ new.text = rows[i].text
      /\ rows[i].kind # "window"
  BY <1>1, <1>2, <1>3 DEF RowRecords, RowsInv
<1> HIDE DEF new
<1>6. /\ rows' \in Seq(RowRecords) /\ DOMAIN rows' = DOMAIN rows /\ rows'[i] = new
      /\ \A j \in DOMAIN rows : j # i => rows'[j] = rows[j]
  <2>1. rows \in Seq(RowRecords) /\ DOMAIN rows = 1..Len(rows)
    BY <1>1, Shapes DEF TypesInv
  <2> QED
    BY <1>2, <1>4, <2>1, ExceptSeq
<1>7. TypesInv'
  BY <1>1, <1>2, <1>6 DEF TypesInv
<1>8. JobsInv' /\ PaidInv'
  <2>1. JobsInv'
    BY <1>1, <1>2 DEF JobsInv, Waiting
  <2>2. PaidInv'
    BY <1>1, <1>2 DEF PaidInv, Wasted, Out, mishaps
  <2> QED
    BY <2>1, <2>2
<1>9. RowsInv'
  <2>1. \A j \in DOMAIN rows : RowKept(j)
    BY <1>5, <1>6 DEF RowKept
  <2>2. \A w \in DOMAIN windows : WindowKept(w)
    BY <1>2 DEF WindowKept
  <2> QED
    BY <1>1, <1>2, <1>6, <1>7, <2>1, <2>2, RowsStay
<1>10. WordsInv'
  <2>1. Fades(rows, forgotten, rows', forgotten')
    BY <1>2, <1>5, <1>6 DEF Fades
  <2>2. forgotten' \subseteq DOMAIN rows' /\ \A j \in forgotten' : ~rows'[j].alive
    BY <1>1, <1>2, <1>5, <1>6 DEF WordsInv
  <2>3. ASSUME NEW j \in DOMAIN rows', rows'[j].alive
        PROVE  /\ rows'[j].kind = "window" => GoodNow(rows'[j].text, now)
               /\ rows'[j].media = "pending" /\ rows'[j].window # none
                    => windows'[rows'[j].window].made >= rows'[j].at + MEDIA_CUTOFF
    BY <1>1, <1>2, <1>5, <1>6, <2>3 DEF WordsInv
  <2> QED
    BY <1>1, <1>2, <1>3, <1>7, <2>1, <2>2, <2>3, WordsStay DEF WordsInv
<1> QED
  BY <1>7, <1>8, <1>9, <1>10 DEF Inv

LEMMA TickInv ==
  ASSUME Inv, Tick
  PROVE  Inv'
<1>1. TypesInv /\ JobsInv /\ RowsInv /\ PaidInv /\ WordsInv
  BY DEF Inv
<1>2. /\ now' = now + 1 /\ rows' = rows /\ windows' = windows /\ looking' = looking
      /\ sending' = sending /\ forgotten' = forgotten /\ spent' = spent
  BY DEF Tick
<1>3. TypesInv'
  BY <1>1, <1>2 DEF TypesInv
<1>4. JobsInv' /\ PaidInv' /\ RowsInv'
  <2>1. JobsInv'
    BY <1>1, <1>2 DEF JobsInv, Waiting
  <2>2. PaidInv'
    BY <1>1, <1>2 DEF PaidInv, Wasted, Out, mishaps
  <2>3. RowsInv'
    BY <1>1, <1>2 DEF RowsInv, Reviewed
  <2> QED
    BY <2>1, <2>2, <2>3
<1>5. WordsInv'
  <2>1. Fades(rows, forgotten, rows', forgotten')
    BY <1>2 DEF Fades
  <2>2. now \in Nat /\ now <= now'
    BY <1>1, <1>2 DEF TypesInv
  <2>3. \A w \in DOMAIN windows : windows[w].made \in Nat
    BY <1>1, Shapes DEF WindowRecords
  <2>4. \A w \in DOMAIN windows : windows[w].made <= now => windows[w].made <= now'
    BY <1>2, <2>2, <2>3
  <2> QED
    BY <1>1, <1>2, <1>3, <2>1, <2>2, <2>4, WordsStay DEF WordsInv
<1> QED
  BY <1>3, <1>4, <1>5 DEF Inv

(* A message that is in a window has settled, or waited long enough.       *)
LEMMA MemberWord ==
  ASSUME TypesInv, WordsInv, NEW j \in DOMAIN rows, rows[j].alive, rows[j].window # none,
         NEW v, v.row = j, v.heard = rows[j].heard
  PROVE  /\ v.row \in DOMAIN rows /\ v.row \notin forgotten
         /\ ~v.heard => Waited(rows, v.row, windows[rows[j].window].made)
  BY DEF WordsInv, Waited

LEMMA MemberWords ==
  ASSUME TypesInv, WordsInv, NEW w, w # none, NEW S \in SUBSET members(w)
  PROVE  GoodNow(render_window(S), windows[w].made)
<1> SUFFICES ASSUME NEW v \in render_window(S)
             PROVE  /\ v.row \in DOMAIN rows /\ v.row \notin forgotten
                    /\ ~v.heard => Waited(rows, v.row, windows[w].made)
  BY DEF GoodNow, Good
<1>1. PICK j \in S : v \in words(j)
  BY DEF render_window
<1>2. j \in DOMAIN rows /\ rows[j].alive /\ rows[j].window = w /\ rows[j].kind # "window"
  BY DEF members
<1>3. v = [row |-> j, edits |-> rows[j].edits, heard |-> rows[j].heard]
  BY <1>1, <1>2 DEF words
<1>4. v.row = j /\ v.heard = rows[j].heard
  BY <1>3
<1> QED
  BY <1>2, <1>4, MemberWord

LEMMA EditInv ==
  ASSUME Inv, NEW i \in DOMAIN rows, record_edit(i)
  PROVE  Inv'
<1> DEFINE w == rows[i].window
           said == [row |-> i, edits |-> rows[i].edits + 1, heard |-> rows[i].heard]
           pending == w # none /\ windows[w].status = "pending"
           late == w # none /\ ~pending
           text == render_window(members(w) \ {i}) \cup {said}
           row == [rows[i] EXCEPT !.edits = @ + 1, !.edited_after_extraction = @ \/ late]
           window == [windows[w] EXCEPT !.text = text]
<1>1. TypesInv /\ JobsInv /\ RowsInv /\ PaidInv /\ WordsInv
  BY DEF Inv
<1>2. /\ rows[i].alive /\ rows[i].kind # "window"
      /\ rows' = [rows EXCEPT ![i].edits = @ + 1, ![i].edited_after_extraction = @ \/ late]
      /\ windows' = IF pending THEN [windows EXCEPT ![w].text = text] ELSE windows
      /\ looking' = looking /\ sending' = sending /\ forgotten' = forgotten /\ now' = now
      /\ Spend("edit")
  BY DEF record_edit, rerendered
<1>3. /\ rows \in Seq(RowRecords) /\ DOMAIN rows = 1..Len(rows) /\ rows[i] \in RowRecords
      /\ i \in Nat /\ now \in Nat
      /\ windows \in Seq(WindowRecords) /\ DOMAIN windows = 1..Len(windows)
  BY <1>1, Shapes DEF TypesInv
<1>4. rows' = [rows EXCEPT ![i] = row]
  BY <1>2
<1>5. late \in BOOLEAN
  BY <1>3
<1> HIDE DEF late
<1>6. row \in RowRecords
  <2>1. (rows[i].edited_after_extraction \/ late) \in BOOLEAN /\ rows[i].edits + 1 \in Nat
    BY <1>3, <1>5 DEF RowRecords
  <2> QED
    BY <1>3, <2>1 DEF RowRecords
<1>7. /\ row.kind = rows[i].kind /\ row.alive = rows[i].alive /\ row.window = rows[i].window
      /\ row.processed = rows[i].processed /\ row.extracted = rows[i].extracted
      /\ row.at = rows[i].at /\ row.media = rows[i].media /\ row.text = rows[i].text
      /\ row.heard = rows[i].heard /\ row.needs_review = rows[i].needs_review
  BY <1>3 DEF RowRecords
<1>8. pending => w \in DOMAIN windows /\ windows[w].alive
  BY <1>1 DEF RowsInv
<1>9. said \in WordRecords /\ said.row = i /\ said.heard = rows[i].heard
  BY <1>3 DEF WordRecords, RowRecords
<1> HIDE DEF row, said
<1>10. /\ rows' \in Seq(RowRecords) /\ DOMAIN rows' = DOMAIN rows /\ rows'[i] = row
       /\ \A j \in DOMAIN rows : j # i => rows'[j] = rows[j]
  BY <1>3, <1>4, <1>6, ExceptSeq
<1>11. text \subseteq WordRecords
  <2>1. members(w) \subseteq DOMAIN rows
    BY DEF members
  <2>2. members(w) \ {i} \in SUBSET DOMAIN rows
    BY <2>1
  <2>3. render_window(members(w) \ {i}) \subseteq WordRecords
    BY <1>1, <2>2, WordsTyped
  <2> QED
    BY <1>9, <2>3
<1>12. pending => GoodNow(text, windows[w].made)
  <2> SUFFICES ASSUME pending PROVE GoodNow(text, windows[w].made)
    OBVIOUS
  <2>1. members(w) \ {i} \in SUBSET members(w)
    OBVIOUS
  <2>2. GoodNow(render_window(members(w) \ {i}), windows[w].made)
    BY <1>1, <2>1, MemberWords
  <2>3. /\ said.row \in DOMAIN rows /\ said.row \notin forgotten
        /\ ~said.heard => Waited(rows, said.row, windows[w].made)
    BY <1>1, <1>2, <1>9, MemberWord
  <2> QED
    BY <2>2, <2>3 DEF GoodNow, Good
<1> HIDE DEF text
<1>13. pending => /\ window \in WindowRecords /\ window.text = text
                  /\ window.alive = windows[w].alive /\ window.status = windows[w].status
                  /\ window.made = windows[w].made
                  /\ window.instant = windows[w].instant /\ window.asked = windows[w].asked
                  /\ window.read = windows[w].read /\ window.calls = windows[w].calls
  <2> SUFFICES ASSUME pending
               PROVE  /\ window \in WindowRecords /\ window.text = text
                      /\ window.alive = windows[w].alive /\ window.status = windows[w].status
                      /\ window.made = windows[w].made
                      /\ window.instant = windows[w].instant /\ window.asked = windows[w].asked
                      /\ window.read = windows[w].read /\ window.calls = windows[w].calls
    OBVIOUS
  <2>1. windows[w] \in WindowRecords
    BY <1>1, <1>8, Shapes
  <2> QED
    BY <1>11, <2>1 DEF WindowRecords
<1>14. pending => windows' = [windows EXCEPT ![w] = window]
  BY <1>2
<1> HIDE DEF window
<1>15. /\ windows' \in Seq(WindowRecords) /\ DOMAIN windows' = DOMAIN windows
       /\ \A v \in DOMAIN windows :
            windows'[v] = IF pending /\ v = w THEN window ELSE windows[v]
  <2>1. CASE pending
    <3>1. w \in 1..Len(windows) /\ window \in WindowRecords
      BY <1>3, <1>8, <1>13, <2>1
    <3>2. windows' = [windows EXCEPT ![w] = window]
      BY <1>14, <2>1
    <3> HIDE DEF w, pending
    <3>3. /\ windows' \in Seq(WindowRecords) /\ Len(windows') = Len(windows)
          /\ \A v \in 1..Len(windows) : windows'[v] = IF v = w THEN window ELSE windows[v]
      BY <1>3, <3>1, <3>2, ExceptSeq
    <3> QED
      BY <1>3, <2>1, <3>3
  <2>2. CASE ~pending
    BY <1>2, <1>3, <2>2
  <2> QED
    BY <2>1, <2>2
<1> HIDE DEF pending
<1>16. TypesInv'
  BY <1>1, <1>2, <1>10, <1>15 DEF TypesInv
<1>17. JobsInv' /\ PaidInv'
  <2>1. JobsInv'
    BY <1>1, <1>2, <1>13, <1>15, JobsStay
  <2>2. PaidInv'
    <3>1. spent' \in Spendings /\ mishaps' = mishaps /\ mishaps \in Nat
      BY <1>1, <1>2, Spent, MishapsCount DEF PaidInv
    <3>2. ASSUME NEW v \in DOMAIN windows
          PROVE  /\ windows'[v].alive = windows[v].alive /\ windows'[v].calls = windows[v].calls
                 /\ Out(v)' = Out(v) /\ Out(v) \in {0, 1} /\ windows[v].calls \in Int
      BY <1>1, <1>2, <1>13, Shapes DEF Out, WindowRecords
    <3>3. \A v \in DOMAIN windows :
            /\ windows'[v].alive = windows[v].alive
            /\ windows[v].alive =>
                 windows'[v].calls + mishaps + Out(v) <= windows[v].calls + mishaps' + Out(v)'
      BY <3>1, <3>2
    <3>4. sending' = sending /\ DOMAIN windows' = DOMAIN windows
      BY <1>2, <1>13, <1>15
    <3> QED
      BY <1>1, <1>16, <3>1, <3>3, <3>4, PaidMoves
  <2> QED
    BY <2>1, <2>2
<1>18. RowsInv'
  <2>1. \A j \in DOMAIN rows : RowKept(j)
    BY <1>7, <1>10 DEF RowKept
  <2>2. \A v \in DOMAIN windows : WindowKept(v)
    BY <1>13, <1>15 DEF WindowKept
  <2> QED
    BY <1>1, <1>10, <1>15, <1>16, <2>1, <2>2, RowsStay
<1>19. WordsInv'
  <2>1. Fades(rows, forgotten, rows', forgotten')
    BY <1>2, <1>7, <1>10 DEF Fades
  <2>2. forgotten' \subseteq DOMAIN rows' /\ \A j \in forgotten' : ~rows'[j].alive
    BY <1>1, <1>2, <1>7, <1>10 DEF WordsInv
  <2>3. ASSUME NEW j \in DOMAIN rows', rows'[j].alive
        PROVE  /\ rows'[j].kind = "window" => GoodNow(rows'[j].text, now)
               /\ rows'[j].media = "pending" /\ rows'[j].window # none
                    => windows'[rows'[j].window].made >= rows'[j].at + MEDIA_CUTOFF
    <3>1. /\ rows'[j].alive = rows[j].alive /\ rows'[j].kind = rows[j].kind
          /\ rows'[j].text = rows[j].text /\ rows'[j].media = rows[j].media
          /\ rows'[j].window = rows[j].window /\ rows'[j].at = rows[j].at
      BY <1>7, <1>10
    <3>2. rows[j].window # none => windows'[rows[j].window].made = windows[rows[j].window].made
      BY <1>1, <1>10, <1>13, <1>15 DEF RowsInv
    <3> QED
      BY <1>1, <1>10, <2>3, <3>1, <3>2 DEF WordsInv
  <2>4. ASSUME NEW v \in DOMAIN windows', windows'[v].alive
        PROVE  /\ windows'[v].made <= now'
               /\ GoodNow(windows'[v].text, windows'[v].made)
               /\ GoodNow(windows'[v].asked, windows'[v].made)
               /\ GoodNow(windows'[v].read, windows'[v].made)
               /\ v \in DOMAIN looking'.seen =>
                    /\ looking'.seen[v] \subseteq WordRecords
                    /\ GoodNow(looking'.seen[v], windows'[v].made)
               /\ v \in sending'.ids =>
                    /\ sending'.seen[v] \subseteq WordRecords
                    /\ GoodNow(sending'.seen[v], windows'[v].made)
    <3>1. /\ v \in DOMAIN windows /\ windows[v].alive /\ windows'[v].made = windows[v].made
          /\ windows'[v].asked = windows[v].asked /\ windows'[v].read = windows[v].read
          /\ windows'[v].text = windows[v].text \/ (pending /\ v = w /\ windows'[v].text = text)
      BY <1>13, <1>15, <2>4
    <3>2. GoodNow(windows'[v].text, windows[v].made)
      BY <1>1, <1>12, <3>1 DEF WordsInv
    <3> QED
      BY <1>1, <1>2, <3>1, <3>2 DEF WordsInv
  <2> QED
    BY <1>1, <1>2, <1>3, <1>16, <2>1, <2>2, <2>3, <2>4, WordsStay DEF WordsInv
<1> QED
  BY <1>16, <1>17, <1>18, <1>19 DEF Inv

(* What a purge leaves: every window of a row that went goes with it.      *)
LEMMA PurgedInv ==
  ASSUME Inv, NEW gone \in SUBSET DOMAIN rows, NEW dropped \in SUBSET DOMAIN windows,
         purged(gone, dropped), Spend("purge"),
         \A i \in gone : rows[i].window # none => rows[i].window \in dropped
  PROVE  /\ TypesInv' /\ JobsInv' /\ RowsInv' /\ PaidInv'
         /\ DOMAIN rows' = DOMAIN rows /\ DOMAIN windows' = DOMAIN windows
         /\ \A i \in gone : ~rows'[i].alive
         /\ \A i \in DOMAIN rows \ gone :
              /\ rows'[i].alive = rows[i].alive /\ rows'[i].kind = rows[i].kind
              /\ rows'[i].at = rows[i].at /\ rows'[i].media = rows[i].media
              /\ rows'[i].heard = rows[i].heard /\ rows'[i].text = rows[i].text
              /\ rows'[i].window = IF rows[i].window \in dropped THEN none ELSE rows[i].window
         /\ \A w \in dropped : ~windows'[w].alive
         /\ \A w \in DOMAIN windows \ dropped : windows'[w] = windows[w]
<1>1. TypesInv /\ JobsInv /\ RowsInv /\ PaidInv /\ WordsInv
  BY DEF Inv
<1>2. /\ rows' = [i \in DOMAIN rows |->
           IF i \in gone THEN deleted_row(rows[i])
           ELSE IF rows[i].window \in dropped THEN [rows[i] EXCEPT !.window = none] ELSE rows[i]]
      /\ windows' = [w \in DOMAIN windows |->
           IF w \in dropped THEN deleted_window ELSE windows[w]]
      /\ now' = now /\ looking' = looking /\ sending' = sending
  BY DEF purged
<1>3. /\ rows \in Seq(RowRecords) /\ windows \in Seq(WindowRecords)
      /\ \A i \in DOMAIN rows : rows[i] \in RowRecords
      /\ \A w \in DOMAIN windows : windows[w] \in WindowRecords
      /\ none \notin DOMAIN windows
  BY <1>1, Shapes DEF TypesInv, none
<1>4. ASSUME NEW i \in gone
      PROVE  /\ deleted_row(rows[i]) \in RowRecords /\ ~deleted_row(rows[i]).alive
             /\ deleted_row(rows[i]).window = none /\ ~deleted_row(rows[i]).processed
             /\ deleted_row(rows[i]).extracted = 0 /\ deleted_row(rows[i]).media = "none"
  <2>1. rows[i].kind \in Kinds \cup {"window"}
    BY <1>3 DEF RowRecords
  <2> QED
    BY <2>1, NewRowTyped DEF deleted_row, NewRow, RowRecords, none
<1>5. deleted_window \in WindowRecords /\ ~deleted_window.alive
  <2>1. NewWindow({}, 0, FALSE) \in WindowRecords
    BY <1>1, NewWindowTyped
  <2> QED
    BY <2>1 DEF deleted_window, WindowRecords
<1>6. ASSUME NEW i \in DOMAIN rows
      PROVE  LET cut == [rows[i] EXCEPT !.window = none]
             IN  /\ cut \in RowRecords /\ cut.window = none /\ cut.kind = rows[i].kind
                 /\ cut.alive = rows[i].alive /\ cut.at = rows[i].at /\ cut.media = rows[i].media
                 /\ cut.heard = rows[i].heard /\ cut.text = rows[i].text
                 /\ cut.processed = rows[i].processed /\ cut.extracted = rows[i].extracted
                 /\ cut.needs_review = rows[i].needs_review
  BY <1>3 DEF RowRecords, none
<1>7. /\ rows' \in Seq(RowRecords) /\ DOMAIN rows' = DOMAIN rows
  <2>1. \A i \in DOMAIN rows : rows'[i] \in RowRecords
    BY <1>2, <1>3, <1>4, <1>6
  <2>2. rows' = [i \in DOMAIN rows |-> rows'[i]]
    BY <1>2
  <2> QED
    BY <1>3, <2>1, <2>2, Rewritten
<1>8. /\ windows' \in Seq(WindowRecords) /\ DOMAIN windows' = DOMAIN windows
  <2>1. \A w \in DOMAIN windows : windows'[w] \in WindowRecords
    BY <1>2, <1>3, <1>5
  <2>2. windows' = [w \in DOMAIN windows |-> windows'[w]]
    BY <1>2
  <2> QED
    BY <1>3, <2>1, <2>2, Rewritten
<1>9. \A i \in gone : /\ ~rows'[i].alive /\ rows'[i].window = none /\ ~rows'[i].processed
                      /\ rows'[i].extracted = 0 /\ rows'[i].media = "none"
  BY <1>2, <1>4
<1>10. \A i \in DOMAIN rows \ gone :
         /\ rows'[i].alive = rows[i].alive /\ rows'[i].kind = rows[i].kind
         /\ rows'[i].at = rows[i].at /\ rows'[i].media = rows[i].media
         /\ rows'[i].heard = rows[i].heard /\ rows'[i].text = rows[i].text
         /\ rows'[i].processed = rows[i].processed /\ rows'[i].extracted = rows[i].extracted
         /\ rows'[i].needs_review = rows[i].needs_review
         /\ rows'[i].window = IF rows[i].window \in dropped THEN none ELSE rows[i].window
  BY <1>2, <1>6
<1>11. /\ \A w \in dropped : ~windows'[w].alive
       /\ \A w \in DOMAIN windows \ dropped : windows'[w] = windows[w]
  BY <1>2, <1>5
<1>12. TypesInv'
  BY <1>1, <1>2, <1>7, <1>8 DEF TypesInv
<1>13. JobsInv' /\ PaidInv'
  <2>1. JobsInv'
    BY <1>1, <1>2, <1>8, <1>11, JobsStay
  <2>2. PaidInv'
    <3>1. spent' \in Spendings /\ mishaps' = mishaps + 1 /\ mishaps \in Nat
      BY <1>1, Spent, MishapsCount DEF PaidInv
    <3>2. ASSUME NEW w \in DOMAIN windows', windows'[w].alive
          PROVE  windows'[w].calls + Wasted(w)' <= mishaps' + Out(w)'
      <4>1. w \in DOMAIN windows /\ windows'[w] = windows[w]
        BY <1>8, <1>11, <3>2
      <4>2. windows[w].calls + Wasted(w) <= mishaps + Out(w)
        BY <1>1, <3>2, <4>1 DEF PaidInv
      <4>3. Out(w)' = Out(w) /\ Out(w) \in {0, 1}
        BY <1>2, <4>1 DEF Out
      <4>4. Wasted(w) \in {0, 1} /\ Wasted(w)' \in {0, 1}
        BY DEF Wasted
      <4>5. windows[w].calls \in Int
        BY <1>3, <4>1 DEF WindowRecords
      <4> QED
        BY <3>1, <4>1, <4>2, <4>3, <4>4, <4>5
    <3> QED
      BY <3>1, <3>2 DEF PaidInv
  <2> QED
    BY <2>1, <2>2
<1>14. RowsInv'
  <2>1. ASSUME NEW i \in DOMAIN rows'
        PROVE  LET r == rows'[i]
               IN  /\ r.kind = "window" => r.media = "none"
                   /\ r.window # none => /\ r.alive
                                         /\ r.window \in DOMAIN windows'
                                         /\ windows'[r.window].alive
                   /\ r.window # none /\ windows'[r.window].status \in Open => ~r.processed
                   /\ r.window # none /\ windows'[r.window].status = "applied" /\ r.kind # "window"
                        => r.processed
                   /\ r.extracted <= 1 /\ (r.extracted = 1 => r.processed)
                   /\ r.kind # "window" /\ r.processed => r.extracted = 1
    <3>1. CASE i \in gone
      BY <1>9, <3>1
    <3>2. CASE i \notin gone
      <4>1. i \in DOMAIN rows \ gone
        BY <1>7, <3>2
      <4>2. rows[i].window \notin dropped /\ rows[i].window \in DOMAIN windows
              => windows'[rows[i].window] = windows[rows[i].window]
        BY <1>11
      <4> QED
        BY <1>1, <1>8, <1>10, <4>1, <4>2 DEF RowsInv
    <3> QED
      BY <3>1, <3>2
  <2>2. ASSUME NEW w \in DOMAIN windows', windows'[w].alive, windows'[w].status = "failed"
        PROVE  Reviewed(w)'
    <3>1. w \in DOMAIN windows \ dropped /\ windows'[w] = windows[w]
      BY <1>8, <1>11, <2>2
    <3>2. PICK j \in DOMAIN rows : /\ rows[j].alive /\ rows[j].kind = "window"
                                   /\ rows[j].window = w /\ rows[j].needs_review
      BY <1>1, <2>2, <3>1 DEF RowsInv, Reviewed
    <3>3. j \notin gone
      BY <1>3, <3>1, <3>2
    <3> QED
      BY <1>7, <1>10, <3>1, <3>2, <3>3 DEF Reviewed
  <2> QED
    BY <2>1, <2>2 DEF RowsInv
<1> QED
  BY <1>7, <1>8, <1>9, <1>10, <1>11, <1>12, <1>13, <1>14

LEMMA PurgeChatInv ==
  ASSUME Inv, PurgeChat
  PROVE  Inv'
<1>1. /\ purged(DOMAIN rows, DOMAIN windows) /\ forgotten' = forgotten \cup DOMAIN rows
      /\ TypesInv /\ RowsInv /\ WordsInv /\ Spend("purge")
  BY DEF PurgeChat, Inv
<1>2. \A i \in DOMAIN rows : rows[i].window # none => rows[i].window \in DOMAIN windows
  BY <1>1 DEF RowsInv
<1>3. /\ TypesInv' /\ JobsInv' /\ RowsInv' /\ PaidInv'
      /\ DOMAIN rows' = DOMAIN rows /\ DOMAIN windows' = DOMAIN windows
      /\ \A i \in DOMAIN rows : ~rows'[i].alive
      /\ \A w \in DOMAIN windows : ~windows'[w].alive
  BY <1>1, <1>2, PurgedInv
<1>4. WordsInv'
  <2>1. forgotten' \subseteq DOMAIN rows' /\ \A i \in forgotten' : ~rows'[i].alive
    BY <1>1, <1>3 DEF WordsInv
  <2> QED
    BY <1>3, <2>1 DEF WordsInv
<1> QED
  BY <1>3, <1>4 DEF Inv

LEMMA PurgeRangeInv ==
  ASSUME Inv, NEW from \in Nat, NEW to \in Nat, PurgeRange(from, to)
  PROVE  Inv'
<1> DEFINE gone == {i \in DOMAIN rows : rows[i].alive /\ rows[i].at \in from..to}
           dropped == {w \in DOMAIN windows : \/ \E i \in gone : rows[i].window = w
                                              \/ windows[w].ended \in from..to}
<1>1. /\ purged(gone, dropped) /\ forgotten' = forgotten
      /\ TypesInv /\ RowsInv /\ WordsInv /\ now' = now /\ looking' = looking /\ sending' = sending
      /\ Spend("purge")
  BY DEF PurgeRange, Inv, purged
<1>2. gone \in SUBSET DOMAIN rows /\ dropped \in SUBSET DOMAIN windows
  OBVIOUS
<1>3. \A i \in gone : rows[i].window # none => rows[i].window \in dropped
  BY <1>1 DEF RowsInv
<1> HIDE DEF gone, dropped
<1>4. /\ TypesInv' /\ JobsInv' /\ RowsInv' /\ PaidInv'
      /\ DOMAIN rows' = DOMAIN rows /\ DOMAIN windows' = DOMAIN windows
      /\ \A i \in gone : ~rows'[i].alive
      /\ \A i \in DOMAIN rows \ gone :
           /\ rows'[i].alive = rows[i].alive /\ rows'[i].kind = rows[i].kind
           /\ rows'[i].at = rows[i].at /\ rows'[i].media = rows[i].media
           /\ rows'[i].heard = rows[i].heard /\ rows'[i].text = rows[i].text
           /\ rows'[i].window = IF rows[i].window \in dropped THEN none ELSE rows[i].window
      /\ \A w \in dropped : ~windows'[w].alive
      /\ \A w \in DOMAIN windows \ dropped : windows'[w] = windows[w]
  BY <1>1, <1>2, <1>3, PurgedInv
<1>5. WordsInv'
  <2>1. Fades(rows, forgotten, rows', forgotten')
    BY <1>1, <1>4 DEF Fades
  <2>2. forgotten' \subseteq DOMAIN rows' /\ \A i \in forgotten' : ~rows'[i].alive
    BY <1>1, <1>4 DEF WordsInv
  <2>3. ASSUME NEW j \in DOMAIN rows', rows'[j].alive
        PROVE  /\ rows'[j].kind = "window" => GoodNow(rows'[j].text, now)
               /\ rows'[j].media = "pending" /\ rows'[j].window # none
                    => windows'[rows'[j].window].made >= rows'[j].at + MEDIA_CUTOFF
    <3>1. j \in DOMAIN rows \ gone
      BY <1>4, <2>3
    <3>2. rows[j].window # none /\ rows[j].window \notin dropped
            => windows'[rows[j].window] = windows[rows[j].window]
      BY <1>1, <1>4, <3>1 DEF RowsInv
    <3> QED
      BY <1>1, <1>4, <2>3, <3>1, <3>2 DEF WordsInv
  <2>4. \A w \in DOMAIN windows' : windows'[w].alive => windows'[w] = windows[w]
    BY <1>4
  <2>5. now <= now'
    BY <1>1 DEF TypesInv
  <2> QED
    BY <1>1, <1>4, <2>1, <2>2, <2>3, <2>4, <2>5, WordsStay DEF WordsInv
<1> QED
  BY <1>4, <1>5 DEF Inv

(* The job turns to its next window: what it heard of it is what it knows, *)
(* and one request more is out for it.                                      *)
LEMMA ExtractNextInv ==
  ASSUME Inv, ExtractNext
  PROVE  Inv'
<1> DEFINE w == Head(looking.ids)
           gone == w \notin DOMAIN looking.seen /\ ~windows[w].alive
           text == IF w \in DOMAIN looking.seen THEN looking.seen[w] ELSE windows[w].text
           seen == IF gone THEN looking.seen
                   ELSE [v \in DOMAIN looking.seen \cup {w} |->
                           IF v = w THEN text ELSE looking.seen[v]]
           new == [windows[w] EXCEPT !.calls = @ + 1, !.asked = text]
<1>1. TypesInv /\ JobsInv /\ RowsInv /\ PaidInv /\ WordsInv
  BY DEF Inv
<1>2. /\ looking.ids # <<>> /\ looking.at = none
      /\ looking' = [ids |-> Tail(looking.ids), seen |-> seen,
                     at |-> IF gone THEN none ELSE w]
      /\ windows' = IF ~windows[w].alive THEN windows
                    ELSE [windows EXCEPT ![w].calls = @ + 1, ![w].asked = text]
      /\ now' = now /\ rows' = rows /\ sending' = sending /\ forgotten' = forgotten
      /\ spent' = spent
  BY DEF ExtractNext
<1>3. /\ looking.ids \in Seq(Nat) /\ now \in Nat
      /\ windows \in Seq(WindowRecords) /\ DOMAIN windows = 1..Len(windows)
      /\ Len(windows) \in Nat
  BY <1>1, Shapes DEF TypesInv
<1>4. /\ Tail(looking.ids) \in Seq(Nat) /\ Len(Tail(looking.ids)) = Len(looking.ids) - 1
      /\ \A k \in DOMAIN Tail(looking.ids) : /\ k + 1 \in DOMAIN looking.ids
                                            /\ Tail(looking.ids)[k] = looking.ids[k + 1]
      /\ 1 \in DOMAIN looking.ids /\ w = looking.ids[1]
  BY <1>2, <1>3
<1>5. /\ w \in DOMAIN windows /\ w # none
      /\ windows[w].alive => windows[w].status = "pending" /\ windows[w].instant = TRUE
  BY <1>1, <1>3, <1>4 DEF JobsInv, Waiting, none
<1>6. windows[w] \in WindowRecords
  BY <1>1, <1>5, Shapes
<1>7. windows[w].alive => /\ text \subseteq WordRecords
                          /\ GoodNow(text, windows[w].made)
  BY <1>1, <1>5, <1>6 DEF WordsInv, WindowRecords
<1>8. windows[w].alive =>
        /\ new \in WindowRecords /\ new.calls = windows[w].calls + 1 /\ new.asked = text
        /\ new.alive = windows[w].alive /\ new.status = windows[w].status
        /\ new.made = windows[w].made /\ new.text = windows[w].text
        /\ new.read = windows[w].read /\ new.instant = windows[w].instant
  <2>1. windows[w].calls + 1 \in Int
    BY <1>6 DEF WindowRecords
  <2>2. windows[w].alive => text \in SUBSET WordRecords
    BY <1>7
  <2>3. new = [windows[w] EXCEPT !.calls = windows[w].calls + 1, !.asked = text]
    OBVIOUS
  <2> HIDE DEF text, w, new
  <2>4. CASE windows[w].alive
    <3>1. text \in SUBSET WordRecords
      BY <2>2, <2>4
    <3>2. /\ new \in WindowRecords /\ new.calls = windows[w].calls + 1 /\ new.asked = text
          /\ new.alive = windows[w].alive /\ new.status = windows[w].status
          /\ new.made = windows[w].made /\ new.text = windows[w].text
          /\ new.read = windows[w].read /\ new.instant = windows[w].instant
      BY <1>6, <2>1, <2>3, <3>1 DEF WindowRecords
    <3> QED
      BY <3>2, Zenon
  <2> QED
    BY <2>4
<1>9. windows[w].alive => windows' = [windows EXCEPT ![w] = new]
  BY <1>2
<1>10. /\ \A v \in DOMAIN looking'.seen :
             looking'.seen[v] = IF v = w THEN text ELSE looking.seen[v]
       /\ \A v \in DOMAIN looking'.seen : v # w => v \in DOMAIN looking.seen
       /\ windows[w].alive => w \in DOMAIN looking'.seen
  BY <1>2
<1>11. looking'.ids = Tail(looking.ids) /\ looking'.at = IF gone THEN none ELSE w
  BY <1>2
<1>12. windows[w].alive => ~gone
  OBVIOUS
<1>13. IsLooking(looking')
  BY <1>2 DEF IsLooking
<1> HIDE DEF w, gone, text, seen, new
<1>14. /\ windows' \in Seq(WindowRecords) /\ DOMAIN windows' = DOMAIN windows
       /\ \A v \in DOMAIN windows :
            windows'[v] = IF v = w /\ windows[w].alive THEN new ELSE windows[v]
  <2>1. CASE windows[w].alive
    <3>1. w \in 1..Len(windows) /\ new \in WindowRecords
      BY <1>3, <1>5, <1>8, <2>1
    <3>2. windows' = [windows EXCEPT ![w] = new]
      BY <1>9, <2>1
    <3>3. /\ windows' \in Seq(WindowRecords) /\ Len(windows') = Len(windows)
          /\ \A v \in 1..Len(windows) : windows'[v] = IF v = w THEN new ELSE windows[v]
      BY <1>3, <3>1, <3>2, ExceptSeq
    <3> QED
      BY <1>3, <2>1, <3>3
  <2>2. CASE ~windows[w].alive
    BY <1>2, <1>3, <2>2
  <2> QED
    BY <2>1, <2>2
<1>15. TypesInv'
  <2>1. looking'.at \in Nat
    BY <1>3, <1>5, <1>11 DEF none
  <2> QED
    BY <1>1, <1>2, <1>4, <1>11, <1>13, <1>14, <2>1 DEF TypesInv
<1>16. JobsInv'
  <2>1. \A v, instant : Waiting(v, instant) => StillWaiting(v, instant)
    BY <1>8, <1>14 DEF Waiting, StillWaiting
  <2>2. ASSUME NEW k \in DOMAIN looking'.ids
        PROVE  StillWaiting(looking'.ids[k], TRUE) /\ looking'.ids[k] # looking'.at
    <3>1. k + 1 \in DOMAIN looking.ids /\ looking'.ids[k] = looking.ids[k + 1] /\ k + 1 # 1
      BY <1>4, <1>11
    <3>2. Waiting(looking.ids[k + 1], TRUE) /\ looking.ids[k + 1] # w
      BY <1>1, <1>4, <3>1 DEF JobsInv
    <3>3. looking.ids[k + 1] # none
      BY <1>3, <3>2 DEF Waiting, none
    <3> QED
      BY <1>11, <2>1, <3>1, <3>2, <3>3
  <2>3. \A j, k \in DOMAIN looking'.ids : looking'.ids[j] = looking'.ids[k] => j = k
    <3> SUFFICES ASSUME NEW j \in DOMAIN looking'.ids, NEW k \in DOMAIN looking'.ids,
                        looking'.ids[j] = looking'.ids[k]
                 PROVE  j = k
      OBVIOUS
    <3>1. j + 1 = k + 1
      BY <1>1, <1>4, <1>11 DEF JobsInv
    <3> QED
      BY <1>4, <1>11, <3>1
  <2>4. looking'.at # none => /\ StillWaiting(looking'.at, TRUE)
                              /\ windows'[looking'.at].alive => looking'.at \in DOMAIN looking'.seen
    <3> SUFFICES ASSUME looking'.at # none
                 PROVE  /\ StillWaiting(w, TRUE)
                        /\ windows'[w].alive => w \in DOMAIN looking'.seen
      BY <1>11
    <3>1. Waiting(w, TRUE)
      BY <1>5 DEF Waiting
    <3> QED
      BY <1>5, <1>8, <1>10, <1>14, <2>1, <3>1
  <2>5. \A v \in sending'.ids : StillWaiting(v, FALSE)
    BY <1>1, <1>2, <2>1 DEF JobsInv
  <2> QED
    BY <2>2, <2>3, <2>4, <2>5 DEF JobsInv, Waiting, StillWaiting
<1>17. RowsInv'
  <2>1. \A i \in DOMAIN rows : RowKept(i)
    BY <1>2 DEF RowKept
  <2>2. \A v \in DOMAIN windows : WindowKept(v)
    BY <1>8, <1>14 DEF WindowKept
  <2> QED
    BY <1>1, <1>2, <1>14, <1>15, <2>1, <2>2, RowsStay
<1>18. PaidInv'
  <2>0. mishaps' = mishaps /\ mishaps \in Nat /\ spent' \in Spendings
    BY <1>1, <1>2, MishapsCount DEF PaidInv, mishaps
  <2>1. \A v : Wasted(v) \in {0, 1} /\ Wasted(v)' \in {0, Wasted(v)}
    <3>1. \A v \in DOMAIN windows : windows'[v].alive = windows[v].alive
      BY <1>8, <1>14
    <3> QED
      BY <1>1, <1>2, <3>1, WastedStays
  <2>2. ASSUME NEW v \in DOMAIN windows', windows'[v].alive
        PROVE  windows'[v].calls + Wasted(v)' <= mishaps' + Out(v)'
    <3>1. v \in DOMAIN windows /\ windows[v].alive
      BY <1>8, <1>14, <2>2
    <3>2. windows[v].calls + Wasted(v) <= mishaps + Out(v) /\ windows[v].calls \in Int
      BY <1>1, <3>1, Shapes DEF PaidInv, WindowRecords
    <3>3. CASE v = w
      <4>1. Out(v) = 0
        BY <1>2, <1>5, <3>1, <3>3 DEF Out
      <4>2. Out(v)' = 1 /\ windows'[v].calls = windows[v].calls + 1
        BY <1>8, <1>11, <1>12, <1>14, <3>1, <3>3 DEF Out
      <4> QED
        BY <2>0, <2>1, <3>2, <4>1, <4>2
    <3>4. CASE v # w
      <4>1. looking'.at # v /\ looking.at # v
        BY <1>2, <1>3, <1>11, <3>1, <3>4 DEF none
      <4>2. windows'[v] = windows[v]
        BY <1>14, <3>1, <3>4
      <4>3. Out(v)' = Out(v) /\ Out(v) \in {0, 1}
        BY <4>1, <4>2 DEF Out
      <4> QED
        BY <2>0, <2>1, <3>2, <4>2, <4>3
    <3> QED
      BY <3>3, <3>4
  <2> QED
    BY <2>0, <2>2 DEF PaidInv
<1>19. WordsInv'
  <2>1. Fades(rows, forgotten, rows', forgotten')
    BY <1>2 DEF Fades
  <2>2. ASSUME NEW v \in DOMAIN windows', windows'[v].alive
        PROVE  /\ windows'[v].made <= now'
               /\ GoodNow(windows'[v].text, windows'[v].made)
               /\ GoodNow(windows'[v].asked, windows'[v].made)
               /\ GoodNow(windows'[v].read, windows'[v].made)
               /\ v \in DOMAIN looking'.seen =>
                    /\ looking'.seen[v] \subseteq WordRecords
                    /\ GoodNow(looking'.seen[v], windows'[v].made)
               /\ v \in sending'.ids =>
                    /\ sending'.seen[v] \subseteq WordRecords
                    /\ GoodNow(sending'.seen[v], windows'[v].made)
    <3>1. /\ v \in DOMAIN windows /\ windows[v].alive /\ windows'[v].made = windows[v].made
          /\ windows'[v].text = windows[v].text /\ windows'[v].read = windows[v].read
          /\ windows'[v].asked = windows[v].asked \/ (v = w /\ windows'[v].asked = text)
      BY <1>8, <1>14, <2>2
    <3>2. GoodNow(windows'[v].asked, windows[v].made)
      BY <1>1, <1>7, <3>1 DEF WordsInv
    <3>3. v \in DOMAIN looking'.seen => /\ looking'.seen[v] \subseteq WordRecords
                                        /\ GoodNow(looking'.seen[v], windows[v].made)
      BY <1>1, <1>7, <1>10, <3>1 DEF WordsInv
    <3> QED
      BY <1>1, <1>2, <3>1, <3>2, <3>3 DEF WordsInv
  <2>3. \A j \in DOMAIN rows : rows[j].window # none =>
          windows'[rows[j].window].made = windows[rows[j].window].made
    BY <1>1, <1>8, <1>14 DEF RowsInv
  <2>4. forgotten' \subseteq DOMAIN rows' /\ \A j \in forgotten' : ~rows'[j].alive
    BY <1>1, <1>2 DEF WordsInv
  <2>5. \A j \in DOMAIN rows' : rows'[j].alive =>
          /\ rows'[j].kind = "window" => GoodNow(rows'[j].text, now)
          /\ rows'[j].media = "pending" /\ rows'[j].window # none
               => windows'[rows'[j].window].made >= rows'[j].at + MEDIA_CUTOFF
    BY <1>1, <1>2, <2>3 DEF WordsInv
  <2>6. now <= now'
    BY <1>2, <1>3
  <2> QED
    BY <1>1, <1>15, <2>1, <2>2, <2>4, <2>5, <2>6, WordsStay
<1> QED
  BY <1>15, <1>16, <1>17, <1>18, <1>19 DEF Inv

(* The window that was asked about is let go: the request came back with   *)
(* nothing of use, or a mishap is owed for it.                             *)
LetGo(w) ==
  /\ windows'[w].alive = windows[w].alive /\ windows'[w].status = windows[w].status
  /\ windows'[w].made = windows[w].made /\ windows'[w].text = windows[w].text
  /\ windows'[w].read = windows[w].read /\ windows'[w].asked = {}
  /\ windows'[w].calls + 1 + mishaps <= windows[w].calls + mishaps'
(* All of a window but what was paid for it stays, and a mishap is owed    *)
(* for what was.                                                           *)
StaysAsItWas(w) ==
  /\ windows'[w].alive = windows[w].alive /\ windows'[w].status = windows[w].status
  /\ windows'[w].made = windows[w].made /\ windows'[w].text = windows[w].text
  /\ windows'[w].read = windows[w].read /\ windows'[w].asked = windows[w].asked
  /\ windows'[w].instant = windows[w].instant
Kept(w) == StaysAsItWas(w) /\ windows'[w].calls + mishaps <= windows[w].calls + mishaps'

LEMMA LetGoInv ==
  ASSUME Inv, TypesInv', rows' = rows, now' = now, forgotten' = forgotten,
         DOMAIN windows' = DOMAIN windows,
         \A w \in DOMAIN windows : IF w = looking.at /\ windows[w].alive THEN LetGo(w)
                                   ELSE Kept(w),
         looking'.at = none, looking'.ids = looking.ids \/ looking'.ids = <<>>,
         \A w \in DOMAIN looking'.seen : /\ w \in DOMAIN looking.seen
                                         /\ looking'.seen[w] = looking.seen[w],
         sending' = sending \/ sending' = idle_sending,
         spent' \in Spendings
  PROVE  Inv'
<1>1. TypesInv /\ JobsInv /\ RowsInv /\ PaidInv /\ WordsInv
  BY DEF Inv
<1>2. none \notin DOMAIN windows /\ now \in Nat
  BY <1>1, Shapes DEF none, TypesInv
<1>3. looking.at # none => /\ looking.at \in DOMAIN windows
                           /\ windows[looking.at].alive =>
                                windows[looking.at].status = "pending" /\ windows[looking.at].instant = TRUE
  BY <1>1 DEF JobsInv, Waiting
<1>4. JobsInv'
  <2>1. ASSUME NEW k \in DOMAIN looking'.ids
        PROVE  /\ k \in DOMAIN looking.ids /\ looking'.ids[k] = looking.ids[k]
               /\ StillWaiting(looking'.ids[k], TRUE) /\ looking'.ids[k] # looking'.at
    <3>1. k \in DOMAIN looking.ids /\ looking'.ids[k] = looking.ids[k]
      OBVIOUS
    <3>2. Waiting(looking.ids[k], TRUE) /\ looking.ids[k] # looking.at
      BY <1>1, <3>1 DEF JobsInv
    <3> QED
      BY <1>2, <3>1, <3>2 DEF Waiting, StillWaiting, Kept, StaysAsItWas
  <2>2. ASSUME NEW w \in sending'.ids PROVE StillWaiting(w, FALSE)
    <3>1. Waiting(w, FALSE)
      <4>1. sending' # idle_sending
        BY DEF idle_sending
      <4> QED
        BY <1>1, <2>2, <4>1 DEF JobsInv
    <3>2. w = looking.at => ~windows[w].alive
      BY <1>2, <1>3, <3>1 DEF Waiting
    <3> QED
      BY <3>1, <3>2 DEF Waiting, StillWaiting, Kept, StaysAsItWas
  <2>3. \A j, k \in DOMAIN looking'.ids : looking'.ids[j] = looking'.ids[k] => j = k
    BY <1>1, <2>1 DEF JobsInv
  <2> QED
    BY <2>1, <2>2, <2>3 DEF JobsInv, Waiting, StillWaiting
<1>5. RowsInv'
  <2>1. \A i \in DOMAIN rows : RowKept(i)
    BY DEF RowKept
  <2>2. \A w \in DOMAIN windows : WindowKept(w)
    BY DEF WindowKept, LetGo, Kept, StaysAsItWas
  <2> QED
    BY <1>1, <2>1, <2>2, RowsStay
<1>6. PaidInv'
  <2>1. \A w : Wasted(w) \in {0, 1} /\ Wasted(w)' \in {0, Wasted(w)}
    <3>1. \A w \in DOMAIN windows : windows'[w].alive = windows[w].alive
      BY DEF LetGo, Kept, StaysAsItWas
    <3>2. sending' = sending \/ sending'.ids = {}
      BY DEF idle_sending
    <3> QED
      BY <1>1, <3>1, <3>2, WastedStays
  <2>2. mishaps \in Nat /\ mishaps' \in Nat
    <3>1. mishaps \in Nat
      BY <1>1, MishapsCount DEF PaidInv
    <3>2. mishaps' \in Nat
      BY DEF Spendings, mishaps
    <3> QED
      BY <3>1, <3>2
  <2>3. ASSUME NEW w \in DOMAIN windows', windows'[w].alive
        PROVE  windows'[w].calls + Wasted(w)' <= mishaps' + Out(w)'
    <3>1. /\ w \in DOMAIN windows /\ windows[w].alive /\ looking'.at # w
          /\ windows'[w].status = windows[w].status
      BY <1>2, <2>3 DEF LetGo, Kept, StaysAsItWas
    <3>2. /\ windows[w].calls + Wasted(w) <= mishaps + Out(w)
          /\ windows[w].calls \in Int
      BY <1>1, <3>1, Shapes DEF PaidInv, WindowRecords
    <3>3. windows'[w].calls \in Int
      <4>1. windows' \in Seq(WindowRecords)
        BY DEF TypesInv
      <4>2. windows'[w] \in WindowRecords
        BY <2>3, <4>1, Members
      <4> QED
        BY <4>2 DEF WindowRecords
    <3>4. CASE looking.at = w
      <4>1. Out(w) = 1 /\ Out(w)' = 0
        BY <1>2, <1>3, <3>1, <3>4 DEF Out
      <4>2. windows'[w].calls + 1 + mishaps <= windows[w].calls + mishaps'
        BY <3>1, <3>4 DEF LetGo
      <4> QED
        BY <2>1, <2>2, <3>2, <3>3, <4>1, <4>2
    <3>5. CASE looking.at # w
      <4>1. Out(w)' = Out(w) /\ Out(w) \in {0, 1}
        BY <3>1, <3>5 DEF Out
      <4>2. windows'[w].calls + mishaps <= windows[w].calls + mishaps'
        BY <3>1, <3>5 DEF Kept
      <4> QED
        BY <2>1, <2>2, <3>2, <3>3, <4>1, <4>2
    <3> QED
      BY <3>4, <3>5
  <2> QED
    BY <2>3 DEF PaidInv
<1>7. WordsInv'
  <2>1. Fades(rows, forgotten, rows', forgotten')
    BY DEF Fades
  <2>2. forgotten' \subseteq DOMAIN rows' /\ \A i \in forgotten' : ~rows'[i].alive
    BY <1>1 DEF WordsInv
  <2>3. ASSUME NEW w \in DOMAIN windows', windows'[w].alive
        PROVE  /\ windows'[w].made <= now'
               /\ GoodNow(windows'[w].text, windows'[w].made)
               /\ GoodNow(windows'[w].asked, windows'[w].made)
               /\ GoodNow(windows'[w].read, windows'[w].made)
               /\ w \in DOMAIN looking'.seen =>
                    /\ looking'.seen[w] \subseteq WordRecords
                    /\ GoodNow(looking'.seen[w], windows'[w].made)
               /\ w \in sending'.ids =>
                    /\ sending'.seen[w] \subseteq WordRecords
                    /\ GoodNow(sending'.seen[w], windows'[w].made)
    <3>1. /\ w \in DOMAIN windows /\ windows[w].alive /\ windows'[w].made = windows[w].made
          /\ windows'[w].text = windows[w].text /\ windows'[w].read = windows[w].read
          /\ windows'[w].asked = windows[w].asked \/ windows'[w].asked = {}
      BY <2>3 DEF LetGo, Kept, StaysAsItWas
    <3>2. GoodNow(windows'[w].asked, windows[w].made)
      BY <1>1, <3>1 DEF WordsInv, GoodNow, Good
    <3>3. w \in sending'.ids => w \in sending.ids /\ sending'.seen[w] = sending.seen[w]
      BY DEF idle_sending
    <3> QED
      BY <1>1, <3>1, <3>2, <3>3 DEF WordsInv
  <2>4. \A w \in DOMAIN windows : windows'[w].made = windows[w].made
    BY DEF LetGo, Kept, StaysAsItWas
  <2>5. \A j \in DOMAIN rows' : rows'[j].alive =>
          /\ rows'[j].kind = "window" => GoodNow(rows'[j].text, now)
          /\ rows'[j].media = "pending" /\ rows'[j].window # none
               => windows'[rows'[j].window].made >= rows'[j].at + MEDIA_CUTOFF
    BY <1>1, <2>4 DEF WordsInv, RowsInv
  <2>6. now <= now'
    BY <1>2
  <2> QED
    BY <1>1, <2>1, <2>2, <2>3, <2>5, <2>6, WordsStay
<1> QED
  BY <1>4, <1>5, <1>6, <1>7 DEF Inv

LEMMA StillLooking ==
  ASSUME TypesInv
  PROVE  /\ IsLooking(still_looking)
         /\ still_looking.ids = looking.ids /\ still_looking.at = none
         /\ \A w \in DOMAIN still_looking.seen :
              w \in DOMAIN looking.seen /\ still_looking.seen[w] = looking.seen[w]
<1>1. looking = [ids |-> looking.ids, seen |-> looking.seen, at |-> looking.at]
  BY DEF TypesInv, IsLooking
<1>2. CASE looking.ids = <<>>
  BY <1>2 DEF still_looking, idle_looking, IsLooking
<1>3. CASE looking.ids # <<>>
  <2> DEFINE rest == Restrict(looking.seen, DOMAIN looking.seen \ {looking.at})
  <2>1. still_looking = [ids |-> looking.ids, seen |-> rest, at |-> none]
    <3>1. still_looking = [looking EXCEPT !.at = none, !.seen = rest]
      BY <1>3 DEF still_looking
    <3> HIDE DEF rest
    <3> QED
      BY <1>1, <3>1
  <2>2. \A w \in DOMAIN rest : w \in DOMAIN looking.seen /\ rest[w] = looking.seen[w]
    BY DEF Restrict
  <2> HIDE DEF rest
  <2> QED
    BY <2>1, <2>2 DEF IsLooking
<1> QED
  BY <1>2, <1>3

(* The window of an answer that was no use, or that could not be applied.  *)
Missed(w, refunded) ==
  windows' = IF windows[w].alive THEN [windows EXCEPT ![w] = instant_failed(w, refunded)]
             ELSE windows

LEMMA InstantFailed ==
  ASSUME TypesInv, JobsInv, looking.at # none, now' = now, rows' = rows,
         IsLooking(looking'), looking'.at = none,
         looking'.ids = looking.ids \/ looking'.ids = <<>>, PaidInv,
         NEW refunded \in {0, 1}, Missed(looking.at, refunded),
         mishaps' \in Nat, mishaps + 1 <= mishaps' + refunded, mishaps <= mishaps'
  PROVE  /\ TypesInv' /\ DOMAIN windows' = DOMAIN windows
         /\ \A w \in DOMAIN windows : IF w = looking.at /\ windows[w].alive THEN LetGo(w)
                                      ELSE Kept(w)
<1>1. PICK w : w = looking.at
  OBVIOUS
<1>2. /\ windows \in Seq(WindowRecords) /\ DOMAIN windows = 1..Len(windows)
      /\ w \in DOMAIN windows /\ windows[w] \in WindowRecords
  BY <1>1, Shapes DEF TypesInv, JobsInv, Waiting
<1> DEFINE new == instant_failed(w, refunded)
<1>3. /\ new \in WindowRecords /\ new.alive = windows[w].alive /\ new.status = windows[w].status
      /\ new.made = windows[w].made /\ new.text = windows[w].text
      /\ new.read = windows[w].read /\ new.asked = {}
      /\ new.calls = windows[w].calls - refunded
  <2> DEFINE last == windows[w].attempts + 1 >= BATCH_MAX_ATTEMPTS
             tries == IF last THEN 0 ELSE windows[w].attempts + 1
  <2>1. tries \in Nat /\ windows[w].calls - refunded \in Int
    <3> HIDE DEF last
    <3>1. windows[w].attempts \in Nat /\ windows[w].calls \in Int
      BY <1>2 DEF WindowRecords
    <3> QED
      BY <3>1
  <2>2. new = [windows[w] EXCEPT !.attempts = tries, !.instant = ~last,
                                 !.calls = windows[w].calls - refunded, !.asked = {}]
    BY DEF instant_failed
  <2>3. (~last) \in BOOLEAN
    OBVIOUS
  <2> HIDE DEF last, tries, new
  <2> QED
    BY <1>2, <2>1, <2>2, <2>3 DEF WindowRecords
<1> HIDE DEF new
<1>4. /\ windows' \in Seq(WindowRecords) /\ DOMAIN windows' = DOMAIN windows
      /\ \A v \in DOMAIN windows :
           windows'[v] = IF v = w /\ windows[w].alive THEN new ELSE windows[v]
  <2>0. windows' = IF windows[w].alive THEN [windows EXCEPT ![w] = new] ELSE windows
    BY <1>1 DEF new, Missed
  <2>1. CASE windows[w].alive
    <3>1. windows' = [windows EXCEPT ![w] = new]
      BY <2>0, <2>1
    <3>2. /\ windows' \in Seq(WindowRecords) /\ Len(windows') = Len(windows)
          /\ \A v \in 1..Len(windows) : windows'[v] = IF v = w THEN new ELSE windows[v]
      <4>1. w \in 1..Len(windows) /\ new \in WindowRecords
        BY <1>2, <1>3
      <4> QED
        BY <1>2, <3>1, <4>1, ExceptSeq
    <3> QED
      BY <1>2, <2>1, <3>2
  <2>2. CASE ~windows[w].alive
    BY <2>0, <1>2, <2>2
  <2> QED
    BY <2>1, <2>2
<1>5. TypesInv'
  <2>1. looking'.ids \in Seq(Nat) /\ looking'.at \in Nat
    <3>1. looking.ids \in Seq(Nat) /\ <<>> \in Seq(Nat)
      BY DEF TypesInv
    <3>2. looking'.ids \in Seq(Nat)
      BY <3>1, Zenon
    <3>3. none \in Nat
      BY DEF none
    <3> QED
      BY <3>2, <3>3, Zenon
  <2> QED
    BY <1>4, <2>1 DEF TypesInv
<1>6. ASSUME NEW v \in DOMAIN windows
      PROVE  IF v = w /\ windows[v].alive THEN LetGo(v) ELSE Kept(v)
  <2>1. windows[v].calls \in Int /\ mishaps \in Nat
    BY Shapes, MishapsCount DEF WindowRecords, PaidInv
  <2>2. CASE v = w /\ windows[v].alive
    <3>1. windows'[v] = new /\ windows[v] = windows[w]
      BY <1>4, <2>2
    <3>2. new.calls + 1 + mishaps <= windows[v].calls + mishaps'
      <4>1. new.calls = windows[v].calls - refunded
        BY <1>3, <3>1
      <4>2. \A a, m, n \in Int : m + 1 <= n + refunded => a - refunded + 1 + m <= a + n
        OBVIOUS
      <4>3. mishaps \in Int /\ mishaps' \in Int
        BY <2>1
      <4> QED
        BY <2>1, <4>1, <4>2, <4>3
    <3>3. LetGo(v)
      BY <1>3, <3>1, <3>2 DEF LetGo
    <3> QED
      BY <2>2, <3>3
  <2>3. CASE ~(v = w /\ windows[v].alive)
    BY <1>4, <2>1, <2>3 DEF Kept, StaysAsItWas
  <2> QED
    BY <2>2, <2>3
<1> QED
  BY <1>1, <1>4, <1>5, <1>6

LEMMA ExtractFailedInv ==
  ASSUME Inv, ExtractFailed
  PROVE  Inv'
<1>1. TypesInv /\ JobsInv /\ PaidInv
  BY DEF Inv
<1>2. /\ looking.at # none /\ now' = now /\ rows' = rows /\ sending' = sending
      /\ forgotten' = forgotten
      /\ Missed(looking.at, 1) /\ spent' = spent
      /\ looking' = still_looking \/ looking' = idle_looking
  BY DEF ExtractFailed, Missed
<1>3. /\ IsLooking(looking')
      /\ looking'.at = none
      /\ looking'.ids = looking.ids \/ looking'.ids = <<>>
      /\ \A w \in DOMAIN looking'.seen :
           w \in DOMAIN looking.seen /\ looking'.seen[w] = looking.seen[w]
  BY <1>1, <1>2, StillLooking DEF idle_looking, IsLooking
<1>4. spent' \in Spendings /\ mishaps' = mishaps /\ mishaps \in Nat
  BY <1>1, <1>2, MishapsCount DEF PaidInv, mishaps
<1>5. PICK refunded \in {0, 1} : refunded = 1
  OBVIOUS
<1>6. Missed(looking.at, refunded) /\ mishaps + 1 <= mishaps' + refunded /\ mishaps <= mishaps'
  BY <1>2, <1>4, <1>5
<1> QED
  BY <1>1, <1>2, <1>3, <1>4, <1>6, InstantFailed, LetGoInv

LEMMA ExtractRaisedInv ==
  ASSUME Inv, ExtractRaised
  PROVE  Inv'
<1>1. TypesInv /\ JobsInv /\ PaidInv
  BY DEF Inv
<1>2. /\ looking.at # none /\ now' = now /\ rows' = rows /\ sending' = sending
      /\ forgotten' = forgotten
      /\ Missed(looking.at, 0) /\ Spend("mishap")
      /\ looking' = [still_looking EXCEPT !.seen = <<>>]
  BY DEF ExtractRaised, Missed
<1>3. /\ IsLooking(looking')
      /\ looking'.at = none
      /\ looking'.ids = looking.ids \/ looking'.ids = <<>>
      /\ \A w \in DOMAIN looking'.seen :
           w \in DOMAIN looking.seen /\ looking'.seen[w] = looking.seen[w]
  <2>1. looking' = [ids |-> looking.ids, seen |-> <<>>, at |-> none]
    BY <1>1, <1>2, StillLooking DEF IsLooking
  <2> QED
    BY <2>1 DEF IsLooking
<1>4. spent' \in Spendings /\ mishaps' = mishaps + 1 /\ mishaps \in Nat
  BY <1>1, <1>2, Spent, MishapsCount DEF PaidInv
<1>5. PICK refunded \in {0, 1} : refunded = 0
  OBVIOUS
<1>6. Missed(looking.at, refunded) /\ mishaps + 1 <= mishaps' + refunded /\ mishaps <= mishaps'
  BY <1>2, <1>4, <1>5
<1> QED
  BY <1>1, <1>2, <1>3, <1>4, <1>6, InstantFailed, LetGoInv

(* Windows that are paid for once more, and one of which nothing more is    *)
(* heard.                                                                  *)
GoesUnheard(at, paid, ws) ==
  /\ at \in paid => ~windows[at].alive
  /\ \A w \in DOMAIN windows :
       ws[w] = IF w \in paid THEN [windows[w] EXCEPT !.calls = @ + 1] ELSE windows[w]
  /\ windows' = [w \in DOMAIN windows |-> windows'[w]]
  /\ \A w \in DOMAIN windows :
       windows'[w] = IF w = at /\ ws[w].alive THEN [ws[w] EXCEPT !.asked = {}] ELSE ws[w]

LEMMA Unheard ==
  ASSUME TypesInv, NEW at, NEW paid, NEW ws, GoesUnheard(at, paid, ws)
  PROVE  /\ windows' \in Seq(WindowRecords) /\ DOMAIN windows' = DOMAIN windows
         /\ \A w \in DOMAIN windows :
              /\ windows'[w].alive = windows[w].alive /\ windows'[w].status = windows[w].status
              /\ windows'[w].made = windows[w].made /\ windows'[w].text = windows[w].text
              /\ windows'[w].read = windows[w].read /\ windows'[w].instant = windows[w].instant
              /\ windows'[w].asked = IF w = at /\ windows[w].alive THEN {} ELSE windows[w].asked
              /\ windows'[w].calls = IF w \in paid THEN windows[w].calls + 1
                                                    ELSE windows[w].calls
<1> USE DEF GoesUnheard
<1>1. /\ windows \in Seq(WindowRecords)
      /\ \A w \in DOMAIN windows : windows[w] \in WindowRecords
  BY Shapes DEF TypesInv
<1>2. ASSUME NEW w \in DOMAIN windows
      PROVE  /\ ws[w] \in WindowRecords
             /\ ws[w].alive = windows[w].alive /\ ws[w].status = windows[w].status
             /\ ws[w].made = windows[w].made /\ ws[w].text = windows[w].text
             /\ ws[w].read = windows[w].read /\ ws[w].instant = windows[w].instant
             /\ ws[w].asked = windows[w].asked
             /\ ws[w].calls = IF w \in paid THEN windows[w].calls + 1 ELSE windows[w].calls
  <2>1. windows[w] \in WindowRecords
    BY <1>1
  <2>2. CASE w \in paid
    <3>1. ws[w] = [windows[w] EXCEPT !.calls = @ + 1]
      BY <2>2
    <3> QED
      BY <2>1, <2>2, <3>1 DEF WindowRecords
  <2>3. CASE w \notin paid
    <3>1. ws[w] = windows[w]
      BY <2>3
    <3> QED
      BY <2>1, <2>3, <3>1
  <2> QED
    BY <2>2, <2>3
<1>3. ASSUME NEW w \in DOMAIN windows
      PROVE  /\ windows'[w] \in WindowRecords
             /\ windows'[w].alive = windows[w].alive /\ windows'[w].status = windows[w].status
             /\ windows'[w].made = windows[w].made /\ windows'[w].text = windows[w].text
             /\ windows'[w].read = windows[w].read /\ windows'[w].instant = windows[w].instant
             /\ windows'[w].asked = IF w = at /\ windows[w].alive THEN {} ELSE windows[w].asked
             /\ windows'[w].calls = IF w \in paid THEN windows[w].calls + 1
                                                   ELSE windows[w].calls
  <2>1. ws[w] \in WindowRecords
    BY <1>2
  <2>2. CASE w = at /\ windows[w].alive
    <3>1. windows'[w] = [ws[w] EXCEPT !.asked = {}] /\ {} \in SUBSET WordRecords
      BY <1>2, <2>1, <2>2
    <3>2. /\ windows'[w] \in WindowRecords
          /\ windows'[w].alive = ws[w].alive /\ windows'[w].status = ws[w].status
          /\ windows'[w].made = ws[w].made /\ windows'[w].text = ws[w].text
          /\ windows'[w].read = ws[w].read /\ windows'[w].instant = ws[w].instant
          /\ windows'[w].asked = {} /\ windows'[w].calls = ws[w].calls
      BY <2>1, <3>1 DEF WindowRecords
    <3> QED
      BY <1>2, <2>2, <3>2
  <2>3. CASE ~(w = at /\ windows[w].alive)
    <3>1. windows'[w] = ws[w]
      BY <1>2, <2>1, <2>3
    <3> QED
      BY <1>2, <2>3, <3>1
  <2> QED
    BY <2>2, <2>3
<1>4. windows' = [w \in DOMAIN windows |-> windows'[w]]
  OBVIOUS
<1>5. \A w \in DOMAIN windows : windows'[w] \in WindowRecords
  BY <1>3
<1>6. PICK new : new = windows'
  OBVIOUS
<1>7. new \in Seq(WindowRecords) /\ DOMAIN new = DOMAIN windows
  <2>1. new = [w \in DOMAIN windows |-> new[w]]
    BY <1>4, <1>6
  <2>2. \A w \in DOMAIN windows : new[w] \in WindowRecords
    BY <1>5, <1>6
  <2> QED
    BY <1>1, <2>1, <2>2, Rewritten
<1> QED
  BY <1>3, <1>6, <1>7

(* Two ways to lose an answer for good: the commit of it failed, or the    *)
(* worker died, maybe with a batch on its way.                             *)
LEMMA LostInv ==
  ASSUME Inv, Spend("mishap"), looking' = idle_looking,
         sending' = sending \/ sending' = idle_sending,
         windows' = unanswered(windows) \/ windows' = unanswered(paid_for_sending),
         now' = now, rows' = rows, forgotten' = forgotten
  PROVE  Inv'
<1>1. TypesInv /\ JobsInv /\ PaidInv
  BY DEF Inv
<1>2. spent' \in Spendings /\ mishaps' = mishaps + 1 /\ mishaps \in Nat
  BY <1>1, Spent, MishapsCount DEF PaidInv
<1> DEFINE paid == IF windows' = unanswered(windows) THEN {}
                   ELSE {w \in sending.ids : windows[w].alive}
           ws == [w \in DOMAIN windows |->
                    IF w \in paid THEN [windows[w] EXCEPT !.calls = @ + 1] ELSE windows[w]]
<1>3. windows' = unanswered(ws) /\ (looking.at \in paid => ~windows[looking.at].alive)
  <2>1. CASE windows' = unanswered(windows)
    <3>1. ws = windows
      <4>1. windows \in Seq(WindowRecords)
        BY <1>1 DEF TypesInv
      <4> QED
        BY <2>1, <4>1
    <3> QED
      BY <2>1, <3>1
  <2>2. CASE windows' # unanswered(windows)
    <3>1. paid = {w \in sending.ids : windows[w].alive} /\ windows' = unanswered(paid_for_sending)
      BY <2>2
    <3>2. paid_for_sending = ws
      BY <3>1 DEF paid_for_sending
    <3>3. looking.at \notin paid
      <4> SUFFICES ASSUME looking.at \in sending.ids, windows[looking.at].alive PROVE FALSE
        BY <3>1
      <4>1. looking.at # none /\ windows[looking.at].instant = FALSE
        BY <1>1, Shapes DEF JobsInv, Waiting, none
      <4> QED
        BY <1>1, <4>1 DEF JobsInv, Waiting
    <3> QED
      BY <3>1, <3>2, <3>3
  <2> QED
    BY <2>1, <2>2
<1>whole. \A w \in DOMAIN windows :
            ws[w] = IF w \in paid THEN [windows[w] EXCEPT !.calls = @ + 1] ELSE windows[w]
  OBVIOUS
<1>same. DOMAIN ws = DOMAIN windows
  OBVIOUS
<1> HIDE DEF paid, ws
<1>4. /\ windows' \in Seq(WindowRecords) /\ DOMAIN windows' = DOMAIN windows
      /\ \A w \in DOMAIN windows :
           /\ windows'[w].alive = windows[w].alive /\ windows'[w].status = windows[w].status
           /\ windows'[w].made = windows[w].made /\ windows'[w].text = windows[w].text
           /\ windows'[w].read = windows[w].read /\ windows'[w].instant = windows[w].instant
           /\ windows'[w].asked = IF w = looking.at /\ windows[w].alive THEN {}
                                                                        ELSE windows[w].asked
           /\ windows'[w].calls = IF w \in paid THEN windows[w].calls + 1 ELSE windows[w].calls
  <2>1. windows' = [w \in DOMAIN ws |->
                      IF w = looking.at /\ ws[w].alive THEN [ws[w] EXCEPT !.asked = {}] ELSE ws[w]]
    BY <1>3 DEF unanswered
  <2>2. windows' = [w \in DOMAIN windows |-> windows'[w]]
    BY <1>same, <2>1
  <2>3. \A w \in DOMAIN windows :
          windows'[w] = IF w = looking.at /\ ws[w].alive THEN [ws[w] EXCEPT !.asked = {}] ELSE ws[w]
    BY <1>same, <2>1
  <2>4. GoesUnheard(looking.at, paid, ws)
    BY <1>3, <1>whole, <2>2, <2>3 DEF GoesUnheard
  <2> QED
    BY <1>1, <2>4, Unheard
<1>5. ASSUME NEW w \in DOMAIN windows
      PROVE  IF w = looking.at /\ windows[w].alive THEN LetGo(w) ELSE Kept(w)
  <2>1. windows[w].calls \in Int
    BY <1>1, Shapes DEF WindowRecords
  <2>2. CASE w = looking.at /\ windows[w].alive
    <3>1. windows'[w].calls = windows[w].calls
      BY <1>3, <1>4, <2>2
    <3>2. windows'[w].calls + 1 + mishaps <= windows[w].calls + mishaps'
      BY <1>2, <2>1, <3>1
    <3> QED
      BY <1>4, <2>2, <3>2 DEF LetGo
  <2>3. CASE ~(w = looking.at /\ windows[w].alive)
    BY <1>2, <1>4, <2>1, <2>3 DEF Kept, StaysAsItWas
  <2> QED
    BY <2>2, <2>3
<1>6. /\ looking'.at = none /\ looking'.ids = <<>>
      /\ \A w \in DOMAIN looking'.seen :
           w \in DOMAIN looking.seen /\ looking'.seen[w] = looking.seen[w]
      /\ IsLooking(looking')
  <2>1. looking' = [ids |-> <<>>, seen |-> <<>>, at |-> none]
    BY DEF idle_looking
  <2> QED
    BY <2>1 DEF IsLooking
<1>7. TypesInv'
  <2>1. looking'.ids \in Seq(Nat) /\ looking'.at \in Nat
    BY <1>6 DEF none
  <2> QED
    BY <1>1, <1>4, <1>6, <2>1 DEF TypesInv
<1> QED
  BY <1>2, <1>4, <1>5, <1>6, <1>7, LetGoInv

LEMMA ExtractUnwrittenInv ==
  ASSUME Inv, ExtractUnwritten
  PROVE  Inv'
  BY LostInv DEF ExtractUnwritten

LEMMA WorkerDiesInv ==
  ASSUME Inv, WorkerDies
  PROVE  Inv'
  BY LostInv DEF WorkerDies

LEMMA SubmitPendingInv ==
  ASSUME Inv, SubmitPending
  PROVE  Inv'
<1>1. TypesInv /\ JobsInv /\ RowsInv /\ PaidInv /\ WordsInv
  BY DEF Inv
<1>2. /\ sending'.ids = for_the_batch
      /\ \A w \in for_the_batch : sending'.seen[w] = windows[w].text
      /\ now' = now /\ rows' = rows /\ windows' = windows /\ looking' = looking
      /\ forgotten' = forgotten /\ spent' = spent
  BY DEF SubmitPending
<1>3. \A w \in for_the_batch : /\ w \in DOMAIN windows /\ windows[w].alive
                               /\ windows[w].instant = FALSE /\ windows[w].status = "pending"
                               /\ windows[w].text \subseteq WordRecords
  <2> SUFFICES ASSUME NEW w \in for_the_batch
               PROVE  /\ w \in DOMAIN windows /\ windows[w].alive
                      /\ windows[w].instant = FALSE /\ windows[w].status = "pending"
                      /\ windows[w].text \subseteq WordRecords
    OBVIOUS
  <2>1. /\ w \in DOMAIN windows /\ windows[w].alive /\ ~windows[w].instant
        /\ windows[w].status = "pending"
    BY DEF for_the_batch
  <2>2. windows[w] \in WindowRecords
    BY <1>1, <2>1, Shapes
  <2> QED
    BY <2>1, <2>2 DEF WindowRecords
<1>4. TypesInv'
  BY <1>1, <1>2 DEF TypesInv
<1>5. JobsInv'
  BY <1>1, <1>2, <1>3 DEF JobsInv, Waiting
<1>6. RowsInv' /\ PaidInv'
  <2>1. RowsInv'
    BY <1>1, <1>2 DEF RowsInv, Reviewed
  <2>2. ASSUME NEW w \in DOMAIN windows, windows[w].alive
        PROVE  windows[w].calls + Wasted(w)' <= mishaps + Out(w)
    <3>1. Wasted(w)' = 0
      BY <1>2, <1>3 DEF Wasted
    <3>2. windows[w].calls \in Int /\ mishaps \in Nat /\ Wasted(w) \in {0, 1} /\ Out(w) \in {0, 1}
      BY <1>1, Shapes, MishapsCount DEF WindowRecords, PaidInv, Wasted, Out
    <3>3. windows[w].calls + Wasted(w) <= mishaps + Out(w)
      BY <1>1, <2>2 DEF PaidInv
    <3> QED
      BY <3>1, <3>2, <3>3
  <2>3. \A w : Out(w)' = Out(w)
    BY <1>2 DEF Out
  <2>4. mishaps' = mishaps /\ spent' \in Spendings
    BY <1>1, <1>2 DEF PaidInv, mishaps
  <2> QED
    BY <1>2, <2>1, <2>2, <2>3, <2>4 DEF PaidInv
<1>7. WordsInv'
  BY <1>1, <1>2, <1>3 DEF WordsInv, GoodNow
<1> QED
  BY <1>4, <1>5, <1>6, <1>7 DEF Inv

LEMMA SubmitRefusedInv ==
  ASSUME Inv, SubmitRefused
  PROVE  Inv'
<1>1. TypesInv /\ JobsInv /\ RowsInv /\ PaidInv /\ WordsInv
  BY DEF Inv
<1>2. /\ sending'.ids = {}
      /\ now' = now /\ rows' = rows /\ windows' = windows /\ looking' = looking
      /\ forgotten' = forgotten /\ spent' = spent
  BY DEF SubmitRefused, idle_sending
<1>3. TypesInv' /\ JobsInv'
  BY <1>1, <1>2 DEF TypesInv, JobsInv, Waiting
<1>4. RowsInv' /\ PaidInv'
  <2>1. RowsInv'
    BY <1>1, <1>2 DEF RowsInv, Reviewed
  <2>2. mishaps' = mishaps /\ spent' \in Spendings /\ mishaps \in Nat
    BY <1>1, <1>2, MishapsCount DEF PaidInv, mishaps
  <2>3. \A w \in DOMAIN windows : windows[w].calls \in Int
    BY <1>1, Shapes DEF WindowRecords
  <2>4. \A w : Out(w)' = Out(w) /\ Out(w) \in {0, 1}
    BY <1>2 DEF Out
  <2> QED
    BY <1>1, <1>2, <1>3, <2>1, <2>2, <2>3, <2>4, PaidMoves
<1>5. WordsInv'
  BY <1>1, <1>2 DEF WordsInv, GoodNow
<1> QED
  BY <1>3, <1>4, <1>5 DEF Inv

(* Requests that were paid for and whose answers will not come: nothing of *)
(* the windows changes but what was paid for them, and it was expected     *)
(* (a batch being sent had lost a window) or a mishap is owed for it.      *)
LEMMA OnlyPaidInv ==
  ASSUME Inv, NEW paid,
         windows' = [w \in DOMAIN windows |->
                       IF w \in paid THEN [windows[w] EXCEPT !.calls = @ + 1] ELSE windows[w]],
         sending' = sending \/ sending' = idle_sending, spent' \in Spendings,
         \A w \in DOMAIN windows : windows[w].alive =>
           (IF w \in paid THEN 1 ELSE 0) + Wasted(w)' + mishaps <= Wasted(w) + mishaps',
         now' = now, rows' = rows, looking' = looking, forgotten' = forgotten
  PROVE  Inv'
<1>1. TypesInv /\ JobsInv /\ RowsInv /\ PaidInv /\ WordsInv
  BY DEF Inv
<1>2. none \notin DOMAIN windows /\ now \in Nat
  BY <1>1, Shapes DEF none, TypesInv
<1>3. /\ windows' \in Seq(WindowRecords) /\ DOMAIN windows' = DOMAIN windows
      /\ \A w \in DOMAIN windows :
           /\ StaysAsItWas(w)
           /\ windows'[w].calls = IF w \in paid THEN windows[w].calls + 1 ELSE windows[w].calls
  <2>1. PICK ws : ws = windows'
    OBVIOUS
  <2>2. \A w \in DOMAIN windows :
          windows'[w] = IF w = none /\ ws[w].alive THEN [ws[w] EXCEPT !.asked = {}] ELSE ws[w]
    BY <1>2, <2>1
  <2>3. PICK these : these = paid \ {none}
    OBVIOUS
  <2>4. \A w \in DOMAIN windows :
          ws[w] = IF w \in these THEN [windows[w] EXCEPT !.calls = @ + 1] ELSE windows[w]
    BY <1>2, <2>1, <2>3
  <2>5. none \notin these /\ \A w \in DOMAIN windows : w \in these <=> w \in paid
    BY <1>2, <2>3
  <2>7. windows' = [w \in DOMAIN windows |-> windows'[w]]
    OBVIOUS
  <2>8. GoesUnheard(none, these, ws)
    BY <2>2, <2>4, <2>5, <2>7 DEF GoesUnheard
  <2>6. /\ windows' \in Seq(WindowRecords) /\ DOMAIN windows' = DOMAIN windows
        /\ \A w \in DOMAIN windows :
             /\ windows'[w].alive = windows[w].alive /\ windows'[w].status = windows[w].status
             /\ windows'[w].made = windows[w].made /\ windows'[w].text = windows[w].text
             /\ windows'[w].read = windows[w].read /\ windows'[w].instant = windows[w].instant
             /\ windows'[w].asked = IF w = none /\ windows[w].alive THEN {} ELSE windows[w].asked
             /\ windows'[w].calls = IF w \in these THEN windows[w].calls + 1
                                                    ELSE windows[w].calls
    BY <1>1, <2>8, Unheard
  <2> QED
    BY <1>2, <2>5, <2>6 DEF StaysAsItWas
<1>4. TypesInv'
  BY <1>1, <1>3 DEF TypesInv
<1>5. JobsInv'
  <2>1. \A w, instant : Waiting(w, instant) => Waiting(w, instant)'
    BY <1>3 DEF Waiting, StaysAsItWas
  <2>2. \A w \in sending'.ids : w \in sending.ids
    BY DEF idle_sending
  <2> QED
    BY <1>1, <1>3, <2>1, <2>2 DEF JobsInv, Waiting, StaysAsItWas
<1>6. RowsInv'
  <2>1. \A i \in DOMAIN rows : RowKept(i)
    BY DEF RowKept
  <2>2. \A w \in DOMAIN windows : WindowKept(w)
    BY <1>3 DEF WindowKept, StaysAsItWas
  <2> QED
    BY <1>1, <1>3, <1>4, <2>1, <2>2, RowsStay
<1>7. PaidInv'
  <2>1. mishaps \in Nat /\ mishaps' \in Nat
    <3>1. mishaps \in Nat
      BY <1>1, MishapsCount DEF PaidInv
    <3>2. mishaps' \in Nat
      BY DEF Spendings, mishaps
    <3> QED
      BY <3>1, <3>2
  <2>2. ASSUME NEW w \in DOMAIN windows', windows'[w].alive
        PROVE  windows'[w].calls + Wasted(w)' <= mishaps' + Out(w)'
    <3>1. /\ w \in DOMAIN windows /\ windows[w].alive
          /\ windows[w].calls \in Int /\ windows[w].calls + Wasted(w) <= mishaps + Out(w)
      BY <1>1, <1>3, <2>2, Shapes DEF StaysAsItWas, WindowRecords, PaidInv
    <3>2. Out(w)' = Out(w) /\ Out(w) \in {0, 1} /\ Wasted(w) \in {0, 1} /\ Wasted(w)' \in {0, 1}
      BY <1>3, <3>1 DEF Out, Wasted, StaysAsItWas
    <3>3. windows'[w].calls = windows[w].calls + IF w \in paid THEN 1 ELSE 0
      BY <1>3, <3>1
    <3>4. (IF w \in paid THEN 1 ELSE 0) + Wasted(w)' + mishaps <= Wasted(w) + mishaps'
      BY <3>1
    <3> QED
      BY <2>1, <3>1, <3>2, <3>3, <3>4
  <2> QED
    BY <2>2 DEF PaidInv
<1>8. WordsInv'
  <2>1. Fades(rows, forgotten, rows', forgotten')
    BY DEF Fades
  <2>2. forgotten' \subseteq DOMAIN rows' /\ \A i \in forgotten' : ~rows'[i].alive
    BY <1>1 DEF WordsInv
  <2>3. ASSUME NEW w \in DOMAIN windows', windows'[w].alive
        PROVE  /\ windows'[w].made <= now'
               /\ GoodNow(windows'[w].text, windows'[w].made)
               /\ GoodNow(windows'[w].asked, windows'[w].made)
               /\ GoodNow(windows'[w].read, windows'[w].made)
               /\ w \in DOMAIN looking'.seen =>
                    /\ looking'.seen[w] \subseteq WordRecords
                    /\ GoodNow(looking'.seen[w], windows'[w].made)
               /\ w \in sending'.ids =>
                    /\ sending'.seen[w] \subseteq WordRecords
                    /\ GoodNow(sending'.seen[w], windows'[w].made)
    <3>1. /\ w \in DOMAIN windows /\ windows[w].alive /\ windows'[w].made = windows[w].made
          /\ windows'[w].text = windows[w].text /\ windows'[w].read = windows[w].read
          /\ windows'[w].asked = windows[w].asked
      BY <1>3, <2>3 DEF StaysAsItWas
    <3>2. w \in sending'.ids => w \in sending.ids /\ sending'.seen[w] = sending.seen[w]
      BY DEF idle_sending
    <3> QED
      BY <1>1, <3>1, <3>2 DEF WordsInv
  <2>4. \A w \in DOMAIN windows : windows'[w].made = windows[w].made
    BY <1>3 DEF StaysAsItWas
  <2>5. \A j \in DOMAIN rows' : rows'[j].alive =>
          /\ rows'[j].kind = "window" => GoodNow(rows'[j].text, now)
          /\ rows'[j].media = "pending" /\ rows'[j].window # none
               => windows'[rows'[j].window].made >= rows'[j].at + MEDIA_CUTOFF
    BY <1>1, <2>4 DEF WordsInv, RowsInv
  <2>6. now <= now'
    BY <1>2
  <2> QED
    BY <1>1, <1>4, <2>1, <2>2, <2>3, <2>5, <2>6, WordsStay
<1> QED
  BY <1>4, <1>5, <1>6, <1>7, <1>8 DEF Inv

(* What is being sent is charged to its windows and the job is idle again: *)
(* the batch had lost one of them, or it is a mishap.                      *)
LEMMA PaidForNothingInv ==
  ASSUME Inv, windows' = paid_for_sending, sending' = idle_sending,
         \/ Spend("mishap")
         \/ spent' = spent /\ \E v \in sending.ids : ~windows[v].alive,
         now' = now, rows' = rows, looking' = looking, forgotten' = forgotten
  PROVE  Inv'
<1>1. TypesInv /\ PaidInv
  BY DEF Inv
<1> DEFINE paid == {w \in sending.ids : windows[w].alive}
<1>2. windows' = [w \in DOMAIN windows |->
                    IF w \in paid THEN [windows[w] EXCEPT !.calls = @ + 1] ELSE windows[w]]
  BY DEF paid_for_sending
<1>3. \A w : Wasted(w)' = 0 /\ Wasted(w) \in {0, 1} /\ (w \in paid => w \in sending.ids)
  BY DEF Wasted, idle_sending
<1> HIDE DEF paid
<1>4. CASE Spend("mishap")
  <2>1. spent' \in Spendings /\ mishaps' = mishaps + 1 /\ mishaps \in Nat
    BY <1>1, <1>4, Spent, MishapsCount DEF PaidInv
  <2>2. \A w \in DOMAIN windows : windows[w].alive =>
          (IF w \in paid THEN 1 ELSE 0) + Wasted(w)' + mishaps <= Wasted(w) + mishaps'
    BY <1>3, <2>1
  <2> QED
    BY <1>2, <2>1, <2>2, OnlyPaidInv
<1>5. CASE spent' = spent /\ \E v \in sending.ids : ~windows[v].alive
  <2>1. spent' \in Spendings /\ mishaps' = mishaps /\ mishaps \in Nat
    BY <1>1, <1>5, MishapsCount DEF PaidInv, mishaps
  <2>2. \A w : w \in sending.ids => Wasted(w) = 1
    BY <1>5 DEF Wasted
  <2>3. \A w \in DOMAIN windows : windows[w].alive =>
          (IF w \in paid THEN 1 ELSE 0) + Wasted(w)' + mishaps <= Wasted(w) + mishaps'
    BY <1>3, <2>1, <2>2
  <2> QED
    BY <1>2, <2>1, <2>3, OnlyPaidInv
<1> QED
  BY <1>4, <1>5

LEMMA SubmitLostInv ==
  ASSUME Inv, SubmitLost
  PROVE  Inv'
  BY PaidForNothingInv DEF SubmitLost

(* A batch that was rolled back: its rescues are owed to the mishap.       *)
LEMMA CollectRaisedInv ==
  ASSUME Inv, NEW b, CollectRaised(b)
  PROVE  Inv'
<1>1. TypesInv /\ PaidInv
  BY DEF Inv
<1>2. PICK rescued : windows' = [w \in DOMAIN windows |->
                       IF w \in rescued THEN [windows[w] EXCEPT !.calls = @ + 1] ELSE windows[w]]
  BY DEF CollectRaised
<1>3. /\ now' = now /\ rows' = rows /\ looking' = looking /\ forgotten' = forgotten
      /\ sending' = sending /\ Spend("mishap")
  BY DEF CollectRaised
<1>4. spent' \in Spendings /\ mishaps' = mishaps + 1 /\ mishaps \in Nat
  BY <1>1, <1>3, Spent, MishapsCount DEF PaidInv
<1>5. \A w : Wasted(w) \in {0, 1} /\ Wasted(w)' \in {0, Wasted(w)}
  <2>1. JobsInv /\ \A w \in DOMAIN windows : windows[w] \in WindowRecords
    BY <1>1, Shapes DEF Inv
  <2>2. \A w \in DOMAIN windows : windows'[w].alive = windows[w].alive
    BY <1>2, <2>1 DEF WindowRecords
  <2> QED
    BY <1>3, <2>1, <2>2, WastedStays
<1>6. \A w \in DOMAIN windows : windows[w].alive =>
        (IF w \in rescued THEN 1 ELSE 0) + Wasted(w)' + mishaps <= Wasted(w) + mishaps'
  BY <1>4, <1>5
<1> QED
  BY <1>2, <1>3, <1>4, <1>6, OnlyPaidInv

(* An accepted batch that could be written charges each window once.       *)
LEMMA SubmittedInv ==
  ASSUME Inv, SubmitAccepted, \A w \in sending.ids : windows[w].alive
  PROVE  Inv'
<1> DEFINE written == \A w \in sending.ids : windows[w].alive
           sent(w) == [windows[w] EXCEPT !.calls = @ + 1, !.asked = sending.seen[w],
                                         !.status = "submitted", !.batch = next_batch]
<1>1. TypesInv /\ JobsInv /\ RowsInv /\ PaidInv /\ WordsInv
  BY DEF Inv
<1>2. /\ windows' = [w \in DOMAIN windows |->
                      IF w \notin sending.ids THEN windows[w] ELSE sent(w)]
      /\ sending'.ids = {} /\ spent' = spent
      /\ now' = now /\ rows' = rows /\ looking' = looking /\ forgotten' = forgotten
  BY DEF SubmitAccepted, submitted_batch, idle_sending
<1>3. /\ windows \in Seq(WindowRecords) /\ next_batch \in Nat /\ now \in Nat
      /\ none \notin DOMAIN windows
      /\ \A w \in DOMAIN windows : windows[w] \in WindowRecords
  BY <1>1, Shapes, NextBatch DEF TypesInv, none
<1>4. \A w \in sending.ids : /\ w \in DOMAIN windows
                             /\ windows[w].alive => /\ windows[w].status = "pending"
                                                    /\ windows[w].instant = FALSE
  BY <1>1 DEF JobsInv, Waiting
<1>5. ASSUME NEW w \in DOMAIN windows, written, w \in sending.ids
      PROVE  /\ sent(w) \in WindowRecords /\ sent(w).calls = windows[w].calls + 1
             /\ sent(w).asked = sending.seen[w] /\ sent(w).status = "submitted"
             /\ sent(w).alive = windows[w].alive /\ sent(w).made = windows[w].made
             /\ sent(w).text = windows[w].text /\ sent(w).read = windows[w].read
  <2>1. sending.seen[w] \subseteq WordRecords
    BY <1>1, <1>5 DEF WordsInv
  <2>2. windows[w] \in WindowRecords /\ windows[w].calls + 1 \in Int
    BY <1>3 DEF WindowRecords
  <2> DEFINE new == sent(w)
  <2>3. /\ new \in WindowRecords /\ new.calls = windows[w].calls + 1
        /\ new.asked = sending.seen[w] /\ new.status = "submitted"
        /\ new.alive = windows[w].alive /\ new.made = windows[w].made
        /\ new.text = windows[w].text /\ new.read = windows[w].read
    <3> HIDE DEF written
    <3> QED
      BY <1>3, <2>1, <2>2 DEF WindowRecords
  <2> QED
    BY <2>3
<1>6. ASSUME NEW w \in DOMAIN windows
      PROVE  windows'[w] = IF w \in sending.ids THEN sent(w) ELSE windows[w]
  BY <1>2
<1>all. written
  OBVIOUS
<1>7. DOMAIN windows' = DOMAIN windows /\ windows' = [w \in DOMAIN windows |-> windows'[w]]
  BY <1>2
<1> HIDE DEF sent
<1>8. windows' \in Seq(WindowRecords)
  <2>1. \A w \in DOMAIN windows : windows'[w] \in WindowRecords
    <3> HIDE DEF written
    <3> QED
      BY <1>3, <1>5, <1>6, <1>all
  <2> QED
    BY <1>3, <1>7, <2>1, Rewritten
<1>9. written => \A w \in sending.ids : windows[w].alive
  OBVIOUS
<1> HIDE DEF written
<1>10. /\ sending'.ids = {}
       /\ now' = now /\ rows' = rows /\ looking' = looking /\ forgotten' = forgotten
  BY <1>2
<1>11. TypesInv'
  BY <1>1, <1>10, <1>8 DEF TypesInv
<1>12. JobsInv'
  <2>1. \A w : Waiting(w, TRUE) => StillWaiting(w, TRUE)
    BY <1>4, <1>5, <1>6, <1>7, <1>9, <1>all DEF Waiting, StillWaiting
  <2>2. /\ \A k \in DOMAIN looking.ids : StillWaiting(looking.ids[k], TRUE)
        /\ looking.at # none => /\ StillWaiting(looking.at, TRUE)
                                /\ windows'[looking.at].alive => looking.at \in DOMAIN looking.seen
    <3>1. \A w \in DOMAIN windows : windows'[w].alive => windows[w].alive
      BY <1>5, <1>6, <1>all
    <3> QED
      BY <1>1, <2>1, <3>1 DEF JobsInv, Waiting
  <2>3. /\ \A k \in DOMAIN looking.ids : looking.ids[k] # looking.at
        /\ \A j, k \in DOMAIN looking.ids : looking.ids[j] = looking.ids[k] => j = k
    BY <1>1 DEF JobsInv
  <2> QED
    BY <1>10, <2>2, <2>3 DEF JobsInv, Waiting, StillWaiting
<1>13. RowsInv'
  <2>1. \A i \in DOMAIN rows : RowKept(i)
    BY <1>10 DEF RowKept
  <2>2. \A w \in DOMAIN windows : WindowKept(w)
    BY <1>4, <1>5, <1>6, <1>7, <1>9, <1>all DEF WindowKept, Open
  <2> QED
    BY <1>1, <1>10, <1>7, <1>11, <2>1, <2>2, RowsStay
<1>14. PaidInv'
  <2>1. mishaps' = mishaps /\ spent' \in Spendings /\ mishaps \in Nat
    BY <1>1, <1>2, MishapsCount DEF PaidInv, mishaps
  <2>2. ASSUME NEW w \in DOMAIN windows
        PROVE  /\ windows'[w].alive = windows[w].alive
               /\ windows[w].alive =>
                    windows'[w].calls + mishaps + Out(w) <= windows[w].calls + mishaps' + Out(w)'
    <3>1. windows[w].calls \in Int
      BY <1>3 DEF WindowRecords
    <3>2. CASE w \in sending.ids
      <4>1. windows[w].alive /\ windows[w].status = "pending" /\ windows[w].instant = FALSE
        BY <1>4, <1>9, <1>all, <3>2
      <4>2. looking.at # w
        BY <1>1, <1>3, <4>1 DEF JobsInv, Waiting
      <4>3. /\ windows'[w].status = "submitted" /\ windows'[w].alive = windows[w].alive
            /\ windows'[w].calls = windows[w].calls + 1
        BY <1>5, <1>6, <1>all, <3>2
      <4>4. Out(w) = 0 /\ Out(w)' = 1
        BY <4>1, <4>2, <4>3 DEF Out
      <4> QED
        BY <2>1, <3>1, <4>3, <4>4
    <3>3. CASE w \notin sending.ids
      <4>1. windows'[w] = windows[w]
        BY <1>6, <3>3
      <4>2. Out(w)' = Out(w) /\ Out(w) \in {0, 1}
        BY <1>10, <4>1 DEF Out
      <4> QED
        BY <2>1, <3>1, <4>1, <4>2
    <3> QED
      BY <3>2, <3>3
  <2> QED
    BY <1>1, <1>7, <1>10, <1>11, <2>1, <2>2, PaidMoves
<1>15. WordsInv'
  <2>1. Fades(rows, forgotten, rows', forgotten')
    BY <1>10 DEF Fades
  <2>2. forgotten' \subseteq DOMAIN rows' /\ \A i \in forgotten' : ~rows'[i].alive
    BY <1>1, <1>2 DEF WordsInv
  <2>3. ASSUME NEW w \in DOMAIN windows', windows'[w].alive
        PROVE  /\ windows'[w].made <= now'
               /\ GoodNow(windows'[w].text, windows'[w].made)
               /\ GoodNow(windows'[w].asked, windows'[w].made)
               /\ GoodNow(windows'[w].read, windows'[w].made)
               /\ w \in DOMAIN looking'.seen =>
                    /\ looking'.seen[w] \subseteq WordRecords
                    /\ GoodNow(looking'.seen[w], windows'[w].made)
               /\ w \in sending'.ids =>
                    /\ sending'.seen[w] \subseteq WordRecords
                    /\ GoodNow(sending'.seen[w], windows'[w].made)
    <3>1. /\ w \in DOMAIN windows /\ windows[w].alive /\ windows'[w].made = windows[w].made
          /\ windows'[w].text = windows[w].text /\ windows'[w].read = windows[w].read
          /\ \/ windows'[w].asked = windows[w].asked
             \/ w \in sending.ids /\ windows'[w].asked = sending.seen[w]
      BY <1>5, <1>6, <1>7, <1>all, <2>3
    <3>2. GoodNow(windows'[w].asked, windows[w].made)
      BY <1>1, <3>1 DEF WordsInv
    <3> QED
      BY <1>1, <1>10, <3>1, <3>2 DEF WordsInv
  <2>4. \A w \in DOMAIN windows : windows'[w].made = windows[w].made
    BY <1>5, <1>6, <1>all
  <2>5. \A j \in DOMAIN rows' : rows'[j].alive =>
          /\ rows'[j].kind = "window" => GoodNow(rows'[j].text, now)
          /\ rows'[j].media = "pending" /\ rows'[j].window # none
               => windows'[rows'[j].window].made >= rows'[j].at + MEDIA_CUTOFF
    BY <1>1, <1>10, <2>4 DEF WordsInv, RowsInv
  <2>6. now <= now'
    BY <1>10, <1>3
  <2> QED
    BY <1>1, <1>11, <2>1, <2>2, <2>3, <2>5, <2>6, WordsStay
<1> QED
  BY <1>11, <1>12, <1>13, <1>14, <1>15 DEF Inv

LEMMA SubmitAcceptedInv ==
  ASSUME Inv, SubmitAccepted
  PROVE  Inv'
<1>1. CASE \A w \in sending.ids : windows[w].alive
  BY <1>1, SubmittedInv
<1>2. CASE \E w \in sending.ids : ~windows[w].alive
  <2>1. /\ windows' = paid_for_sending /\ sending' = idle_sending /\ spent' = spent
        /\ now' = now /\ rows' = rows /\ looking' = looking /\ forgotten' = forgotten
    BY <1>2 DEF SubmitAccepted
  <2> QED
    BY <1>2, <2>1, PaidForNothingInv
<1> QED
  BY <1>1, <1>2

(* A sequence behind another.                                              *)
LEMMA Joined ==
  ASSUME NEW S, NEW s \in Seq(S), NEW t \in Seq(S), NEW u, u = s \o t
  PROVE  /\ u \in Seq(S) /\ Len(u) = Len(s) + Len(t)
         /\ \A i \in DOMAIN s : i \in DOMAIN u /\ u[i] = s[i]
         /\ \A i \in DOMAIN u \ DOMAIN s : i - Len(s) \in DOMAIN t /\ u[i] = t[i - Len(s)]
         /\ \A k \in DOMAIN t : k + Len(s) \in DOMAIN u \ DOMAIN s /\ u[k + Len(s)] = t[k]
<1>1. /\ Len(s) \in Nat /\ DOMAIN s = 1..Len(s)
      /\ Len(t) \in Nat /\ DOMAIN t = 1..Len(t)
  OBVIOUS
<1>2. /\ u \in Seq(S) /\ Len(u) = Len(s) + Len(t)
      /\ \A i \in 1..(Len(s) + Len(t)) : u[i] = IF i <= Len(s) THEN s[i] ELSE t[i - Len(s)]
  BY ConcatProperties
<1>3. DOMAIN u = 1..(Len(s) + Len(t))
  BY <1>2
<1>4. \A i \in DOMAIN s : i \in DOMAIN u /\ u[i] = s[i]
  BY <1>1, <1>2, <1>3
<1>5. \A i \in DOMAIN u \ DOMAIN s : i - Len(s) \in DOMAIN t /\ u[i] = t[i - Len(s)]
  BY <1>1, <1>2, <1>3
<1>6. ASSUME NEW k \in DOMAIN t
      PROVE  k + Len(s) \in DOMAIN u \ DOMAIN s /\ u[k + Len(s)] = t[k]
  <2>1. k + Len(s) \in 1..(Len(s) + Len(t)) /\ ~(k + Len(s) <= Len(s))
        /\ (k + Len(s)) - Len(s) = k
    BY <1>1
  <2> QED
    BY <1>1, <1>2, <1>3, <2>1
<1> QED
  BY <1>2, <1>4, <1>5, <1>6

(* The rows of the windows that ended: one for each, behind the others.    *)
LEMMA RowOfWindow ==
  ASSUME TypesInv, NEW w \in DOMAIN windows, NEW text \in SUBSET WordRecords, NEW applied \in BOOLEAN,
         NEW r, r = window_interaction(w, text, applied)
  PROVE  /\ r \in RowRecords /\ r.kind = "window" /\ r.window = w /\ r.text = text
         /\ r.media = "none" /\ r.processed = applied /\ r.needs_review = ~applied
         /\ r.alive /\ r.extracted = 0
<1>1. windows[w].ended \in Nat /\ w \in Nat
  BY Shapes DEF WindowRecords
<1> DEFINE new == NewRow("window", windows[w].ended)
<1>2. new \in RowRecords /\ new.kind = "window" /\ new.alive = TRUE /\ new.extracted = 0
  BY <1>1, NewRowTyped DEF NewRow
<1>3. r = [new EXCEPT !.text = text, !.window = w, !.media = "none", !.processed = applied,
                      !.needs_review = ~applied]
  BY DEF window_interaction
<1> HIDE DEF new
<1>4. (~applied) \in BOOLEAN
  OBVIOUS
<1> QED
  BY <1>1, <1>2, <1>3, <1>4 DEF RowRecords

LEMMA RowOfEnded ==
  ASSUME TypesInv, NEW w \in DOMAIN windows, NEW applied, NEW text, text[w] \subseteq WordRecords,
         NEW r, r = window_interaction(w, text[w], w \in applied)
  PROVE  /\ r \in RowRecords /\ r.kind = "window" /\ r.window = w /\ r.text = text[w]
         /\ r.media = "none" /\ r.alive /\ r.extracted = 0
         /\ w \notin applied => r.needs_review
<1> DEFINE is == w \in applied
           t == text[w]
<1>1. is \in BOOLEAN /\ t \in SUBSET WordRecords /\ r = window_interaction(w, t, is)
  OBVIOUS
<1> HIDE DEF is, t
<1>2. /\ r \in RowRecords /\ r.kind = "window" /\ r.window = w /\ r.text = t
      /\ r.media = "none" /\ r.needs_review = ~is /\ r.alive /\ r.extracted = 0
  BY <1>1, RowOfWindow
<1>3. ~is => r.needs_review
  BY <1>2
<1> QED
  BY <1>2, <1>3 DEF is, t

Landed(R, applied, failed, text) ==
  /\ R \in Seq(RowRecords) /\ DOMAIN rows \subseteq DOMAIN R
  /\ \A i \in DOMAIN rows :
       R[i] = IF rows[i].alive /\ rows[i].window \in applied
              THEN [rows[i] EXCEPT !.processed = TRUE, !.extracted = @ + 1] ELSE rows[i]
  /\ \A i \in DOMAIN R \ DOMAIN rows : \E w \in applied \cup failed :
       R[i] = window_interaction(w, text[w], w \in applied)
  /\ \A w \in applied \cup failed : \E i \in DOMAIN R \ DOMAIN rows :
       R[i] = window_interaction(w, text[w], w \in applied)

LEMMA RowsLanded ==
  ASSUME TypesInv, NEW applied, NEW failed, applied \cup failed \subseteq DOMAIN windows,
         NEW text, \A w \in applied \cup failed : text[w] \subseteq WordRecords
  PROVE  Landed(rows_landed(applied, failed, text), applied, failed, text)
<1> DEFINE ended == applied \cup failed
           over == by_id(ended)
           old == mark_members_processed(applied)
           new == [k \in DOMAIN over |->
                     window_interaction(over[k], text[over[k]], over[k] \in applied)]
           R == rows_landed(applied, failed, text)
<1>1. IsFiniteSet(ended) /\ ended \subseteq Nat
  BY Shapes, FS_Subset
<1>2. /\ over \in Seq(ended) /\ \A w \in ended : \E k \in DOMAIN over : over[k] = w
  <2> HIDE DEF ended
  <2> QED
    BY <1>1, ById
<1>3. R = old \o new
  BY DEF rows_landed
<1>4. old \in Seq(RowRecords) /\ DOMAIN old = DOMAIN rows /\ Len(old) = Len(rows)
      /\ \A i \in DOMAIN rows :
           old[i] = IF rows[i].alive /\ rows[i].window \in applied
                    THEN [rows[i] EXCEPT !.processed = TRUE, !.extracted = @ + 1] ELSE rows[i]
  <2>1. \A i \in DOMAIN rows :
          [rows[i] EXCEPT !.processed = TRUE, !.extracted = @ + 1] \in RowRecords
    <3> SUFFICES ASSUME NEW i \in DOMAIN rows
                 PROVE  [rows[i] EXCEPT !.processed = TRUE, !.extracted = @ + 1] \in RowRecords
      OBVIOUS
    <3>1. rows[i] \in RowRecords
      BY Shapes
    <3>2. rows[i].extracted + 1 \in Nat
      BY <3>1 DEF RowRecords
    <3> DEFINE more == [rows[i] EXCEPT !.processed = TRUE, !.extracted = @ + 1]
    <3>3. more \in RowRecords
      BY <3>1, <3>2 DEF RowRecords
    <3> QED
      BY <3>3
  <2>2. \A i \in DOMAIN rows : rows[i] \in RowRecords
    BY Shapes
  <2>3. old = [i \in DOMAIN rows |->
                 IF rows[i].alive /\ rows[i].window \in applied
                 THEN [rows[i] EXCEPT !.processed = TRUE, !.extracted = @ + 1] ELSE rows[i]]
    BY DEF mark_members_processed
  <2> HIDE DEF old
  <2>4. old = [i \in DOMAIN rows |-> old[i]] /\ \A i \in DOMAIN rows : old[i] \in RowRecords
    BY <2>1, <2>2, <2>3
  <2>5. rows \in Seq(RowRecords)
    BY DEF TypesInv
  <2>6. old \in Seq(RowRecords) /\ DOMAIN old = DOMAIN rows /\ Len(old) = Len(rows)
    BY <2>4, <2>5, Rewritten
  <2> QED
    BY <2>3, <2>6
<1> HIDE DEF over
<1>5. new \in Seq(RowRecords) /\ Len(new) = Len(over) /\ DOMAIN new = DOMAIN over
      /\ \A k \in DOMAIN over :
           new[k] = window_interaction(over[k], text[over[k]], over[k] \in applied)
  <2>1. \A k \in DOMAIN over : over[k] \in ended
    BY <1>2
  <2>2. \A k \in DOMAIN over :
          window_interaction(over[k], text[over[k]], over[k] \in applied) \in RowRecords
    <3> TAKE k \in DOMAIN over
    <3>1. over[k] \in DOMAIN windows /\ text[over[k]] \subseteq WordRecords
      BY <2>1
    <3> QED
      BY <3>1, RowOfEnded
  <2>3. \A k \in DOMAIN over :
          new[k] = window_interaction(over[k], text[over[k]], over[k] \in applied)
    OBVIOUS
  <2>4. new = [k \in DOMAIN over |-> new[k]]
    OBVIOUS
  <2> HIDE DEF new
  <2>5. \A k \in DOMAIN over : new[k] \in RowRecords
    BY <2>2, <2>3
  <2>6. over \in Seq(ended)
    BY <1>2
  <2> HIDE DEF ended
  <2>7. new \in Seq(RowRecords) /\ Len(new) = Len(over) /\ DOMAIN new = DOMAIN over
    BY <2>4, <2>5, <2>6, Rewritten
  <2> QED
    BY <2>3, <2>7
<1> HIDE DEF old, new, R, ended
<1>6. /\ R \in Seq(RowRecords)
      /\ \A i \in DOMAIN old : i \in DOMAIN R /\ R[i] = old[i]
      /\ \A i \in DOMAIN R \ DOMAIN old : i - Len(old) \in DOMAIN new /\ R[i] = new[i - Len(old)]
      /\ \A k \in DOMAIN new : k + Len(old) \in DOMAIN R \ DOMAIN old /\ R[k + Len(old)] = new[k]
  <2>1. old \in Seq(RowRecords) /\ new \in Seq(RowRecords)
    BY <1>4, <1>5
  <2> QED
    BY <1>3, <2>1, Joined
<1>7. \A i \in DOMAIN rows : i \in DOMAIN R /\ R[i] = old[i]
  BY <1>4, <1>6
<1>8. \A i \in DOMAIN R \ DOMAIN rows : i - Len(rows) \in DOMAIN over /\ R[i] = new[i - Len(rows)]
  BY <1>4, <1>5, <1>6
<1>9. \A k \in DOMAIN over : k + Len(rows) \in DOMAIN R \ DOMAIN rows /\ R[k + Len(rows)] = new[k]
  BY <1>4, <1>5, <1>6
<1>10. \A i \in DOMAIN R \ DOMAIN rows : \E w \in ended :
         R[i] = window_interaction(w, text[w], w \in applied)
  <2> TAKE i \in DOMAIN R \ DOMAIN rows
  <2>1. over[i - Len(rows)] \in ended
    <3>1. \A k \in DOMAIN over : over[k] \in ended
      BY <1>2
    <3> QED
      BY <1>8, <3>1
  <2> QED
    BY <1>5, <1>8, <2>1
<1>11. \A w \in ended : \E i \in DOMAIN R \ DOMAIN rows :
         R[i] = window_interaction(w, text[w], w \in applied)
  <2> TAKE w \in ended
  <2>1. PICK k \in DOMAIN over : over[k] = w
    BY <1>2
  <2> QED
    BY <1>5, <1>9, <2>1
<1>12. Landed(R, applied, failed, text)
  BY <1>4, <1>6, <1>7, <1>10, <1>11 DEF Landed, ended
<1> QED
  BY <1>12 DEF R

(* What windows become that end: the rows they hold are made use of, or    *)
(* they are up for review.                                                 *)
Ended(w, applied, failed) ==
  /\ windows'[w].alive = windows[w].alive /\ windows'[w].made = windows[w].made
  /\ IF w \in applied THEN windows'[w].status = "applied"
     ELSE IF w \in failed THEN windows'[w].status = "failed"
     ELSE windows'[w].status = windows[w].status
          \/ {windows[w].status, windows'[w].status} \subseteq Open

LEMMA LandedRows ==
  ASSUME TypesInv, RowsInv, TypesInv', NEW applied, NEW failed, NEW text,
         \A w \in applied \cup failed : /\ w \in DOMAIN windows /\ windows[w].alive
                                        /\ windows[w].status \in Open
                                        /\ text[w] \subseteq WordRecords,
         \A w \in failed : w \notin applied,
         Landed(rows', applied, failed, text), DOMAIN windows' = DOMAIN windows,
         \A w \in DOMAIN windows : Ended(w, applied, failed)
  PROVE  RowsInv'
<1>1. /\ DOMAIN rows \subseteq DOMAIN rows' /\ none \notin DOMAIN windows
      /\ \A i \in DOMAIN rows : rows[i] \in RowRecords
  BY Shapes DEF Landed, none
<1>2. ASSUME NEW i \in DOMAIN rows' \ DOMAIN rows
      PROVE  \E w \in applied \cup failed :
               /\ rows'[i].kind = "window" /\ rows'[i].window = w /\ rows'[i].alive
               /\ rows'[i].media = "none" /\ rows'[i].extracted = 0
  <2>1. PICK w \in applied \cup failed : rows'[i] = window_interaction(w, text[w], w \in applied)
    BY DEF Landed
  <2>2. w \in DOMAIN windows /\ text[w] \subseteq WordRecords
    BY <2>1
  <2> QED
    BY <2>1, <2>2, RowOfEnded
<1>3. \A w \in failed : \E i \in DOMAIN rows' :
        /\ rows'[i].kind = "window" /\ rows'[i].window = w /\ rows'[i].alive
        /\ rows'[i].needs_review
  <2> TAKE w \in failed
  <2>1. PICK i \in DOMAIN rows' : rows'[i] = window_interaction(w, text[w], w \in applied)
    BY DEF Landed
  <2>2. w \in DOMAIN windows /\ text[w] \subseteq WordRecords /\ w \notin applied
    OBVIOUS
  <2>3. /\ rows'[i].kind = "window" /\ rows'[i].window = w /\ rows'[i].alive
        /\ rows'[i].needs_review
    BY <2>1, <2>2, RowOfEnded
  <2> QED
    BY <2>3
<1>4. ASSUME NEW i \in DOMAIN rows
      PROVE  /\ rows'[i].kind = rows[i].kind /\ rows'[i].window = rows[i].window
             /\ rows'[i].alive = rows[i].alive /\ rows'[i].media = rows[i].media
             /\ rows'[i].needs_review = rows[i].needs_review
             /\ IF rows[i].alive /\ rows[i].window \in applied
                THEN rows'[i].processed /\ rows'[i].extracted = rows[i].extracted + 1
                ELSE /\ rows'[i].processed = rows[i].processed
                     /\ rows'[i].extracted = rows[i].extracted
  <2>1. rows[i] \in RowRecords
    BY <1>1
  <2>2. rows'[i] = IF rows[i].alive /\ rows[i].window \in applied
                   THEN [rows[i] EXCEPT !.processed = TRUE, !.extracted = @ + 1] ELSE rows[i]
    BY DEF Landed
  <2> QED
    BY <2>1, <2>2 DEF RowRecords
<1>5. ASSUME NEW i \in DOMAIN rows'
      PROVE  LET r == rows'[i]
             IN  /\ r.kind = "window" => r.media = "none"
                 /\ r.window # none => /\ r.alive
                                       /\ r.window \in DOMAIN windows'
                                       /\ windows'[r.window].alive
                 /\ r.window # none /\ windows'[r.window].status \in Open => ~r.processed
                 /\ r.window # none /\ windows'[r.window].status = "applied" /\ r.kind # "window"
                      => r.processed
                 /\ r.extracted <= 1 /\ (r.extracted = 1 => r.processed)
                 /\ r.kind # "window" /\ r.processed => r.extracted = 1
  <2>1. CASE i \notin DOMAIN rows
    <3>1. PICK w \in applied \cup failed :
            /\ rows'[i].kind = "window" /\ rows'[i].window = w /\ rows'[i].alive
            /\ rows'[i].media = "none" /\ rows'[i].extracted = 0
      BY <1>2, <2>1
    <3>2. windows'[w].alive /\ windows'[w].status \notin Open /\ w \in DOMAIN windows'
      BY <3>1 DEF Ended, Open
    <3> QED
      BY <3>1, <3>2
  <2>2. CASE i \in DOMAIN rows
    <3> DEFINE r == rows[i]
    <3>1. /\ r.kind = "window" => r.media = "none"
          /\ r.window # none => /\ r.alive /\ r.window \in DOMAIN windows
                                /\ windows[r.window].alive
          /\ r.window # none /\ windows[r.window].status \in Open => ~r.processed
          /\ r.window # none /\ windows[r.window].status = "applied" /\ r.kind # "window"
               => r.processed
          /\ r.extracted <= 1 /\ (r.extracted = 1 => r.processed)
          /\ r.kind # "window" /\ r.processed => r.extracted = 1
          /\ r.extracted \in Nat
      BY <1>1, <2>2 DEF RowsInv, RowRecords
    <3>2. r.window \in DOMAIN windows => Ended(r.window, applied, failed)
      OBVIOUS
    <3>3. CASE r.alive /\ r.window \in applied
      <4>1. /\ r.window # none /\ windows[r.window].status \in Open
            /\ windows'[r.window].status = "applied" /\ windows'[r.window].alive
            /\ r.window \in DOMAIN windows
        BY <1>1, <3>2, <3>3 DEF Ended
      <4>2. r.extracted = 0
        BY <3>1, <4>1
      <4> QED
        BY <1>4, <2>2, <3>1, <3>3, <4>1, <4>2 DEF Open
    <3>4. CASE ~(r.alive /\ r.window \in applied)
      <4>1. r.window # none => /\ windows'[r.window].alive
                               /\ \/ r.window \in failed /\ windows'[r.window].status = "failed"
                                  \/ windows'[r.window].status = windows[r.window].status
                                  \/ {windows[r.window].status, windows'[r.window].status} \subseteq Open
        BY <3>1, <3>2, <3>4 DEF Ended
      <4> QED
        BY <1>4, <2>2, <3>1, <3>4, <4>1 DEF Open
    <3> QED
      BY <3>3, <3>4
  <2> QED
    BY <2>1, <2>2
<1>6. ASSUME NEW w \in DOMAIN windows', windows'[w].alive, windows'[w].status = "failed"
      PROVE  Reviewed(w)'
  <2>1. CASE w \in failed
    BY <1>3, <2>1 DEF Reviewed
  <2>2. CASE w \notin failed
    <3>1. windows[w].alive /\ windows[w].status = "failed"
      BY <1>6, <2>2 DEF Ended, Open
    <3>2. Reviewed(w)
      BY <3>1 DEF RowsInv
    <3> QED
      BY <1>1, <1>4, <3>2 DEF Reviewed
  <2> QED
    BY <2>1, <2>2
<1> QED
  BY <1>5, <1>6 DEF RowsInv

LEMMA LandedWords ==
  ASSUME TypesInv, RowsInv, WordsInv, TypesInv', NEW applied, NEW failed, NEW text,
         \A w \in applied \cup failed : /\ w \in DOMAIN windows /\ windows[w].alive
                                        /\ text[w] \subseteq WordRecords
                                        /\ GoodNow(text[w], windows[w].made),
         Landed(rows', applied, failed, text), now' = now, forgotten' = forgotten,
         DOMAIN windows' = DOMAIN windows,
         \A w \in DOMAIN windows : Ended(w, applied, failed),
         \A w \in DOMAIN windows : windows[w].alive =>
           /\ GoodNow(windows'[w].text, windows[w].made)
           /\ GoodNow(windows'[w].asked, windows[w].made)
           /\ GoodNow(windows'[w].read, windows[w].made),
         \A w \in DOMAIN looking'.seen : /\ w \in DOMAIN looking.seen
                                         /\ looking'.seen[w] = looking.seen[w],
         sending' = sending
  PROVE  WordsInv'
<1>1. /\ DOMAIN rows \subseteq DOMAIN rows' /\ now \in Nat
      /\ \A i \in DOMAIN rows : rows[i] \in RowRecords
      /\ \A w \in DOMAIN windows : windows[w].made \in Nat
  BY Shapes DEF Landed, TypesInv, WindowRecords
<1>2. ASSUME NEW i \in DOMAIN rows
      PROVE  /\ rows'[i].kind = rows[i].kind /\ rows'[i].window = rows[i].window
             /\ rows'[i].alive = rows[i].alive /\ rows'[i].media = rows[i].media
             /\ rows'[i].heard = rows[i].heard /\ rows'[i].at = rows[i].at
             /\ rows'[i].text = rows[i].text
  <2>1. rows[i] \in RowRecords
    BY <1>1
  <2>2. rows'[i] = IF rows[i].alive /\ rows[i].window \in applied
                   THEN [rows[i] EXCEPT !.processed = TRUE, !.extracted = @ + 1] ELSE rows[i]
    BY DEF Landed
  <2> QED
    BY <2>1, <2>2 DEF RowRecords
<1>3. ASSUME NEW i \in DOMAIN rows' \ DOMAIN rows
      PROVE  \E w \in applied \cup failed :
               rows'[i].kind = "window" /\ rows'[i].text = text[w] /\ rows'[i].media = "none"
  <2>1. PICK w \in applied \cup failed : rows'[i] = window_interaction(w, text[w], w \in applied)
    BY DEF Landed
  <2>2. w \in DOMAIN windows /\ text[w] \subseteq WordRecords
    BY <2>1
  <2> QED
    BY <2>1, <2>2, RowOfEnded
<1>4. \A w \in applied \cup failed : GoodNow(text[w], now)
  <2> TAKE w \in applied \cup failed
  <2>1. windows[w].made <= now /\ windows[w].made \in Nat
    BY <1>1 DEF WordsInv
  <2>2. Fades(rows, forgotten, rows, forgotten) /\ \A i \in DOMAIN rows : rows[i].at \in Nat
    BY <1>1 DEF Fades, RowRecords
  <2> QED
    BY <1>1, <2>1, <2>2, GoodStays DEF GoodNow
<1>5. Fades(rows, forgotten, rows', forgotten')
  BY <1>1, <1>2 DEF Fades
<1>6. forgotten' \subseteq DOMAIN rows' /\ \A i \in forgotten' : ~rows'[i].alive
  BY <1>1, <1>2 DEF WordsInv
<1>7. ASSUME NEW w \in DOMAIN windows', windows'[w].alive
      PROVE  /\ windows'[w].made <= now'
             /\ GoodNow(windows'[w].text, windows'[w].made)
             /\ GoodNow(windows'[w].asked, windows'[w].made)
             /\ GoodNow(windows'[w].read, windows'[w].made)
             /\ w \in DOMAIN looking'.seen =>
                  /\ looking'.seen[w] \subseteq WordRecords
                  /\ GoodNow(looking'.seen[w], windows'[w].made)
             /\ w \in sending'.ids =>
                  /\ sending'.seen[w] \subseteq WordRecords
                  /\ GoodNow(sending'.seen[w], windows'[w].made)
  <2>1. w \in DOMAIN windows /\ windows[w].alive /\ windows'[w].made = windows[w].made
    BY <1>7 DEF Ended
  <2> QED
    BY <2>1 DEF WordsInv
<1>8. ASSUME NEW j \in DOMAIN rows', rows'[j].alive
      PROVE  /\ rows'[j].kind = "window" => GoodNow(rows'[j].text, now)
             /\ rows'[j].media = "pending" /\ rows'[j].window # none
                  => windows'[rows'[j].window].made >= rows'[j].at + MEDIA_CUTOFF
  <2>1. CASE j \in DOMAIN rows
    <3>1. rows[j].window # none => windows'[rows[j].window].made = windows[rows[j].window].made
      BY <2>1 DEF RowsInv, Ended
    <3> QED
      BY <1>2, <1>8, <2>1, <3>1 DEF WordsInv
  <2>2. CASE j \notin DOMAIN rows
    BY <1>3, <1>4, <2>2
  <2> QED
    BY <2>1, <2>2
<1>9. now <= now'
  BY <1>1
<1> QED
  BY <1>5, <1>6, <1>7, <1>8, <1>9, WordsStay

(* The model answered and the window is there: it is applied.              *)
Answered(w) == windows' = [windows EXCEPT ![w].status = "applied", ![w].read = windows[w].asked,
                                          ![w].asked = {}]

LEMMA AnsweredHere ==
  ASSUME Inv, NEW w, w = looking.at, w # none, windows[w].alive,
         rows' = rows_landed({w}, {}, looking.seen),
         Answered(w), looking' = still_looking,
         now' = now, sending' = sending, forgotten' = forgotten, spent' = spent
  PROVE  Inv'
<1> DEFINE new == [windows[w] EXCEPT !.status = "applied", !.read = windows[w].asked, !.asked = {}]
<1>1. TypesInv /\ JobsInv /\ RowsInv /\ PaidInv /\ WordsInv
  BY DEF Inv
<1>2. /\ w \in DOMAIN windows /\ windows[w].status = "pending" /\ windows[w].instant = TRUE
      /\ w \in DOMAIN looking.seen
  BY <1>1 DEF JobsInv, Waiting
<1>3. /\ windows \in Seq(WindowRecords) /\ DOMAIN windows = 1..Len(windows)
      /\ windows[w] \in WindowRecords /\ none \notin DOMAIN windows
  BY <1>1, <1>2, Shapes DEF TypesInv, none
<1>4. /\ looking.seen[w] \subseteq WordRecords /\ GoodNow(looking.seen[w], windows[w].made)
      /\ GoodNow(windows[w].asked, windows[w].made) /\ GoodNow(windows[w].text, windows[w].made)
      /\ GoodNow({}, windows[w].made)
  BY <1>1, <1>2 DEF WordsInv, GoodNow, Good
<1>5. /\ new \in WindowRecords /\ new.status = "applied" /\ new.alive = windows[w].alive
      /\ new.made = windows[w].made /\ new.text = windows[w].text /\ new.asked = {}
      /\ new.read = windows[w].asked /\ new.calls = windows[w].calls
  BY <1>3 DEF WindowRecords
<1>6. windows' = [windows EXCEPT ![w] = new]
  BY DEF Answered
<1> HIDE DEF new
<1>7. /\ windows' \in Seq(WindowRecords) /\ DOMAIN windows' = DOMAIN windows
      /\ \A v \in DOMAIN windows : windows'[v] = IF v = w THEN new ELSE windows[v]
  <2>1. w \in 1..Len(windows) /\ new \in WindowRecords
    BY <1>2, <1>3, <1>5
  <2>2. /\ windows' \in Seq(WindowRecords) /\ Len(windows') = Len(windows)
        /\ \A v \in 1..Len(windows) : windows'[v] = IF v = w THEN new ELSE windows[v]
    BY <1>3, <1>6, <2>1, ExceptSeq
  <2> QED
    BY <1>3, <2>2
<1>8. Landed(rows', {w}, {}, looking.seen)
  <2>1. {w} \cup {} \subseteq DOMAIN windows /\ \A v \in {w} \cup {} : looking.seen[v] \subseteq WordRecords
    BY <1>2, <1>4
  <2> QED
    BY <1>1, <2>1, RowsLanded
<1>9. /\ looking'.ids = looking.ids /\ looking'.at = none /\ IsLooking(looking')
      /\ \A v \in DOMAIN looking'.seen :
           v \in DOMAIN looking.seen /\ looking'.seen[v] = looking.seen[v]
  BY <1>1, StillLooking
<1>10. TypesInv'
  <2>1. rows' \in Seq(RowRecords)
    BY <1>8 DEF Landed
  <2>2. looking'.ids \in Seq(Nat) /\ looking'.at \in Nat
    BY <1>1, <1>9 DEF TypesInv, none
  <2> QED
    BY <1>1, <1>7, <1>9, <2>1, <2>2 DEF TypesInv
<1>11. JobsInv'
  <2>1. ASSUME NEW k \in DOMAIN looking'.ids
        PROVE  StillWaiting(looking'.ids[k], TRUE) /\ looking'.ids[k] # looking'.at
    <3>1. /\ k \in DOMAIN looking.ids /\ looking'.ids[k] = looking.ids[k]
          /\ Waiting(looking.ids[k], TRUE) /\ looking.ids[k] # w
      BY <1>1, <1>9 DEF JobsInv
    <3> QED
      BY <1>3, <1>7, <1>9, <3>1 DEF Waiting, StillWaiting
  <2>2. \A j, k \in DOMAIN looking'.ids : looking'.ids[j] = looking'.ids[k] => j = k
    BY <1>1, <1>9 DEF JobsInv
  <2>3. ASSUME NEW v \in sending.ids PROVE StillWaiting(v, FALSE)
    <3>1. Waiting(v, FALSE)
      BY <1>1 DEF JobsInv
    <3>2. v # w
      BY <1>2, <3>1 DEF Waiting
    <3> QED
      BY <1>7, <3>1, <3>2 DEF Waiting, StillWaiting
  <2>4. looking'.at = none
    BY <1>9
  <2> QED
    BY <2>1, <2>2, <2>3, <2>4 DEF JobsInv, Waiting, StillWaiting
<1>12. \A v \in DOMAIN windows : Ended(v, {w}, {})
  BY <1>5, <1>7 DEF Ended
<1>13. RowsInv'
  <2>1. PICK applied, failed : applied = {w} /\ failed = {}
    OBVIOUS
  <2>2. \A v \in applied \cup failed : /\ v \in DOMAIN windows /\ windows[v].alive
                                       /\ windows[v].status \in Open
                                       /\ looking.seen[v] \subseteq WordRecords
    BY <1>2, <1>4, <2>1 DEF Open
  <2>3. /\ \A v \in failed : v \notin applied
        /\ Landed(rows', applied, failed, looking.seen)
        /\ \A v \in DOMAIN windows : Ended(v, applied, failed)
    BY <1>8, <1>12, <2>1
  <2> QED
    BY <1>1, <1>7, <1>10, <2>2, <2>3, LandedRows
<1>14. PaidInv'
  <2>1. mishaps' = mishaps /\ spent' \in Spendings /\ mishaps \in Nat
    BY <1>1, MishapsCount DEF PaidInv, mishaps
  <2>2. ASSUME NEW v \in DOMAIN windows
        PROVE  /\ windows'[v].alive = windows[v].alive
               /\ windows[v].alive =>
                    windows'[v].calls + mishaps + Out(v) <= windows[v].calls + mishaps' + Out(v)'
    <3>1. windows[v].calls \in Int /\ Out(v) \in {0, 1}
      BY <1>1, Shapes DEF WindowRecords, Out
    <3>2. CASE v = w
      <4>1. windows'[v].calls = windows[v].calls /\ windows'[v].alive = windows[v].alive
        BY <1>5, <1>7, <3>2
      <4>2. Out(v)' = 1
        BY <1>5, <1>7, <3>2 DEF Out
      <4> QED
        BY <2>1, <3>1, <4>1, <4>2
    <3>3. CASE v # w
      <4>1. looking'.at # v /\ looking.at # v /\ windows'[v] = windows[v]
        BY <1>3, <1>7, <1>9, <3>3
      <4>2. Out(v)' = Out(v)
        BY <4>1 DEF Out
      <4> QED
        BY <2>1, <3>1, <4>1, <4>2
    <3> QED
      BY <3>2, <3>3
  <2> QED
    BY <1>1, <1>7, <1>10, <2>1, <2>2, PaidMoves
<1>15. WordsInv'
  <2>1. \A v \in {w} \cup {} : /\ v \in DOMAIN windows /\ windows[v].alive
                               /\ looking.seen[v] \subseteq WordRecords
                               /\ GoodNow(looking.seen[v], windows[v].made)
    BY <1>2, <1>4
  <2>2. \A v \in DOMAIN windows : windows[v].alive =>
           /\ GoodNow(windows'[v].text, windows[v].made)
           /\ GoodNow(windows'[v].asked, windows[v].made)
           /\ GoodNow(windows'[v].read, windows[v].made)
    BY <1>1, <1>4, <1>5, <1>7 DEF WordsInv
  <2> QED
    BY <1>1, <1>7, <1>8, <1>9, <1>10, <1>12, <2>1, <2>2, LandedWords
<1> QED
  BY <1>10, <1>11, <1>13, <1>14, <1>15 DEF Inv

LEMMA ExtractAnsweredInv ==
  ASSUME Inv, ExtractAnswered
  PROVE  Inv'
<1>1. PICK w : w = looking.at
  OBVIOUS
<1>2. /\ w # none /\ now' = now /\ sending' = sending /\ forgotten' = forgotten
      /\ TypesInv /\ JobsInv /\ PaidInv /\ spent' = spent
  BY <1>1 DEF ExtractAnswered, Inv
<1>3. CASE windows[w].alive
  BY <1>1, <1>2, <1>3, AnsweredHere DEF ExtractAnswered, Answered
<1>4. CASE ~windows[w].alive
  <2>1. rows' = rows /\ windows' = windows /\ looking' = [still_looking EXCEPT !.seen = <<>>]
    BY <1>1, <1>4 DEF ExtractAnswered
  <2>2. looking' = [ids |-> looking.ids, seen |-> <<>>, at |-> none]
    BY <1>2, <2>1, StillLooking DEF IsLooking
  <2>3. /\ IsLooking(looking') /\ looking'.at = none /\ looking'.ids = looking.ids
        /\ \A v \in DOMAIN looking'.seen :
             v \in DOMAIN looking.seen /\ looking'.seen[v] = looking.seen[v]
    BY <2>2 DEF IsLooking
  <2>4. TypesInv'
    <3>1. looking'.ids \in Seq(Nat) /\ looking'.at \in Nat
      BY <1>2, <2>3 DEF TypesInv, none
    <3> QED
      BY <1>2, <2>1, <2>3, <3>1 DEF TypesInv
  <2>5. \A v \in DOMAIN windows : IF v = looking.at /\ windows[v].alive THEN LetGo(v) ELSE Kept(v)
    <3>1. mishaps' = mishaps /\ mishaps \in Nat /\ \A v \in DOMAIN windows : windows[v].calls \in Int
      BY <1>2, Shapes, MishapsCount DEF PaidInv, mishaps, WindowRecords
    <3> QED
      BY <1>1, <1>4, <2>1, <3>1 DEF Kept, StaysAsItWas
  <2>6. spent' \in Spendings
    BY <1>2 DEF PaidInv
  <2> QED
    BY <1>2, <2>1, <2>6, <2>3, <2>4, <2>5, LetGoInv
<1> QED
  BY <1>3, <1>4

(* A result that was no use: the ladder, and the rescue at its end.        *)
LEMMA Retried ==
  ASSUME TypesInv, NEW w \in DOMAIN windows, NEW rescued,
         NEW r, r = retry_or_fallback(w, rescued)
  PROVE  /\ r \in WindowRecords /\ r.alive = windows[w].alive /\ r.made = windows[w].made
         /\ r.text = windows[w].text /\ r.asked = {}
         /\ at_cap(w) /\ w \in rescued => /\ r.status = "applied" /\ r.calls = windows[w].calls
                                          /\ r.read = windows[w].text
         /\ ~(at_cap(w) /\ w \in rescued) => r.calls = windows[w].calls - 1
                                             /\ r.read = windows[w].read
         /\ ~at_cap(w) => r.status = "pending"
         /\ at_cap(w) /\ w \notin rescued => r.status = "failed"
<1> DEFINE saved == at_cap(w) /\ w \in rescued
           status == IF ~at_cap(w) THEN "pending" ELSE IF w \in rescued THEN "applied" ELSE "failed"
           calls == (windows[w].calls - 1) + IF saved THEN 1 ELSE 0
           read == IF saved THEN windows[w].text ELSE windows[w].read
<1>1. windows[w] \in WindowRecords
  BY Shapes
<1>2. windows[w].attempts + 1 \in Nat /\ windows[w].calls \in Int
  BY <1>1 DEF WindowRecords
<1>3. /\ calls \in Int /\ (saved => calls = windows[w].calls)
      /\ (~saved => calls = windows[w].calls - 1)
  <2> HIDE DEF saved
  <2> QED
    BY <1>2
<1>4. read \in SUBSET WordRecords
  BY <1>1 DEF WindowRecords
<1>5. status \in {"pending", "applied", "failed"}
  OBVIOUS
<1>6. r = [windows[w] EXCEPT !.attempts = windows[w].attempts + 1, !.batch = none, !.asked = {},
                             !.status = status, !.calls = calls, !.read = read]
  BY DEF retry_or_fallback
<1>7. /\ (saved => status = "applied" /\ read = windows[w].text)
      /\ (~saved => read = windows[w].read)
      /\ (~at_cap(w) => status = "pending")
      /\ (at_cap(w) /\ w \notin rescued => status = "failed")
  OBVIOUS
<1> HIDE DEF status, calls, read
<1>8. /\ r \in WindowRecords /\ r.alive = windows[w].alive /\ r.made = windows[w].made
      /\ r.text = windows[w].text /\ r.asked = {}
      /\ r.status = status /\ r.calls = calls /\ r.read = read
  <2>1. PICK old, tries : old = windows[w] /\ tries = windows[w].attempts + 1
    OBVIOUS
  <2>2. r = [old EXCEPT !.attempts = tries, !.batch = 0, !.asked = {},
                        !.status = status, !.calls = calls, !.read = read]
    BY <1>6, <2>1 DEF none
  <2>3. /\ old \in WindowRecords /\ tries \in Nat /\ calls \in Int
        /\ read \in SUBSET WordRecords /\ {} \in SUBSET WordRecords
        /\ status \in {"pending", "submitted", "applied", "failed"}
    BY <1>1, <1>2, <1>3, <1>4, <1>5, <2>1
  <2>4. r \in WindowRecords
    <3> DEFINE step == [old EXCEPT !.attempts = tries, !.batch = 0, !.asked = {}]
    <3>1. step \in WindowRecords
      BY <2>3 DEF WindowRecords
    <3>2. r = [step EXCEPT !.status = status, !.calls = calls, !.read = read]
      BY <2>2
    <3> HIDE DEF step
    <3> QED
      BY <2>3, <3>1, <3>2 DEF WindowRecords
  <2>5. /\ r.alive = old.alive /\ r.made = old.made
        /\ r.text = old.text /\ r.asked = {}
        /\ r.status = status /\ r.calls = calls /\ r.read = read
    BY <2>2, <2>3 DEF WindowRecords
  <2> QED
    BY <2>1, <2>4, <2>5
<1> QED
  BY <1>3, <1>7, <1>8

LEMMA CollectedInv ==
  ASSUME Inv, NEW good, NEW laddered, NEW unread, NEW rescued,
         \A w \in good \cup laddered \cup unread :
           w \in DOMAIN windows /\ windows[w].alive /\ windows[w].status = "submitted",
         \A w \in laddered : w \notin good,
         \A w \in unread : w \notin good /\ w \notin laddered,
         collected(good, laddered, unread, rescued), spent' = spent
  PROVE  Inv'
<1> DEFINE saved == {w \in laddered : at_cap(w) /\ w \in rescued}
           lost == {w \in laddered : at_cap(w) /\ w \notin rescued}
           applied == good \cup saved
           text == [w \in DOMAIN windows |-> windows[w].text]
           read(w) == [windows[w] EXCEPT !.status = "applied", !.read = windows[w].asked, !.asked = {}]
           tried(w) == [windows[w] EXCEPT !.attempts = @ + 1]
<1>1. TypesInv /\ JobsInv /\ RowsInv /\ PaidInv /\ WordsInv
  BY DEF Inv
<1>2. /\ windows' = [w \in DOMAIN windows |->
           CASE w \in good -> read(w)
             [] w \in laddered -> retry_or_fallback(w, rescued)
             [] w \in unread -> tried(w)
             [] OTHER -> windows[w]]
      /\ rows' = rows_landed(applied, lost, text)
  BY DEF collected
<1>3. now' = now /\ looking' = looking /\ sending' = sending /\ forgotten' = forgotten
  BY DEF collected
<1>4. /\ windows \in Seq(WindowRecords) /\ \A w \in DOMAIN windows : windows[w] \in WindowRecords
  BY <1>1, Shapes DEF TypesInv
<1>5. ASSUME NEW w \in DOMAIN windows
      PROVE  /\ read(w) \in WindowRecords /\ read(w).status = "applied"
             /\ read(w).alive = windows[w].alive /\ read(w).made = windows[w].made
             /\ read(w).text = windows[w].text /\ read(w).asked = {}
             /\ read(w).read = windows[w].asked /\ read(w).calls = windows[w].calls
  <2> DEFINE new == read(w)
  <2>1. windows[w] \in WindowRecords
    BY <1>4
  <2>2. /\ new \in WindowRecords /\ new.status = "applied"
        /\ new.alive = windows[w].alive /\ new.made = windows[w].made
        /\ new.text = windows[w].text /\ new.asked = {}
        /\ new.read = windows[w].asked /\ new.calls = windows[w].calls
    BY <2>1 DEF WindowRecords
  <2> QED
    BY <2>2
<1>6. ASSUME NEW w \in DOMAIN windows
      PROVE  /\ tried(w) \in WindowRecords /\ tried(w).status = windows[w].status
             /\ tried(w).alive = windows[w].alive /\ tried(w).made = windows[w].made
             /\ tried(w).text = windows[w].text /\ tried(w).asked = windows[w].asked
             /\ tried(w).read = windows[w].read /\ tried(w).calls = windows[w].calls
  <2> DEFINE new == tried(w)
  <2>1. windows[w] \in WindowRecords /\ windows[w].attempts + 1 \in Nat
    BY <1>4 DEF WindowRecords
  <2>2. /\ new \in WindowRecords /\ new.status = windows[w].status
        /\ new.alive = windows[w].alive /\ new.made = windows[w].made
        /\ new.text = windows[w].text /\ new.asked = windows[w].asked
        /\ new.read = windows[w].read /\ new.calls = windows[w].calls
    BY <2>1 DEF WindowRecords
  <2> QED
    BY <2>2
<1>7. ASSUME NEW w \in DOMAIN windows
      PROVE  /\ w \in good => windows'[w] = read(w)
             /\ w \in laddered => windows'[w] = retry_or_fallback(w, rescued)
             /\ w \in unread => windows'[w] = tried(w)
             /\ w \notin good \cup laddered \cup unread => windows'[w] = windows[w]
  <2> HIDE DEF read, tried
  <2> QED
    BY <1>2
<1>8. DOMAIN windows' = DOMAIN windows /\ windows' = [w \in DOMAIN windows |-> windows'[w]]
  BY <1>2
<1>9. \A w \in DOMAIN windows : text[w] = windows[w].text
  OBVIOUS
<1> HIDE DEF read, tried, text
<1>10. ASSUME NEW w \in DOMAIN windows
       PROVE  /\ windows'[w] \in WindowRecords /\ windows'[w].alive = windows[w].alive
              /\ windows'[w].made = windows[w].made /\ windows'[w].text = windows[w].text
              /\ windows'[w].asked = windows[w].asked \/ windows'[w].asked = {}
              /\ windows'[w].read \in {windows[w].read, windows[w].asked, windows[w].text}
  <2>1. CASE w \in good
    BY <1>5, <1>7, <2>1
  <2>2. CASE w \in laddered
    BY <1>1, <1>7, <2>2, Retried
  <2>3. CASE w \in unread
    BY <1>6, <1>7, <2>3
  <2>4. CASE w \notin good \cup laddered \cup unread
    BY <1>4, <1>7, <2>4
  <2> QED
    BY <2>1, <2>2, <2>3, <2>4
<1>11. ASSUME NEW w \in DOMAIN windows
       PROVE  /\ w \in applied => windows'[w].status = "applied"
                                  /\ windows'[w].calls = windows[w].calls
              /\ w \in lost => windows'[w].status = "failed"
                               /\ windows'[w].calls = windows[w].calls - 1
              /\ w \in laddered /\ w \notin applied /\ w \notin lost =>
                   /\ windows'[w].status = "pending"
                   /\ windows'[w].calls = windows[w].calls - 1
              /\ w \in unread => windows'[w].status = windows[w].status
                                 /\ windows'[w].calls = windows[w].calls
  <2>1. CASE w \in good
    BY <1>5, <1>7, <2>1
  <2>2. CASE w \in laddered
    BY <1>1, <1>7, <2>2, Retried
  <2>3. CASE w \notin good \cup laddered
    BY <1>6, <1>7, <2>3
  <2> QED
    BY <2>1, <2>2, <2>3
<1>12. /\ \A w \in lost : w \notin applied
       /\ applied \cup lost \subseteq good \cup laddered
       /\ \A w \in unread : w \notin applied /\ w \notin lost
  OBVIOUS
<1> HIDE DEF saved, lost, applied
<1>13. Landed(rows', applied, lost, text)
  <2>1. /\ applied \cup lost \subseteq DOMAIN windows
        /\ \A w \in applied \cup lost : text[w] \subseteq WordRecords
    BY <1>4, <1>9, <1>12 DEF WindowRecords
  <2> QED
    BY <1>1, <1>2, <2>1, RowsLanded
<1>14. TypesInv'
  <2>1. windows' \in Seq(WindowRecords)
    BY <1>4, <1>8, <1>10, Rewritten
  <2>2. rows' \in Seq(RowRecords)
    BY <1>13 DEF Landed
  <2> QED
    BY <1>1, <1>3, <2>1, <2>2 DEF TypesInv
<1>15. \A w \in DOMAIN windows : Ended(w, applied, lost)
  <2> SUFFICES ASSUME NEW w \in DOMAIN windows PROVE Ended(w, applied, lost)
    OBVIOUS
  <2>1. CASE w \in good \cup laddered \cup unread
    BY <1>10, <1>11, <2>1 DEF Ended, Open, applied
  <2>2. CASE w \notin good \cup laddered \cup unread
    BY <1>7, <1>12, <2>2 DEF Ended
  <2> QED
    BY <2>1, <2>2
<1>16. JobsInv'
  <2>1. \A w \in DOMAIN windows :
          windows[w].status = "pending" => windows'[w] = windows[w]
    BY <1>7
  <2>2. \A w \in DOMAIN windows : windows'[w].alive => windows[w].alive
    BY <1>10
  <2> QED
    BY <1>1, <1>3, <1>8, <2>1, <2>2, JobsStay
<1>17. RowsInv'
  <2>1. \A w \in applied \cup lost : /\ w \in DOMAIN windows /\ windows[w].alive
                                     /\ windows[w].status \in Open
                                     /\ text[w] \subseteq WordRecords
    BY <1>4, <1>9, <1>12 DEF WindowRecords, Open
  <2> QED
    BY <1>1, <1>8, <1>12, <1>13, <1>14, <1>15, <2>1, LandedRows
<1>18. PaidInv'
  <2>1. mishaps' = mishaps /\ spent' \in Spendings /\ mishaps \in Nat
    BY <1>1, MishapsCount DEF PaidInv, mishaps
  <2>2. ASSUME NEW w \in DOMAIN windows, windows[w].alive
        PROVE  windows'[w].calls + mishaps + Out(w) <= windows[w].calls + mishaps' + Out(w)'
    <3>1. windows[w].calls \in Int /\ Out(w) \in {0, 1} /\ Out(w)' \in {0, 1}
      BY <1>4 DEF WindowRecords, Out
    <3>2. CASE w \in good \cup laddered \cup unread
      <4>1. windows[w].status = "submitted" /\ Out(w) = 1
        BY <3>2 DEF Out
      <4>2. \/ windows'[w].calls = windows[w].calls - 1
            \/ /\ windows'[w].calls = windows[w].calls
               /\ windows'[w].status \in {"submitted", "applied"}
        BY <1>11, <3>2, <4>1 DEF applied
      <4>3. windows'[w].status \in {"submitted", "applied"} => Out(w)' = 1
        BY DEF Out
      <4> QED
        BY <2>1, <3>1, <4>1, <4>2, <4>3
    <3>3. CASE w \notin good \cup laddered \cup unread
      <4>1. windows'[w] = windows[w] /\ Out(w)' = Out(w)
        BY <1>3, <1>7, <3>3 DEF Out
      <4> QED
        BY <2>1, <3>1, <4>1
    <3> QED
      BY <3>2, <3>3
  <2> QED
    BY <1>1, <1>3, <1>8, <1>10, <1>14, <2>1, <2>2, PaidMoves
<1>19. WordsInv'
  <2>1. \A w \in applied \cup lost : /\ w \in DOMAIN windows /\ windows[w].alive
                                     /\ text[w] \subseteq WordRecords
                                     /\ GoodNow(text[w], windows[w].made)
    BY <1>1, <1>4, <1>9, <1>12 DEF WindowRecords, WordsInv
  <2>2. \A w \in DOMAIN windows : windows[w].alive =>
           /\ GoodNow(windows'[w].text, windows[w].made)
           /\ GoodNow(windows'[w].asked, windows[w].made)
           /\ GoodNow(windows'[w].read, windows[w].made)
    <3>1. \A w : GoodNow({}, w)
      BY DEF GoodNow, Good
    <3> QED
      BY <1>1, <1>10, <3>1 DEF WordsInv
  <2>3. \A w \in DOMAIN looking'.seen : /\ w \in DOMAIN looking.seen
                                        /\ looking'.seen[w] = looking.seen[w]
    BY <1>3
  <2> QED
    BY <1>1, <1>3, <1>8, <1>13, <1>14, <1>15, <2>1, <2>2, <2>3, LandedWords
<1> QED
  BY <1>14, <1>16, <1>17, <1>18, <1>19 DEF Inv

LEMMA CollectEntriesInv ==
  ASSUME Inv, NEW b, CollectEntries(b)
  PROVE  Inv'
<1>1. PICK good \in SUBSET waiting_for(b), rescued \in SUBSET waiting_for(b) :
        collected(good, waiting_for(b) \ good, {}, rescued)
  BY DEF CollectEntries
<1>2. \A w \in waiting_for(b) :
        w \in DOMAIN windows /\ windows[w].alive /\ windows[w].status = "submitted"
  BY DEF waiting_for
<1>3. PICK laddered, unread : laddered = waiting_for(b) \ good /\ unread = {}
  OBVIOUS
<1>4. /\ \A w \in good \cup laddered \cup unread :
           w \in DOMAIN windows /\ windows[w].alive /\ windows[w].status = "submitted"
      /\ \A w \in laddered : w \notin good
      /\ \A w \in unread : w \notin good /\ w \notin laddered
      /\ collected(good, laddered, unread, rescued)
  BY <1>1, <1>2, <1>3
<1>5. spent' = spent
  BY DEF CollectEntries
<1> QED
  BY <1>4, <1>5, CollectedInv

LEMMA CollectUnreadableInv ==
  ASSUME Inv, NEW b, CollectUnreadable(b)
  PROVE  Inv'
<1> DEFINE tired == {w \in waiting_for(b) : at_cap(w)}
<1>1. PICK rescued \in SUBSET tired :
        collected({}, tired, waiting_for(b) \ tired, rescued)
  BY DEF CollectUnreadable
<1>2. \A w \in waiting_for(b) :
        w \in DOMAIN windows /\ windows[w].alive /\ windows[w].status = "submitted"
  BY DEF waiting_for
<1>3. PICK good, laddered, unread :
        good = {} /\ laddered = tired /\ unread = waiting_for(b) \ tired
  OBVIOUS
<1>4. /\ \A w \in good \cup laddered \cup unread :
           w \in DOMAIN windows /\ windows[w].alive /\ windows[w].status = "submitted"
      /\ \A w \in laddered : w \notin good
      /\ \A w \in unread : w \notin good /\ w \notin laddered
      /\ collected(good, laddered, unread, rescued)
  BY <1>1, <1>2, <1>3
<1>5. spent' = spent
  BY DEF CollectUnreadable
<1> QED
  BY <1>4, <1>5, CollectedInv

(* The backlog that is cut: messages nobody took, whose media is settled.  *)
LEMMA Backlog ==
  ASSUME TypesInv, NEW s, s = settled_prefix(by_time(unclaimed))
  PROVE  /\ s \in Seq(DOMAIN rows)
         /\ \A i \in Range(s) : i \in unclaimed /\ ~unsettled(i)
<1> DEFINE t == by_time(unclaimed)
           stops == {k \in DOMAIN t : unsettled(t[k])}
<1>1. unclaimed \subseteq DOMAIN rows
  BY DEF unclaimed
<1>2. t \in Seq(unclaimed)
  BY <1>1, ByTime
<1> HIDE DEF t
<1>3. /\ Len(t) \in Nat /\ DOMAIN t = 1..Len(t) /\ \A k \in DOMAIN t : t[k] \in unclaimed
      /\ t \in Seq(DOMAIN rows)
  BY <1>1, <1>2
<1>4. s = IF stops = {} THEN t ELSE SubSeq(t, 1, Min(stops) - 1)
  BY DEF settled_prefix, t
<1>5. CASE stops = {}
  <2>1. s = t
    BY <1>4, <1>5
  <2>2. \A k \in DOMAIN t : ~unsettled(t[k])
    BY <1>5
  <2> HIDE DEF stops
  <2>3. \A i \in Range(s) : i \in unclaimed /\ ~unsettled(i)
    BY <1>3, <2>1, <2>2 DEF Range
  <2> QED
    BY <1>3, <2>1, <2>3
<1>6. CASE stops # {}
  <2> DEFINE m == Min(stops)
  <2>1. stops \subseteq Nat
    BY <1>3
  <2>2. m \in stops /\ \A k \in stops : m <= k
    <3> HIDE DEF stops
    <3> QED
      BY <1>6, <2>1, MinIsLeast
  <2>3. \A k \in DOMAIN t : k < m => ~unsettled(t[k])
    <3> SUFFICES ASSUME NEW k \in DOMAIN t, k < m, unsettled(t[k]) PROVE FALSE
      OBVIOUS
    <3>1. k \in stops
      OBVIOUS
    <3>2. m <= k
      BY <2>2, <3>1
    <3>3. k \in Nat /\ m \in Nat
      BY <1>3, <2>1, <2>2
    <3> HIDE DEF m
    <3> QED
      BY <3>2, <3>3
  <2>4. m \in 1..Len(t) /\ s = SubSeq(t, 1, m - 1)
    BY <1>3, <1>4, <1>6, <2>2
  <2> HIDE DEF m, stops
  <2>5. \A k \in 1..(m - 1) : t[k] \in DOMAIN rows /\ k \in DOMAIN t /\ k < m
    BY <1>1, <1>3, <2>4
  <2>6. m - 1 \in Int /\ m - 1 - 1 + 1 = m - 1
    BY <2>4
  <2>7. /\ s \in Seq(DOMAIN rows) /\ Len(s) = IF 1 <= m - 1 THEN m - 1 ELSE 0
        /\ \A k \in 1..(m - 1) : s[k] = t[k]
    <3>1. /\ s \in Seq(DOMAIN rows) /\ Len(s) = IF 1 <= m - 1 THEN m - 1 - 1 + 1 ELSE 0
          /\ \A k \in 1..(m - 1 - 1 + 1) : s[k] = t[1 + k - 1]
      BY <2>4, <2>5, <2>6, SubSeqProperties
    <3>2. \A k \in 1..(m - 1) : 1 + k - 1 = k
      OBVIOUS
    <3> QED
      BY <2>6, <3>1, <3>2
  <2>8. \A k \in DOMAIN s : k \in 1..(m - 1)
    BY <2>4, <2>7
  <2> QED
    BY <1>3, <2>3, <2>5, <2>7, <2>8 DEF Range
<1> QED
  BY <1>5, <1>6

(* What becomes one window.                                                *)
LEMMA NewWindowOf ==
  ASSUME TypesInv, WordsInv, NEW t \in Seq(DOMAIN rows), t # <<>>,
         \A i \in Range(t) : i \in unclaimed /\ ~unsettled(i),
         NEW r, r = window_of(t)
  PROVE  /\ r \in WindowRecords /\ r.alive /\ r.status = "pending" /\ r.made = now
         /\ r.calls = 0 /\ r.read = {} /\ r.asked = {} /\ GoodNow(r.text, now)
<1> DEFINE S == Range(t)
           ended == rows[Last(t)].at
           instant == wants_instant(t)
<1>1. S \subseteq unclaimed /\ S \in SUBSET DOMAIN rows
  BY DEF unclaimed
<1>2. ended \in Nat
  <2>1. Len(t) \in DOMAIN t
    BY EmptySeq
  <2>2. Last(t) \in DOMAIN rows
    BY <2>1 DEF Last
  <2> QED
    BY <2>2, Shapes DEF RowRecords
<1>3. instant \in BOOLEAN
  BY DEF wants_instant
<1>4. r = NewWindow(S, ended, instant)
  BY DEF window_of
<1>5. now \in Nat /\ MEDIA_CUTOFF \in Nat
  BY WindowsAssumption DEF TypesInv
<1>6. GoodNow(render_window(S), now)
  <2> SUFFICES ASSUME NEW v \in render_window(S)
               PROVE  /\ v.row \in DOMAIN rows /\ v.row \notin forgotten
                      /\ ~v.heard => Waited(rows, v.row, now)
    BY DEF GoodNow, Good
  <2>1. PICK i \in S : v \in words(i)
    BY DEF render_window
  <2>2. i \in DOMAIN rows /\ rows[i].alive /\ ~unsettled(i) /\ rows[i] \in RowRecords
    BY <2>1, Shapes DEF unclaimed
  <2>3. CASE rows[i].kind = "window"
    BY <2>1, <2>2, <2>3 DEF words, WordsInv, GoodNow, Good
  <2>4. CASE rows[i].kind # "window"
    <3>1. v = [row |-> i, edits |-> rows[i].edits, heard |-> rows[i].heard]
      BY <2>1, <2>4 DEF words
    <3>2. v.row = i /\ v.heard = rows[i].heard
      BY <3>1
    <3>3. i \notin forgotten
      BY <2>2 DEF WordsInv
    <3>4. rows[i].media = "pending" => now >= rows[i].at + MEDIA_CUTOFF
      <4>1. rows[i].at \in Nat
        BY <2>2 DEF RowRecords
      <4> QED
        BY <1>5, <2>2, <4>1 DEF unsettled
    <3> QED
      BY <2>2, <3>2, <3>3, <3>4 DEF Waited
  <2> QED
    BY <2>3, <2>4
<1> HIDE DEF S, ended, instant
<1>7. r \in WindowRecords
  BY <1>1, <1>2, <1>3, <1>4, NewWindowTyped
<1>8. /\ r.alive /\ r.status = "pending" /\ r.made = now /\ r.text = render_window(S)
      /\ r.calls = 0 /\ r.read = {} /\ r.asked = {}
  BY <1>4 DEF NewWindow
<1> QED
  BY <1>6, <1>7, <1>8

LEMMA FlushInv ==
  ASSUME Inv, FlushReadyWindows
  PROVE  Inv'
<1>1. TypesInv /\ JobsInv /\ RowsInv /\ PaidInv /\ WordsInv
  BY DEF Inv
<1>2. PICK backlog, ready : /\ backlog = settled_prefix(by_time(unclaimed))
                            /\ ready = slices(backlog)
  OBVIOUS
<1> DEFINE new == [k \in DOMAIN ready |-> window_of(ready[k])]
           made == windows \o new
           instants == {w \in DOMAIN made : /\ made[w].alive /\ made[w].instant
                                           /\ made[w].status = "pending"}
           held(i) == {k \in DOMAIN ready : i \in Range(ready[k])}
           place(i) == Len(windows) + Min(held(i))
<1>3. /\ windows' = made
      /\ rows' = [i \in DOMAIN rows |->
                    IF held(i) = {} THEN rows[i]
                    ELSE [rows[i] EXCEPT !.window = Len(windows) + Min(held(i))]]
      /\ looking' = [ids |-> by_id(instants), at |-> none,
                     seen |-> [w \in instants |-> made[w].text]]
      /\ now' = now /\ sending' = sending /\ forgotten' = forgotten
      /\ looking = idle_looking /\ spent' = spent
  BY <1>2 DEF FlushReadyWindows
<1>4. backlog \in Seq(DOMAIN rows) /\ \A i \in Range(backlog) : i \in unclaimed /\ ~unsettled(i)
  BY <1>1, <1>2, Backlog
<1>5. ready \in Seq(Run(backlog)) /\ Len(ready) \in Nat /\ DOMAIN ready = 1..Len(ready)
  BY <1>1, <1>2, <1>4, SlicesAreRuns
<1>6. \A k \in DOMAIN ready : /\ ready[k] \in Seq(DOMAIN rows) /\ ready[k] # <<>>
                              /\ \A i \in Range(ready[k]) : i \in unclaimed /\ ~unsettled(i)
  BY <1>4, <1>5 DEF Run
<1>7. /\ rows \in Seq(RowRecords) /\ windows \in Seq(WindowRecords)
      /\ Len(windows) \in Nat /\ DOMAIN windows = 1..Len(windows)
      /\ \A i \in DOMAIN rows : rows[i] \in RowRecords
      /\ \A w \in DOMAIN windows : windows[w] \in WindowRecords
      /\ now \in Nat /\ MEDIA_CUTOFF \in Nat /\ none \notin DOMAIN windows
  BY <1>1, Shapes, WindowsAssumption DEF TypesInv, none
<1>8. /\ new \in Seq(WindowRecords) /\ DOMAIN new = DOMAIN ready
      /\ \A k \in DOMAIN ready :
           /\ new[k].alive /\ new[k].status = "pending" /\ new[k].made = now /\ new[k].calls = 0
           /\ new[k].read = {} /\ new[k].asked = {} /\ GoodNow(new[k].text, now)
  <2>1. ASSUME NEW k \in DOMAIN ready
        PROVE  /\ new[k] \in WindowRecords
               /\ new[k].alive /\ new[k].status = "pending" /\ new[k].made = now /\ new[k].calls = 0
               /\ new[k].read = {} /\ new[k].asked = {} /\ GoodNow(new[k].text, now)
    <3>1. new[k] = window_of(ready[k])
      OBVIOUS
    <3> HIDE DEF new
    <3> QED
      BY <1>1, <1>6, <3>1, NewWindowOf
  <2>2. new = [k \in DOMAIN ready |-> new[k]]
    OBVIOUS
  <2> HIDE DEF new
  <2>3. \A k \in DOMAIN ready : new[k] \in WindowRecords
    BY <2>1
  <2>4. new \in Seq(WindowRecords) /\ DOMAIN new = DOMAIN ready
    BY <1>5, <2>2, <2>3, Rewritten
  <2> QED
    BY <2>1, <2>4
<1> HIDE DEF new
<1>9. /\ made \in Seq(WindowRecords)
      /\ \A w \in DOMAIN windows : w \in DOMAIN made /\ made[w] = windows[w]
      /\ \A w \in DOMAIN made \ DOMAIN windows :
           w - Len(windows) \in DOMAIN new /\ made[w] = new[w - Len(windows)]
      /\ \A k \in DOMAIN new : k + Len(windows) \in DOMAIN made \ DOMAIN windows
                               /\ made[k + Len(windows)] = new[k]
  BY <1>7, <1>8, Joined
<1> HIDE DEF made
<1>10. \A w \in DOMAIN made \ DOMAIN windows :
         /\ made[w].alive /\ made[w].status = "pending" /\ made[w].made = now /\ made[w].calls = 0
         /\ made[w].read = {} /\ made[w].asked = {} /\ GoodNow(made[w].text, now)
  BY <1>8, <1>9
<1>11. /\ IsFiniteSet(DOMAIN made) /\ DOMAIN made \subseteq Nat \ {0}
       /\ \A w \in DOMAIN made : made[w] \in WindowRecords
  <2>1. Len(made) \in Nat /\ DOMAIN made = 1..Len(made)
    BY <1>9
  <2>2. IsFiniteSet(1..Len(made))
    BY <2>1, FS_Interval
  <2> QED
    BY <1>9, <2>1, <2>2
<1>12. ASSUME NEW i \in DOMAIN rows, held(i) # {}
       PROVE  /\ place(i) \in DOMAIN made \ DOMAIN windows /\ i \in unclaimed /\ ~unsettled(i)
  <2>1. held(i) \subseteq Nat
    BY <1>5
  <2>2. Min(held(i)) \in held(i)
    <3> HIDE DEF held
    <3> QED
      BY <1>12, <2>1, MinIsLeast
  <2>3. Min(held(i)) \in DOMAIN ready /\ i \in Range(ready[Min(held(i))])
    BY <2>2
  <2>4. Min(held(i)) + Len(windows) = place(i)
    BY <1>5, <1>7, <2>3
  <2> QED
    BY <1>6, <1>8, <1>9, <2>3, <2>4
<1>13. ASSUME NEW i \in DOMAIN rows, held(i) # {}
       PROVE  LET r == [rows[i] EXCEPT !.window = place(i)]
              IN  /\ r \in RowRecords /\ r.window = place(i) /\ r.kind = rows[i].kind
                  /\ r.alive = rows[i].alive /\ r.at = rows[i].at /\ r.media = rows[i].media
                  /\ r.heard = rows[i].heard /\ r.text = rows[i].text
                  /\ r.processed = rows[i].processed /\ r.extracted = rows[i].extracted
                  /\ r.needs_review = rows[i].needs_review
  <2>1. place(i) \in Nat
    BY <1>11, <1>12, <1>13
  <2> HIDE DEF place
  <2> QED
    BY <1>7, <2>1 DEF RowRecords
<1>14. DOMAIN rows' = DOMAIN rows /\ rows' = [i \in DOMAIN rows |-> rows'[i]]
  BY <1>3
<1>15. ASSUME NEW i \in DOMAIN rows
       PROVE  /\ rows'[i] \in RowRecords /\ rows'[i].kind = rows[i].kind
              /\ rows'[i].alive = rows[i].alive /\ rows'[i].at = rows[i].at
              /\ rows'[i].media = rows[i].media
              /\ rows'[i].heard = rows[i].heard /\ rows'[i].text = rows[i].text
              /\ rows'[i].processed = rows[i].processed /\ rows'[i].extracted = rows[i].extracted
              /\ rows'[i].needs_review = rows[i].needs_review
              /\ rows'[i].window = IF held(i) = {} THEN rows[i].window ELSE place(i)
  <2>1. CASE held(i) = {}
    BY <1>3, <1>7, <2>1
  <2>2. CASE held(i) # {}
    <3>1. rows'[i] = [rows[i] EXCEPT !.window = place(i)]
      BY <1>3, <2>2
    <3> HIDE DEF held, place
    <3> QED
      BY <1>13, <2>2, <3>1
  <2> QED
    BY <2>1, <2>2
<1> HIDE DEF held, place
<1>16. \A w \in instants : /\ w \in DOMAIN made /\ made[w].alive /\ made[w].instant = TRUE
                           /\ made[w].status = "pending" /\ w # none
  <2>1. \A w \in DOMAIN made : made[w].instant \in BOOLEAN
    BY <1>11 DEF WindowRecords
  <2> QED
    BY <1>11, <2>1 DEF none
<1>17. /\ by_id(instants) \in Seq(instants)
       /\ \A j, k \in DOMAIN by_id(instants) : by_id(instants)[j] = by_id(instants)[k] => j = k
  <2>1. IsFiniteSet(instants) /\ instants \subseteq Nat
    BY <1>11, FS_Subset
  <2> HIDE DEF instants
  <2> QED
    BY <2>1, ById
<1>18. /\ looking'.ids = by_id(instants) /\ looking'.at = none /\ IsLooking(looking')
       /\ DOMAIN looking'.seen = instants
       /\ \A w \in instants : looking'.seen[w] = made[w].text
  BY <1>3 DEF IsLooking
<1>19. windows' = made /\ now' = now /\ sending' = sending /\ forgotten' = forgotten
       /\ looking.at = none
  BY <1>3 DEF idle_looking
<1> HIDE DEF instants
<1>20. TypesInv'
  <2>1. rows' \in Seq(RowRecords)
    BY <1>7, <1>14, <1>15, Rewritten
  <2>2. looking'.ids \in Seq(Nat) /\ looking'.at \in Nat
    <3>1. instants \subseteq Nat
      BY <1>11, <1>16
    <3>2. by_id(instants) \in Seq(Nat)
      BY <1>17, <3>1, SeqMonotonic
    <3> QED
      BY <1>18, <3>2 DEF none
  <2> QED
    BY <1>7, <1>9, <1>18, <1>19, <2>1, <2>2 DEF TypesInv
<1>21. JobsInv'
  <2>1. ASSUME NEW k \in DOMAIN looking'.ids
        PROVE  StillWaiting(looking'.ids[k], TRUE) /\ looking'.ids[k] # looking'.at
    <3>1. looking'.ids[k] \in instants
      BY <1>17, <1>18
    <3> QED
      BY <1>16, <1>18, <1>19, <3>1 DEF StillWaiting
  <2>2. \A j, k \in DOMAIN looking'.ids : looking'.ids[j] = looking'.ids[k] => j = k
    BY <1>17, <1>18
  <2>3. \A w \in sending'.ids : StillWaiting(w, FALSE)
    BY <1>1, <1>9, <1>19 DEF JobsInv, Waiting, StillWaiting
  <2>4. looking'.at = none
    BY <1>18
  <2> QED
    BY <2>1, <2>2, <2>3, <2>4 DEF JobsInv, Waiting, StillWaiting
<1>22. RowsInv'
  <2>1. ASSUME NEW i \in DOMAIN rows'
        PROVE  LET r == rows'[i]
               IN  /\ r.kind = "window" => r.media = "none"
                   /\ r.window # none => /\ r.alive
                                         /\ r.window \in DOMAIN windows'
                                         /\ windows'[r.window].alive
                   /\ r.window # none /\ windows'[r.window].status \in Open => ~r.processed
                   /\ r.window # none /\ windows'[r.window].status = "applied" /\ r.kind # "window"
                        => r.processed
                   /\ r.extracted <= 1 /\ (r.extracted = 1 => r.processed)
                   /\ r.kind # "window" /\ r.processed => r.extracted = 1
    <3>1. CASE held(i) = {}
      BY <1>1, <1>9, <1>14, <1>15, <1>19, <3>1 DEF RowsInv
    <3>2. CASE held(i) # {}
      <4>1. /\ place(i) \in DOMAIN made \ DOMAIN windows
            /\ rows[i].alive /\ ~rows[i].processed
        BY <1>12, <1>14, <3>2 DEF unclaimed
      <4> QED
        BY <1>1, <1>10, <1>14, <1>15, <1>19, <3>2, <4>1 DEF RowsInv
    <3> QED
      BY <3>1, <3>2
  <2>2. ASSUME NEW w \in DOMAIN windows', windows'[w].alive, windows'[w].status = "failed"
        PROVE  Reviewed(w)'
    <3>1. w \in DOMAIN windows /\ made[w] = windows[w]
      BY <1>9, <1>10, <1>19, <2>2
    <3>2. PICK j \in DOMAIN rows : /\ rows[j].alive /\ rows[j].kind = "window"
                                   /\ rows[j].window = w /\ rows[j].needs_review
      BY <1>1, <1>19, <2>2, <3>1 DEF RowsInv, Reviewed
    <3>3. held(j) = {}
      BY <1>7, <1>12, <3>1, <3>2 DEF unclaimed
    <3> QED
      BY <1>14, <1>15, <3>2, <3>3 DEF Reviewed
  <2> QED
    BY <2>1, <2>2 DEF RowsInv
<1>23. PaidInv'
  <2>1. mishaps' = mishaps /\ spent' \in Spendings /\ mishaps \in Nat
    BY <1>1, <1>3, MishapsCount DEF PaidInv, mishaps
  <2>2. \A w \in sending.ids : w \in DOMAIN windows
    BY <1>1 DEF JobsInv, Waiting
  <2>3. ASSUME NEW w \in DOMAIN made, made[w].alive
        PROVE  made[w].calls + Wasted(w)' <= mishaps' + Out(w)'
    <3>1. looking'.at # w /\ looking.at # w
      BY <1>11, <1>18, <1>19 DEF none
    <3>2. CASE w \in DOMAIN windows
      <4>1. made[w] = windows[w] /\ windows[w].calls + Wasted(w) <= mishaps + Out(w)
        BY <1>1, <1>9, <2>3, <3>2 DEF PaidInv
      <4>2. Wasted(w)' = Wasted(w)
        BY <1>9, <1>19, <2>2 DEF Wasted
      <4>3. Out(w)' = Out(w)
        BY <1>19, <3>1, <4>1 DEF Out
      <4> QED
        BY <1>19, <2>1, <4>1, <4>2, <4>3
    <3>3. CASE w \notin DOMAIN windows
      <4>1. made[w].calls = 0 /\ Wasted(w)' = 0 /\ Out(w)' \in {0, 1}
        BY <1>10, <1>19, <2>2, <2>3, <3>3 DEF Wasted, Out
      <4> QED
        BY <2>1, <4>1
    <3> QED
      BY <3>2, <3>3
  <2> QED
    BY <1>19, <2>1, <2>3 DEF PaidInv
<1>24. WordsInv'
  <2>1. Fades(rows, forgotten, rows', forgotten')
    BY <1>14, <1>15, <1>19 DEF Fades
  <2>2. forgotten' \subseteq DOMAIN rows' /\ \A i \in forgotten' : ~rows'[i].alive
    BY <1>1, <1>14, <1>15, <1>19 DEF WordsInv
  <2>3. ASSUME NEW w \in DOMAIN windows', windows'[w].alive
        PROVE  /\ windows'[w].made <= now'
               /\ GoodNow(windows'[w].text, windows'[w].made)
               /\ GoodNow(windows'[w].asked, windows'[w].made)
               /\ GoodNow(windows'[w].read, windows'[w].made)
               /\ w \in DOMAIN looking'.seen =>
                    /\ looking'.seen[w] \subseteq WordRecords
                    /\ GoodNow(looking'.seen[w], windows'[w].made)
               /\ w \in sending'.ids =>
                    /\ sending'.seen[w] \subseteq WordRecords
                    /\ GoodNow(sending'.seen[w], windows'[w].made)
    <3>1. /\ made[w].made <= now
          /\ GoodNow(made[w].text, made[w].made)
          /\ GoodNow(made[w].asked, made[w].made)
          /\ GoodNow(made[w].read, made[w].made)
      <4>1. CASE w \in DOMAIN windows
        BY <1>1, <1>9, <1>19, <2>3, <4>1 DEF WordsInv
      <4>2. CASE w \notin DOMAIN windows
        <5>1. GoodNow({}, now) /\ now <= now
          BY <1>7 DEF GoodNow, Good
        <5> QED
          BY <1>10, <1>19, <4>2, <5>1
      <4> QED
        BY <4>1, <4>2
    <3>2. w \in DOMAIN looking'.seen => /\ looking'.seen[w] = made[w].text
                                        /\ made[w].text \subseteq WordRecords
      BY <1>11, <1>18, <1>19 DEF WindowRecords
    <3>3. w \in sending.ids => /\ w \in DOMAIN windows /\ made[w] = windows[w]
                               /\ windows[w].alive
      BY <1>1, <1>9, <1>19, <2>3 DEF JobsInv, Waiting
    <3>4. w \in sending.ids => /\ sending.seen[w] \subseteq WordRecords
                               /\ GoodNow(sending.seen[w], made[w].made)
      BY <1>1, <3>3 DEF WordsInv
    <3> QED
      BY <1>19, <3>1, <3>2, <3>4
  <2>4. ASSUME NEW j \in DOMAIN rows', rows'[j].alive
        PROVE  /\ rows'[j].kind = "window" => GoodNow(rows'[j].text, now)
               /\ rows'[j].media = "pending" /\ rows'[j].window # none
                    => windows'[rows'[j].window].made >= rows'[j].at + MEDIA_CUTOFF
    <3>1. j \in DOMAIN rows /\ rows[j].alive
      BY <1>14, <1>15, <2>4
    <3>2. rows'[j].kind = "window" => GoodNow(rows'[j].text, now)
      BY <1>1, <1>15, <3>1 DEF WordsInv
    <3>3. CASE held(j) = {}
      BY <1>1, <1>9, <1>15, <1>19, <3>1, <3>2, <3>3 DEF WordsInv, RowsInv
    <3>4. CASE held(j) # {}
      <4>1. made[place(j)].made = now /\ ~unsettled(j) /\ rows[j].at \in Nat
        BY <1>7, <1>10, <1>12, <3>1, <3>4 DEF RowRecords
      <4>2. rows[j].media = "pending" => now >= rows[j].at + MEDIA_CUTOFF
        BY <1>7, <4>1 DEF unsettled
      <4> QED
        BY <1>15, <1>19, <3>1, <3>2, <3>4, <4>1, <4>2
    <3> QED
      BY <3>3, <3>4
  <2>5. now <= now'
    BY <1>7, <1>19
  <2> QED
    BY <1>1, <1>20, <2>1, <2>2, <2>3, <2>4, <2>5, WordsStay
<1> QED
  BY <1>20, <1>21, <1>22, <1>23, <1>24 DEF Inv

-----------------------------------------------------------------------------
(* The theorems. *)

LEMMA NextInv ==
  ASSUME Inv, [Next]_vars
  PROVE  Inv'
<1>1. CASE \E k \in Kinds : Store(k)
  BY <1>1, StoreInv
<1>2. CASE \E i \in DOMAIN rows : record_edit(i) \/ \E heard \in BOOLEAN : persist_media(i, heard)
  BY <1>2, EditInv, PersistInv
<1>3. CASE FlushReadyWindows
  BY <1>3, FlushInv
<1>4. CASE ExtractNext \/ ExtractAnswered \/ ExtractFailed \/ ExtractRaised \/ ExtractUnwritten
  BY <1>4, ExtractNextInv, ExtractAnsweredInv, ExtractFailedInv, ExtractRaisedInv,
     ExtractUnwrittenInv
<1>5. CASE SubmitPending \/ SubmitAccepted \/ SubmitRefused \/ SubmitLost
  BY <1>5, SubmitPendingInv, SubmitAcceptedInv, SubmitRefusedInv, SubmitLostInv
<1>6. CASE \E b \in batches : CollectEntries(b) \/ CollectUnreadable(b) \/ CollectRaised(b)
  BY <1>6, CollectEntriesInv, CollectUnreadableInv, CollectRaisedInv
<1>7. CASE PurgeChat
  BY <1>7, PurgeChatInv
<1>8. CASE \E from \in 0..now : \E to \in from..now : PurgeRange(from, to)
  <2>1. PICK from \in 0..now : \E to \in from..now : PurgeRange(from, to)
    BY <1>8
  <2>2. PICK to \in from..now : PurgeRange(from, to)
    BY <2>1
  <2>3. from \in Nat /\ to \in Nat
    BY DEF Inv, TypesInv
  <2> QED
    BY <2>2, <2>3, PurgeRangeInv
<1>9. CASE WorkerDies
  BY <1>9, WorkerDiesInv
<1>10. CASE Tick
  BY <1>10, TickInv
<1>11. CASE UNCHANGED vars
  <2>1. /\ now' = now /\ rows' = rows /\ windows' = windows /\ looking' = looking
        /\ sending' = sending /\ forgotten' = forgotten /\ spent' = spent
    BY <1>11 DEF vars
  <2>2. TypesInv' /\ JobsInv' /\ RowsInv'
    BY <2>1 DEF Inv, TypesInv, JobsInv, Waiting, RowsInv, Reviewed
  <2>3. PaidInv' /\ WordsInv'
    BY <2>1 DEF Inv, PaidInv, Wasted, Out, mishaps, WordsInv, GoodNow
  <2> QED
    BY <2>2, <2>3 DEF Inv
<1> QED
  BY <1>1, <1>2, <1>3, <1>4, <1>5, <1>6, <1>7, <1>8, <1>9, <1>10, <1>11 DEF Next

(* What holds of windows in every state: they are of their type, what the  *)
(* jobs hold is waiting and on its own path (batch.py and worker/main.py), *)
(* each row is in a window that is there, and every word kept is of a row  *)
(* nobody purged.                                                          *)
THEOREM Invariance == Spec => []Inv
<1>1. Init => Inv
  BY InitInv
<1>2. Inv /\ [Next]_vars => Inv'
  BY NextInv
<1> QED
  BY <1>1, <1>2, PTL DEF Spec

(* No message is extracted twice (windows.py:23): a row is part of at most *)
(* one applied window, and is marked as soon as it is.                     *)
THEOREM MessagesAreExtractedOnce == Spec => []ExtractedOnce
<1>1. Inv => ExtractedOnce
  <2> SUFFICES ASSUME Inv PROVE ExtractedOnce
    OBVIOUS
  <2>1. \A i \in DOMAIN rows : rows[i] \in RowRecords
    BY Shapes DEF Inv
  <2> QED
    BY <2>1 DEF Inv, RowsInv, ExtractedOnce, RowRecords
<1> QED
  BY <1>1, Invariance, PTL

(* Nothing is dropped silently (batch.py:15): a message not yet read is in *)
(* no window, in one on its way, or in a failed one that is up for review. *)
THEOREM NoMessageIsDropped == Spec => []NothingIsDropped
<1>1. Inv => NothingIsDropped
  <2> SUFFICES ASSUME Inv, NEW i \in DOMAIN rows, NEW w, w = rows[i].window,
                      rows[i].alive, rows[i].kind # "window", ~rows[i].processed, w # none
               PROVE  \/ windows[w].alive /\ windows[w].status \in {"pending", "submitted"}
                      \/ /\ windows[w].alive /\ windows[w].status = "failed"
                         /\ \E j \in DOMAIN rows : /\ rows[j].alive /\ rows[j].window = w
                                                   /\ rows[j].kind = "window" /\ rows[j].needs_review
    BY DEF NothingIsDropped
  <2>1. w \in DOMAIN windows /\ windows[w].alive /\ windows[w].status # "applied"
    BY DEF Inv, RowsInv
  <2>2. windows[w].status \in {"pending", "submitted", "applied", "failed"}
    BY <2>1, Shapes DEF Inv, WindowRecords
  <2>3. CASE windows[w].status = "failed"
    BY <2>1, <2>3 DEF Inv, RowsInv, Reviewed
  <2> QED
    BY <2>1, <2>2, <2>3
<1> QED
  BY <1>1, Invariance, PTL

(* A window is paid for once (windows.py:372), on whichever path it goes,  *)
(* but for requests nothing usable came of: for each mishap (a lost answer *)
(* of the submit, a failed write, a death, a purge) at most one more.      *)
THEOREM WindowsArePaidOnce == Spec => []PaidOnce
<1>1. Inv => PaidOnce
  <2> SUFFICES ASSUME Inv, NEW w \in DOMAIN windows, windows[w].alive
               PROVE  windows[w].calls <=
                        mishaps + IF looking.at = w \/ windows[w].status \in {"submitted", "applied"}
                                  THEN 1 ELSE 0
    BY DEF PaidOnce
  <2>1. windows[w].calls \in Int /\ mishaps \in Nat
    BY Shapes, MishapsCount DEF Inv, PaidInv, WindowRecords
  <2>2. windows[w].calls + Wasted(w) <= mishaps + Out(w)
    BY DEF Inv, PaidInv
  <2>3. Wasted(w) \in {0, 1} /\ Out(w) \in {0, 1}
    BY DEF Wasted, Out
  <2> QED
    BY <2>1, <2>2, <2>3 DEF Out
<1> QED
  BY <1>1, Invariance, PTL

(* A voice is read as it was heard, unless that took longer than the       *)
(* cutoff: flush_ready_windows cuts the backlog where media is to come.    *)
THEOREM VoicesAreHeardFirst == Spec => []VoiceIsHeardFirst
<1>1. Inv => VoiceIsHeardFirst
  <2> SUFFICES ASSUME Inv, NEW w \in DOMAIN windows, NEW i \in DOMAIN rows,
                      windows[w].alive, rows[i].alive, rows[i].heard,
                      [row |-> i, edits |-> 0, heard |-> FALSE] \in windows[w].read
               PROVE  windows[w].made >= rows[i].at + MEDIA_CUTOFF
    BY DEF VoiceIsHeardFirst
  <2> DEFINE v == [row |-> i, edits |-> 0, heard |-> FALSE]
  <2>1. v \in windows[w].read /\ v.row = i /\ ~v.heard
    OBVIOUS
  <2> HIDE DEF v
  <2>2. GoodNow(windows[w].read, windows[w].made)
    BY DEF Inv, WordsInv
  <2>3. Waited(rows, v.row, windows[w].made)
    BY <2>1, <2>2 DEF GoodNow, Good
  <2> QED
    BY <2>1, <2>3 DEF Waited
<1> QED
  BY <1>1, Invariance, PTL

(* A purged chat stays purged (purge.py), whatever a job held of it.       *)
THEOREM PurgesAreFinal == Spec => []PurgeIsFinal
<1>1. Inv => PurgeIsFinal
  <2> SUFFICES ASSUME Inv, NEW i \in forgotten
               PROVE  /\ \A j \in DOMAIN rows : rows[j].alive => i \notin {v.row : v \in words(j)}
                      /\ \A w \in DOMAIN windows :
                           windows[w].alive => i \notin {v.row : v \in windows[w].text}
    BY DEF PurgeIsFinal
  <2>1. ASSUME NEW j \in DOMAIN rows, rows[j].alive, NEW v \in words(j) PROVE v.row # i
    <3>1. CASE rows[j].kind = "window"
      BY <2>1, <3>1 DEF words, Inv, WordsInv, GoodNow, Good
    <3>2. CASE rows[j].kind # "window"
      <4>1. v = [row |-> j, edits |-> rows[j].edits, heard |-> rows[j].heard]
        BY <2>1, <3>2 DEF words
      <4>2. v.row = j /\ j \notin forgotten
        BY <2>1, <4>1 DEF Inv, WordsInv
      <4> QED
        BY <4>2
    <3> QED
      BY <3>1, <3>2
  <2>2. ASSUME NEW w \in DOMAIN windows, windows[w].alive, NEW v \in windows[w].text
        PROVE  v.row # i
    BY <2>2 DEF Inv, WordsInv, GoodNow, Good
  <2> QED
    BY <2>1, <2>2
<1> QED
  BY <1>1, Invariance, PTL

=============================================================================
