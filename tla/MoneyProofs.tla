----------------------------- MODULE MoneyProofs -----------------------------
(***************************************************************************)
(* Theorems about the ledger and the claims, for every set of reports,     *)
(* taps under way, windows and corrections.                                *)
(***************************************************************************)
EXTENDS Money, FiniteSetTheorems, SequenceTheorems, WellFoundedInduction, TLAPS

-----------------------------------------------------------------------------
(* Types. *)

Statuses == {"never", "new", "review", "ignored", "booked", "by_hand", "not_money", "writing",
             "written", "matched", "split", "parking", "parked"}
Sums == Amounts \union {0}
IsRow(row) ==
  /\ row = [src |-> row.src, kind |-> row.kind, amt |-> row.amt, void |-> row.void, debt |-> row.debt]
  /\ row.src \in Reports
IsLedger(l) ==
  /\ l = [rows |-> l.rows, into |-> l.into]
  /\ l.into \in [Reports -> Nat]
  /\ \E S : l.rows \in Seq(S)
  /\ \A i \in DOMAIN l.rows : IsRow(l.rows[i])
ClaimRecords == [nr : Nat, state : {"unsaid", "pending", "accepted", "declined", "auto"},
                 dup : Said \union {NoClaim}, evid : Nat, res : Nat, amt : Sums,
                 undone : BOOLEAN,
                 by : {"nobody", "owner", "auto:duplicate", "auto:own", "auto:bank"}]
TapRecords == [on : Said, read : ClaimRecords]

(* No row of ledger l has two texts of one channel behind it, nor two      *)
(* messages of the owner.                                                  *)
OwnWords(l, i) == {r \in Typed : l.into[r] = i \/ l.rows[i].src = r}

Apart(l) ==
  \A i \in DOMAIN l.rows :
    /\ \A q, r \in evidence(l, i) : q # r => q.channel # r.channel
    /\ \A q, r \in OwnWords(l, i) : q = r

GoodLedger(l) ==
  /\ IsLedger(l)
  /\ \A r \in Reports : l.into[r] <= Len(l.rows)
  /\ Apart(l)

(* Of claims cl: one that was undone is linked to no other and answered by *)
(* nobody but the owner.                                                   *)
LeftAlone(cl) == \A c \in Said : cl[c].undone => /\ cl[c].dup = NoClaim
                                                 /\ cl[c].by \in {"nobody", "owner"}

GoodClaims(cl) == cl \in [Said -> ClaimRecords] /\ LeftAlone(cl)

Inv ==
  /\ status \in [Reports -> Statuses]
  /\ GoodLedger(ledger)
  /\ GoodClaims(claim) /\ GoodClaims(parking)
  /\ tap \in [Taps -> TapRecords \union {NoTap}]
  /\ corrections \in 0..MaxCorrections

-----------------------------------------------------------------------------
(* Reports and least elements. *)

LEMMA ReportIs ==
  /\ Bank \subseteq Reports /\ Typed \subseteq Reports /\ Said \subseteq Reports
  /\ \A r \in Reports : r.amt \in Amounts /\ r.by \in {"said", "typed", "bank"}
                        /\ r.kind \in {"transaction", "debt", "settlement"}
  /\ NoClaim \notin Said /\ IsFiniteSet(Said)
<1>1. Bank \subseteq Reports /\ Typed \subseteq Reports /\ Said \subseteq Reports
  BY DEF Bank, Typed, Said
<1>2. IsFiniteSet(Said)
  BY <1>1, MoneyAssumption, FS_Subset
<1> QED
  BY <1>1, <1>2, MoneyAssumption

LEMMA MinIsLeast ==
  ASSUME NEW S, S \subseteq Nat, S # {}
  PROVE  Min(S) \in S /\ \A y \in S : Min(S) =< y
<1>1. PICK x \in S : \A y \in S : ~ (<<y, x>> \in OpToRel(<, Nat))
  BY NatLessThanWellFounded, WFMin
<1>2. \A y \in S : y < x => <<y, x>> \in OpToRel(<, Nat)
  BY Zenon DEF OpToRel
<1>3. \A y \in S : ~ (y < x)
  BY <1>1, <1>2, Zenon
<1>4. \A y \in S : x =< y
  BY <1>3
<1> QED
  BY <1>4, Zenon DEF Min

-----------------------------------------------------------------------------
(* The ledger. *)

LEMMA LedgerIs ==
  ASSUME NEW l, GoodLedger(l)
  PROVE  /\ (\E S : l.rows \in Seq(S)) /\ Len(l.rows) \in Nat /\ DOMAIN l.rows = 1..Len(l.rows)
         /\ l.into \in [Reports -> Nat] /\ l = [rows |-> l.rows, into |-> l.into]
         /\ \A i \in DOMAIN l.rows : i \in Nat /\ i # 0 /\ IsRow(l.rows[i])
<1>1. /\ l.into \in [Reports -> Nat] /\ l = [rows |-> l.rows, into |-> l.into]
      /\ (\E S : l.rows \in Seq(S)) /\ \A i \in DOMAIN l.rows : IsRow(l.rows[i])
  BY DEF GoodLedger, IsLedger
<1>2. PICK S : l.rows \in Seq(S)
  BY <1>1
<1>3. Len(l.rows) \in Nat /\ DOMAIN l.rows = 1..Len(l.rows)
  BY <1>2
<1> QED
  BY <1>1, <1>3

LEMMA NewRowIs ==
  ASSUME NEW r \in Reports, NEW amt
  PROVE  IsRow(NewRow(r, amt)) /\ NewRow(r, amt).src = r
<1> DEFINE kind == row_kind(r.kind)
<1>1. NewRow(r, amt) = [src |-> r, kind |-> kind, amt |-> amt, void |-> FALSE, debt |-> 0]
  BY DEF NewRow
<1> HIDE DEF kind
<1> QED
  BY <1>1 DEF IsRow

(* Rows of one report behind a ledger: what the longer ledger is.          *)
IsExtended(l, m, new) ==
  /\ m.into = l.into
  /\ DOMAIN m.rows = 1..(Len(l.rows) + Len(new)) /\ Len(m.rows) = Len(l.rows) + Len(new)
  /\ \A i \in DOMAIN l.rows : m.rows[i] = l.rows[i]
  /\ \A k \in DOMAIN new : m.rows[Len(l.rows) + k] = new[k]

(* A row of its own has nothing else behind it.                            *)
LEMMA ExtendedIsGood ==
  ASSUME NEW l, GoodLedger(l), NEW r \in Reports, NEW new, NEW T, new \in Seq(T),
         \A k \in DOMAIN new : IsRow(new[k]) /\ new[k].src = r,
         NEW m, m = [l EXCEPT !.rows = @ \o new]
  PROVE  GoodLedger(m) /\ IsExtended(l, m, new)
<1>1. PICK S : l.rows \in Seq(S)
  BY LedgerIs
<1>2. /\ Len(l.rows) \in Nat /\ DOMAIN l.rows = 1..Len(l.rows)
      /\ l.into \in [Reports -> Nat] /\ l = [rows |-> l.rows, into |-> l.into]
      /\ \A i \in DOMAIN l.rows : i \in Nat /\ i # 0 /\ IsRow(l.rows[i])
  BY LedgerIs
<1> DEFINE rows == l.rows \o new
<1>3. /\ rows \in Seq(S \union T) /\ Len(rows) = Len(l.rows) + Len(new)
      /\ \A i \in DOMAIN l.rows : rows[i] = l.rows[i]
      /\ \A k \in DOMAIN new : rows[Len(l.rows) + k] = new[k]
  <2>1. l.rows \in Seq(S \union T) /\ new \in Seq(S \union T)
    BY <1>1, SeqMonotonic
  <2>2. rows \in Seq(S \union T) /\ Len(rows) = Len(l.rows) + Len(new)
    BY <2>1, ConcatProperties
  <2>3. \A i \in 1..Len(l.rows) + Len(new) :
          rows[i] = IF i <= Len(l.rows) THEN l.rows[i] ELSE new[i - Len(l.rows)]
    BY <2>1, ConcatProperties
  <2>4. DOMAIN new = 1..Len(new) /\ Len(new) \in Nat
    BY <2>1
  <2> HIDE DEF rows
  <2>5. ASSUME NEW i \in DOMAIN l.rows PROVE rows[i] = l.rows[i]
    <3>1. i \in 1..Len(l.rows) + Len(new) /\ i <= Len(l.rows)
      BY <1>2, <2>4
    <3> QED
      BY <2>3, <3>1
  <2>6. ASSUME NEW k \in DOMAIN new PROVE rows[Len(l.rows) + k] = new[k]
    <3>1. Len(l.rows) + k \in 1..Len(l.rows) + Len(new) /\ ~(Len(l.rows) + k <= Len(l.rows))
          /\ Len(l.rows) + k - Len(l.rows) = k
      BY <1>2, <2>4
    <3> QED
      BY <2>3, <3>1
  <2> QED
    BY <2>2, <2>5, <2>6
<1>4. Len(new) \in Nat /\ DOMAIN new = 1..Len(new)
  OBVIOUS
<1> HIDE DEF rows
<1>5. m = [rows |-> rows, into |-> l.into] /\ DOMAIN rows = 1..(Len(l.rows) + Len(new))
  <2>1. m = [l EXCEPT !.rows = rows]
    BY DEF rows
  <2>2. DOMAIN rows = 1..Len(rows)
    BY <1>3
  <2> QED
    BY <1>2, <1>3, <2>1, <2>2
<1>6. m.rows = rows /\ m.into = l.into
  <2> DEFINE into == l.into
  <2>1. m = [rows |-> rows, into |-> into]
    BY <1>5
  <2> HIDE DEF into
  <2>2. m.rows = rows /\ m.into = into
    BY ONLY <2>1
  <2> QED
    BY <2>2 DEF into
<1>7. IsExtended(l, m, new)
  BY <1>3, <1>5, <1>6 DEF IsExtended
<1>8. \A i \in DOMAIN rows : \/ i \in DOMAIN l.rows
                           \/ \E k \in DOMAIN new : i = Len(l.rows) + k
  <2> SUFFICES ASSUME NEW i \in 1..(Len(l.rows) + Len(new)), ~(i <= Len(l.rows))
               PROVE  \E k \in 1..Len(new) : i = Len(l.rows) + k
    BY <1>2, <1>4, <1>5
  <2>1. i - Len(l.rows) \in 1..Len(new) /\ i = Len(l.rows) + (i - Len(l.rows))
    BY <1>2, <1>4
  <2> QED
    BY <2>1
<1>9. IsLedger(m)
  BY <1>2, <1>3, <1>5, <1>6, <1>8 DEF IsLedger
<1>10. \A q \in Reports : m.into[q] <= Len(m.rows) /\ m.into[q] <= Len(l.rows)
  BY <1>2, <1>3, <1>4, <1>6 DEF GoodLedger
<1>11. Apart(m)
  <2> SUFFICES ASSUME NEW i \in DOMAIN m.rows
               PROVE  /\ \A q, p \in evidence(m, i) : q # p => q.channel # p.channel
                      /\ \A q, p \in OwnWords(m, i) : q = p
    BY DEF Apart
  <2>1. CASE i \in DOMAIN l.rows
    <3>1. evidence(m, i) = evidence(l, i) /\ OwnWords(m, i) = OwnWords(l, i)
      BY <1>3, <1>6, <2>1 DEF evidence, OwnWords
    <3> QED
      BY <2>1, <3>1 DEF GoodLedger, Apart
  <2>2. ASSUME NEW k \in DOMAIN new, i = Len(l.rows) + k
        PROVE  /\ \A q, p \in evidence(m, i) : q # p => q.channel # p.channel
               /\ \A q, p \in OwnWords(m, i) : q = p
    <3>1. m.rows[i] = new[k] /\ new[k].src = r
      BY <1>3, <1>6, <2>2
    <3>2. \A q \in Reports : m.into[q] # i
      <4>1. ~(i <= Len(l.rows)) /\ i \in Nat
        BY <1>2, <1>4, <2>2
      <4> QED
        BY <1>10, <4>1
    <3>3. evidence(m, i) = {} /\ OwnWords(m, i) \subseteq {r}
      BY <3>1, <3>2, ReportIs DEF evidence, OwnWords
    <3> QED
      BY <3>3
  <2> QED
    BY <1>6, <1>8, <2>1, <2>2
<1> QED
  BY <1>7, <1>9, <1>10, <1>11 DEF GoodLedger

LEMMA AddedIsExtended ==
  ASSUME NEW l, GoodLedger(l), NEW row, IsRow(row)
  PROVE  GoodLedger(added(l, row)) /\ IsExtended(l, added(l, row), <<row>>)
<1> DEFINE m == added(l, row)
           new == <<row>>
<1>1. m = [l EXCEPT !.rows = l.rows \o new]
  <2>1. PICK S : l.rows \in Seq(S)
    BY LedgerIs
  <2>2. l.rows \in Seq(S \union {row}) /\ row \in S \union {row}
    BY <2>1, SeqMonotonic
  <2>3. Append(l.rows, row) = l.rows \o <<row>>
    BY <2>2, AppendIsConcat
  <2> QED
    BY <2>3 DEF added
<1>2. new \in Seq({row}) /\ \A k \in DOMAIN new : new[k] = row
  OBVIOUS
<1>3. row.src \in Reports
  BY DEF IsRow
<1> HIDE DEF m, new
<1>4. GoodLedger(m) /\ IsExtended(l, m, new)
  BY <1>1, <1>2, <1>3, ExtendedIsGood
<1> QED
  BY <1>4 DEF m, new

LEMMA AddedIsGood ==
  ASSUME NEW l, GoodLedger(l), NEW r \in Reports, NEW amt
  PROVE  /\ GoodLedger(added(l, NewRow(r, amt)))
         /\ added(l, NewRow(r, amt)).into = l.into
         /\ Len(added(l, NewRow(r, amt)).rows) = Len(l.rows) + 1
         /\ added(l, NewRow(r, amt)).rows[Len(l.rows) + 1].src = r
<1> DEFINE row == NewRow(r, amt)
<1>1. IsRow(row) /\ row.src = r
  BY NewRowIs
<1> HIDE DEF row
<1>2. GoodLedger(added(l, row)) /\ IsExtended(l, added(l, row), <<row>>)
  BY <1>1, AddedIsExtended
<1>3. Len(<<row>>) = 1 /\ 1 \in DOMAIN <<row>> /\ <<row>>[1] = row
  OBVIOUS
<1> QED
  BY <1>1, <1>2, <1>3 DEF IsExtended, row

(* A repayment: a row for each debt it pays.                               *)
ExtendedBy(l, m, r) ==
  \E new : /\ IsExtended(l, m, new) /\ DOMAIN new = 1..Len(new) /\ Len(new) \in Nat
           /\ \A k \in DOMAIN new : new[k].src = r

LEMMA PaidIsExtended ==
  ASSUME NEW l, GoodLedger(l), NEW r \in Reports, NEW amt
  PROVE  /\ GoodLedger(paid_down(l, r, amt))
         /\ ExtendedBy(l, paid_down(l, r, amt), r)
<1> DEFINE debts == paid_debts(l, amt)
           nth(k) == CHOOSE d \in debts : Cardinality({e \in debts : e < d}) = k - 1
           payment(d) == [NewRow(r, chunk(l, amt, d)) EXCEPT !.debt = d]
           n == Cardinality(debts)
           new == [k \in 1..n |-> payment(nth(k))]
           T == {payment(nth(k)) : k \in 1..n}
           m == paid_down(l, r, amt)
<1>1. n \in Nat
  <2>1. debts \subseteq 1..Len(l.rows) /\ Len(l.rows) \in Nat
    BY LedgerIs DEF paid_debts, open_debts, rows_of
  <2>2. IsFiniteSet(debts)
    <3> DEFINE places == 1..Len(l.rows)
    <3>1. IsFiniteSet(places)
      BY <2>1, FS_Interval
    <3>2. debts \subseteq places
      BY <2>1
    <3> HIDE DEF debts, places
    <3> QED
      BY <3>1, <3>2, FS_Subset
  <2> QED
    BY <2>2, FS_CardinalityType
<1>2. ASSUME NEW d
      PROVE  IsRow(payment(d)) /\ payment(d).src = r
  <2> DEFINE part == chunk(l, amt, d)
             kind == row_kind(r.kind)
  <2>1. payment(d) = [[src |-> r, kind |-> kind, amt |-> part, void |-> FALSE, debt |-> 0] EXCEPT !.debt = d]
    BY DEF NewRow
  <2> HIDE DEF part, kind, payment
  <2>2. payment(d) = [src |-> r, kind |-> kind, amt |-> part, void |-> FALSE, debt |-> d]
    BY <2>1
  <2> QED
    BY <2>2 DEF IsRow
<1>3. m = [l EXCEPT !.rows = @ \o new]
  BY DEF paid_down
<1> HIDE DEF n, nth, payment, m, debts
<1>4. new \in Seq(T) /\ DOMAIN new = 1..n /\ Len(new) = n
  BY <1>1
<1>5. \A k \in DOMAIN new : IsRow(new[k]) /\ new[k].src = r
  BY <1>2, <1>4
<1> HIDE DEF new, T
<1>6. GoodLedger(m) /\ IsExtended(l, m, new)
  BY <1>3, <1>4, <1>5, ExtendedIsGood
<1> QED
  <2>1. ExtendedBy(l, m, r)
    BY <1>1, <1>4, <1>5, <1>6 DEF ExtendedBy
  <2> QED
    BY <1>6, <2>1 DEF m

(* A text is attached to a row that has none of its channel, words to one  *)
(* that has no words.                                                      *)
LEMMA AttachedIsGood ==
  ASSUME NEW l, GoodLedger(l), NEW r \in Reports, NEW i \in DOMAIN l.rows,
         r \in Bank => \A q \in evidence(l, i) : q = r \/ q.channel # r.channel,
         r \in Typed => \A q \in OwnWords(l, i) : q = r
  PROVE  GoodLedger(attached(l, r, i))
<1> DEFINE m == attached(l, r, i)
<1>1. /\ m.rows = l.rows /\ m.into = [l.into EXCEPT ![r] = i]
      /\ m = [rows |-> m.rows, into |-> m.into]
  <2>1. l = [rows |-> l.rows, into |-> l.into]
    BY LedgerIs
  <2> DEFINE into == [l.into EXCEPT ![r] = i]
  <2>2. m = [l EXCEPT !.into = into]
    BY DEF attached
  <2> HIDE DEF m, into
  <2>3. m = [rows |-> l.rows, into |-> into]
    BY <2>1, <2>2
  <2> QED
    BY <2>3 DEF into
<1> HIDE DEF m
<1>2. /\ i \in Nat /\ i <= Len(l.rows) /\ m.into \in [Reports -> Nat]
      /\ m.into[r] = i /\ \A q \in Reports : q # r => m.into[q] = l.into[q]
  BY <1>1, LedgerIs
<1>3. IsLedger(m) /\ \A q \in Reports : m.into[q] <= Len(m.rows)
  BY <1>1, <1>2, LedgerIs DEF IsLedger, GoodLedger
<1>4. Apart(m)
  <2> SUFFICES ASSUME NEW j \in DOMAIN l.rows
               PROVE  /\ \A q, p \in evidence(m, j) : q # p => q.channel # p.channel
                      /\ \A q, p \in OwnWords(m, j) : q = p
    BY <1>1 DEF Apart
  <2>1. /\ \A q \in evidence(m, j) : q \in evidence(l, j) \/ (q = r /\ j = i /\ r \in Bank)
        /\ \A q \in OwnWords(m, j) : q \in OwnWords(l, j) \/ (q = r /\ j = i /\ r \in Typed)
    BY <1>1, <1>2, ReportIs DEF evidence, OwnWords
  <2>2. /\ \A q, p \in evidence(l, j) : q # p => q.channel # p.channel
        /\ \A q, p \in OwnWords(l, j) : q = p
    BY DEF GoodLedger, Apart
  <2>3. \A q, p \in evidence(m, j) : q # p => q.channel # p.channel
    BY <2>1, <2>2
  <2>4. \A q, p \in OwnWords(m, j) : q = p
    BY <2>1, <2>2
  <2> QED
    BY <2>3, <2>4
<1> QED
  BY <1>3, <1>4 DEF GoodLedger, m

LEMMA SaidIsGood ==
  ASSUME NEW l, GoodLedger(l), NEW c \in Said, NEW i \in DOMAIN l.rows
  PROVE  GoodLedger(attached(l, c, i))
<1>1. c \in Reports /\ c \notin Bank /\ c \notin Typed
  BY DEF Said, Bank, Typed
<1> QED
  BY <1>1, AttachedIsGood

LEMMA BookIsGood ==
  ASSUME NEW l, GoodLedger(l), NEW r \in Bank, NEW m \in book(l, r)
  PROVE  GoodLedger(m)
<1>1. r \in Reports /\ r.amt \in Sums /\ r \notin Typed
  BY ReportIs DEF Bank, Typed, Sums
<1>2. CASE \E i \in nearest(l, typed_match(l, r), r.at) : m = attached(l, r, i)
  <2>1. PICK i \in typed_match(l, r) : m = attached(l, r, i)
    BY <1>2 DEF nearest
  <2>2. i \in DOMAIN l.rows /\ evidence(l, i) = {}
    BY <2>1 DEF typed_match, rows_of
  <2> QED
    BY <1>1, <2>1, <2>2, AttachedIsGood
<1>3. CASE \E i \in nearest(l, same_payment(l, r), r.at) : m = attached(l, r, i)
  <2>1. PICK i \in same_payment(l, r) : m = attached(l, r, i)
    BY <1>3 DEF nearest
  <2>2. i \in DOMAIN l.rows /\ \A q \in evidence(l, i) : q.channel # r.channel
    BY <2>1 DEF same_payment, rows_of, channels
  <2> QED
    BY <1>1, <2>1, <2>2, AttachedIsGood
<1>4. CASE m = booked(l, r)
  <2> DEFINE a == added(l, NewRow(r, r.amt))
             n == Len(l.rows) + 1
  <2>1. /\ GoodLedger(a) /\ a.into = l.into /\ Len(a.rows) = n
    BY <1>1, AddedIsGood
  <2>2. m = attached(a, r, n)
    BY <1>4 DEF booked
  <2>3. Len(l.rows) \in Nat /\ \A q \in Reports : l.into[q] <= Len(l.rows) /\ l.into[q] \in Nat
    BY LedgerIs DEF GoodLedger
  <2> HIDE DEF a
  <2>4. n \in DOMAIN a.rows /\ evidence(a, n) = {}
    BY <2>1, <2>3, LedgerIs, ReportIs DEF evidence
  <2> HIDE DEF n
  <2> QED
    BY <1>1, <2>1, <2>2, <2>4, AttachedIsGood
<1> QED
  BY <1>2, <1>3, <1>4 DEF book

(* Void and Reopen change no more than a mark of one row.                   *)
LEMMA VoidIs ==
  ASSUME GoodLedger(ledger), NEW i \in DOMAIN ledger.rows, Void(i) \/ Reopen(i)
  PROVE  /\ ledger' = [rows |-> ledger'.rows, into |-> ledger.into]
         /\ (\E S : ledger'.rows \in Seq(S)) /\ Len(ledger'.rows) = Len(ledger.rows)
         /\ DOMAIN ledger'.rows = DOMAIN ledger.rows
         /\ \A j \in DOMAIN ledger.rows :
              /\ IsRow(ledger'.rows[j]) /\ ledger'.rows[j].src = ledger.rows[j].src
              /\ ledger'.rows[j].kind = ledger.rows[j].kind /\ ledger'.rows[j].amt = ledger.rows[j].amt
<1>1. PICK void \in BOOLEAN : ledger' = [ledger EXCEPT !.rows[i].void = void]
  BY DEF Void, Reopen
<1>2. PICK S : ledger.rows \in Seq(S)
  BY LedgerIs
<1>3. /\ ledger = [rows |-> ledger.rows, into |-> ledger.into] /\ IsRow(ledger.rows[i])
      /\ \A j \in DOMAIN ledger.rows : IsRow(ledger.rows[j])
  BY LedgerIs
<1> DEFINE old == ledger.rows[i]
           new == [old EXCEPT !.void = void]
           rows == [ledger.rows EXCEPT ![i] = new]
<1>4. new = [src |-> old.src, kind |-> old.kind, amt |-> old.amt, void |-> void, debt |-> old.debt]
  <2>1. old = [src |-> old.src, kind |-> old.kind, amt |-> old.amt, void |-> old.void, debt |-> old.debt]
    BY <1>3 DEF IsRow
  <2> HIDE DEF old
  <2> QED
    BY <2>1
<1>5. old.src \in Reports
  BY <1>3 DEF IsRow
<1>6. ledger' = [ledger EXCEPT !.rows = rows]
  BY <1>1, <1>3
<1> HIDE DEF old
<1>7. IsRow(new) /\ new.src = old.src /\ new.kind = old.kind /\ new.amt = old.amt
  BY <1>4, <1>5 DEF IsRow
<1> HIDE DEF new
<1>8. /\ rows \in Seq(S \union {new}) /\ Len(rows) = Len(ledger.rows) /\ DOMAIN rows = DOMAIN ledger.rows
      /\ rows[i] = new /\ \A j \in DOMAIN ledger.rows : j # i => rows[j] = ledger.rows[j]
  <2>1. ledger.rows \in Seq(S \union {new})
    BY <1>2, SeqMonotonic
  <2> QED
    BY <2>1
<1> HIDE DEF rows
<1>9. ledger' = [rows |-> rows, into |-> ledger.into]
  BY <1>3, <1>6
<1>10. ledger'.rows = rows
  BY <1>9
<1> QED
  BY <1>3, <1>7, <1>8, <1>9, <1>10 DEF old

LEMMA VoidIsGood ==
  ASSUME GoodLedger(ledger), NEW i \in DOMAIN ledger.rows, Void(i) \/ Reopen(i)
  PROVE  GoodLedger(ledger')
<1>1. /\ ledger' = [rows |-> ledger'.rows, into |-> ledger.into]
      /\ (\E S : ledger'.rows \in Seq(S)) /\ Len(ledger'.rows) = Len(ledger.rows)
      /\ DOMAIN ledger'.rows = DOMAIN ledger.rows
      /\ \A j \in DOMAIN ledger.rows : IsRow(ledger'.rows[j]) /\ ledger'.rows[j].src = ledger.rows[j].src
  BY VoidIs
<1>2. ledger'.into = ledger.into
  BY <1>1
<1>3. IsLedger(ledger') /\ \A r \in Reports : ledger'.into[r] <= Len(ledger'.rows)
  BY <1>1, <1>2, LedgerIs DEF IsLedger, GoodLedger
<1>4. \A j \in DOMAIN ledger.rows : /\ evidence(ledger', j) = evidence(ledger, j)
                                    /\ OwnWords(ledger', j) = OwnWords(ledger, j)
  BY <1>1, <1>2 DEF evidence, OwnWords
<1>5. Apart(ledger')
  BY <1>1, <1>4 DEF GoodLedger, Apart
<1> QED
  BY <1>3, <1>5 DEF GoodLedger

-----------------------------------------------------------------------------
(* Claims. *)

LEMMA ClaimIs ==
  ASSUME NEW cl, GoodClaims(cl), NEW c \in Said
  PROVE  /\ cl[c] \in ClaimRecords /\ cl[c].evid \in Nat /\ cl[c].res \in Nat
         /\ cl[c].amt \in Sums /\ cl[c].dup \in Said \union {NoClaim}
<1>1. cl[c] \in ClaimRecords
  BY DEF GoodClaims
<1> QED
  BY <1>1 DEF ClaimRecords

(* One claim changes.                                                      *)
LEMMA OneClaimIsGood ==
  ASSUME NEW cl, GoodClaims(cl), NEW c \in Said, NEW new \in ClaimRecords,
         new.undone => new.dup = NoClaim /\ new.by \in {"nobody", "owner"}
  PROVE  GoodClaims([cl EXCEPT ![c] = new])
<1> DEFINE m == [cl EXCEPT ![c] = new]
<1>1. /\ m \in [Said -> ClaimRecords] /\ m[c] = new
      /\ \A d \in Said : d # c => m[d] = cl[d]
  BY DEF GoodClaims
<1> HIDE DEF m
<1>2. LeftAlone(m)
  BY <1>1 DEF GoodClaims, LeftAlone
<1> QED
  BY <1>1, <1>2 DEF GoodClaims, m

(* Any claims change that nobody has undone.                               *)
LEMMA ManyClaimsAreGood ==
  ASSUME NEW cl, GoodClaims(cl), NEW m, m = [c \in Said |-> m[c]],
         \A c \in Said : m[c] \in ClaimRecords /\ (m[c].undone => m[c] = cl[c])
  PROVE  GoodClaims(m)
<1>1. m \in [Said -> ClaimRecords]
  OBVIOUS
<1>2. LeftAlone(m)
  BY DEF GoodClaims, LeftAlone
<1> QED
  BY <1>1, <1>2 DEF GoodClaims

LEMMA PrimaryIs ==
  ASSUME NEW cl, NEW c \in Said
  PROVE  primary_for(cl, c) \in Said \union {NoClaim}
<1> DEFINE same == {d \in asked(cl) \ {c} : is_automatic(cl, d) /\ signature(cl, d) = signature(cl, c)}
           first == {d \in same : \A e \in same \ {d} : older(cl, d, e)}
<1>1. first \subseteq Said
  BY DEF asked, pending
<1>2. primary_for(cl, c) = IF is_automatic(cl, c) /\ first # {} THEN CHOOSE d \in first : TRUE
                           ELSE NoClaim
  BY DEF primary_for
<1> HIDE DEF first
<1>3. first # {} => (CHOOSE d \in first : TRUE) \in first
  OBVIOUS
<1> QED
  BY <1>1, <1>2, <1>3

(* Every number of a finite set is below the size of all the numbers up to *)
(* them, so one of them is the greatest.                                   *)
LEMMA MaxIsNumber ==
  ASSUME NEW S, S \subseteq Nat, S # {}, IsFiniteSet(S)
  PROVE  Max(S) \in Nat
<1> DEFINE upto == {1..n : n \in S}
           all == UNION upto
           bound == Cardinality(all)
           below == {bound - n : n \in S}
<1>1. IsFiniteSet(all)
  <2> DEFINE f == [n \in S |-> 1..n]
  <2>1. f \in Surjection(S, upto)
    BY DEF Surjection
  <2> HIDE DEF f, upto
  <2>2. IsFiniteSet(upto)
    BY <2>1, FS_Surjection
  <2>3. \A s \in upto : IsFiniteSet(s)
    BY FS_Interval DEF upto
  <2> QED
    BY <2>2, <2>3, FS_UNION
<1>2. bound \in Nat
  BY <1>1, FS_CardinalityType
<1>3. ASSUME NEW n \in S PROVE n <= bound
  <2>1. 1..n \subseteq all /\ n \in Nat
    OBVIOUS
  <2>2. Cardinality(1..n) <= bound
    BY <1>1, <2>1, FS_Subset
  <2>3. Cardinality(1..n) = n
    <3>1. Cardinality(1..n) = IF 1 > n THEN 0 ELSE n - 1 + 1
      BY <2>1, FS_Interval
    <3> QED
      BY <2>1, <3>1
  <2> QED
    BY <2>2, <2>3
<1> HIDE DEF all, bound
<1>4. below \subseteq Nat /\ below # {}
  <2>1. ASSUME NEW n \in S PROVE bound - n \in Nat
    <3>1. n \in Nat /\ n <= bound
      BY <1>3
    <3> QED
      BY <1>2, <3>1
  <2>2. PICK n \in S : TRUE
    OBVIOUS
  <2> QED
    BY <2>1, <2>2
<1>5. PICK n \in S : \A k \in S : bound - n <= bound - k
  <2>1. Min(below) \in below /\ \A y \in below : Min(below) <= y
    <3> HIDE DEF below
    <3> QED
      BY <1>4, MinIsLeast
  <2> QED
    BY <2>1
<1>6. \A k \in S : n >= k
  BY <1>2, <1>5
<1> QED
  BY <1>6 DEF Max

LEMMA NumbersAreFinite ==
  ASSUME NEW cl
  PROVE  IsFiniteSet({cl[d].nr : d \in Said})
<1> DEFINE numbers == {cl[d].nr : d \in Said}
           f == [d \in Said |-> cl[d].nr]
<1>1. f \in Surjection(Said, numbers)
  BY DEF Surjection
<1> HIDE DEF f, numbers
<1>2. IsFiniteSet(numbers)
  BY <1>1, ReportIs, FS_Surjection
<1> QED
  BY <1>2 DEF numbers

LEMMA CreatedIsGood ==
  ASSUME NEW cl, GoodClaims(cl), NEW flying, GoodClaims(flying), NEW c \in Said
  PROVE  GoodClaims(created(cl, flying, c))
<1> DEFINE numbers == {cl[d].nr : d \in Said} \union {flying[d].nr : d \in Said}
           nr == 1 + Max(numbers)
           amt == c.amt
           first == [unsaid EXCEPT !.nr = nr, !.state = "pending", !.amt = amt]
           new == [cl EXCEPT ![c] = first]
           dup == primary_for(new, c)
           linked == [first EXCEPT !.dup = dup]
<1>1. nr \in Nat /\ amt \in Sums
  <2>1. \A d \in Said : cl[d].nr \in Nat /\ flying[d].nr \in Nat
    BY DEF GoodClaims, ClaimRecords
  <2>2. IsFiniteSet({cl[d].nr : d \in Said}) /\ IsFiniteSet({flying[d].nr : d \in Said})
    BY NumbersAreFinite
  <2>3. IsFiniteSet(numbers) /\ numbers \subseteq Nat /\ numbers # {}
    BY <2>1, <2>2, FS_Union
  <2> HIDE DEF numbers
  <2>4. Max(numbers) \in Nat
    BY <2>3, MaxIsNumber
  <2>5. c \in Reports
    BY ReportIs
  <2> QED
    BY <2>4, <2>5, ReportIs DEF Sums
<1>2. unsaid \in ClaimRecords /\ ~unsaid.undone
  BY DEF unsaid, ClaimRecords, Sums
<1>3. dup \in Said \union {NoClaim}
  BY PrimaryIs
<1>4. created(cl, flying, c) = [new EXCEPT ![c].dup = dup]
  BY DEF created
<1> HIDE DEF nr, amt, numbers
<1>5. first \in ClaimRecords /\ ~first.undone
  BY <1>1, <1>2 DEF ClaimRecords
<1> HIDE DEF first, dup
<1>6. linked \in ClaimRecords /\ ~linked.undone
  BY <1>3, <1>5 DEF ClaimRecords
<1>7. created(cl, flying, c) = [cl EXCEPT ![c] = linked]
  BY <1>4 DEF GoodClaims
<1> HIDE DEF linked, new
<1>8. linked.undone => linked.dup = NoClaim /\ linked.by \in {"nobody", "owner"}
  BY <1>6
<1>9. GoodClaims([cl EXCEPT ![c] = linked])
  BY <1>6, <1>8, OneClaimIsGood
<1> QED
  BY <1>7, <1>9

LEMMA CollapsedIsGood ==
  ASSUME NEW cl, GoodClaims(cl)
  PROVE  GoodClaims(collapse_duplicates(cl))
<1> DEFINE m == collapse_duplicates(cl)
<1>1. m = [c \in Said |-> m[c]]
  BY DEF collapse_duplicates
<1>2. ASSUME NEW c \in Said
      PROVE  /\ m[c] \in ClaimRecords
             /\ m[c].undone => m[c] = cl[c]
  <2>1. cl[c] \in ClaimRecords
    BY ClaimIs
  <2>2. \/ m[c] = cl[c]
        \/ /\ m[c] = [cl[c] EXCEPT !.dup = primary_for(cl, c)] /\ primary_for(cl, c) # NoClaim
    BY DEF collapse_duplicates
  <2>3. CASE m[c] = [cl[c] EXCEPT !.dup = primary_for(cl, c)] /\ primary_for(cl, c) # NoClaim
    <3>1. ~cl[c].undone
      BY <2>3 DEF primary_for, is_automatic
    <3> DEFINE dup == primary_for(cl, c)
    <3>2. dup \in Said \union {NoClaim} /\ m[c] = [cl[c] EXCEPT !.dup = dup]
      BY <2>3, PrimaryIs
    <3> HIDE DEF dup, m
    <3> QED
      BY <2>1, <3>1, <3>2 DEF ClaimRecords
  <2> QED
    BY <2>1, <2>2, <2>3
<1> HIDE DEF m
<1>3. GoodClaims(m)
  BY <1>1, <1>2, ManyClaimsAreGood
<1> QED
  BY <1>3 DEF m

LEMMA SettledIsGood ==
  ASSUME NEW cl, GoodClaims(cl), NEW c \in Said, NEW state \in {"auto", "declined"}
  PROVE  GoodClaims(settle_duplicates(cl, c, state))
<1> DEFINE m == settle_duplicates(cl, c, state)
<1>1. m = [d \in Said |-> m[d]]
  BY DEF settle_duplicates
<1>2. ASSUME NEW d \in Said
      PROVE  /\ m[d] \in ClaimRecords
             /\ m[d].undone => m[d] = cl[d]
  <2>1. cl[d] \in ClaimRecords /\ cl[d].res \in Nat /\ cl[c].res \in Nat
    BY ClaimIs
  <2> DEFINE res == IF state = "auto" THEN cl[c].res ELSE cl[d].res
  <2>2. \/ m[d] = cl[d]
        \/ /\ cl[d].dup = c
           /\ m[d] = [cl[d] EXCEPT !.state = state, !.by = "auto:duplicate", !.res = res]
    BY <2>1 DEF settle_duplicates, duplicates_of, ClaimRecords
  <2>3. CASE /\ cl[d].dup = c
             /\ m[d] = [cl[d] EXCEPT !.state = state, !.by = "auto:duplicate", !.res = res]
    <3>1. ~cl[d].undone
      BY <2>3, ReportIs DEF GoodClaims, LeftAlone
    <3>2. res \in Nat
      BY <2>1
    <3> HIDE DEF res, m
    <3> QED
      BY <2>1, <2>3, <3>1, <3>2 DEF ClaimRecords
  <2> QED
    BY <2>1, <2>2, <2>3
<1> HIDE DEF m
<1>3. GoodClaims(m)
  BY <1>1, <1>2, ManyClaimsAreGood
<1> QED
  BY <1>3 DEF m

LEMMA SupersededIsGood ==
  ASSUME NEW cl, GoodClaims(cl), NEW l, GoodLedger(l)
  PROVE  GoodClaims(resolve_superseded(cl, l))
<1> DEFINE m == resolve_superseded(cl, l)
<1>1. m = [c \in Said |-> m[c]]
  BY DEF resolve_superseded
<1>2. ASSUME NEW c \in Said
      PROVE  /\ m[c] \in ClaimRecords
             /\ m[c].undone => m[c] = cl[c]
  <2>1. cl[c] \in ClaimRecords
    BY ClaimIs
  <2> DEFINE res == Min(owners_rows(cl, l, c))
  <2>2. \/ m[c] = cl[c]
        \/ /\ ~cl[c].undone /\ owners_rows(cl, l, c) # {}
           /\ m[c] = [cl[c] EXCEPT !.state = "auto", !.by = "auto:own", !.res = res]
    BY DEF resolve_superseded, is_automatic
  <2>3. CASE /\ ~cl[c].undone /\ owners_rows(cl, l, c) # {}
             /\ m[c] = [cl[c] EXCEPT !.state = "auto", !.by = "auto:own", !.res = res]
    <3>1. owners_rows(cl, l, c) \subseteq Nat
      BY LedgerIs DEF owners_rows, rows_of
    <3>2. res \in Nat
      BY <2>3, <3>1, MinIsLeast
    <3> HIDE DEF res, m
    <3> QED
      BY <2>1, <2>3, <3>2 DEF ClaimRecords
  <2> QED
    BY <2>1, <2>2, <2>3
<1> HIDE DEF m
<1>3. GoodClaims(m)
  BY <1>1, <1>2, ManyClaimsAreGood
<1> QED
  BY <1>3 DEF m

LEMMA ProofIs ==
  ASSUME NEW cl, NEW l, GoodLedger(l), NEW c \in Said
  PROVE  proof(cl, l, c) \subseteq Nat
<1>1. proof(cl, l, c) \subseteq DOMAIN l.rows
  BY DEF proof, bank_candidates, rows_of
<1> QED
  BY <1>1, LedgerIs

LEMMA MatchedIsGood ==
  ASSUME NEW cl, GoodClaims(cl), NEW l, GoodLedger(l), NEW targets, NEW txns
  PROVE  GoodClaims(match_bank_evidence(cl, l, targets, txns))
<1> DEFINE m == match_bank_evidence(cl, l, targets, txns)
           Found(c) == c \in targets \cap open_bank_claims(cl) /\ proof(cl, l, c) \cap txns # {}
           at(c) == Min(proof(cl, l, c))
<1>1. m = [c \in Said |-> m[c]]
  BY DEF match_bank_evidence
<1>2. ASSUME NEW c \in Said
      PROVE  /\ ~Found(c) => m[c] = cl[c]
             /\ Found(c) => ~m[c].undone
             /\ m[c] \in ClaimRecords
  <2>1. cl[c] \in ClaimRecords
    BY ClaimIs
  <2> DEFINE i == at(c)
  <2>2. m[c] = IF Found(c) THEN IF c.kind = "transaction"
                                  THEN [cl[c] EXCEPT !.evid = i, !.state = "auto",
                                                     !.by = "auto:bank", !.res = i]
                                  ELSE [cl[c] EXCEPT !.evid = i]
               ELSE cl[c]
    BY DEF match_bank_evidence
  <2>3. CASE ~Found(c)
    BY <2>1, <2>2, <2>3
  <2>4. CASE Found(c)
    <3>1. i \in proof(cl, l, c) /\ i \in Nat
      BY <2>4, ProofIs, MinIsLeast
    <3>2. ~cl[c].undone
      BY <2>4 DEF open_bank_claims, is_automatic
    <3> HIDE DEF m, i, at, Found
    <3>3. \/ m[c] = [cl[c] EXCEPT !.evid = i, !.state = "auto", !.by = "auto:bank", !.res = i]
          \/ m[c] = [cl[c] EXCEPT !.evid = i]
      BY <2>2, <2>4
    <3>4. m[c] \in ClaimRecords /\ m[c].undone = cl[c].undone
      BY <2>1, <3>1, <3>3 DEF ClaimRecords
    <3> QED
      BY <2>4, <3>2, <3>4
  <2> QED
    BY <2>3, <2>4
<1> HIDE DEF m, at, Found
<1>3. m \in [Said -> ClaimRecords]
  BY <1>1, <1>2
<1>4. LeftAlone(m)
  BY <1>2 DEF GoodClaims, LeftAlone
<1> QED
  BY <1>3, <1>4 DEF GoodClaims, m

-----------------------------------------------------------------------------
(* Steps. *)

LEMMA InitInv == Init => Inv
<1> SUFFICES ASSUME Init PROVE Inv
  OBVIOUS
<1>1. PICK story \in Stories : status = [r \in Reports |-> IF r \in story THEN "new" ELSE "never"]
  BY DEF Init
<1>2. status \in [Reports -> Statuses]
  BY <1>1 DEF Statuses
<1>3. /\ ledger.rows = <<>> /\ ledger.into = [r \in Reports |-> 0]
      /\ ledger = [rows |-> ledger.rows, into |-> ledger.into]
  BY DEF Init
<1>4. GoodLedger(ledger)
  <2>1. ledger.rows \in Seq({}) /\ ledger.into \in [Reports -> Nat] /\ DOMAIN ledger.rows = {}
    BY <1>3
  <2>2. IsLedger(ledger)
    BY <1>3, <2>1 DEF IsLedger
  <2>3. Apart(ledger) /\ Len(ledger.rows) = 0
    BY <1>3 DEF Apart
  <2> QED
    BY <1>3, <2>2, <2>3 DEF GoodLedger
<1>5. GoodClaims(claim) /\ GoodClaims(parking)
  <2>1. unsaid \in ClaimRecords /\ ~unsaid.undone
    BY DEF unsaid, ClaimRecords, Sums
  <2>2. claim = [c \in Said |-> unsaid] /\ parking = claim
    BY DEF Init
  <2> HIDE DEF unsaid
  <2> QED
    BY <2>1, <2>2 DEF GoodClaims, LeftAlone
<1>6. tap \in [Taps -> TapRecords \union {NoTap}] /\ corrections \in 0..MaxCorrections
  BY MoneyAssumption DEF Init
<1> QED
  BY <1>2, <1>4, <1>5, <1>6 DEF Inv

(* An answer is written: to a row of its own, to the bank's row it is      *)
(* about, or not at all.                                                   *)
LEMMA OutcomeIs ==
  ASSUME GoodLedger(ledger), NEW c \in Said, NEW s, s.amt \in Sums,
         NEW o \in outcomes(c, s)
  PROVE  /\ GoodLedger(o.ledger) /\ o.res \in Nat
         /\ o.evid = s.evid \/ o.evid \in Nat
<1> DEFINE found == bank_candidates(claim, ledger, s.amt, c.at)
           bank  == nearest(ledger, bank_match(ledger, s.amt, c.at), c.at)
           own   == added(ledger, NewRow(c, s.amt))
           paid  == paid_down(ledger, c, s.amt)
           next  == Len(ledger.rows) + 1
           res   == IF open_debts(ledger) = {} THEN 0 ELSE next
           fresh == [ledger |-> own, res |-> next, evid |-> s.evid]
<1>1. GoodLedger(own) /\ GoodLedger(paid) /\ next \in Nat /\ res \in Nat
  BY AddedIsGood, PaidIsExtended, LedgerIs, ReportIs
<1>2. \A i \in found : i \in Nat
  BY LedgerIs DEF bank_candidates, rows_of
<1>3. \A i \in bank : i \in DOMAIN ledger.rows /\ i \in Nat
  BY LedgerIs DEF nearest, bank_match, rows_of
<1>4. \/ o = fresh
      \/ o = [ledger |-> paid, evid |-> s.evid, res |-> res]
      \/ \E i \in found : o = [ledger |-> ledger, res |-> i, evid |-> i]
      \/ \E i \in bank : o = [ledger |-> attached(ledger, c, i), res |-> i, evid |-> s.evid]
  BY ReportIs DEF outcomes
<1> HIDE DEF found, bank, own, paid, next, res
<1>5. CASE o = fresh
  BY <1>1, <1>5
<1>6. CASE o = [ledger |-> paid, evid |-> s.evid, res |-> res]
  BY <1>1, <1>6
<1>7. ASSUME NEW i \in found, o = [ledger |-> ledger, res |-> i, evid |-> i]
      PROVE  o.ledger = ledger /\ o.res \in Nat /\ o.evid \in Nat
  BY <1>2, <1>7
<1>8. ASSUME NEW i \in bank, o = [ledger |-> attached(ledger, c, i), res |-> i, evid |-> s.evid]
      PROVE  GoodLedger(o.ledger) /\ o.res \in Nat /\ o.evid = s.evid
  <2>1. o.ledger = attached(ledger, c, i) /\ o.res = i /\ o.evid = s.evid
    BY <1>8
  <2> QED
    BY <1>3, <2>1, SaidIsGood
<1> QED
  BY <1>4, <1>5, <1>6, <1>7, <1>8

LEMMA AcceptIsGood ==
  ASSUME GoodLedger(ledger), GoodClaims(claim), NEW c \in Said, NEW s, s.amt \in Sums,
         accept(c, s)
  PROVE  GoodLedger(ledger') /\ GoodClaims(claim')
<1>1. PICK o \in outcomes(c, s) :
        /\ ledger' = o.ledger
        /\ claim' = IF o.res = 0 THEN claim
                    ELSE settle_duplicates(
                           [claim EXCEPT ![c] = [@ EXCEPT !.state = "accepted", !.by = "owner",
                                                          !.res = o.res,
                                                          !.evid = IF o.evid # s.evid THEN o.evid
                                                                   ELSE claim[c].evid]],
                           c, "auto")
  BY DEF accept
<1>2. /\ GoodLedger(o.ledger) /\ o.res \in Nat
      /\ o.evid = s.evid \/ o.evid \in Nat
  BY OutcomeIs
<1> DEFINE evid == IF o.evid # s.evid THEN o.evid ELSE claim[c].evid
           res == o.res
           new == [claim[c] EXCEPT !.state = "accepted", !.by = "owner", !.res = res, !.evid = evid]
           cl == [claim EXCEPT ![c] = new]
<1>3. evid \in Nat /\ res \in Nat /\ claim[c] \in ClaimRecords
  BY <1>2, ClaimIs
<1>4. claim' = claim \/ claim' = settle_duplicates(cl, c, "auto")
  <2> DEFINE written == [claim EXCEPT ![c] = [@ EXCEPT !.state = "accepted", !.by = "owner",
                                                       !.res = o.res,
                                                       !.evid = IF o.evid # s.evid THEN o.evid
                                                                ELSE claim[c].evid]]
  <2>1. written = cl
    <3>1. claim \in [Said -> ClaimRecords] /\ DOMAIN written = Said /\ DOMAIN cl = Said
      BY DEF GoodClaims
    <3>2. written = [d \in Said |-> written[d]] /\ cl = [d \in Said |-> cl[d]]
      BY <3>1
    <3>3. \A d \in Said : d # c => written[d] = cl[d]
      BY <3>1
    <3>4. written[c] = new
      BY <1>3, <3>1
    <3>5. cl[c] = new
      BY <3>1
    <3> HIDE DEF written, cl, new
    <3> QED
      BY <3>2, <3>3, <3>4, <3>5
  <2>2. claim' = claim \/ claim' = settle_duplicates(written, c, "auto")
    BY <1>1
  <2> HIDE DEF written, cl
  <2> QED
    BY <2>1, <2>2
<1> HIDE DEF evid, res
<1>5. /\ new \in ClaimRecords /\ new.by = "owner"
      /\ new.undone = claim[c].undone /\ new.dup = claim[c].dup
  BY <1>3 DEF ClaimRecords
<1> HIDE DEF new
<1>6. GoodClaims(cl)
  BY <1>3, <1>5, OneClaimIsGood DEF GoodClaims, LeftAlone
<1> HIDE DEF cl
<1>7. GoodClaims(settle_duplicates(cl, c, "auto"))
  BY <1>6, SettledIsGood
<1> QED
  BY <1>1, <1>2, <1>4, <1>7

LEMMA TapIs ==
  ASSUME Inv, NEW t \in Taps, tap[t] # NoTap
  PROVE  tap[t].on \in Said /\ tap[t].read.amt \in Sums
<1>1. tap[t] \in TapRecords
  BY DEF Inv
<1>2. tap[t].on \in Said /\ tap[t].read \in ClaimRecords
  BY <1>1 DEF TapRecords
<1> QED
  BY <1>2 DEF ClaimRecords

LEMMA TapsKept ==
  ASSUME Inv, [Next]_vars
  PROVE  tap' \in [Taps -> TapRecords \union {NoTap}]
<1>1. ASSUME NEW t \in Taps, Accept(t)
      PROVE  tap' \in [Taps -> TapRecords \union {NoTap}]
  BY <1>1 DEF Accept, Inv
<1>2. ASSUME NEW t \in Taps, NEW c \in Said, TapYes(t, c)
      PROVE  tap' \in [Taps -> TapRecords \union {NoTap}]
  <2> DEFINE read == claim[c]
             new == [on |-> c, read |-> read]
  <2>1. read \in ClaimRecords
    BY ClaimIs DEF Inv
  <2> HIDE DEF read
  <2>2. new \in TapRecords
    BY <2>1 DEF TapRecords
  <2>3. tap' = [tap EXCEPT ![t] = new]
    BY <1>2 DEF TapYes, read
  <2> HIDE DEF new
  <2> QED
    BY <2>2, <2>3 DEF Inv
<1>3. CASE UNCHANGED tap
  BY <1>3 DEF Inv
<1>4. \/ UNCHANGED tap
      \/ \E t \in Taps : Accept(t) \/ \E c \in Said : TapYes(t, c)
  BY DEF Next, vars, ApplyReading, BookFromReview, ResolveNotMoney, ReadWords, WriteWords,
         SplitTypedPayment, Void, Reopen, ParkClaim, CommitClaim, Decline, ReopenAuto, AutoResolve, Edit
<1> QED
  BY <1>1, <1>2, <1>3, <1>4

LEMMA StatusKept ==
  ASSUME Inv, [Next]_vars
  PROVE  status' \in [Reports -> Statuses] /\ corrections' \in 0..MaxCorrections
<1>1. ASSUME NEW r \in Reports, NEW st \in Statuses, status' = [status EXCEPT ![r] = st]
      PROVE  status' \in [Reports -> Statuses]
  BY <1>1 DEF Inv
<1>2. status' \in [Reports -> Statuses]
  <2>1. \/ UNCHANGED status
        \/ \E r \in Reports, st \in Statuses : status' = [status EXCEPT ![r] = st]
    <3>1. ASSUME NEW r \in Bank, ApplyReading(r) \/ BookFromReview(r) \/ ResolveNotMoney(r)
          PROVE  \E q \in Reports, st \in Statuses : status' = [status EXCEPT ![q] = st]
      <4>1. r \in Reports /\ status \in [Reports -> Statuses]
        BY ReportIs DEF Inv
      <4>2. \E st \in {"review", "ignored", "booked", "by_hand", "not_money"} :
              status' = [status EXCEPT ![r] = st]
        BY <3>1, <4>1 DEF ApplyReading, BookFromReview, ResolveNotMoney
      <4> QED
        BY <4>1, <4>2 DEF Statuses
    <3>2. ASSUME NEW r \in Typed, ReadWords(r) \/ WriteWords(r) \/ SplitTypedPayment(r)
          PROVE  \E q \in Reports, st \in Statuses : status' = [status EXCEPT ![q] = st]
      <4>1. r \in Reports
        BY ReportIs
      <4>2. \E st \in {"writing", "matched", "written", "split"} :
              status' = [status EXCEPT ![r] = st]
        BY <3>2 DEF ReadWords, WriteWords, SplitTypedPayment
      <4> QED
        BY <4>1, <4>2 DEF Statuses
    <3>3. ASSUME NEW c \in Said, ParkClaim(c) \/ CommitClaim(c)
          PROVE  \E q \in Reports, st \in Statuses : status' = [status EXCEPT ![q] = st]
      <4>1. \E st \in {"new", "parking", "parked"} : status' = [status EXCEPT ![c] = st]
        BY <3>3 DEF ParkClaim, CommitClaim
      <4> QED
        BY <4>1, ReportIs DEF Statuses
    <3>4. ASSUME \/ \E i \in DOMAIN ledger.rows : Void(i) \/ Reopen(i)
                 \/ \E c \in Said : Decline(c) \/ ReopenAuto(c)
                 \/ AutoResolve
                 \/ \E c \in Said, amt \in Amounts : Edit(c, amt)
                 \/ \E t \in Taps : Accept(t) \/ \E c \in Said : TapYes(t, c)
                 \/ UNCHANGED vars
          PROVE  UNCHANGED status
      BY <3>4 DEF Void, Reopen, Decline, ReopenAuto, AutoResolve, Edit, Accept, TapYes, vars
    <3> QED
      BY <3>1, <3>2, <3>3, <3>4 DEF Next
  <2>2. CASE UNCHANGED status
    BY <2>2 DEF Inv
  <2> QED
    BY <1>1, <2>1, <2>2
<1>3. corrections' \in 0..MaxCorrections
  <2>1. UNCHANGED corrections \/ Correct
    BY DEF Next, vars, ApplyReading, BookFromReview, ResolveNotMoney, ReadWords, WriteWords,
           SplitTypedPayment, Void, Reopen, ParkClaim, CommitClaim, Decline, ReopenAuto, AutoResolve, Edit,
           Accept, TapYes
  <2> QED
    BY <2>1, MoneyAssumption DEF Correct, Inv
<1> QED
  BY <1>2, <1>3

LEMMA AskedIsGood ==
  ASSUME NEW cl, GoodClaims(cl), NEW flying, GoodClaims(flying), NEW l, GoodLedger(l),
         NEW r \in Bank, NEW m \in asked_about(cl, flying, l, r)
  PROVE  GoodClaims(m)
<1> DEFINE i == l.into[r]
<1>1. i \in Nat
  BY LedgerIs, ReportIs
<1>2. m = cl \/ \E c \in Said : m = [created(cl, flying, c) EXCEPT ![c].evid = i]
  BY DEF asked_about
<1> HIDE DEF i
<1>3. ASSUME NEW c \in Said, m = [created(cl, flying, c) EXCEPT ![c].evid = i]
      PROVE  GoodClaims(m)
  <2> DEFINE asks == created(cl, flying, c)
             new == [asks[c] EXCEPT !.evid = i]
  <2>1. GoodClaims(asks)
    BY CreatedIsGood
  <2>2. m = [asks EXCEPT ![c] = new]
    BY <1>3
  <2> HIDE DEF asks
  <2>3. asks[c] \in ClaimRecords
    BY <2>1, ClaimIs
  <2>4. /\ new \in ClaimRecords /\ new.undone = asks[c].undone
        /\ new.dup = asks[c].dup /\ new.by = asks[c].by
    BY <1>1, <2>3 DEF ClaimRecords
  <2> HIDE DEF new
  <2> QED
    BY <2>1, <2>2, <2>4, OneClaimIsGood DEF GoodClaims, LeftAlone
<1> QED
  BY <1>2, <1>3

LEMMA BankKept ==
  ASSUME Inv, NEW r \in Bank, ApplyReading(r) \/ BookFromReview(r) \/ ResolveNotMoney(r)
  PROVE  GoodLedger(ledger') /\ GoodClaims(claim')
<1>1. GoodLedger(ledger) /\ GoodClaims(claim) /\ GoodClaims(parking)
  BY DEF Inv
<1>2. ASSUME NEW l \in book(ledger, r), ledger' = l, NEW cl \in asked_about(claim, parking, l, r),
             \/ claim' = cl
             \/ claim' = match_bank_evidence(cl, l, Said, {l.into[r]})
      PROVE  GoodLedger(ledger') /\ GoodClaims(claim')
  <2>1. GoodLedger(l) /\ GoodClaims(cl)
    BY <1>1, BookIsGood, AskedIsGood
  <2> DEFINE txns == {l.into[r]}
  <2>2. claim' = cl \/ claim' = match_bank_evidence(cl, l, Said, txns)
    BY <1>2
  <2> HIDE DEF txns
  <2>3. GoodClaims(match_bank_evidence(cl, l, Said, txns))
    BY <2>1, MatchedIsGood
  <2> QED
    BY <1>2, <2>1, <2>2, <2>3
<1>3. CASE UNCHANGED <<ledger, claim>>
  BY <1>1, <1>3
<1>4. \/ UNCHANGED <<ledger, claim>>
      \/ \E l \in book(ledger, r) : \E cl \in asked_about(claim, parking, l, r) :
           /\ ledger' = l
           /\ \/ claim' = cl
              \/ claim' = match_bank_evidence(cl, l, Said, {l.into[r]})
  BY DEF ApplyReading, BookFromReview, ResolveNotMoney
<1> QED
  BY <1>2, <1>3, <1>4

LEMMA WordsKept ==
  ASSUME Inv, NEW r \in Typed, ReadWords(r) \/ WriteWords(r) \/ SplitTypedPayment(r)
  PROVE  GoodLedger(ledger') /\ GoodClaims(claim')
<1>1. GoodLedger(ledger) /\ GoodClaims(claim) /\ r \in Reports /\ r.amt \in Sums
      /\ r \notin Bank
  BY ReportIs DEF Inv, Sums, Bank, Typed
<1> DEFINE own == added(ledger, NewRow(r, r.amt))
           paid == paid_down(ledger, r, r.amt)
<1>2. GoodLedger(own) /\ GoodLedger(paid)
  BY <1>1, AddedIsGood, PaidIsExtended
<1> HIDE DEF own, paid
<1>3. CASE ReadWords(r)
  <2>1. ASSUME NEW i \in nearest(ledger, bank_match(ledger, r.amt, r.at), r.at),
               ledger' = attached(ledger, r, i)
        PROVE  GoodLedger(ledger')
    <3>1. /\ i \in DOMAIN ledger.rows /\ channel(ledger, i) /\ ~matched_typed(ledger, i)
      BY <2>1 DEF nearest, bank_match, rows_of
    <3>2. OwnWords(ledger, i) = {}
      BY <3>1 DEF OwnWords, matched_typed, words
    <3> QED
      BY <1>1, <2>1, <3>1, <3>2, AttachedIsGood
  <2>2. /\ UNCHANGED claim
        /\ \/ UNCHANGED ledger
           \/ \E i \in nearest(ledger, bank_match(ledger, r.amt, r.at), r.at) :
                ledger' = attached(ledger, r, i)
    BY <1>3 DEF ReadWords
  <2> QED
    BY <1>1, <2>1, <2>2
<1>4. CASE WriteWords(r)
  <2>1. \/ UNCHANGED <<ledger, claim>>
        \/ ledger' = own /\ claim' = resolve_superseded(claim, own)
        \/ ledger' = paid /\ claim' = resolve_superseded(claim, paid)
    BY <1>4 DEF WriteWords, own, paid
  <2>2. GoodClaims(resolve_superseded(claim, own)) /\ GoodClaims(resolve_superseded(claim, paid))
    BY <1>1, <1>2, SupersededIsGood
  <2> QED
    BY <1>1, <1>2, <2>1, <2>2
<1>5. CASE SplitTypedPayment(r)
  BY <1>1, <1>2, <1>5 DEF SplitTypedPayment, own
<1> QED
  BY <1>3, <1>4, <1>5

LEMMA ClaimsKept ==
  ASSUME Inv, NEW c \in Said,
         CommitClaim(c) \/ Decline(c) \/ ReopenAuto(c) \/ \E amt \in Amounts : Edit(c, amt)
  PROVE  GoodLedger(ledger') /\ GoodClaims(claim')
<1>1. GoodLedger(ledger) /\ GoodClaims(claim)
  BY DEF Inv
<1>2. CASE CommitClaim(c)
  <2> DEFINE new == parking[c]
  <2>1. new \in ClaimRecords /\ (new.undone => new.dup = NoClaim /\ new.by \in {"nobody", "owner"})
    BY ClaimIs DEF Inv, GoodClaims, LeftAlone
  <2>2. UNCHANGED ledger /\ (UNCHANGED claim \/ claim' = [claim EXCEPT ![c] = new])
    BY <1>2 DEF CommitClaim
  <2> HIDE DEF new
  <2>3. GoodClaims([claim EXCEPT ![c] = new])
    BY <1>1, <2>1, OneClaimIsGood
  <2> QED
    BY <1>1, <2>2, <2>3
<1>3. CASE Decline(c)
  <2> DEFINE p == answers[c]
             new == [claim[p] EXCEPT !.state = "declined", !.by = "owner", !.evid = 0]
             cl == [claim EXCEPT ![p] = new]
  <2>1. UNCHANGED ledger /\ p \in Said /\ claim' = settle_duplicates(cl, p, "declined")
    BY <1>3 DEF Decline
  <2> HIDE DEF p
  <2>2. /\ new \in ClaimRecords /\ new.by = "owner"
        /\ new.undone = claim[p].undone /\ new.dup = claim[p].dup
    <3>1. claim[p] \in ClaimRecords
      BY <1>1, <2>1, ClaimIs
    <3> QED
      BY <3>1 DEF ClaimRecords
  <2> HIDE DEF new
  <2>3. GoodClaims(cl)
    BY <1>1, <2>1, <2>2, OneClaimIsGood DEF GoodClaims, LeftAlone
  <2> HIDE DEF cl
  <2>4. GoodClaims(settle_duplicates(cl, p, "declined"))
    BY <2>1, <2>3, SettledIsGood
  <2> QED
    BY <1>1, <2>1, <2>4
<1>4. CASE ReopenAuto(c)
  <2> DEFINE new == [claim[c] EXCEPT !.state = "pending", !.by = "nobody", !.res = 0, !.evid = 0,
                                     !.dup = NoClaim, !.undone = TRUE]
  <2>1. UNCHANGED ledger /\ claim' = [claim EXCEPT ![c] = new]
    BY <1>4 DEF ReopenAuto
  <2>2. /\ new \in ClaimRecords /\ new.by = "nobody" /\ new.dup = NoClaim
    <3>1. claim[c] \in ClaimRecords
      BY <1>1, ClaimIs
    <3> QED
      BY <3>1 DEF ClaimRecords
  <2> HIDE DEF new
  <2>3. GoodClaims([claim EXCEPT ![c] = new])
    BY <1>1, <2>2, OneClaimIsGood
  <2> QED
    BY <1>1, <2>1, <2>3
<1>5. ASSUME NEW amt \in Amounts, Edit(c, amt)
      PROVE  GoodLedger(ledger') /\ GoodClaims(claim')
  <2> DEFINE new == [claim[c] EXCEPT !.amt = amt]
  <2>1. UNCHANGED ledger /\ claim' = [claim EXCEPT ![c] = new]
    BY <1>5 DEF Edit
  <2>2. /\ new \in ClaimRecords /\ new.by = claim[c].by
        /\ new.undone = claim[c].undone /\ new.dup = claim[c].dup
    <3>1. claim[c] \in ClaimRecords
      BY <1>1, ClaimIs
    <3> QED
      BY <3>1 DEF ClaimRecords, Sums
  <2> HIDE DEF new
  <2>3. GoodClaims([claim EXCEPT ![c] = new])
    BY <1>1, <2>2, OneClaimIsGood DEF GoodClaims, LeftAlone
  <2> QED
    BY <1>1, <2>1, <2>3
<1> QED
  BY <1>2, <1>3, <1>4, <1>5

(* What an extraction holds until it commits.                              *)
LEMMA ParkingKept ==
  ASSUME Inv, [Next]_vars
  PROVE  GoodClaims(parking')
<1>1. GoodLedger(ledger) /\ GoodClaims(claim) /\ GoodClaims(parking)
  BY DEF Inv
<1>2. ASSUME NEW c \in Said, NEW cl, GoodClaims(cl), parking' = [parking EXCEPT ![c] = cl[c]]
      PROVE  GoodClaims(parking')
  <2> DEFINE new == cl[c]
  <2>1. new \in ClaimRecords /\ (new.undone => new.dup = NoClaim /\ new.by \in {"nobody", "owner"})
    BY <1>2, ClaimIs DEF GoodClaims, LeftAlone
  <2> HIDE DEF new
  <2>2. parking' = [parking EXCEPT ![c] = new]
    BY <1>2 DEF new
  <2> QED
    BY <1>1, <2>1, <2>2, OneClaimIsGood
<1>3. ASSUME NEW c \in Said, ParkClaim(c)
      PROVE  GoodClaims(parking')
  <2> DEFINE cl == created(claim, parking, c)
             targets == {c}
             txns == DOMAIN ledger.rows
             m == match_bank_evidence(cl, ledger, targets, txns)
  <2>1. GoodClaims(cl)
    BY <1>1, CreatedIsGood
  <2>2. parking' = [parking EXCEPT ![c] = m[c]]
    BY <1>3 DEF ParkClaim
  <2> HIDE DEF cl, targets, txns
  <2>3. GoodClaims(m)
    BY <1>1, <2>1, MatchedIsGood
  <2> HIDE DEF m
  <2> QED
    BY <1>2, <2>2, <2>3
<1>4. ASSUME NEW c \in Said, CommitClaim(c)
      PROVE  GoodClaims(parking')
  <2>1. unsaid \in ClaimRecords /\ ~unsaid.undone
    BY DEF unsaid, ClaimRecords, Sums
  <2>2. parking' = [parking EXCEPT ![c] = unsaid]
    BY <1>4 DEF CommitClaim
  <2> HIDE DEF unsaid
  <2> QED
    BY <1>1, <2>1, <2>2, OneClaimIsGood
<1>5. CASE UNCHANGED parking
  BY <1>1, <1>5 DEF GoodClaims, LeftAlone
<1>6. UNCHANGED parking \/ \E c \in Said : ParkClaim(c) \/ CommitClaim(c)
  BY DEF Next, vars, ApplyReading, BookFromReview, ResolveNotMoney, ReadWords, WriteWords,
         SplitTypedPayment, Void, Reopen, Decline, ReopenAuto, AutoResolve, Edit, Accept, TapYes
<1> QED
  BY <1>3, <1>4, <1>5, <1>6

LEMMA AutoKept ==
  ASSUME Inv, AutoResolve
  PROVE  GoodLedger(ledger') /\ GoodClaims(claim')
<1>1. GoodLedger(ledger) /\ GoodClaims(claim) /\ UNCHANGED ledger
      /\ claim' = auto_resolve(claim, ledger)
  BY DEF Inv, AutoResolve
<1> DEFINE collapsed == collapse_duplicates(claim)
           own == resolve_superseded(collapsed, ledger)
           txns == DOMAIN ledger.rows
<1>2. claim' = match_bank_evidence(own, ledger, Said, txns)
  BY <1>1 DEF auto_resolve
<1>3. GoodClaims(collapsed)
  BY <1>1, CollapsedIsGood
<1> HIDE DEF collapsed, txns
<1>4. GoodClaims(own)
  BY <1>1, <1>3, SupersededIsGood
<1> HIDE DEF own
<1>5. GoodClaims(match_bank_evidence(own, ledger, Said, txns))
  BY <1>1, <1>4, MatchedIsGood
<1> QED
  BY <1>1, <1>2, <1>5

LEMMA AcceptKept ==
  ASSUME Inv, NEW t \in Taps, Accept(t)
  PROVE  GoodLedger(ledger') /\ GoodClaims(claim')
<1>1. GoodLedger(ledger) /\ GoodClaims(claim)
  BY DEF Inv
<1>2. tap[t].on \in Said /\ tap[t].read.amt \in Sums
  BY TapIs DEF Accept
<1>3. \/ accept(tap[t].on, tap[t].read)
      \/ UNCHANGED <<ledger, claim>>
      \/ \E p \in Said : accept(p, claim[p])
  BY DEF Accept
<1>4. ASSUME NEW p \in Said, accept(p, claim[p])
      PROVE  GoodLedger(ledger') /\ GoodClaims(claim')
  <2> DEFINE s == claim[p]
  <2>1. s.amt \in Sums /\ accept(p, s)
    BY <1>1, <1>4, ClaimIs
  <2> HIDE DEF s
  <2> QED
    BY <1>1, <2>1, AcceptIsGood
<1>5. CASE accept(tap[t].on, tap[t].read)
  <2> DEFINE c == tap[t].on
             s == tap[t].read
  <2>1. c \in Said /\ s.amt \in Sums /\ accept(c, s)
    BY <1>2, <1>5
  <2> HIDE DEF c, s
  <2> QED
    BY <1>1, <2>1, AcceptIsGood
<1> QED
  BY <1>1, <1>3, <1>4, <1>5

(* The ledger, the claims and the taps under way stay in their ranges in   *)
(* every reachable state, and a row has one text of a channel and one      *)
(* message of the owner behind it at most.                                 *)
THEOREM Invariance == Spec => []Inv
<1>1. Init => Inv
  BY InitInv
<1>2. ASSUME Inv, [Next]_vars
      PROVE  Inv'
  <2>1. GoodLedger(ledger') /\ GoodClaims(claim')
    <3>1. CASE \/ \E t \in Taps : \E c \in Said : TapYes(t, c)
               \/ \E c \in Said : ParkClaim(c)
      BY <1>2, <3>1 DEF Inv, TapYes, ParkClaim
    <3>2. CASE UNCHANGED vars
      BY <1>2, <3>2 DEF Inv, vars
    <3>3. ASSUME NEW i \in DOMAIN ledger.rows, Void(i) \/ Reopen(i)
          PROVE  GoodLedger(ledger') /\ GoodClaims(claim')
      BY <1>2, <3>3, VoidIsGood DEF Inv, Void, Reopen
    <3> QED
      BY <1>2, <3>1, <3>2, <3>3, BankKept, WordsKept, ClaimsKept, AutoKept, AcceptKept DEF Next
  <2>2. (GoodLedger(ledger) /\ GoodClaims(claim) /\ GoodClaims(parking))'
    BY <1>2, <2>1, ParkingKept DEF GoodLedger, IsLedger, GoodClaims, Apart, LeftAlone, evidence, OwnWords
  <2> QED
    BY <1>2, <2>2, TapsKept, StatusKept DEF Inv
<1> QED
  BY <1>1, <1>2, PTL DEF Spec

-----------------------------------------------------------------------------
(* What the runs check. *)

(* PaymentsStayApart: two payments never become one row by two texts of    *)
(* one channel, nor by two messages of the owner: book and the two matches *)
(* filter on more than the amount and the time.                            *)
THEOREM RowsStayApart == Spec => []PaymentsStayApart
<1>1. Inv => PaymentsStayApart
  <2> SUFFICES ASSUME Inv, NEW i \in DOMAIN ledger.rows,
                      NEW q \in {r \in Bank \union Typed : ledger.into[r] = i}
                                \union ({ledger.rows[i].src} \intersect Typed),
                      NEW r \in {p \in Bank \union Typed : ledger.into[p] = i}
                                \union ({ledger.rows[i].src} \intersect Typed),
                      q.of # r.of
               PROVE  q.by # r.by \/ (q.by = "bank" /\ q.channel # r.channel)
    BY DEF PaymentsStayApart
  <2>1. /\ \A a, b \in evidence(ledger, i) : a # b => a.channel # b.channel
        /\ \A a, b \in OwnWords(ledger, i) : a = b
    BY DEF Inv, GoodLedger, Apart
  <2>2. \/ q \in evidence(ledger, i) /\ q.by = "bank"
        \/ q \in OwnWords(ledger, i) /\ q.by = "typed"
    BY DEF evidence, OwnWords, Bank, Typed
  <2>3. \/ r \in evidence(ledger, i) /\ r.by = "bank"
        \/ r \in OwnWords(ledger, i) /\ r.by = "typed"
    BY DEF evidence, OwnWords, Bank, Typed
  <2>4. q # r
    OBVIOUS
  <2> QED
    BY <2>1, <2>2, <2>3, <2>4
<1> QED
  BY <1>1, Invariance, PTL

(* UndoneIsLeftAlone: what the owner put back in the queue no automatic    *)
(* rule answers again, neither by the ledger nor by a repeat: an undone    *)
(* claim follows no other, which is what keeps the answers to repeats off. *)
THEOREM UndoneStays == Spec => []UndoneIsLeftAlone
<1>1. Inv => UndoneIsLeftAlone
  BY DEF Inv, GoodClaims, LeftAlone, UndoneIsLeftAlone
<1> QED
  BY <1>1, Invariance, PTL

-----------------------------------------------------------------------------
(* One row for one payment, by however many texts.                         *)

(* Texts one row may join: the amount and the moments agree.               *)
Alike(q, r) == q.amt = r.amt /\ Near(q.at, r.at, PAYMENT_DEDUPE_WINDOW)

(* Two texts of one payment through one channel: it was posted again.      *)
Copies(q, r) == q # r /\ q.channel = r.channel /\ q.of = r.of

(* A payment is posted again in the same words and at once, and only one   *)
(* channel tells cards apart.                                              *)
TextsAreTold ==
  /\ \A q, r \in Bank : Copies(q, r) => q.text = r.text /\ Near(q.at, r.at, PAYMENT_REPEAT)
  /\ \A q, r \in Bank : NoCard \notin {q.card, r.card} /\ q.card # r.card => q.channel = r.channel

(* The texts of a payment can be joined, and the texts that can are groups *)
(* apart from each other, each with as many payments as it likes.          *)
GroupsAreApart ==
  /\ \A q, r \in Bank : q.of = r.of => Alike(q, r)
  /\ \A p, q, r \in Bank : Alike(p, q) /\ Alike(q, r) => Alike(p, r)

(* The owner books by hand no text that was ignored as a repeat, and no     *)
(* copy of a booked one.                                                   *)
RepeatsStayIgnored ==
  \A r \in Bank : BookFromReview(r) =>
    status[r] = "review" /\ \A q \in Bank : Copies(q, r) => status[q] # "booked"

Booked(st) == {r \in Bank : st[r] = "booked"}
ByPhone(l) == {i \in DOMAIN l.rows : l.rows[i].src \in Bank}

OwnTexts(st, l) ==
  /\ \A r \in Bank : st[r] # "by_hand" /\ (l.into[r] # 0 <=> st[r] = "booked")
  /\ \A q, r \in Booked(st) : ~Copies(q, r)
  /\ \A i \in ByPhone(l) :
       /\ l.into[l.rows[i].src] = i
       /\ l.rows[i].kind = "transaction" /\ l.rows[i].amt = l.rows[i].src.amt
       /\ \A q \in evidence(l, i) : Alike(q, l.rows[i].src)

(* f names, for every row of the phone, a text of its group, and the texts *)
(* it names are of different payments: no more rows than payments.         *)
Names(f, st, l) ==
  /\ f \in [ByPhone(l) -> Booked(st)]
  /\ \A i \in ByPhone(l) : Alike(f[i], l.rows[i].src)
  /\ \A i, j \in ByPhone(l) : f[i].of = f[j].of => i = j

PhoneInv(st, l) == OwnTexts(st, l) /\ \E f : Names(f, st, l)

(* From ledger l to m nothing happens that the texts of banks depend on.   *)
Quiet(l, m) ==
  /\ \A r \in Bank : m.into[r] = l.into[r]
  /\ DOMAIN l.rows \subseteq DOMAIN m.rows
  /\ \A i \in DOMAIN l.rows : /\ m.rows[i].src = l.rows[i].src /\ m.rows[i].amt = l.rows[i].amt
                              /\ m.rows[i].kind = l.rows[i].kind
  /\ \A i \in DOMAIN m.rows : i \in DOMAIN l.rows \/ m.rows[i].src \notin Bank

LEMMA QuietIsGood ==
  ASSUME NEW st, NEW l, PhoneInv(st, l), NEW ts, NEW m, Quiet(l, m),
         \A r \in Bank : ts[r] # "by_hand" /\ (ts[r] = "booked" <=> st[r] = "booked")
  PROVE  PhoneInv(ts, m)
<1>1. ByPhone(m) = ByPhone(l) /\ Booked(ts) = Booked(st)
  BY DEF ByPhone, Booked, Quiet
<1>2. \A i : evidence(m, i) = evidence(l, i)
  BY DEF evidence, Quiet
<1>3. \A i \in ByPhone(l) : /\ m.rows[i].src = l.rows[i].src /\ m.rows[i].amt = l.rows[i].amt
                            /\ m.rows[i].kind = l.rows[i].kind
  BY DEF ByPhone, Quiet
<1>4. \A i \in ByPhone(l) : l.rows[i].src \in Bank
  BY DEF ByPhone
<1>5. OwnTexts(ts, m)
  BY <1>1, <1>2, <1>3, <1>4 DEF PhoneInv, OwnTexts, Quiet
<1>6. PICK f : Names(f, st, l)
  BY DEF PhoneInv
<1>7. Names(f, ts, m)
  BY <1>1, <1>3, <1>6 DEF Names
<1> QED
  BY <1>5, <1>7 DEF PhoneInv

LEMMA AddedIs ==
  ASSUME NEW l, GoodLedger(l), NEW row, IsRow(row)
  PROVE  /\ added(l, row).into = l.into
         /\ DOMAIN added(l, row).rows = 1..(Len(l.rows) + 1)
         /\ \A i \in DOMAIN l.rows : added(l, row).rows[i] = l.rows[i]
         /\ added(l, row).rows[Len(l.rows) + 1] = row
<1>1. IsExtended(l, added(l, row), <<row>>)
  BY AddedIsExtended
<1>2. Len(<<row>>) = 1 /\ 1 \in DOMAIN <<row>> /\ <<row>>[1] = row
  OBVIOUS
<1> QED
  BY <1>1, <1>2 DEF IsExtended

LEMMA AttachedIs ==
  ASSUME NEW l, GoodLedger(l), NEW r \in Reports, NEW i
  PROVE  /\ attached(l, r, i).rows = l.rows
         /\ attached(l, r, i).into = [l.into EXCEPT ![r] = i]
<1> DEFINE m == attached(l, r, i)
           into == [l.into EXCEPT ![r] = i]
<1>1. l = [rows |-> l.rows, into |-> l.into]
  BY LedgerIs
<1>2. m = [l EXCEPT !.into = into]
  BY DEF attached
<1> HIDE DEF m, into
<1>3. m.rows = l.rows /\ m.into = into
  BY <1>1, <1>2
<1> QED
  BY <1>3 DEF m, into

LEMMA WordsAreQuiet ==
  ASSUME NEW l, GoodLedger(l), NEW r \in Reports \ Bank
  PROVE  /\ \A i \in DOMAIN l.rows : Quiet(l, attached(l, r, i))
         /\ \A amt : Quiet(l, added(l, NewRow(r, amt))) /\ Quiet(l, paid_down(l, r, amt))
<1>1. ASSUME NEW i \in DOMAIN l.rows
      PROVE  Quiet(l, attached(l, r, i))
  <2> DEFINE m == attached(l, r, i)
  <2>1. m.rows = l.rows /\ m.into = [l.into EXCEPT ![r] = i]
    BY AttachedIs
  <2>2. l.into \in [Reports -> Nat] /\ Bank \subseteq Reports
    BY LedgerIs, ReportIs
  <2> HIDE DEF m
  <2>3. Quiet(l, m)
    BY <2>1, <2>2 DEF Quiet
  <2> QED
    BY <2>3 DEF m
<1>2. ASSUME NEW m, NEW new, IsExtended(l, m, new), DOMAIN new = 1..Len(new), Len(new) \in Nat,
             \A k \in DOMAIN new : new[k].src = r
      PROVE  Quiet(l, m)
  <2>1. DOMAIN l.rows = 1..Len(l.rows) /\ Len(l.rows) \in Nat
    BY LedgerIs
  <2>2. /\ m.into = l.into /\ DOMAIN m.rows = 1..(Len(l.rows) + Len(new))
        /\ \A i \in DOMAIN l.rows : m.rows[i] = l.rows[i]
        /\ \A k \in DOMAIN new : m.rows[Len(l.rows) + k] = new[k]
    BY <1>2 DEF IsExtended
  <2>3. ASSUME NEW i \in DOMAIN m.rows, i \notin DOMAIN l.rows
        PROVE  m.rows[i].src = r
    <3>1. i - Len(l.rows) \in 1..Len(new) /\ Len(l.rows) + (i - Len(l.rows)) = i
      BY <1>2, <2>1, <2>2, <2>3
    <3> QED
      BY <1>2, <2>2, <3>1
  <2>4. DOMAIN l.rows \subseteq DOMAIN m.rows
    BY <1>2, <2>1, <2>2
  <2> QED
    BY <2>2, <2>3, <2>4 DEF Quiet
<1>3. ASSUME NEW amt
      PROVE  Quiet(l, added(l, NewRow(r, amt)))
  <2> DEFINE row == NewRow(r, amt)
             m == added(l, row)
             new == <<row>>
  <2>1. IsRow(row) /\ row.src = r
    BY NewRowIs
  <2> HIDE DEF row
  <2>2. IsExtended(l, m, new)
    BY <2>1, AddedIsExtended
  <2>3. DOMAIN new = 1..Len(new) /\ Len(new) \in Nat /\ \A k \in DOMAIN new : new[k].src = r
    BY <2>1
  <2> HIDE DEF m, new
  <2>4. Quiet(l, m)
    BY <1>2, <2>2, <2>3
  <2> QED
    BY <2>4 DEF m, row
<1>4. ASSUME NEW amt
      PROVE  Quiet(l, paid_down(l, r, amt))
  <2> DEFINE m == paid_down(l, r, amt)
  <2>1. PICK new : /\ IsExtended(l, m, new) /\ DOMAIN new = 1..Len(new) /\ Len(new) \in Nat
                   /\ \A k \in DOMAIN new : new[k].src = r
    <3>1. ExtendedBy(l, m, r)
      BY PaidIsExtended
    <3> HIDE DEF m
    <3> QED
      BY <3>1 DEF ExtendedBy
  <2> HIDE DEF m
  <2>2. Quiet(l, m)
    BY <1>2, <2>1
  <2> QED
    BY <2>2 DEF m
<1> QED
  BY <1>1, <1>3, <1>4

LEMMA NearestExists ==
  ASSUME NEW l, GoodLedger(l), NEW S, S \subseteq DOMAIN l.rows, S # {}, NEW at \in Nat
  PROVE  nearest(l, S, at) # {}
<1> DEFINE away(i) == IF l.rows[i].src.at > at THEN l.rows[i].src.at - at ELSE at - l.rows[i].src.at
           far == {away(i) : i \in S}
<1>1. \A i \in S : l.rows[i].src \in Reports
  BY LedgerIs DEF IsRow
<1>2. \A i \in S : away(i) \in Nat
  BY <1>1, MoneyAssumption
<1>3. far \subseteq Nat /\ far # {}
  BY <1>2
<1> HIDE DEF far
<1>4. Min(far) \in far /\ \A a \in far : Min(far) =< a
  BY <1>3, MinIsLeast
<1>5. PICK i \in S : away(i) = Min(far)
  BY <1>4 DEF far
<1>6. \A j \in S : away(i) <= away(j)
  BY <1>4, <1>5 DEF far
<1>7. i \in nearest(l, S, at)
  BY <1>6 DEF nearest
<1> QED
  BY <1>7

LEMMA ReportsAre ==
  \A r \in Bank : r \in Reports /\ r \notin Typed /\ r.at \in Nat /\ r.amt \in Sums /\ r.kind = "transaction"
  BY MoneyAssumption DEF Bank, Typed, Sums

LEMMA NoCopyIsAdded ==
  ASSUME NEW st, NEW l, PhoneInv(st, l), NEW r \in Bank, \A q \in Booked(st) : ~Copies(q, r),
         NEW ts, \A q \in Bank : q # r => ts[q] = st[q]
  PROVE  \A q, p \in Booked(ts) : ~Copies(q, p)
  BY DEF PhoneInv, OwnTexts, Booked, Copies

(* A text joins a row of its group, or one the owner typed.                *)
LEMMA JoinedIsGood ==
  ASSUME NEW st \in [Reports -> Statuses], NEW l, GoodLedger(l), PhoneInv(st, l),
         NEW r \in Bank, st[r] # "booked", \A q \in Booked(st) : ~Copies(q, r),
         NEW i \in typed_match(l, r) \union same_payment(l, r)
  PROVE  PhoneInv([st EXCEPT ![r] = "booked"], attached(l, r, i))
<1> DEFINE m == attached(l, r, i)
           ts == [st EXCEPT ![r] = "booked"]
<1>1. r \in Reports /\ i \in DOMAIN l.rows /\ i \in Nat /\ i # 0
  BY LedgerIs, ReportsAre DEF typed_match, same_payment, rows_of
<1>2. m.rows = l.rows /\ m.into = [l.into EXCEPT ![r] = i]
  BY <1>1, AttachedIs
<1>3. l.into \in [Reports -> Nat] /\ l.into[r] = 0
  BY <1>1, LedgerIs DEF PhoneInv, OwnTexts
<1>4. /\ ts[r] = "booked" /\ \A q \in Reports : q # r => ts[q] = st[q]
      /\ m.into[r] = i /\ \A q \in Reports : q # r => m.into[q] = l.into[q]
  BY <1>1, <1>2, <1>3
<1> HIDE DEF m, ts
<1>5. ByPhone(m) = ByPhone(l) /\ Booked(st) \subseteq Booked(ts)
  BY <1>2, <1>4, ReportsAre DEF ByPhone, Booked
<1>6. \A j \in ByPhone(l) : evidence(m, j) \subseteq evidence(l, j) \union (IF j = i THEN {r} ELSE {})
  BY <1>4, ReportsAre DEF evidence
<1>7. i \in ByPhone(l) => Alike(r, l.rows[i].src)
  <2> SUFFICES ASSUME i \in ByPhone(l)
               PROVE  Alike(r, l.rows[i].src)
    OBVIOUS
  <2>1. i \in same_payment(l, r)
    BY ReportsAre DEF typed_match, ByPhone
  <2>2. l.rows[i].amt = l.rows[i].src.amt
    BY DEF PhoneInv, OwnTexts
  <2>3. l.rows[i].amt = r.amt /\ Near(l.rows[i].src.at, r.at, PAYMENT_DEDUPE_WINDOW)
    BY <2>1 DEF same_payment
  <2> QED
    BY <2>2, <2>3 DEF Alike, Near
<1>8. OwnTexts(ts, m)
  <2>1. ASSUME NEW q \in Bank
        PROVE  ts[q] # "by_hand" /\ (m.into[q] # 0 <=> ts[q] = "booked")
    BY <1>1, <1>4, ReportsAre DEF PhoneInv, OwnTexts
  <2>2. ASSUME NEW j \in ByPhone(l)
        PROVE  /\ m.into[m.rows[j].src] = j
               /\ m.rows[j].kind = "transaction" /\ m.rows[j].amt = m.rows[j].src.amt
               /\ \A q \in evidence(m, j) : Alike(q, m.rows[j].src)
    <3>1. /\ l.into[l.rows[j].src] = j /\ l.rows[j].kind = "transaction"
          /\ l.rows[j].amt = l.rows[j].src.amt
          /\ \A q \in evidence(l, j) : Alike(q, l.rows[j].src)
      BY DEF PhoneInv, OwnTexts
    <3>2. l.rows[j].src # r /\ l.rows[j].src \in Reports
      BY <1>3, <3>1, LedgerIs, ReportsAre DEF ByPhone
    <3>3. \A q \in evidence(m, j) : Alike(q, l.rows[j].src)
      BY <1>6, <1>7, <3>1
    <3> QED
      BY <1>2, <1>4, <3>1, <3>2, <3>3
  <2>3. \A q, p \in Booked(ts) : ~Copies(q, p)
    BY <1>4, ReportsAre, NoCopyIsAdded DEF Booked
  <2> QED
    BY <1>5, <2>1, <2>2, <2>3 DEF OwnTexts
<1>9. PICK f : Names(f, st, l)
  BY DEF PhoneInv
<1>10. Names(f, ts, m)
  BY <1>2, <1>5, <1>9 DEF Names
<1>11. PhoneInv(ts, m)
  BY <1>8, <1>10 DEF PhoneInv
<1> QED
  BY <1>11 DEF m, ts

(* A text that finds no row becomes one.  Every row of the phone in its    *)
(* group then has another text of its channel, or of the one channel that  *)
(* tells cards apart, which is its own: as many other payments as rows.    *)
LEMMA FullRows ==
  ASSUME TextsAreTold, NEW st, NEW l, GoodLedger(l), PhoneInv(st, l),
         NEW r \in Bank, same_payment(l, r) = {},
         NEW i \in ByPhone(l), Alike(l.rows[i].src, r)
  PROVE  \E q \in evidence(l, i) : q.channel = r.channel
<1>1. /\ l.into[l.rows[i].src] = i /\ l.rows[i].kind = "transaction"
      /\ l.rows[i].amt = l.rows[i].src.amt /\ l.rows[i].src \in Bank /\ i \in DOMAIN l.rows
  BY DEF PhoneInv, OwnTexts, ByPhone
<1>2. channel(l, i)
  BY <1>1 DEF channel, evidence
<1>3. i \notin same_payment(l, r)
  OBVIOUS
<1>4. l.rows[i].amt = r.amt /\ Near(l.rows[i].src.at, r.at, PAYMENT_DEDUPE_WINDOW)
  BY <1>1 DEF Alike
<1>5. r.channel \in channels(l, i) \/ ~(r.card = NoCard \/ cards(l, i) \subseteq {r.card})
  BY <1>1, <1>2, <1>3, <1>4 DEF same_payment, rows_of
<1>6. CASE r.channel \in channels(l, i)
  BY <1>6 DEF channels
<1>7. CASE r.card # NoCard /\ ~(cards(l, i) \subseteq {r.card})
  <2>1. PICK card \in cards(l, i) : card # r.card
    BY <1>7
  <2>2. PICK q \in evidence(l, i) : q.card = card /\ card # NoCard
    BY DEF cards
  <2>3. q \in Bank
    BY DEF evidence
  <2> QED
    BY <1>7, <2>1, <2>2, <2>3 DEF TextsAreTold
<1> QED
  BY <1>5, <1>6, <1>7

LEMMA BookedIsGood ==
  ASSUME TextsAreTold, GroupsAreApart,
         NEW st \in [Reports -> Statuses], NEW l, GoodLedger(l), PhoneInv(st, l),
         NEW r \in Bank, st[r] # "booked", \A q \in Booked(st) : ~Copies(q, r),
         same_payment(l, r) = {}
  PROVE  PhoneInv([st EXCEPT ![r] = "booked"], booked(l, r))
<1> DEFINE row == NewRow(r, r.amt)
           own == added(l, row)
           n == Len(l.rows) + 1
           m == attached(own, r, n)
           ts == [st EXCEPT ![r] = "booked"]
<1>1. r \in Reports /\ r.amt \in Sums
  BY ReportsAre
<1>2. IsRow(row) /\ row.src = r /\ row.kind = "transaction" /\ row.amt = r.amt
  <2>1. IsRow(row) /\ row.src = r
    BY <1>1, NewRowIs
  <2> QED
    BY <2>1, ReportsAre DEF NewRow, row_kind
<1>3. GoodLedger(own)
  BY <1>1, AddedIsGood
<1> HIDE DEF row
<1>4. /\ own.into = l.into /\ DOMAIN own.rows = 1..n
      /\ \A i \in DOMAIN l.rows : own.rows[i] = l.rows[i]
      /\ own.rows[n] = row
  BY <1>2, AddedIs
<1> HIDE DEF own
<1>5. m.rows = own.rows /\ m.into = [l.into EXCEPT ![r] = n]
  BY <1>1, <1>3, <1>4, AttachedIs
<1>6. /\ DOMAIN l.rows = 1..Len(l.rows) /\ Len(l.rows) \in Nat
      /\ l.into \in [Reports -> Nat] /\ l.into[r] = 0
      /\ \A q \in Reports : l.into[q] <= Len(l.rows)
  BY <1>1, LedgerIs DEF PhoneInv, OwnTexts, GoodLedger
<1>7. /\ ts[r] = "booked" /\ \A q \in Reports : q # r => ts[q] = st[q]
      /\ m.into[r] = n /\ \A q \in Reports : q # r => m.into[q] = l.into[q]
  BY <1>1, <1>5, <1>6
<1>8. booked(l, r) = m
  BY DEF booked, own, row
<1> HIDE DEF m, ts, n
<1>9. /\ n \notin DOMAIN l.rows /\ n # 0 /\ DOMAIN m.rows = DOMAIN l.rows \union {n}
      /\ m.rows[n].src = r /\ m.rows[n].kind = "transaction" /\ m.rows[n].amt = r.amt
      /\ \A i \in DOMAIN l.rows : m.rows[i] = l.rows[i]
      /\ \A q \in Reports : l.into[q] # n
  BY <1>2, <1>4, <1>5, <1>6 DEF n
<1>10. ByPhone(m) = ByPhone(l) \union {n} /\ n \notin ByPhone(l) /\ Booked(ts) = Booked(st) \union {r}
  BY <1>7, <1>9, ReportsAre DEF ByPhone, Booked
<1>11. evidence(m, n) = {r} /\ \A i \in ByPhone(l) : evidence(m, i) = evidence(l, i)
  BY <1>6, <1>7, <1>9, <1>10, ReportsAre DEF evidence, ByPhone
<1>12. Alike(r, r)
  BY DEF GroupsAreApart
<1>13. OwnTexts(ts, m)
  <2>1. ASSUME NEW q \in Bank
        PROVE  ts[q] # "by_hand" /\ (m.into[q] # 0 <=> ts[q] = "booked")
    BY <1>7, <1>9, ReportsAre DEF PhoneInv, OwnTexts
  <2>2. ASSUME NEW j \in ByPhone(l)
        PROVE  /\ m.into[m.rows[j].src] = j
               /\ m.rows[j].kind = "transaction" /\ m.rows[j].amt = m.rows[j].src.amt
               /\ \A q \in evidence(m, j) : Alike(q, m.rows[j].src)
    <3>1. /\ l.into[l.rows[j].src] = j /\ l.rows[j].kind = "transaction"
          /\ l.rows[j].amt = l.rows[j].src.amt
          /\ \A q \in evidence(l, j) : Alike(q, l.rows[j].src)
      BY DEF PhoneInv, OwnTexts
    <3>2. m.rows[j] = l.rows[j] /\ l.rows[j].src # r /\ l.rows[j].src \in Reports /\ j # 0
      BY <1>6, <1>9, <3>1, ReportsAre DEF ByPhone
    <3> QED
      BY <1>7, <1>11, <3>1, <3>2
  <2>3. /\ m.into[m.rows[n].src] = n
        /\ m.rows[n].kind = "transaction" /\ m.rows[n].amt = m.rows[n].src.amt
        /\ \A q \in evidence(m, n) : Alike(q, m.rows[n].src)
    BY <1>7, <1>9, <1>11, <1>12
  <2>4. \A q, p \in Booked(ts) : ~Copies(q, p)
    BY <1>7, ReportsAre, NoCopyIsAdded
  <2> QED
    BY <1>10, <2>1, <2>2, <2>3, <2>4 DEF OwnTexts
<1>14. PICK f : Names(f, st, l)
  BY DEF PhoneInv
<1> DEFINE near(i) == Alike(l.rows[i].src, r)
           full(i) == CHOOSE q \in evidence(l, i) : q.channel = r.channel
           g == [i \in ByPhone(m) |-> IF i = n THEN r ELSE IF near(i) THEN full(i) ELSE f[i]]
<1>15. ASSUME NEW i \in ByPhone(l), near(i)
       PROVE  /\ full(i) \in evidence(l, i) /\ full(i).channel = r.channel
              /\ full(i) \in Booked(st) /\ full(i) # r
              /\ Alike(full(i), l.rows[i].src) /\ l.into[full(i)] = i
  <2>1. full(i) \in evidence(l, i) /\ full(i).channel = r.channel
    BY <1>15, FullRows
  <2> HIDE DEF full
  <2>2. full(i) \in Bank /\ l.into[full(i)] = i /\ i # 0
    BY <1>6, <2>1 DEF evidence, ByPhone
  <2> QED
    BY <1>6, <2>1, <2>2 DEF PhoneInv, OwnTexts, Booked
<1> HIDE DEF full
<1>16. ASSUME NEW i \in ByPhone(l), ~near(i)
       PROVE  f[i] \in Booked(st) /\ Alike(f[i], l.rows[i].src)
  BY <1>14 DEF Names
<1>17. \A i \in ByPhone(l) : l.rows[i].src \in Bank
  BY DEF ByPhone
<1>18. \A q, p \in Bank : Alike(q, p) => Alike(p, q)
  BY DEF Alike, Near
<1>19. /\ g[n] = r
       /\ \A i \in ByPhone(l) : g[i] = IF near(i) THEN full(i) ELSE f[i]
  BY <1>10
<1>20. g \in [ByPhone(m) -> Booked(ts)]
  BY <1>10, <1>15, <1>16, <1>19
<1>21. \A i \in ByPhone(m) : Alike(g[i], m.rows[i].src)
  <2>1. Alike(g[n], m.rows[n].src)
    BY <1>9, <1>12, <1>19
  <2>2. ASSUME NEW i \in ByPhone(l)
        PROVE  Alike(g[i], m.rows[i].src)
    <3>1. m.rows[i] = l.rows[i]
      BY <1>9 DEF ByPhone
    <3> QED
      BY <1>15, <1>16, <1>19, <3>1
  <2> QED
    BY <1>10, <2>1, <2>2
<1>22. ASSUME NEW i \in ByPhone(l), NEW q \in Bank, q.of = g[i].of, Alike(q, r)
       PROVE  near(i)
  <2> SUFFICES ASSUME ~near(i) PROVE FALSE
    OBVIOUS
  <2>1. g[i] = f[i] /\ f[i] \in Bank /\ Alike(f[i], l.rows[i].src) /\ l.rows[i].src \in Bank
    BY <1>16, <1>17, <1>19 DEF Booked
  <2>2. Alike(q, f[i])
    BY <1>22, <2>1 DEF GroupsAreApart
  <2>3. Alike(l.rows[i].src, f[i]) /\ Alike(f[i], q)
    BY <1>18, <2>1, <2>2
  <2>4. Alike(l.rows[i].src, r)
    BY <1>22, <2>1, <2>3 DEF GroupsAreApart
  <2> QED
    BY <2>4
<1>23. ASSUME NEW i \in ByPhone(l), NEW j \in ByPhone(l), g[i].of = g[j].of
       PROVE  i = j
  <2>1. CASE near(i) \/ near(j)
    <3>1. ASSUME NEW a \in ByPhone(l), NEW b \in ByPhone(l), g[a].of = g[b].of, near(a)
          PROVE  near(b)
      <4>1. /\ g[a] = full(a) /\ full(a) \in Bank /\ Alike(full(a), l.rows[a].src)
            /\ l.rows[a].src \in Bank
        BY <1>15, <1>17, <1>19, <3>1 DEF Booked
      <4>2. Alike(full(a), r)
        BY <3>1, <4>1 DEF GroupsAreApart
      <4> QED
        BY <1>22, <3>1, <4>1, <4>2
    <3>2. near(i) /\ near(j)
      BY <1>23, <2>1, <3>1
    <3>3. /\ g[i] = full(i) /\ g[j] = full(j) /\ full(i) \in Booked(st) /\ full(j) \in Booked(st)
          /\ full(i).channel = full(j).channel
          /\ l.into[full(i)] = i /\ l.into[full(j)] = j
      BY <1>15, <1>19, <3>2
    <3>4. full(i) = full(j)
      BY <1>23, <3>3 DEF PhoneInv, OwnTexts, Copies
    <3> QED
      BY <3>3, <3>4
  <2>2. CASE ~near(i) /\ ~near(j)
    BY <1>14, <1>19, <1>23, <2>2 DEF Names
  <2> QED
    BY <2>1, <2>2
<1>24. ASSUME NEW i \in ByPhone(l)
       PROVE  g[i].of # r.of
  <2> SUFFICES ASSUME g[i].of = r.of PROVE FALSE
    OBVIOUS
  <2>1. near(i)
    BY <1>12, <1>22
  <2>2. g[i] = full(i) /\ full(i) \in Booked(st) /\ full(i) # r /\ full(i).channel = r.channel
    BY <1>15, <1>19, <2>1
  <2> QED
    BY <2>2 DEF Copies
<1> HIDE DEF g
<1>25. \A i, j \in ByPhone(m) : g[i].of = g[j].of => i = j
  BY <1>10, <1>19, <1>23, <1>24
<1>26. Names(g, ts, m)
  BY <1>20, <1>21, <1>25 DEF Names
<1>27. PhoneInv(ts, m)
  BY <1>13, <1>26 DEF PhoneInv
<1> QED
  BY <1>8, <1>27 DEF ts

LEMMA BookingIsGood ==
  ASSUME TextsAreTold, GroupsAreApart,
         NEW st \in [Reports -> Statuses], NEW l, GoodLedger(l), PhoneInv(st, l),
         NEW r \in Bank, st[r] # "booked", \A q \in Booked(st) : ~Copies(q, r),
         NEW m \in book(l, r)
  PROVE  PhoneInv([st EXCEPT ![r] = "booked"], m)
<1>1. CASE \E i \in typed_match(l, r) \union same_payment(l, r) : m = attached(l, r, i)
  BY <1>1, JoinedIsGood
<1>2. CASE m = booked(l, r) /\ same_payment(l, r) = {}
  BY <1>2, BookedIsGood
<1>3. \/ \E i \in typed_match(l, r) \union same_payment(l, r) : m = attached(l, r, i)
      \/ m = booked(l, r) /\ nearest(l, same_payment(l, r), r.at) = {}
  BY DEF book, nearest
<1>4. same_payment(l, r) # {} => nearest(l, same_payment(l, r), r.at) # {}
  <2>1. same_payment(l, r) \subseteq DOMAIN l.rows
    BY DEF same_payment, rows_of
  <2> QED
    BY <2>1, NearestExists, ReportsAre
<1> QED
  BY <1>1, <1>2, <1>3, <1>4

LEMMA BankIsGood ==
  ASSUME TextsAreTold, GroupsAreApart, Inv, PhoneInv(status, ledger), RepeatsStayIgnored,
         NEW r \in Bank, ApplyReading(r) \/ BookFromReview(r) \/ ResolveNotMoney(r)
  PROVE  PhoneInv(status', ledger')
<1>1. status \in [Reports -> Statuses] /\ GoodLedger(ledger) /\ r \in Reports
  BY ReportsAre DEF Inv
<1>2. status[r] \in {"new", "review", "ignored"}
  BY DEF ApplyReading, BookFromReview, ResolveNotMoney
<1>3. CASE /\ status' = [status EXCEPT ![r] = "booked"] /\ ledger' \in book(ledger, r)
           /\ \A q \in Booked(status) : ~Copies(q, r)
  BY <1>1, <1>2, <1>3, BookingIsGood
<1>4. CASE /\ \E st \in {"review", "ignored", "not_money"} : status' = [status EXCEPT ![r] = st]
           /\ UNCHANGED ledger
  <2>1. Quiet(ledger, ledger')
    BY <1>4 DEF Quiet
  <2>2. \A q \in Bank : status'[q] # "by_hand" /\ (status'[q] = "booked" <=> status[q] = "booked")
    BY <1>1, <1>2, <1>4, ReportsAre DEF PhoneInv, OwnTexts
  <2> QED
    BY <2>1, <2>2, QuietIsGood
<1>5. \/ /\ status' = [status EXCEPT ![r] = "booked"] /\ ledger' \in book(ledger, r)
         /\ \A q \in Booked(status) : ~Copies(q, r)
      \/ /\ \E st \in {"review", "ignored", "not_money"} : status' = [status EXCEPT ![r] = st]
         /\ UNCHANGED ledger
  <2>1. CASE ApplyReading(r) /\ status' = [status EXCEPT ![r] = "booked"]
    <3>1. ~is_repeat(r) /\ ledger' \in book(ledger, r)
      BY <1>1, <2>1 DEF ApplyReading
    <3>2. \A q \in Booked(status) : ~Copies(q, r)
      BY <3>1 DEF is_repeat, Booked, Copies, TextsAreTold
    <3> QED
      BY <2>1, <3>1, <3>2
  <2>2. CASE ApplyReading(r) /\ status' # [status EXCEPT ![r] = "booked"]
    BY <2>2 DEF ApplyReading
  <2>3. CASE BookFromReview(r)
    <3>1. status[r] = "review" /\ \A q \in Booked(status) : ~Copies(q, r)
      BY <2>3 DEF RepeatsStayIgnored, Booked
    <3> QED
      BY <1>1, <2>3, <3>1 DEF BookFromReview
  <2>4. CASE ResolveNotMoney(r)
    BY <2>4 DEF ResolveNotMoney
  <2> QED
    BY <2>1, <2>2, <2>3, <2>4
<1> QED
  BY <1>3, <1>4, <1>5

(* What is no bank's text leaves what the phone booked as it is.           *)
LEMMA VoidIsQuiet ==
  ASSUME GoodLedger(ledger), NEW i \in DOMAIN ledger.rows, Void(i) \/ Reopen(i)
  PROVE  Quiet(ledger, ledger')
<1>1. ledger' = [rows |-> ledger'.rows, into |-> ledger.into]
  BY VoidIs
<1>2. ledger'.into = ledger.into
  BY <1>1
<1> QED
  BY <1>2, VoidIs DEF Quiet

LEMMA OutcomeIsQuiet ==
  ASSUME GoodLedger(ledger), NEW c \in Said, NEW s, s.amt \in Sums, NEW o \in outcomes(c, s)
  PROVE  Quiet(ledger, o.ledger)
<1>1. c \in Reports \ Bank
  BY DEF Said, Bank
<1>2. Quiet(ledger, ledger)
  BY DEF Quiet
<1>3. \/ o.ledger = added(ledger, NewRow(c, s.amt))
      \/ o.ledger = paid_down(ledger, c, s.amt)
      \/ o.ledger = ledger
      \/ \E i \in DOMAIN ledger.rows : o.ledger = attached(ledger, c, i)
  <2> DEFINE found == bank_candidates(claim, ledger, s.amt, c.at)
             bank == nearest(ledger, bank_match(ledger, s.amt, c.at), c.at)
             own == added(ledger, NewRow(c, s.amt))
             paid == paid_down(ledger, c, s.amt)
             res == IF open_debts(ledger) = {} THEN 0 ELSE Len(ledger.rows) + 1
             fresh == [ledger |-> own, res |-> Len(ledger.rows) + 1, evid |-> s.evid]
             repaid == [ledger |-> paid, evid |-> s.evid, res |-> res]
  <2>1. bank \subseteq DOMAIN ledger.rows
    BY DEF nearest, bank_match, rows_of
  <2>2. fresh.ledger = own /\ repaid.ledger = paid
    OBVIOUS
  <2>3. \/ o = fresh \/ o = repaid
        \/ \E i \in found : o = [ledger |-> ledger, res |-> i, evid |-> i]
        \/ \E i \in bank : o = [ledger |-> attached(ledger, c, i), res |-> i, evid |-> s.evid]
    <3>1. c.kind \in {"transaction", "debt", "settlement"}
      BY <1>1, ReportIs
    <3>2. outcomes(c, s) = CASE c.kind = "debt" -> {fresh}
            [] c.kind = "settlement" -> {repaid}
            [] c.kind = "transaction" ->
                 IF Cardinality(found) = 1
                   THEN {[ledger |-> ledger, res |-> i, evid |-> i] : i \in found}
                 ELSE IF bank # {}
                   THEN {[ledger |-> attached(ledger, c, i), res |-> i, evid |-> s.evid] : i \in bank}
                 ELSE {fresh}
      BY DEF outcomes
    <3> HIDE DEF found, bank, fresh, repaid
    <3> QED
      BY <3>1, <3>2
  <2> HIDE DEF found, bank, own, paid, fresh, repaid
  <2>4. ASSUME NEW i \in found, o = [ledger |-> ledger, res |-> i, evid |-> i]
        PROVE  o.ledger = ledger
    BY <2>4
  <2>5. ASSUME NEW i \in bank, o = [ledger |-> attached(ledger, c, i), res |-> i, evid |-> s.evid]
        PROVE  i \in DOMAIN ledger.rows /\ o.ledger = attached(ledger, c, i)
    BY <2>1, <2>5
  <2> QED
    BY <2>2, <2>3, <2>4, <2>5 DEF own, paid
<1> QED
  BY <1>1, <1>2, <1>3, WordsAreQuiet

LEMMA PhoneStep ==
  ASSUME TextsAreTold, GroupsAreApart, Inv, PhoneInv(status, ledger), [Next]_vars,
         [RepeatsStayIgnored]_vars
  PROVE  PhoneInv(status', ledger')
<1>1. GoodLedger(ledger) /\ GoodClaims(claim) /\ status \in [Reports -> Statuses]
  BY DEF Inv
<1>2. ASSUME Quiet(ledger, ledger'),
             \/ UNCHANGED status
             \/ \E r \in Reports \ Bank : \E st : status' = [status EXCEPT ![r] = st]
      PROVE  PhoneInv(status', ledger')
  <2>1. \A q \in Bank : status'[q] = status[q]
    BY <1>1, <1>2, ReportsAre
  <2>2. \A q \in Bank : status[q] # "by_hand"
    BY DEF PhoneInv, OwnTexts
  <2> QED
    BY <1>2, <2>1, <2>2, QuietIsGood
<1>3. Quiet(ledger, ledger)
  BY DEF Quiet
<1>4. ASSUME NEW r \in Typed, ReadWords(r) \/ WriteWords(r) \/ SplitTypedPayment(r)
      PROVE  PhoneInv(status', ledger')
  <2>1. r \in Reports \ Bank /\ r.amt \in Sums
    BY ReportIs DEF Typed, Bank, Sums
  <2>2. \E st : status' = [status EXCEPT ![r] = st]
    BY <1>4 DEF ReadWords, WriteWords, SplitTypedPayment
  <2>3. \/ UNCHANGED ledger
        \/ \E i \in DOMAIN ledger.rows : ledger' = attached(ledger, r, i)
        \/ ledger' = added(ledger, NewRow(r, r.amt))
        \/ ledger' = paid_down(ledger, r, r.amt)
    BY <1>4 DEF ReadWords, WriteWords, SplitTypedPayment, nearest, bank_match, rows_of
  <2>4. Quiet(ledger, ledger')
    BY <1>1, <1>3, <2>1, <2>3, WordsAreQuiet
  <2> QED
    BY <1>2, <2>1, <2>2, <2>4
<1>5. ASSUME NEW c \in Said, NEW s, s.amt \in Sums, accept(c, s), UNCHANGED status
      PROVE  PhoneInv(status', ledger')
  <2>1. PICK o \in outcomes(c, s) : ledger' = o.ledger
    BY <1>5 DEF accept
  <2> QED
    BY <1>1, <1>2, <1>5, <2>1, OutcomeIsQuiet
<1>6. ASSUME NEW t \in Taps, Accept(t)
      PROVE  PhoneInv(status', ledger')
  <2>1. UNCHANGED status /\ tap[t].on \in Said /\ tap[t].read.amt \in Sums
    BY <1>6, TapIs DEF Accept
  <2>2. \/ accept(tap[t].on, tap[t].read)
        \/ UNCHANGED ledger
        \/ \E p \in Said : accept(p, claim[p])
    BY <1>6 DEF Accept
  <2>3. \A p \in Said : claim[p].amt \in Sums
    BY <1>1, ClaimIs
  <2>4. CASE UNCHANGED ledger
    BY <1>2, <1>3, <2>1, <2>4
  <2> QED
    BY <1>5, <2>1, <2>2, <2>3, <2>4
<1>7. ASSUME NEW i \in DOMAIN ledger.rows, Void(i) \/ Reopen(i)
      PROVE  PhoneInv(status', ledger')
  BY <1>1, <1>2, <1>7, VoidIsQuiet DEF Void, Reopen
<1>8. ASSUME NEW c \in Said, ParkClaim(c) \/ CommitClaim(c)
      PROVE  PhoneInv(status', ledger')
  <2>1. c \in Reports \ Bank
    BY DEF Said, Bank
  <2> QED
    BY <1>2, <1>3, <1>8, <2>1 DEF ParkClaim, CommitClaim
<1>9. CASE \/ \E c \in Said : Decline(c) \/ ReopenAuto(c)
           \/ AutoResolve
           \/ \E c \in Said, amt \in Amounts : Edit(c, amt)
           \/ \E t \in Taps : \E c \in Said : TapYes(t, c)
           \/ UNCHANGED vars
  <2>1. UNCHANGED <<status, ledger>>
    BY <1>9 DEF Decline, ReopenAuto, AutoResolve, Edit, TapYes, vars
  <2> QED
    BY <1>2, <1>3, <2>1
<1>10. CASE RepeatsStayIgnored
  BY <1>4, <1>6, <1>7, <1>8, <1>9, <1>10, BankIsGood DEF Next
<1>11. CASE UNCHANGED vars
  BY <1>9, <1>11
<1> QED
  BY <1>10, <1>11

(* PhoneBooksOnce: money_events.book makes no more rows of the texts of    *)
(* banks and apps than there are payments, however many payments are alike *)
(* and in whatever order their texts are read, posted again, matched with  *)
(* the owner's words, kept for /tekshir, voided or split.  It takes what   *)
(* book relies on: without any one of the three TLC finds a row too many.  *)
THEOREM PaymentsAreBookedOnce ==
  ASSUME TextsAreTold, GroupsAreApart
  PROVE  Spec /\ [][RepeatsStayIgnored]_vars => []PhoneBooksOnce
<1> DEFINE Phone == PhoneInv(status, ledger)
<1>1. Init => Phone
  <2> SUFFICES ASSUME Init PROVE Phone
    OBVIOUS
  <2>1. PICK story \in Stories : status = [r \in Reports |-> IF r \in story THEN "new" ELSE "never"]
    BY DEF Init
  <2>2. \A r \in Bank : status[r] \in {"new", "never"} /\ ledger.into[r] = 0
    BY <2>1, ReportsAre DEF Init
  <2>3. ByPhone(ledger) = {}
    BY DEF Init, ByPhone
  <2>4. OwnTexts(status, ledger)
    BY <2>2, <2>3 DEF OwnTexts, Booked
  <2> DEFINE f == [i \in {} |-> 0]
  <2>5. Names(f, status, ledger)
    BY <2>3 DEF Names
  <2> QED
    BY <2>4, <2>5 DEF PhoneInv
<1>2. Inv /\ Phone /\ [Next]_vars /\ [RepeatsStayIgnored]_vars => Phone'
  <2> SUFFICES ASSUME Inv, Phone, [Next]_vars, [RepeatsStayIgnored]_vars PROVE Phone'
    OBVIOUS
  <2>1. PhoneInv(status', ledger')
    BY PhoneStep
  <2> QED
    BY <2>1 DEF PhoneInv, OwnTexts, Names, Booked, ByPhone, evidence
<1>3. Inv /\ Phone => PhoneBooksOnce
  <2> SUFFICES ASSUME Inv, Phone PROVE PhoneBooksOnce
    OBVIOUS
  <2>1. PICK f : Names(f, status, ledger)
    BY DEF PhoneInv
  <2> DEFINE rows == {i \in DOMAIN ledger.rows : ledger.rows[i].src \in Bank
                                                  /\ status[ledger.rows[i].src] = "booked"}
             texts == {q \in Bank : status[q] = "booked"}
             reported == {r.of : r \in texts}
             g == [i \in rows |-> f[i].of]
  <2>2. rows \subseteq ByPhone(ledger) /\ texts = Booked(status)
    BY DEF ByPhone, Booked
  <2>3. IsFiniteSet(texts)
    BY FS_Subset, MoneyAssumption DEF Bank
  <2>4. IsFiniteSet(reported)
    <3> DEFINE onto == [q \in texts |-> q.of]
    <3>1. onto \in Surjection(texts, reported)
      <4> HIDE DEF texts
      <4> QED
        BY DEF Surjection
    <3> HIDE DEF texts, reported, onto
    <3> QED
      BY <2>3, <3>1, FS_Surjection
  <2>5. \A i \in rows : f[i] \in texts
    BY <2>1, <2>2 DEF Names
  <2>6. g \in Injection(rows, reported)
    <3>1. g \in [rows -> reported]
      BY <2>5
    <3>2. \A i, j \in rows : g[i] = g[j] => i = j
      BY <2>1, <2>2 DEF Names
    <3> HIDE DEF g, rows, reported
    <3> QED
      BY <3>1, <3>2 DEF Injection, IsInjective
  <2> HIDE DEF g
  <2>7. Cardinality(rows) <= Cardinality(reported)
    <3> HIDE DEF rows, reported
    <3> QED
      BY <2>4, <2>6, FS_Injection
  <2> QED
    BY <2>7 DEF PhoneBooksOnce
<1> QED
  BY <1>1, <1>2, <1>3, Invariance, PTL DEF Spec
=============================================================================
