-------------------------------- MODULE Money --------------------------------
(***************************************************************************)
(* How one movement of money becomes one row of the ledger, however it is  *)
(* reported: services/money_events.py (texts of banks and payment apps),   *)
(* write_transaction, write_debt and write_settlement of                   *)
(* services/persistence.py (the owner's own words) and services/claims.py  *)
(* (what a counterparty says, asked about before it is written).           *)
(*                                                                         *)
(* A report is one text: who wrote it (`by'), over which channel, when     *)
(* (`at': the moment the phone or the chat gives it, whenever it arrives), *)
(* the card it names and whether the reader was `sure' of it.  `of' is the *)
(* payment it really is about, which no operation reads.  All money has    *)
(* one currency and one direction and concerns one counterparty: the case  *)
(* in which every match is possible.  The question whether a bank's text   *)
(* with a client's code pays a debt (money_gs_settle_ask) is a report, by  *)
(* "said", which `asks' about that text.                                   *)
(*                                                                         *)
(* ledger.rows are the rows of transactions, debts and debt_payments in    *)
(* the order they were written; src is the report a row was written from.  *)
(* ledger.into[r] is the row that text r was attached to: the              *)
(* transaction_evidence of a bank's text, the entry matched "typed" in the *)
(* history of the row for words.  A row has a channel iff a bank's text    *)
(* backs it.                                                               *)
(*                                                                         *)
(* A handler is one step, except where it reads and later acts: the words  *)
(* that found no bank row and are not committed yet (status "writing"), a  *)
(* claim whose extraction is not committed yet (status "parking", as it is *)
(* in `parking'), and a tap on "Ha", which holds the claim as it was first *)
(* read (`tap').                                                           *)
(***************************************************************************)
EXTENDS Integers, Sequences, FiniteSets, FiniteSetsExt

CONSTANTS
  Reports,
  Taps,                            \* taps on "Ha" under way at once
  Amounts,
  PAYMENT_REPEAT, PAYMENT_DEDUPE_WINDOW, MONEY_TYPED_MATCH, CLAIM_BANK_MATCH,
  DAY,                             \* the moments of one local day
  NoCard, NoClaim, NoTap, NoText,
  Stories,                         \* sets of reports: each a course of events to explore
  MaxCorrections                   \* bound: voids, their undos and edits of a claim

Near(a, b, window) == a - b <= window /\ b - a <= window
SameDay(a, b) == a \div DAY = b \div DAY
Said  == {r \in Reports : r.by = "said"}
Typed == {r \in Reports : r.by = "typed"}
Bank  == {r \in Reports : r.by = "bank"}

ASSUME MoneyAssumption ==
  /\ \A r \in Reports :
       /\ r.by \in {"said", "typed", "bank"}
       /\ r.kind \in {"transaction", "debt", "settlement"}
       /\ r.by = "bank" => r.kind = "transaction"
       /\ r.at \in Nat /\ r.amt \in Amounts /\ r.sure \in BOOLEAN
       /\ r.asks # NoText => /\ r.by = "said" /\ r.kind = "settlement" /\ r.asks \in Bank
                            /\ r.at = r.asks.at /\ r.amt = r.asks.amt
  /\ IsFiniteSet(Reports) /\ NoClaim \notin Reports /\ Stories \subseteq SUBSET Reports
  /\ {PAYMENT_REPEAT, PAYMENT_DEDUPE_WINDOW, MONEY_TYPED_MATCH, CLAIM_BANK_MATCH, MaxCorrections}
       \subseteq Nat
  /\ Amounts \subseteq Nat \ {0} /\ DAY \in Nat \ {0}

VARIABLES
  status,                          \* of every report: what was done with its text
  ledger, claim, parking, tap,
  corrections

vars == <<status, ledger, claim, parking, tap, corrections>>

row_kind(kind) == CASE kind = "transaction" -> "transaction"
                    [] kind = "debt"        -> "debt"
                    [] kind = "settlement"  -> "payment"
NewRow(r, amt) == [src |-> r, kind |-> row_kind(r.kind), amt |-> amt, void |-> FALSE, debt |-> 0]

unsaid == [nr |-> 0, state |-> "unsaid", dup |-> NoClaim, evid |-> 0, res |-> 0,
           amt |-> 0, undone |-> FALSE, by |-> "nobody"]

Init ==
  /\ \E story \in Stories : status = [r \in Reports |-> IF r \in story THEN "new" ELSE "never"]
  /\ ledger = [rows |-> <<>>, into |-> [r \in Reports |-> 0]]
  /\ claim = [c \in Said |-> unsaid] /\ parking = claim
  /\ tap = [t \in Taps |-> NoTap]
  /\ corrections = 0

-----------------------------------------------------------------------------
(* The ledger l: what backs a row, and which rows a report may be about *)

rows_of(l, kind) == {i \in DOMAIN l.rows : l.rows[i].kind = kind}
evidence(l, i) == {r \in Bank : l.into[r] = i}
channel(l, i)  == evidence(l, i) # {}
channels(l, i) == {r.channel : r \in evidence(l, i)}
cards(l, i)    == {r.card : r \in evidence(l, i)} \ {NoCard}
words(l, i)    == {r \in Typed \cup Said : l.into[r] = i}
matched_typed(l, i) == \/ words(l, i) # {}
                       \/ l.rows[i].src \in Typed /\ channel(l, i)
added(l, row) == [l EXCEPT !.rows = Append(@, row)]
attached(l, r, i) == [l EXCEPT !.into[r] = i]
booked(l, r) == attached(added(l, NewRow(r, r.amt)), r, Len(l.rows) + 1)

nearest(l, S, at) ==
  LET away(i) == IF l.rows[i].src.at > at THEN l.rows[i].src.at - at ELSE at - l.rows[i].src.at
  IN {i \in S : \A j \in S : away(i) <= away(j)}

(* find_typed_match: what the owner wrote and no bank reported yet *)
typed_match(l, r) ==
  {i \in rows_of(l, "transaction") :
     /\ ~l.rows[i].void /\ l.rows[i].amt = r.amt
     /\ l.rows[i].src \in Typed /\ evidence(l, i) = {}
     /\ Near(l.rows[i].src.at, r.at, MONEY_TYPED_MATCH) /\ SameDay(l.rows[i].src.at, r.at)}

\* A fault to detect: a row the owner's words confirmed is matched again.
bank_match_again(l, amt, at) ==
  {i \in rows_of(l, "transaction") :
     /\ ~l.rows[i].void /\ l.rows[i].amt = amt
     /\ channel(l, i)
     /\ Near(l.rows[i].src.at, at, MONEY_TYPED_MATCH) /\ SameDay(l.rows[i].src.at, at)}

(* find_bank_match: the bank's row of a payment the owner is writing now *)
bank_match(l, amt, at) ==
  {i \in rows_of(l, "transaction") :
     /\ ~l.rows[i].void /\ l.rows[i].amt = amt
     /\ channel(l, i) /\ ~matched_typed(l, i)
     /\ Near(l.rows[i].src.at, at, MONEY_TYPED_MATCH) /\ SameDay(l.rows[i].src.at, at)}

(* book: the row another channel made of this payment; a voided one too *)
same_payment(l, r) ==
  {i \in rows_of(l, "transaction") :
     /\ l.rows[i].amt = r.amt
     /\ channel(l, i) /\ r.channel \notin channels(l, i)
     /\ r.card = NoCard \/ cards(l, i) \subseteq {r.card}
     /\ Near(l.rows[i].src.at, r.at, PAYMENT_DEDUPE_WINDOW)}

(* The ledgers booking r may leave, under the advisory lock *)
book(l, r) ==
  LET typed == nearest(l, typed_match(l, r), r.at)
      other == nearest(l, same_payment(l, r), r.at)
  IN IF typed # {} THEN {attached(l, r, i) : i \in typed}
     ELSE IF other # {} THEN {attached(l, r, i) : i \in other}
     ELSE {booked(l, r)}

\* A fault to detect: a text is compared with those of other channels.
is_repeat_elsewhere(r) == \E q \in Bank \ {r} :
  /\ status[q] \notin {"never", "new"} /\ q.channel # r.channel /\ q.text = r.text
  /\ Near(q.at, r.at, PAYMENT_REPEAT)

(* _is_repeat: the same text through the same channel moments apart *)
is_repeat(r) == \E q \in Bank \ {r} :
  /\ status[q] \notin {"never", "new"} /\ q.channel = r.channel /\ q.text = r.text
  /\ Near(q.at, r.at, PAYMENT_REPEAT)

(* _apply_settlement: a repayment pays the open debts down, the oldest      *)
(* first, a payment for each; what is over goes to the last of them         *)
total(f(_), S) == MapThenSumSet(f, S)
outstanding(l, d) ==
  LET amount(i) == l.rows[i].amt
  IN amount(d) - total(amount, {i \in rows_of(l, "payment") : l.rows[i].debt = d})
open_debts(l) == {d \in rows_of(l, "debt") : outstanding(l, d) > 0}
ahead(l, d) ==
  LET left(e) == outstanding(l, e) IN total(left, {e \in open_debts(l) : e < d})
paid_debts(l, amt) == {d \in open_debts(l) : ahead(l, d) < amt}
chunk(l, amt, d) ==
  LET remaining == amt - ahead(l, d)
  IN IF remaining <= outstanding(l, d) \/ d = Max(open_debts(l)) THEN remaining ELSE outstanding(l, d)
paid_down(l, r, amt) ==
  LET nth(k) == CHOOSE d \in paid_debts(l, amt) :
                  Cardinality({e \in paid_debts(l, amt) : e < d}) = k - 1
      payment(d) == [NewRow(r, chunk(l, amt, d)) EXCEPT !.debt = d]
  IN [l EXCEPT !.rows = @ \o [k \in 1..Cardinality(paid_debts(l, amt)) |-> payment(nth(k))]]

-----------------------------------------------------------------------------
(* Claims: which are the same, which the ledger already answers *)

pending(cl) == {c \in Said : cl[c].state = "pending"}
asked(cl) == {c \in pending(cl) : cl[c].dup = NoClaim}
is_automatic(cl, c) == ~cl[c].undone
signature(cl, c) == <<c.kind, cl[c].amt>>
older(cl, c, d) == cl[c].nr < cl[d].nr

(* _primary_for: the oldest claim that says the same; NoClaim when there is none *)
primary_for(cl, c) ==
  LET same == {d \in asked(cl) \ {c} : is_automatic(cl, d) /\ signature(cl, d) = signature(cl, c)}
      first == {d \in same : \A e \in same \ {d} : older(cl, d, e)}
  IN IF is_automatic(cl, c) /\ first # {} THEN CHOOSE d \in first : TRUE ELSE NoClaim

(* create: the claim a counterparty's words become, numbered after those *)
(* that are stored and those in flight                                   *)
created(cl, flying, c) ==
  LET new == [cl EXCEPT ![c] = [unsaid EXCEPT !.nr = 1 + Max({cl[d].nr : d \in Said}
                                                              \cup {flying[d].nr : d \in Said}),
                                              !.state = "pending", !.amt = c.amt]]
  IN [new EXCEPT ![c].dup = primary_for(new, c)]

collapse_duplicates(cl) ==
  [c \in Said |->
     LET primary == primary_for(cl, c)
     IN IF c \in asked(cl) /\ primary # NoClaim /\ older(cl, primary, c)
          THEN [cl[c] EXCEPT !.dup = primary] ELSE cl[c]]

duplicates_of(cl, c) == {d \in pending(cl) : cl[d].dup = c}
settle_duplicates(cl, c, state) ==
  [d \in Said |-> IF d \in duplicates_of(cl, c)
                    THEN [cl[d] EXCEPT !.state = state, !.by = "auto:duplicate",
                                       !.res = IF state = "auto" THEN cl[c].res ELSE @]
                    ELSE cl[d]]

(* _owners_row: rows of the ledger no claim points at; a transaction only *)
(* while no bank backs it                                                 *)
owners_rows(cl, l, c) ==
  {i \in rows_of(l, row_kind(c.kind)) :
     /\ l.rows[i].amt = cl[c].amt
     /\ c.kind = "transaction" => ~channel(l, i) /\ ~l.rows[i].void
     /\ \A d \in Said : cl[d].res # i}

(* resolve_superseded: what the owner wrote himself is not asked.  Nothing *)
(* is flushed before the end, so claims alike are answered by one row.     *)
resolve_superseded(cl, l) ==
  [c \in Said |-> IF c \in pending(cl) /\ is_automatic(cl, c) /\ owners_rows(cl, l, c) # {}
                    THEN [cl[c] EXCEPT !.state = "auto", !.by = "auto:own",
                                       !.res = Min(owners_rows(cl, l, c))]
                    ELSE cl[c]]

(* bank_candidates for a claim of this amount that was said at `at' *)
bank_candidates(cl, l, amt, at) ==
  {i \in rows_of(l, "transaction") :
     /\ channel(l, i) /\ ~l.rows[i].void /\ l.rows[i].amt = amt
     /\ Near(l.rows[i].src.at, at, CLAIM_BANK_MATCH)
     /\ \A d \in Said : cl[d].evid # i}

open_bank_claims(cl) == {c \in asked(cl) : /\ c.kind \in {"transaction", "settlement"}
                                           /\ cl[c].evid = 0 /\ is_automatic(cl, c)}
rivals(cl, l, c, i) == {d \in open_bank_claims(cl) \ {c} :
                          cl[d].amt = cl[c].amt /\ Near(l.rows[i].src.at, d.at, CLAIM_BANK_MATCH)}

(* The one row that proves claim c, when the pairing is unique both ways *)
proof(cl, l, c) ==
  {i \in bank_candidates(cl, l, cl[c].amt, c.at) :
     /\ Cardinality(bank_candidates(cl, l, cl[c].amt, c.at)) = 1
     /\ rivals(cl, l, c, i) = {}}

match_bank_evidence(cl, l, targets, txns) ==
  [c \in Said |->
     IF c \in targets \cap open_bank_claims(cl) /\ proof(cl, l, c) \cap txns # {}
       THEN LET i == Min(proof(cl, l, c))
            IN IF c.kind = "transaction"
                 THEN [cl[c] EXCEPT !.evid = i, !.state = "auto", !.by = "auto:bank", !.res = i]
                 ELSE [cl[c] EXCEPT !.evid = i]
       ELSE cl[c]]

\* A fault to detect: the sweep looks at claims the bank did not see yet.
auto_resolve_new(cl, l) ==
  LET own == resolve_superseded(collapse_duplicates(cl), l)
  IN match_bank_evidence(own, l, {c \in Said : own[c].nr = 1}, DOMAIN l.rows)

auto_resolve(cl, l) ==
  LET own == resolve_superseded(collapse_duplicates(cl), l)
  IN match_bank_evidence(own, l, Said, DOMAIN l.rows)

-----------------------------------------------------------------------------
(* Texts of banks and payment apps *)

(* The counterparty of row i is known without text r: the owner's words,    *)
(* an accepted claim or the code of an earlier text named it                *)
named(cl, l, i, r) ==
  \/ l.rows[i].src \notin Bank \/ words(l, i) # {}
  \/ \E c \in Said : \/ cl[c].state = "accepted" /\ cl[c].res = i
                     \/ c.asks \in evidence(l, i) \ {r}

(* _link_gs_code and _ask_settlement: the claims after r, with the code of  *)
(* a client who owes, was booked in l.  None is possible when the row it is *)
(* about proves a claim already: ux_claims_evidence_txn undoes the booking. *)
asked_about(cl, flying, l, r) ==
  LET i == l.into[r]
      questions == {c \in Said : c.asks = r}
      question(c) == [created(cl, flying, c) EXCEPT ![c].evid = i]
  IN IF named(cl, l, i, r) \/ open_debts(l) = {} \/ questions = {} THEN {cl}
     ELSE IF \E d \in Said : cl[d].evid = i THEN {}
     ELSE {question(c) : c \in questions}

(* apply_reading: ignored, kept for /tekshir or booked; what was booked may *)
(* prove a claim                                                            *)
ApplyReading(r) ==
  /\ status[r] = "new"
  /\ UNCHANGED <<parking, tap, corrections>>
  /\ \/ /\ ~r.sure
        /\ status' = [status EXCEPT ![r] = "review"]
        /\ UNCHANGED <<ledger, claim>>
     \/ /\ r.sure /\ is_repeat(r)
        /\ status' = [status EXCEPT ![r] = "ignored"]
        /\ UNCHANGED <<ledger, claim>>
     \/ /\ r.sure /\ ~is_repeat(r)
        /\ status' = [status EXCEPT ![r] = "booked"]
        /\ \E l \in book(ledger, r) : \E cl \in asked_about(claim, parking, l, r) :
             /\ ledger' = l
             /\ claim' = match_bank_evidence(cl, l, Said, {l.into[r]})

(* book_from_review: the owner's tap in /tekshir books what was read *)
BookFromReview(r) ==
  /\ status[r] \in {"review", "ignored"}
  /\ status' = [status EXCEPT ![r] = IF @ = "review" THEN "booked" ELSE "by_hand"]
  /\ ledger' \in book(ledger, r)
  /\ claim' \in asked_about(claim, parking, ledger', r)
  /\ UNCHANGED <<parking, tap, corrections>>

ResolveNotMoney(r) ==
  /\ status[r] \in {"review", "ignored"}
  /\ status' = [status EXCEPT ![r] = "not_money"]
  /\ UNCHANGED <<ledger, claim, parking, tap, corrections>>

-----------------------------------------------------------------------------
(* The owner's own words *)

(* write_transaction up to its commit: the bank's row is enriched, or the *)
(* words are about to become a row of their own                           *)
ReadWords(r) ==
  LET bank == nearest(ledger, bank_match(ledger, r.amt, r.at), r.at)
  IN /\ r.kind = "transaction" /\ status[r] = "new"
     /\ status' = [status EXCEPT ![r] = IF bank = {} THEN "writing" ELSE "matched"]
     /\ IF bank = {} THEN UNCHANGED ledger
                     ELSE \E i \in bank : ledger' = attached(ledger, r, i)
     /\ UNCHANGED <<claim, parking, tap, corrections>>

(* apply_extraction commits: what the owner wrote answers the claims that *)
(* say it; a repayment of no open debt writes nothing                     *)
WriteWords(r) ==
  /\ status[r] = IF r.kind = "transaction" THEN "writing" ELSE "new"
  /\ status' = [status EXCEPT ![r] = "written"]
  /\ IF r.kind = "settlement" /\ open_debts(ledger) = {}
       THEN UNCHANGED <<ledger, claim>>
       ELSE \E l \in {IF r.kind = "settlement" THEN paid_down(ledger, r, r.amt)
                                              ELSE added(ledger, NewRow(r, r.amt))} :
              ledger' = l /\ claim' = resolve_superseded(claim, l)
  /\ UNCHANGED <<parking, tap, corrections>>

(* "Bu boshqa to'lov": the words were a second payment after all *)
SplitTypedPayment(r) ==
  /\ status[r] = "matched"
  /\ status' = [status EXCEPT ![r] = "split"]
  /\ ledger' = added(ledger, NewRow(r, r.amt))
  /\ UNCHANGED <<claim, parking, tap, corrections>>

(* /ochir and its undo *)
Correct == corrections < MaxCorrections /\ corrections' = corrections + 1

Void(i) ==
  /\ ledger.rows[i].kind = "transaction" /\ ~ledger.rows[i].void
  /\ Correct
  /\ ledger' = [ledger EXCEPT !.rows[i].void = TRUE]
  /\ UNCHANGED <<status, claim, parking, tap>>

Reopen(i) ==
  /\ ledger.rows[i].void
  /\ ledger' = [ledger EXCEPT !.rows[i].void = FALSE]
  /\ UNCHANGED <<status, claim, parking, tap, corrections>>

-----------------------------------------------------------------------------
(* A counterparty's words, and the owner's answers *)

(* The gate of an extraction: the claim is linked to the same one, or      *)
(* proven, by what other transactions have committed                       *)
ParkClaim(c) ==
  /\ status[c] = "new"
  /\ status' = [status EXCEPT ![c] = "parking"]
  /\ \E cl \in {created(claim, parking, c)} :
       parking' = [parking EXCEPT ![c] = match_bank_evidence(cl, ledger, {c}, DOMAIN ledger.rows)[c]]
  /\ UNCHANGED <<ledger, claim, tap, corrections>>

(* ... and the extraction commits, or is undone by ux_claims_evidence_txn   *)
(* and read again, when the row it chose proves another claim by then       *)
CommitClaim(c) ==
  /\ status[c] = "parking"
  /\ parking' = [parking EXCEPT ![c] = unsaid]
  /\ IF \E d \in Said : parking[c].evid # 0 /\ claim[d].evid = parking[c].evid
       THEN status' = [status EXCEPT ![c] = "new"] /\ UNCHANGED claim
       ELSE /\ status' = [status EXCEPT ![c] = "parked"]
            /\ claim' = [claim EXCEPT ![c] = parking[c]]
  /\ UNCHANGED <<ledger, tap, corrections>>

AutoResolve ==
  /\ \E cl \in {auto_resolve(claim, ledger)} : cl # claim /\ claim' = cl
  /\ UNCHANGED <<status, ledger, parking, tap, corrections>>

(* /tuzat c12 summa: a pending claim takes another amount *)
Edit(c, amt) ==
  /\ c \in pending(claim) /\ claim[c].amt # amt
  /\ Correct
  /\ claim' = [claim EXCEPT ![c].amt = amt]
  /\ UNCHANGED <<status, ledger, parking, tap>>

(* The claim a tap on c answers: the first of its repeats, if every one on *)
(* the way is pending; NoClaim when one was answered                       *)
answers[c \in Said] ==
  IF claim[c].state # "pending" THEN NoClaim
  ELSE IF claim[c].dup = NoClaim THEN c ELSE answers[claim[c].dup]

(* What writing claim c, read as s, leaves: the ledger, the row and the *)
(* evidence; row 0 when only a question came out                        *)
outcomes(c, s) ==
  LET found == bank_candidates(claim, ledger, s.amt, c.at)
      bank  == nearest(ledger, bank_match(ledger, s.amt, c.at), c.at)
      fresh == [ledger |-> added(ledger, NewRow(c, s.amt)), res |-> Len(ledger.rows) + 1, evid |-> s.evid]
  IN CASE c.kind = "debt" -> {fresh}
       [] c.kind = "settlement" ->
            {[ledger |-> paid_down(ledger, c, s.amt), evid |-> s.evid,
              res |-> IF open_debts(ledger) = {} THEN 0 ELSE Len(ledger.rows) + 1]}
       [] c.kind = "transaction" ->
            IF Cardinality(found) = 1
              THEN {[ledger |-> ledger, res |-> i, evid |-> i] : i \in found}
            ELSE IF bank # {}
              THEN {[ledger |-> attached(ledger, c, i), res |-> i, evid |-> s.evid] : i \in bank}
            ELSE {fresh}

(* accept, once the row lock is held: nothing is saved unless something was *)
(* written.  Only what differs from the claim as it was read is saved.      *)
accept(c, s) ==
  \E o \in outcomes(c, s) :
    /\ ledger' = o.ledger
    /\ claim' = IF o.res = 0 THEN claim
                ELSE settle_duplicates(
                       [claim EXCEPT ![c] = [@ EXCEPT !.state = "accepted", !.by = "owner", !.res = o.res,
                                                      !.evid = IF o.evid # s.evid THEN o.evid
                                                               ELSE claim[c].evid]],
                       c, "auto")

(* "Ha": the handler reads the claim first, for a question of its own *)
TapYes(t, c) ==
  /\ tap[t] = NoTap
  /\ c \in pending(claim)
  /\ tap' = [tap EXCEPT ![t] = [on |-> c, read |-> claim[c]]]
  /\ UNCHANGED <<status, ledger, claim, parking, corrections>>

(* ... and accepts it: a claim that was read keeps what was read, so the *)
(* state it has under the lock is not seen                               *)
Accept(t) ==
  /\ tap[t] # NoTap
  /\ tap' = [tap EXCEPT ![t] = NoTap]
  /\ LET c == tap[t].on
         s == tap[t].read
     IN IF s.dup = NoClaim THEN accept(c, s)
        ELSE LET p == answers[s.dup]
             IN IF p \in Said THEN accept(p, claim[p]) ELSE UNCHANGED <<ledger, claim>>
  /\ UNCHANGED <<status, parking, corrections>>

Decline(c) ==
  LET p == answers[c]
  IN /\ p \in Said
     /\ claim' = settle_duplicates(
          [claim EXCEPT ![p] = [@ EXCEPT !.state = "declined", !.by = "owner", !.evid = 0]], p, "declined")
     /\ UNCHANGED <<status, ledger, parking, tap, corrections>>

\* A fault to detect: the reopened repeat still follows the first.
ReopenAuto_linked(c) ==
  /\ claim[c].state = "auto"
  /\ claim' = [claim EXCEPT ![c] = [@ EXCEPT !.state = "pending", !.by = "nobody", !.res = 0, !.evid = 0, !.undone = TRUE]]
  /\ UNCHANGED <<status, ledger, parking, tap, corrections>>

(* "Qaytarish": what closed itself is asked again and left alone *)
ReopenAuto(c) ==
  /\ claim[c].state = "auto"
  /\ claim' = [claim EXCEPT ![c] = [@ EXCEPT !.state = "pending", !.by = "nobody", !.res = 0, !.evid = 0,
                                             !.dup = NoClaim, !.undone = TRUE]]
  /\ UNCHANGED <<status, ledger, parking, tap, corrections>>

Next ==
  \/ \E r \in Bank : ApplyReading(r) \/ BookFromReview(r) \/ ResolveNotMoney(r)
  \/ \E r \in Typed : ReadWords(r) \/ WriteWords(r) \/ SplitTypedPayment(r)
  \/ \E i \in DOMAIN ledger.rows : Void(i) \/ Reopen(i)
  \/ \E c \in Said : ParkClaim(c) \/ CommitClaim(c) \/ Decline(c) \/ ReopenAuto(c)
  \/ AutoResolve
  \/ \E c \in Said, amt \in Amounts : Edit(c, amt)
  \/ \E t \in Taps : Accept(t) \/ \E c \in Said : TapYes(t, c)

Spec == Init /\ [][Next]_vars
FairSpec == Spec /\ WF_vars(AutoResolve)

-----------------------------------------------------------------------------

ClaimsOK(cl) ==
  \A c \in Said :
    /\ cl[c].state \in {"unsaid", "pending", "accepted", "declined", "auto"}
    /\ cl[c].dup \in Said \cup {NoClaim}
    /\ {cl[c].evid, cl[c].res} \subseteq 0 .. Len(ledger.rows)

TypeOK ==
  /\ status \in [Reports -> {"never", "new", "review", "ignored", "booked", "by_hand", "not_money", "writing",
                             "written", "matched", "split", "parking", "parked"}]
  /\ ledger.rows \in Seq([src : Reports, kind : {"transaction", "debt", "payment"}, amt : Nat \ {0},
                          void : BOOLEAN, debt : 0 .. Len(ledger.rows)])
  /\ ledger.into \in [Reports -> 0 .. Len(ledger.rows)]
  /\ ClaimsOK(claim) /\ ClaimsOK(parking)
  /\ \A c \in Said : /\ claim[c].state # "unsaid" => status[c] = "parked" \/ c.asks # NoText
                     /\ (parking[c].state = "unsaid") <=> (status[c] # "parking")
  /\ corrections \in 0 .. MaxCorrections

(* However many texts of banks and apps report them, in whatever order,    *)
(* re-posted, read late or matched with the owner's words, payments do not *)
(* become more rows booked by the phone than there were payments (book).   *)
(* It holds while alike payments are groups apart, one channel names cards *)
(* and no repeat is booked by hand: MoneyProofs!PaymentsAreBookedOnce.     *)
PhoneBooksOnce ==
  LET rows_by_phone == {i \in DOMAIN ledger.rows : /\ ledger.rows[i].src \in Bank
                                                   /\ status[ledger.rows[i].src] = "booked"}
      reported == {r.of : r \in {q \in Bank : status[q] = "booked"}}
  IN Cardinality(rows_by_phone) <= Cardinality(reported)

(* Two payments are never one row by two texts of one channel, nor by two  *)
(* messages of the owner (the filters of book and the two matches).        *)
PaymentsStayApart ==
  \A i \in DOMAIN ledger.rows :
    LET behind == {r \in Bank \cup Typed : ledger.into[r] = i} \cup ({ledger.rows[i].src} \cap Typed)
    IN \A q, r \in behind : q.of # r.of => q.by # r.by \/ (q.by = "bank" /\ q.channel # r.channel)

(* What the owner put back in the queue no automatic rule answers again:   *)
(* not the owner's row, not the bank's, not the answer to a repeat.        *)
UndoneIsLeftAlone ==
  \A c \in Said : claim[c].undone => claim[c].by \in {"nobody", "owner"}

(* A claim one bank row proves does not wait for ever: again and again a   *)
(* time comes when there is none, even if the row was booked by hand, came *)
(* before the words or a rival had first to be answered (auto_resolve).    *)
ProvenClaimsClose ==
  []<>~\E c \in open_bank_claims(claim) : c.kind = "transaction" /\ proof(claim, ledger, c) # {}

=============================================================================
