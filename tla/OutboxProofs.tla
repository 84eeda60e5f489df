----------------------------- MODULE OutboxProofs -----------------------------
(***************************************************************************)
(* Theorems about the outbox and about the Telegram sender on top of it,   *)
(* for every value of the constants of both.                               *)
(***************************************************************************)
EXTENDS TelegramSender, FiniteSetTheorems, WellFoundedInduction, TLAPS

(* A non-empty set of naturals has a least element, and `lowest' is it.    *)
LEMMA LowestIsLeast ==
  ASSUME NEW S, S \subseteq Nat, S # {}
  PROVE  lowest(S) \in S /\ \A j \in S : lowest(S) <= j
<1>1. PICK x \in S : \A y \in S : ~ (<<y, x>> \in OpToRel(<, Nat))
  BY NatLessThanWellFounded, WFMin
<1>2. \A y \in S : y < x => <<y, x>> \in OpToRel(<, Nat)
  BY Zenon DEF OpToRel
<1>3. \A y \in S : ~ (y < x)
  BY <1>1, <1>2, Zenon
<1>4. \A y \in S : x <= y
  BY <1>3
<1> QED
  BY <1>4, <1>1, Zenon DEF lowest

(* A non-empty set of naturals with a bound has a greatest element.        *)
LEMMA GreatestExists ==
  ASSUME NEW S, NEW n \in Nat, S \subseteq 0..n, S # {}
  PROVE  \E t \in S : \A u \in S : u <= t
<1> DEFINE D == {n - u : u \in S}
<1>0. \A u \in S : u \in Nat /\ n - u \in Nat
  OBVIOUS
<1>1. D \subseteq Nat /\ D # {}
  BY <1>0
<1>2. lowest(D) \in D /\ \A j \in D : lowest(D) <= j
  BY <1>1, LowestIsLeast
<1>3. PICK t \in S : lowest(D) = n - t
  BY <1>2
<1>4. \A u \in S : n - t <= n - u
  BY <1>2, <1>3
<1> QED
  BY <1>4

LEMMA DayBounds ==
  ASSUME NEW t \in Nat
  PROVE  day_start(t) \in Int /\ day_start(t) <= t /\ t < day_start(t) + DAY
  BY OutboxAssumption DEF day_start

-----------------------------------------------------------------------------
(* The gate *)

(* What the gate reads has the types the outbox gives it.                  *)
TypedClaim(r, c) ==
  /\ c.now \in Nat
  /\ c.policies \in [Scopes -> PolicyRow]
  /\ r.channel \in Channels
  /\ r.not_before \in OptTime
  /\ c.chat_state.owner_composing_at \in OptTime
  /\ c.caps.resets_at \in Nat
  /\ c.caps.last_send_at \in OptTime
  /\ c.caps.gap_seconds \in Nat
  /\ c.guard.result \in GuardResults
  /\ c.quiet_until \in OptTime

(* A decision waits until a moment or the next poll, and rebinds a verdict *)
(* only to send a text that passed or to take the row away.                *)
Sound(d, c) ==
  /\ d.retry_at \in OptTime
  /\ d.action = "hold" => ~d.rebind
  /\ d.action = "send" /\ d.rebind => shapes_passed(c.guard.result)

LEMMA StopIsTyped ==
  ASSUME NEW policies0 \in [Scopes -> PolicyRow], NEW ch \in Channels, NEW t
  PROVE  stop_for(policies0, ch, t).until \in OptTime
<1>1. GLOBAL \in Scopes /\ channel_scope(ch) \in Scopes
  BY DEF Scopes
<1>2. \A s \in Scopes : policies0[s].paused_until \in OptTime /\ policies0[s].breaker_until \in OptTime
  BY DEF PolicyRow
<1> QED
  BY <1>1, <1>2 DEF stop_for, Stop, NoStop, OptTime

LEMMA LinesAreSound ==
  ASSUME NEW r, NEW c, TypedClaim(r, c)
  PROVE  \A k \in 1..11 : Sound(LINES(r, c)[k], c)
<1> USE DEF Sound, Pass, Decision, Rebinding, Hold, OptTime, Time, NoTime
<1>1. Sound(kill_switch(r, c), c)
  BY DEF kill_switch
<1>2. Sound(pause_line(r, c), c)
  BY StopIsTyped DEF pause_line, TypedClaim
<1>3. Sound(mode_line(r, c), c)
  BY DEF mode_line
<1>4. Sound(rules_line(r, c), c)
  BY DEF rules_line
<1>5. Sound(safety_line(r, c), c)
  BY DEF safety_line
<1>6. Sound(chat_state_line(r, c), c)
  BY GateAssumption DEF chat_state_line, TypedClaim
<1>7. Sound(trigger_line(r, c), c)
  BY DEF trigger_line, TypedClaim
<1>8. Sound(caps_line(r, c), c)
  BY DEF caps_line, TypedClaim
<1>9. Sound(guard_line(r, c), c)
  BY DEF guard_line, TypedClaim, GuardResults, auto_shapes_ok, shapes_passed
<1>10. Sound(payload_line(r, c), c)
  BY DEF payload_line
<1>11. Sound(quiet_hours_line(r, c), c)
  BY DEF quiet_hours_line, TypedClaim
<1> HIDE DEF Sound
<1> QED
  BY <1>1, <1>2, <1>3, <1>4, <1>5, <1>6, <1>7, <1>8, <1>9, <1>10, <1>11 DEF LINES

(* The gate's answer is a line's objection, or a send no line objects to.  *)
LEMMA EvaluateIsALine ==
  ASSUME NEW r, NEW c
  PROVE  /\ \/ evaluate(r, c) = Decision("send", "")
            \/ \E k \in 1..11 : evaluate(r, c) = LINES(r, c)[k]
         /\ evaluate(r, c).action = "send" =>
              \A k \in 1..11 : LINES(r, c)[k].action \in {"none", "send"}
<1> DEFINE objections == {k \in 1..11 : LINES(r, c)[k].action \notin {"none", "send"}}
           reguarded == {k \in 1..11 : LINES(r, c)[k].action = "send"}
<1>1. evaluate(r, c) = IF objections # {} THEN LINES(r, c)[lowest(objections)]
                       ELSE IF reguarded # {} THEN LINES(r, c)[lowest(reguarded)]
                       ELSE Decision("send", "")
  BY DEF evaluate
<1>2. objections # {} => lowest(objections) \in objections
  BY LowestIsLeast
<1>3. reguarded # {} => lowest(reguarded) \in reguarded
  BY LowestIsLeast
<1> QED
  BY <1>1, <1>2, <1>3

LEMMA EvaluateIsSound ==
  ASSUME NEW r, NEW c, TypedClaim(r, c)
  PROVE  Sound(evaluate(r, c), c)
<1>1. Sound(Decision("send", ""), c)
  BY DEF Sound, Decision, Pass, OptTime
<1> QED
  BY <1>1, LinesAreSound, EvaluateIsALine, Zenon

-----------------------------------------------------------------------------
(* The inductive invariant *)

(* A row that may still be claimed has an attempt left: what keeps the     *)
(* count of attempts within its bound.                                     *)
AttemptsLeft == \A r \in Rows : state[r] \in PENDING \union {Absent} => attempts[r] < MAX_ATTEMPTS

(* Nothing was sent, claimed or stored later than now; what is on the wire *)
(* keeps its claim until it has a moment of its own.                       *)
MomentsArePast ==
  /\ \A m \in Messages : echoes[m].at <= now
  /\ \A r \in Rows : sent_at[r] <= now
  /\ \A r \in Rows : state[r] \in {"sending", "unknown"} => lease[r] - SEND_LEASE \in 0..now
  /\ \A r \in Rows : state[r] = "sent" => sent_at[r] # NoTime

Inv == TypeOK /\ AttemptsLeft /\ MomentsArePast /\ OnlyGuardedTextLeaves

LEMMA WireMoments ==
  ASSUME TypeOK, MomentsArePast
  PROVE  \A r \in Rows : state[r] \in WIRE_STATES => wire_moment(r) \in 0..now
  BY OutboxAssumption DEF TypeOK, MomentsArePast, WIRE_STATES, wire_moment, OptTime, Time, NoTime

LEMMA LastSendIsTyped ==
  ASSUME TypeOK, MomentsArePast
  PROVE  last_send_at \in OptTime
<1> DEFINE moments == {wire_moment(r) : r \in on_wire}
<1>1. CASE on_wire = {}
  BY <1>1 DEF last_send_at, OptTime
<1>2. CASE on_wire # {}
  <2>a. now \in Nat
    BY OutboxAssumption DEF TypeOK
  <2>b. \A r \in on_wire : wire_moment(r) \in 0..now
    BY WireMoments DEF on_wire
  <2>1. moments \subseteq 0..now /\ moments # {}
    BY <1>2, <2>b
  <2>2. \E t \in moments : \A u \in moments : u <= t
    BY <2>1, <2>a, GreatestExists
  <2>3. last_send_at \in moments
    BY <1>2, <2>2 DEF last_send_at
  <2> QED
    BY <2>1, <2>a, <2>3 DEF OptTime, Time
<1> QED
  BY <1>1, <1>2

LEMMA ClaimIsTyped ==
  ASSUME Inv, NEW r \in Rows, NEW f \in Facts
  PROVE  TypedClaim(snapshot(r), Context(r, f))
<1>1. now \in Nat /\ not_before[r] \in OptTime /\ policies \in [Scopes -> PolicyRow]
  BY OutboxAssumption DEF Inv, TypeOK
<1>2. day_start(now) + DAY \in Nat
  BY <1>1, DayBounds, OutboxAssumption
<1>3. last_send_at \in OptTime
  BY LastSendIsTyped DEF Inv
<1>4. f.guard.result \in GuardResults /\ Channel \in Channels /\ SEND_GAP \in Nat
  BY OutboxAssumption
<1>5. Caps(r, f).resets_at \in Nat /\ Caps(r, f).last_send_at \in OptTime /\ Caps(r, f).gap_seconds \in Nat
  BY <1>2, <1>3, <1>4 DEF Caps
<1> QED
  BY <1>1, <1>4, <1>5 DEF TypedClaim, snapshot, Context, when, OptTime, Time, NoTime

LEMMA DecisionIsSound ==
  ASSUME Inv, NEW r \in Rows, NEW f \in Facts
  PROVE  Sound(decision(r, f), Context(r, f))
  BY ClaimIsTyped, EvaluateIsSound DEF decision
-----------------------------------------------------------------------------
(* Each action preserves the invariant.  A lemma has one step per part of  *)
(* the invariant the action can disturb.                                   *)

LEMMA NoTextIsTyped == "none" \in Bodies /\ "none" \in Chats
<1>1. NoProposal.body = "none" /\ NoProposal.chat = "none"
  BY DEF NoProposal
<1>2. NoProposal \in Proposals \union OwnMessages \union {NoProposal}
  OBVIOUS
<1> HIDE DEF NoProposal
<1> QED
  BY <1>1, <1>2 DEF Bodies, Chats

LEMMA InitInv == Init => Inv
<1> SUFFICES ASSUME Init PROVE Inv
  OBVIOUS
<1>1. EmptyRow \in PolicyRow /\ [EmptyRow EXCEPT !.mode = "auto"] \in PolicyRow
  BY DEF EmptyRow, PolicyRow, OptTime, NoMode, Modes
<1>2. policies \in [Scopes -> PolicyRow]
  BY <1>1 DEF Init, EmptyRow
<1>3. NoGuard \in GuardResults
  BY DEF NoGuard, GuardResults
<1>4a. NoEcho \in Echoes
  BY NoTextIsTyped DEF NoEcho, Echoes, NoRow
<1>4b. NotCreating \in [proposal : Proposals \union {NoProposal}, revision : 0..MAX_REVISIONS]
  BY OutboxAssumption DEF NotCreating
<1>4c. 0 \in 0..MAX_REVISIONS /\ 0 \in 0..MAX_ATTEMPTS /\ 0 \in 0..MaxTime /\ 0 \in Time /\ NoTime \in OptTime
  BY OutboxAssumption DEF OptTime, Time
<1>4. TypeOK
  BY <1>2, <1>3, <1>4a, <1>4b, <1>4c, NoTextIsTyped DEF Init, TypeOK
<1>5. AttemptsLeft
  BY OutboxAssumption DEF Init, AttemptsLeft
<1>6. MomentsArePast
  BY DEF Init, MomentsArePast, NoEcho, NoTime, Absent
<1>7. OnlyGuardedTextLeaves
  BY DEF Init, OnlyGuardedTextLeaves, Committed, Absent
<1> QED
  BY <1>4, <1>5, <1>6, <1>7 DEF Inv

(* What leaves every row's columns alone disturbs types and moments only.  *)
RowsUnchanged ==
  UNCHANGED <<state, identity, text, approval, claim, last_error, report>>

LEMMA RowsUnchangedInv ==
  ASSUME Inv, RowsUnchanged, TypeOK', now' \in Nat, now <= now',
         \A m \in Messages : echoes'[m].at <= now'
  PROVE  Inv'
<1> USE DEF RowsUnchanged, identity, text, approval, claim, report
<1>1. AttemptsLeft'
  BY DEF Inv, AttemptsLeft
<1>2. MomentsArePast'
  BY OutboxAssumption DEF Inv, MomentsArePast, TypeOK, OptTime, Time, NoTime
<1>3. OnlyGuardedTextLeaves'
  BY DEF Inv, OnlyGuardedTextLeaves, Bound
<1> QED
  BY <1>1, <1>2, <1>3 DEF Inv

LEMMA CreateLookupInv ==
  ASSUME Inv, NEW c \in Creators, NEW p \in Proposals, NEW f \in Facts, CreateLookup(c, p, f)
  PROVE  Inv'
<1> USE DEF RowsUnchanged, identity, text, approval, claim, report
<1>1. lowest(open_revisions(p)) \in 0..MAX_REVISIONS
  <2>1. open_revisions(p) \subseteq 0..MAX_REVISIONS /\ open_revisions(p) # {}
    BY DEF open_revisions, CreateLookup
  <2> QED
    BY <2>1, LowestIsLeast, OutboxAssumption
<1>2. TypeOK'
  BY <1>1 DEF Inv, TypeOK, CreateLookup
<1> QED
  BY <1>2, RowsUnchangedInv, OutboxAssumption DEF CreateLookup, Inv, TypeOK, MomentsArePast

LEMMA TellUnknownInv ==
  ASSUME Inv, NEW r \in Rows, TellUnknown(r)
  PROVE  Inv'
<1> USE DEF RowsUnchanged, identity, text, approval, claim, report, outside
<1>1. TypeOK'
  BY DEF Inv, TypeOK, TellUnknown
<1> QED
  BY <1>1, RowsUnchangedInv, OutboxAssumption DEF TellUnknown, Inv, TypeOK, MomentsArePast

LEMMA TickInv ==
  ASSUME Inv, Tick
  PROVE  Inv'
<1> USE DEF RowsUnchanged, identity, text, approval, claim, report
<1>1. TypeOK'
  BY OutboxAssumption DEF Inv, TypeOK, Tick
<1>2. \A m \in Messages : echoes'[m].at <= now'
  BY OutboxAssumption DEF Inv, TypeOK, Echoes, MomentsArePast, Tick
<1> QED
  BY <1>1, <1>2, RowsUnchangedInv, OutboxAssumption DEF Tick, Inv, TypeOK

LEMMA SetPoliciesInv ==
  ASSUME Inv, NEW new \in [Scopes -> PolicyRow], SetPolicies(new)
  PROVE  Inv'
<1> USE DEF identity, text, approval, claim, report
<1>1. TypeOK'
  BY DEF Inv, TypeOK, SetPolicies
<1>2. RowsUnchanged
  BY DEF RowsUnchanged, SetPolicies
<1>3. now' = now /\ now \in Nat
  BY OutboxAssumption DEF SetPolicies, Inv, TypeOK
<1>4. \A m \in Messages : echoes'[m].at <= now'
  BY DEF SetPolicies, Inv, MomentsArePast
<1> QED
  BY <1>1, <1>2, <1>3, <1>4, RowsUnchangedInv

LEMMA StoreOutgoingInv ==
  ASSUME Inv, NEW m \in Messages, NEW c \in Chats, NEW b \in Bodies, NEW at \in 0..now,
         StoreOutgoing(m, c, b, at)
  PROVE  Inv'
<1> USE DEF RowsUnchanged, identity, text, approval, claim, report
<1> DEFINE carriers == {r \in Rows : external[r] = m}
           new == [stored |-> TRUE, body |-> b, chat |-> c, at |-> at,
                   tag |-> IF carriers = {} THEN NoRow ELSE lowest(carriers),
                   tagged_by |-> IF carriers = {} THEN "none" ELSE author[lowest(carriers)]]
<1>1. carriers # {} => lowest(carriers) \in Rows
  BY LowestIsLeast, OutboxAssumption
<1>2. now \in Nat
  BY OutboxAssumption DEF Inv, TypeOK
<1>3. new \in Echoes /\ new.at <= now
  BY <1>1, <1>2 DEF Echoes, Inv, TypeOK
<1>4. echoes' = [echoes EXCEPT ![m] = new]
  BY DEF StoreOutgoing
<1> HIDE DEF new
<1>5. TypeOK'
  BY <1>3, <1>4 DEF Inv, TypeOK, StoreOutgoing
<1>6. \A n \in Messages : echoes'[n].at <= now
  BY <1>3, <1>4 DEF Inv, TypeOK, MomentsArePast
<1> QED
  BY <1>2, <1>5, <1>6, RowsUnchangedInv DEF StoreOutgoing
(* A row's text, verdict and approval change while nothing may leave.      *)
LEMMA OwnerTextInv ==
  ASSUME Inv, NEW r \in Rows, NEW b \in OwnerTexts, NEW g \in GuardAnswers, OwnerText(r, b, g)
  PROVE  Inv'
<1> USE DEF identity, approval, claim, report, outside
<1>1. TypeOK'
  BY OutboxAssumption DEF Inv, TypeOK, OwnerText, bind, Bodies
<1>2. AttemptsLeft'
  BY DEF Inv, AttemptsLeft, OwnerText
<1>3. MomentsArePast'
  BY DEF Inv, MomentsArePast, OwnerText
<1>4. OnlyGuardedTextLeaves'
  BY DEF Inv, TypeOK, OnlyGuardedTextLeaves, Committed, Bound, shapes_passed, OwnerText, bind
<1> QED
  BY <1>1, <1>2, <1>3, <1>4 DEF Inv

LEMMA RecordWarningInv ==
  ASSUME Inv, NEW r \in Rows, RecordWarning(r)
  PROVE  Inv'
<1> USE DEF identity, approval, claim, report, outside
<1>1. TypeOK'
  BY DEF Inv, TypeOK, RecordWarning
<1>2. AttemptsLeft'
  BY DEF Inv, AttemptsLeft, RecordWarning
<1>3. MomentsArePast'
  BY DEF Inv, MomentsArePast, RecordWarning
<1>4. OnlyGuardedTextLeaves'
  BY DEF Inv, OnlyGuardedTextLeaves, Bound, RecordWarning
<1> QED
  BY <1>1, <1>2, <1>3, <1>4 DEF Inv

(* Withdrawing a row: Cancel, Expire, ExpireEdited, and refusals.          *)
LEMMA WithdrawInv ==
  ASSUME Inv, NEW r \in Rows, NEW new \in {"blocked", "cancelled", "expired"}, NEW code,
         Withdraw(r, new, code)
  PROVE  Inv'
<1> USE DEF identity, text, approval, claim, report, outside, Withdraw, transition
<1>1. TypeOK'
  BY DEF Inv, TypeOK, States, REDRAFT_CODES
<1>2. AttemptsLeft'
  BY DEF Inv, TypeOK, AttemptsLeft, PENDING, Absent
<1>3. MomentsArePast'
  BY DEF Inv, TypeOK, MomentsArePast
<1>4. OnlyGuardedTextLeaves'
  BY DEF Inv, TypeOK, OnlyGuardedTextLeaves, Committed, Bound
<1> QED
  BY <1>1, <1>2, <1>3, <1>4 DEF Inv

LEMMA GrantInv ==
  ASSUME Inv, NEW r \in Rows, NEW f \in Facts, NEW g \in GuardAnswers, ApproveInTime(r, f, g),
         state[r] = "draft", UNCHANGED <<identity, report, told, outside>>
  PROVE  Inv'
<1> USE DEF identity, approval, claim, report, outside
<1>1. g \in GuardResults
  BY OutboxAssumption
<1>2. TypeOK'
  BY <1>1, OutboxAssumption
     DEF Inv, TypeOK, ApproveInTime, Grant, bind, transition, States, REDRAFT_CODES, OptTime, Time
<1>3. AttemptsLeft'
  BY DEF Inv, TypeOK, AttemptsLeft, PENDING, ApproveInTime, Grant, transition
<1>4. MomentsArePast'
  BY DEF Inv, TypeOK, MomentsArePast, ApproveInTime, Grant, transition
<1>5. OnlyGuardedTextLeaves'
  BY DEF Inv, TypeOK, OnlyGuardedTextLeaves, Committed, Bound, shapes_passed, needs_guard,
         ApproveInTime, Grant, bind, transition, OWNER, AUTO_APPROVER, NoApprover
<1> QED
  BY <1>2, <1>3, <1>4, <1>5 DEF Inv

LEMMA ApproveInv ==
  ASSUME Inv, NEW r \in Rows, NEW f \in Facts, NEW g \in GuardAnswers, Approve(r, f, g)
  PROVE  Inv'
<1>1. CASE /\ UNCHANGED <<text, approval, claim>>
           /\ transition(r, "expired", "expired") \/ transition(r, "blocked", "refused")
  BY <1>1, WithdrawInv DEF Approve, Withdraw
<1>2. CASE ApproveInTime(r, f, g)
  BY <1>2, GrantInv DEF Approve
<1> QED
  BY <1>1, <1>2 DEF Approve
(* What a caller of create may store: MIYA's text goes in approved only    *)
(* with a verdict that passed and no statement of its own.                 *)
LEMMA InitialApproval ==
  ASSUME NEW p, NEW f, NEW g, g \in GuardResults, initial_state(p, f, g) = "approved"
  PROVE  p.authored_by # OWNER /\ g.verdict = "pass" /\ shapes_passed(g)
  BY DEF initial_state, initial_ai_state, auto_shapes_ok, shapes_passed, GuardResults, Absent

LEMMA InsertInv ==
  ASSUME Inv, NEW r \in Rows, state[r] = Absent,
         NEW p \in Proposals \union {NoProposal}, NEW n \in 0..MAX_REVISIONS,
         NEW f \in Facts, NEW g \in GuardAnswers,
         Insert(r, p, n, initial_state(p, f, g), g),
         UNCHANGED <<echoes, policies, now>>,
         creating' \in [Creators -> [proposal : Proposals \union {NoProposal},
                                     revision : 0..MAX_REVISIONS]]
  PROVE  Inv'
<1> USE DEF claim, report, Insert, transition, bind
<1>1. g \in GuardResults
  BY OutboxAssumption
<1>2. p.body \in Bodies /\ p.authored_by \in {AI, OWNER} /\ p.delay \in Nat
  BY OutboxAssumption DEF Bodies, NoProposal
<1> DEFINE new == initial_state(p, f, g)
<1>3. new = "approved" => p.authored_by # OWNER /\ g.verdict = "pass" /\ shapes_passed(g)
  BY <1>1, InitialApproval
<1> HIDE DEF new
<1>4. new \in {"shadow", "draft", "approved", "blocked"}
  BY DEF Inv, TypeOK, TRANSITIONS, States, Absent, new
<1>5. TypeOK'
  BY <1>1, <1>2, <1>4, OutboxAssumption
     DEF Inv, TypeOK, States, REDRAFT_CODES, OptTime, Time, new
<1>6. AttemptsLeft'
  BY DEF Inv, TypeOK, AttemptsLeft, PENDING, Absent
<1>7. MomentsArePast'
  BY <1>4 DEF Inv, TypeOK, MomentsArePast, new
<1>8. OnlyGuardedTextLeaves'
  BY <1>3, <1>4 DEF Inv, TypeOK, OnlyGuardedTextLeaves, Committed, Bound, shapes_passed,
         AI, OWNER, AUTO_APPROVER, NoApprover, new
<1> QED
  BY <1>5, <1>6, <1>7, <1>8 DEF Inv

LEMMA CreateStoreInv ==
  ASSUME Inv, NEW c \in Creators, NEW f \in Facts, NEW g \in GuardAnswers, CreateStore(c, f, g)
  PROVE  Inv'
<1> DEFINE p == creating[c].proposal
           n == creating[c].revision
           free == {r \in Rows : state[r] = Absent}
<1>1. p \in Proposals \union {NoProposal} /\ n \in 0..MAX_REVISIONS
  BY DEF Inv, TypeOK
<1>2. NotCreating \in [proposal : Proposals \union {NoProposal}, revision : 0..MAX_REVISIONS]
  BY OutboxAssumption DEF NotCreating
<1>3. creating' \in [Creators -> [proposal : Proposals \union {NoProposal},
                                  revision : 0..MAX_REVISIONS]]
  BY <1>2 DEF Inv, TypeOK, CreateStore
<1>4. CASE UNCHANGED <<state, identity, text, approval, claim, last_error, report, told>>
  <2>1. TypeOK'
    BY <1>3, <1>4 DEF Inv, TypeOK, CreateStore, identity, text, approval, claim, report
  <2> QED
    BY <1>4, <2>1, RowsUnchangedInv, OutboxAssumption
       DEF CreateStore, Inv, TypeOK, MomentsArePast, RowsUnchanged
<1>5. CASE free # {} /\ Insert(lowest(free), p, n, initial_state(p, f, g), g)
  <2>1. lowest(free) \in free
    BY <1>5, LowestIsLeast, OutboxAssumption
  <2> QED
    BY <1>1, <1>3, <1>5, <2>1, InsertInv DEF CreateStore
<1> QED
  BY <1>4, <1>5 DEF CreateStore
LEMMA TaggedIsTyped ==
  ASSUME Inv, NEW r \in Rows, NEW m \in Messages
  PROVE  tagged(m, r) \in [Messages -> Echoes] /\ \A n \in Messages : tagged(m, r)[n].at <= now
<1>1. body[r] \in Bodies /\ chat(r) \in Chats /\ author[r] \in {AI, OWNER} /\ now \in Nat
  BY OutboxAssumption DEF Inv, TypeOK, Chats, chat
<1>2. echoes \in [Messages -> Echoes] /\ \A n \in Messages : echoes[n].at <= now
  BY DEF Inv, TypeOK, MomentsArePast
<1>3. echo_of(m, r) \in Echoes /\ echo_of(m, r).at <= now
  BY <1>1, <1>2 DEF Echoes, echo_of
<1> QED
  BY <1>2, <1>3 DEF tagged

(* A report: the row is over, or waits for its next attempt.               *)
LEMMA SentInv ==
  ASSUME Inv, NEW r \in Rows, NEW m \in Messages, NEW at \in 0..now,
         state[r] \in {"sending", "unknown"}, Sent(r, m, at)
  PROVE  Inv'
<1> USE DEF identity, text, approval, Sent, transition
<1>1. now \in Nat
  BY OutboxAssumption DEF Inv, TypeOK
<1>2. tagged(m, r) \in [Messages -> Echoes] /\ \A n \in Messages : tagged(m, r)[n].at <= now
  BY TaggedIsTyped
<1>3. TypeOK'
  BY <1>1, <1>2 DEF Inv, TypeOK, States, REDRAFT_CODES, OptTime, Time
<1>4. AttemptsLeft'
  BY DEF Inv, TypeOK, AttemptsLeft, PENDING, Absent
<1>5. MomentsArePast'
  BY <1>1, <1>2 DEF Inv, TypeOK, MomentsArePast, NoTime
<1>6. OnlyGuardedTextLeaves'
  BY DEF Inv, TypeOK, OnlyGuardedTextLeaves, Committed, Bound
<1> QED
  BY <1>3, <1>4, <1>5, <1>6 DEF Inv

LEMMA CompleteInv ==
  ASSUME Inv, NEW r \in Rows, NEW m \in Messages, Complete(r, m)
  PROVE  Inv'
<1>1. now \in 0..now
  BY OutboxAssumption DEF Inv, TypeOK
<1> QED
  BY <1>1, SentInv DEF Complete

LEMMA FailInv ==
  ASSUME Inv, NEW r \in Rows, NEW retry_at \in OptTime, Fail(r, retry_at)
  PROVE  Inv'
<1> USE DEF identity, text, approval, report, outside, Fail, transition
<1>1. TypeOK'
  BY DEF Inv, TypeOK, States, REDRAFT_CODES, OptTime, Time
<1>2. AttemptsLeft'
  BY DEF Inv, TypeOK, AttemptsLeft, PENDING, Absent, retries
<1>3. MomentsArePast'
  BY DEF Inv, TypeOK, MomentsArePast
<1>4. OnlyGuardedTextLeaves'
  BY DEF Inv, TypeOK, OnlyGuardedTextLeaves, Committed, Bound
<1> QED
  BY <1>1, <1>2, <1>3, <1>4 DEF Inv

LEMMA ReconcileInv ==
  ASSUME Inv, NEW r \in Rows, Reconcile(r)
  PROVE  Inv'
<1>1. CASE \E m \in found_echoes(r) : Sent(r, m, echoes[m].at)
  <2>1. PICK m \in found_echoes(r) : Sent(r, m, echoes[m].at)
    BY <1>1
  <2>2. m \in Messages
    BY DEF found_echoes
  <2>3. echoes[m].at \in 0..now
    BY <2>2, OutboxAssumption DEF Inv, TypeOK, MomentsArePast, Echoes
  <2> QED
    BY <2>1, <2>2, <2>3, SentInv DEF Reconcile
<1>2. CASE InDoubt(r)
  <2> USE <1>2 DEF identity, text, approval, claim, report, outside, InDoubt, transition
  <2>1. TypeOK'
    BY DEF Inv, TypeOK, States, REDRAFT_CODES
  <2>2. AttemptsLeft'
    BY DEF Inv, TypeOK, AttemptsLeft, PENDING, Absent
  <2>3. MomentsArePast'
    BY DEF Reconcile, Inv, TypeOK, MomentsArePast
  <2>4. OnlyGuardedTextLeaves'
    BY DEF Reconcile, Inv, TypeOK, OnlyGuardedTextLeaves, Committed, Bound
  <2> QED
    BY <2>1, <2>2, <2>3, <2>4 DEF Inv
<1> QED
  BY <1>1, <1>2 DEF Reconcile

(* A claim: the gate's decision, written to the row.                       *)
LEMMA ApplyInv ==
  ASSUME Inv, NEW r \in Rows, NEW f \in Facts, NEW d,
         state[r] = "approved", Sound(d, Context(r, f)), Apply(r, d, f)
  PROVE  Inv'
<1> USE DEF identity, report, outside
<1>1. f.guard.result \in GuardResults /\ Context(r, f).guard.result = f.guard.result
  BY OutboxAssumption DEF Context
<1>2. d.retry_at \in OptTime /\ now \in Nat
  BY OutboxAssumption DEF Sound, Inv, TypeOK
<1>3. /\ d.action = "hold" => ~d.rebind
      /\ d.action = "send" /\ d.rebind => shapes_passed(f.guard.result)
  BY <1>1 DEF Sound
<1>4. attempts[r] + 1 \in 0..MAX_ATTEMPTS
  BY OutboxAssumption DEF Inv, TypeOK, AttemptsLeft, PENDING
<1>5. CASE d.action = "send"
  <2> USE <1>5 DEF approval, transition
  <2>1. TypeOK'
    BY <1>1, <1>2, <1>4, OutboxAssumption
       DEF Apply, bind, Inv, TypeOK, States, REDRAFT_CODES, OptTime, Time
  <2>2. AttemptsLeft'
    BY DEF Apply, Inv, TypeOK, AttemptsLeft, PENDING, Absent
  <2>3. MomentsArePast'
    BY <1>2, OutboxAssumption DEF Apply, Inv, TypeOK, MomentsArePast
  <2>4. OnlyGuardedTextLeaves'
    BY <1>3 DEF Apply, bind, Inv, TypeOK, OnlyGuardedTextLeaves, Committed, Bound, shapes_passed
  <2> QED
    BY <2>1, <2>2, <2>3, <2>4 DEF Inv
<1>6. CASE d.action = "hold"
  <2> USE <1>6 DEF approval
  <2>1. TypeOK'
    BY <1>2, <1>3, OutboxAssumption DEF Apply, Inv, TypeOK, REDRAFT_CODES, OptTime, Time
  <2>2. AttemptsLeft'
    BY DEF Apply, Inv, TypeOK, AttemptsLeft
  <2>3. MomentsArePast'
    BY DEF Apply, Inv, TypeOK, MomentsArePast
  <2>4. OnlyGuardedTextLeaves'
    BY <1>3 DEF Apply, Inv, TypeOK, OnlyGuardedTextLeaves, Committed, Bound
  <2> QED
    BY <2>1, <2>2, <2>3, <2>4 DEF Inv
<1>7. CASE d.action \in {"redraft", "block", "expire", "cancel"}
  <2> USE <1>7 DEF approval, claim, transition, drop_approval
  <2>1. state'[r] \in {"draft", "blocked", "expired", "cancelled"} /\ DOMAIN state' = Rows
    BY DEF Apply, Inv, TypeOK
  <2>2. TypeOK'
    BY <1>1, <2>1, OutboxAssumption
       DEF Apply, bind, Inv, TypeOK, States, REDRAFT_CODES, OptTime, Time
  <2>3. AttemptsLeft'
    BY <2>1 DEF Apply, Inv, TypeOK, AttemptsLeft, PENDING, Absent
  <2>4. MomentsArePast'
    BY <2>1 DEF Apply, Inv, TypeOK, MomentsArePast
  <2>5. OnlyGuardedTextLeaves'
    BY <2>1 DEF Apply, bind, Inv, TypeOK, OnlyGuardedTextLeaves, Committed, Bound
  <2> QED
    BY <2>2, <2>3, <2>4, <2>5 DEF Inv
<1> QED
  BY <1>5, <1>6, <1>7 DEF Apply
LEMMA ClaimReadyInv ==
  ASSUME Inv, NEW r \in Rows, NEW f \in Facts, state[r] = "approved", ClaimReady(r, f)
  PROVE  Inv'
<1>1. CASE f.raises
  <2> USE <1>1 DEF identity, text, approval, report, outside, ClaimReady, HoldAfterError
  <2>1. TypeOK'
    BY OutboxAssumption DEF Inv, TypeOK, REDRAFT_CODES, OptTime, Time
  <2>2. AttemptsLeft'
    BY DEF Inv, AttemptsLeft
  <2>3. MomentsArePast'
    BY DEF Inv, MomentsArePast
  <2>4. OnlyGuardedTextLeaves'
    BY DEF Inv, OnlyGuardedTextLeaves, Bound
  <2> QED
    BY <2>1, <2>2, <2>3, <2>4 DEF Inv
<1>2. CASE ~f.raises
  BY <1>2, DecisionIsSound, ApplyInv DEF ClaimReady
<1> QED
  BY <1>1, <1>2

(* Only an approved row is claimed: the ready rows have an oldest one.     *)
LEMMA FirstReadyIsReady ==
  ASSUME Inv, ready # {}
  PROVE  first_ready \in ready
<1>1. \A r \in ready : r \in Rows /\ state[r] = "approved"
  BY DEF ready
<1>2. \A r \in ready : order(r) \in OptTime
  BY <1>1 DEF order, Inv, TypeOK
<1> DEFINE moments == {order(r) + 1 : r \in ready}
<1>3. moments \subseteq Nat /\ moments # {}
  BY <1>2 DEF OptTime, Time, NoTime
<1>4. lowest(moments) \in moments /\ \A t \in moments : lowest(moments) <= t
  BY <1>3, LowestIsLeast
<1> DEFINE oldest == {r \in ready : order(r) + 1 = lowest(moments)}
<1>5. oldest \subseteq Nat /\ oldest # {}
  BY <1>1, <1>4, OutboxAssumption
<1>6. lowest(oldest) \in oldest /\ \A q \in oldest : lowest(oldest) <= q
  BY <1>5, LowestIsLeast
<1> HIDE DEF moments
<1>7. \A q \in ready : order(q) + 1 \in moments /\ order(q) \in Int
  BY <1>2 DEF moments, OptTime, Time, NoTime
<1>8. \A q \in ready : \/ order(lowest(oldest)) < order(q)
                       \/ order(lowest(oldest)) = order(q) /\ lowest(oldest) <= q
  BY <1>4, <1>6, <1>7
<1> QED
  BY <1>6, <1>8 DEF first_ready

LEMMA TrippedIsTyped ==
  ASSUME policies \in [Scopes -> PolicyRow], NEW until \in OptTime
  PROVE  tripped_policies(until) \in [Scopes -> PolicyRow]
<1>1. ASSUME NEW s \in Scopes
      PROVE  /\ policies[s] \in PolicyRow
             /\ [policies[s] EXCEPT !.breaker_until = until] \in PolicyRow
             /\ [policies[s] EXCEPT !.mode = "draft"] \in PolicyRow
  BY DEF PolicyRow, Modes
<1> QED
  BY <1>1, Zenon DEF tripped_policies

LEMMA PolicyChangesInv ==
  ASSUME Inv, PolicyChanges
  PROVE  Inv'
<1>1. policies \in [Scopes -> PolicyRow]
  BY DEF Inv, TypeOK
<1>2. CASE OwnerPauses
  <2>1. [policies EXCEPT ![GLOBAL].paused = TRUE] \in [Scopes -> PolicyRow]
    BY <1>1 DEF PolicyRow
  <2> QED
    BY <1>2, <2>1, SetPoliciesInv DEF OwnerPauses
<1>3. CASE OwnerResumes
  <2>1. ASSUME NEW scope
        PROVE  [policies EXCEPT ![scope].paused = FALSE, ![scope].paused_until = NoTime,
                                ![scope].breaker_until = NoTime] \in [Scopes -> PolicyRow]
    BY <1>1 DEF PolicyRow, OptTime
  <2> QED
    BY <1>3, <2>1, SetPoliciesInv DEF OwnerResumes
<1>4. CASE \E mode \in OwnerModes : OwnerSetsMode(mode)
  <2>1. ASSUME NEW mode \in OwnerModes
        PROVE  [policies EXCEPT ![GLOBAL].mode = mode] \in [Scopes -> PolicyRow]
    BY <1>1, OutboxAssumption DEF PolicyRow
  <2> QED
    BY <1>4, <2>1, SetPoliciesInv DEF OwnerSetsMode
<1>5. CASE \E i \in AUTO_INTENTS : Demote(i)
  <2>1. ASSUME NEW i
        PROVE  demoted(policies, i) \in [Scopes -> PolicyRow]
    BY <1>1 DEF demoted, PolicyRow, Modes
  <2> QED
    BY <1>5, <2>1, SetPoliciesInv DEF Demote
<1>6. CASE TripBreaker(now + BREAKER_FOR)
  <2>1. now + BREAKER_FOR \in OptTime
    BY OutboxAssumption DEF Inv, TypeOK, OptTime, Time
  <2>2. tripped_policies(now + BREAKER_FOR) \in [Scopes -> PolicyRow]
    BY <2>1, TrippedIsTyped, <1>1
  <2> QED
    BY <1>6, <2>2, SetPoliciesInv DEF TripBreaker
<1> QED
  BY <1>2, <1>3, <1>4, <1>5, <1>6 DEF PolicyChanges

LEMMA NextInv ==
  ASSUME Inv, [Next]_vars
  PROVE  Inv'
<1>1. CASE Create
  BY <1>1, CreateLookupInv, CreateStoreInv DEF Create
<1>2. CASE OwnerDecides
  <2>1. PICK r \in Rows : \/ \E f \in Facts, g \in GuardAnswers : Approve(r, f, g)
                          \/ \E b \in OwnerTexts, g \in GuardAnswers : OwnerText(r, b, g)
                          \/ RecordWarning(r)
                          \/ Cancel(r)
    BY <1>2 DEF OwnerDecides
  <2>2. Cancel(r) => Inv'
    BY WithdrawInv DEF Cancel
  <2> QED
    BY <2>1, <2>2, ApproveInv, OwnerTextInv, RecordWarningInv
<1>3. CASE ClientTakesBack
  BY <1>3, WithdrawInv DEF ClientTakesBack, ExpireEdited
<1>4. CASE AdapterClaims
  BY <1>4, FirstReadyIsReady, ClaimReadyInv DEF AdapterClaims, ClaimReady, ready
<1>5. CASE AdapterReports
  <2>1. \A at \in {NoTime, now, now + 1} : at \in OptTime
    BY OutboxAssumption DEF Inv, TypeOK, OptTime, Time
  <2> QED
    BY <1>5, <2>1, CompleteInv, FailInv DEF AdapterReports
<1>6. CASE \E r \in Rows : Job(r)
  BY <1>6, WithdrawInv, ReconcileInv, TellUnknownInv DEF Job, Expire
<1>7. CASE PolicyChanges
  BY <1>7, PolicyChangesInv
<1>8. CASE ReaderStores
  <2>1. now \in 0..now
    BY OutboxAssumption DEF Inv, TypeOK
  <2>2. \A o \in OwnMessages : o.chat \in Chats /\ o.body \in Bodies
    BY DEF Chats, Bodies
  <2> QED
    BY <1>8, <2>1, <2>2, StoreOutgoingInv DEF ReaderStores
<1>9. CASE Tick
  BY <1>9, TickInv
<1>10. CASE UNCHANGED vars
  <2> USE <1>10 DEF vars, identity, text, approval, claim, report, outside
  <2>1. TypeOK'
    BY DEF Inv, TypeOK
  <2> QED
    BY <2>1, RowsUnchangedInv, OutboxAssumption DEF Inv, TypeOK, MomentsArePast, RowsUnchanged
<1> QED
  BY <1>1, <1>2, <1>3, <1>4, <1>5, <1>6, <1>7, <1>8, <1>9, <1>10 DEF Next

(* The invariant all the others follow from: types, attempts left, moments *)
(* in the past, and only guarded text committed.                           *)
THEOREM Invariance == Spec => []Inv
<1>1. Init => Inv
  BY InitInv
<1>2. Inv /\ [Next]_vars => Inv'
  BY NextInv
<1> QED
  BY <1>1, <1>2, PTL DEF Spec

(* Every column of the outbox, whatever the processes do, holds what its   *)
(* type says; for the attempts this is the retry limit of outbox.fail.     *)
THEOREM TypeCorrectness == Spec => []TypeOK
<1>1. Inv => TypeOK
  BY DEF Inv
<1> QED
  BY <1>1, Invariance, PTL

(* outbox._apply, approve and create never commit a text whose verdict is  *)
(* missing, about other words, or refused; nor, untapped, a statement of   *)
(* MIYA's own.                                                             *)
THEOREM GuardedTextOnly == Spec => []OnlyGuardedTextLeaves
<1>1. Inv => OnlyGuardedTextLeaves
  BY DEF Inv
<1> QED
  BY <1>1, Invariance, PTL

(* caps.wire_moment: whatever may be on the wire has a moment, none later  *)
(* than now, from which the caps count it.                                 *)
THEOREM WireCounted == Spec => []WireRowsAreCounted
<1>1. Inv => WireRowsAreCounted
  BY WireMoments DEF Inv, WireRowsAreCounted
<1> QED
  BY <1>1, Invariance, PTL
-----------------------------------------------------------------------------
(* What a step may never do *)

(* Only a draft takes other words, and only a new row a first author.      *)
LEMMA NextKeepsText ==
  ASSUME Inv, [Next]_vars, NEW r \in Rows, body'[r] # body[r] \/ author'[r] # author[r]
  PROVE  state[r] \in {"draft", Absent}
<1> SUFFICES ASSUME state[r] \notin {"draft", Absent} PROVE FALSE
  OBVIOUS
<1> USE DEF identity, text, approval, claim, report, outside
<1>0. body \in [Rows -> Bodies] /\ author \in [Rows -> {AI, OWNER}]
  BY DEF Inv, TypeOK
<1>1. CASE Create
  <2>1. ASSUME NEW c \in Creators, NEW f \in Facts, NEW g \in GuardAnswers, CreateStore(c, f, g)
        PROVE  FALSE
    <3> DEFINE free == {q \in Rows : state[q] = Absent}
    <3>1. free # {} => lowest(free) \in free
      BY LowestIsLeast, OutboxAssumption
    <3> QED
      BY <1>0, <2>1, <3>1 DEF CreateStore, Insert
  <2> QED
    BY <1>1, <2>1 DEF Create, CreateLookup
<1>2. CASE OwnerDecides
  <2>1. PICK q \in Rows : \/ \E f \in Facts, g \in GuardAnswers : Approve(q, f, g)
                          \/ \E b \in OwnerTexts, g \in GuardAnswers : OwnerText(q, b, g)
                          \/ RecordWarning(q)
                          \/ Cancel(q)
    BY <1>2 DEF OwnerDecides
  <2> QED
    BY <1>0, <2>1 DEF Approve, ApproveInTime, OwnerText, RecordWarning, Cancel, Withdraw
<1>3. CASE ClientTakesBack
  BY <1>3 DEF ClientTakesBack, ExpireEdited, Withdraw
<1>4. CASE AdapterClaims
  BY <1>4 DEF AdapterClaims, ClaimReady, HoldAfterError, Apply
<1>5. CASE AdapterReports
  BY <1>5 DEF AdapterReports, Complete, Sent, Fail
<1>6. CASE \E q \in Rows : Job(q)
  BY <1>6 DEF Job, Expire, Withdraw, Reconcile, Sent, InDoubt, TellUnknown
<1>7. CASE PolicyChanges
  BY <1>7 DEF PolicyChanges, OwnerPauses, OwnerResumes, OwnerSetsMode, Demote, TripBreaker, SetPolicies
<1>8. CASE ReaderStores \/ Tick \/ UNCHANGED vars
  BY <1>8 DEF ReaderStores, StoreOutgoing, Tick, vars
<1> QED
  BY <1>1, <1>2, <1>3, <1>4, <1>5, <1>6, <1>7, <1>8 DEF Next

(* outbox.owner_text writes into drafts only: what was approved is what    *)
(* leaves, by whoever's hand.                                              *)
THEOREM FrozenText == Spec => ApprovedTextIsFrozen
<1>1. Inv /\ [Next]_vars =>
        \A r \in Rows : state[r] \in Committed /\ state'[r] \in Committed =>
          body'[r] = body[r] /\ author'[r] = author[r]
  BY NextKeepsText DEF Committed, Absent
<1> QED
  BY <1>1, Invariance, PTL DEF Spec, ApprovedTextIsFrozen

(* How a row moves: by TRANSITIONS or not at all.                          *)
LEMMA NextMoves ==
  ASSUME Inv, [Next]_vars, NEW r \in Rows, state'[r] # state[r]
  PROVE  state'[r] \in TRANSITIONS[state[r]]
<1> USE DEF transition
<1>0. state \in [Rows -> States \union {Absent}]
  BY DEF Inv, TypeOK
<1>1. CASE Create
  BY <1>0, <1>1 DEF Create, CreateLookup, CreateStore, Insert
<1>2. CASE OwnerDecides
  <2>1. PICK q \in Rows : \/ \E f \in Facts, g \in GuardAnswers : Approve(q, f, g)
                          \/ \E b \in OwnerTexts, g \in GuardAnswers : OwnerText(q, b, g)
                          \/ RecordWarning(q)
                          \/ Cancel(q)
    BY <1>2 DEF OwnerDecides
  <2> QED
    BY <1>0, <2>1 DEF Approve, ApproveInTime, Grant, OwnerText, RecordWarning, Cancel, Withdraw
<1>3. CASE ClientTakesBack
  BY <1>0, <1>3 DEF ClientTakesBack, ExpireEdited, Withdraw
<1>4. CASE AdapterClaims
  BY <1>0, <1>4 DEF AdapterClaims, ClaimReady, HoldAfterError, Apply
<1>5. CASE AdapterReports
  BY <1>0, <1>5 DEF AdapterReports, Complete, Sent, Fail
<1>6. CASE \E q \in Rows : Job(q)
  BY <1>0, <1>6 DEF Job, Expire, Withdraw, Reconcile, Sent, InDoubt, TellUnknown
<1>7. CASE PolicyChanges
  BY <1>7 DEF PolicyChanges, OwnerPauses, OwnerResumes, OwnerSetsMode, Demote, TripBreaker, SetPolicies
<1>8. CASE ReaderStores \/ Tick \/ UNCHANGED vars
  BY <1>8 DEF ReaderStores, StoreOutgoing, Tick, vars
<1> QED
  BY <1>1, <1>2, <1>3, <1>4, <1>5, <1>6, <1>7, <1>8 DEF Next

(* A row goes on the wire by a claim the gate let through.                 *)
LEMMA OnlyClaimsSend ==
  ASSUME Inv, [Next]_vars, NEW r \in Rows, state[r] = "approved", state'[r] = "sending"
  PROVE  \E f \in Facts : decision(r, f).action = "send"
<1> USE DEF transition
<1>0. state \in [Rows -> States \union {Absent}]
  BY DEF Inv, TypeOK
<1>1. CASE Create
  <2>1. ASSUME NEW c \in Creators, NEW f \in Facts, NEW g \in GuardAnswers, CreateStore(c, f, g)
        PROVE  state'[r] = state[r]
    <3> DEFINE free == {q \in Rows : state[q] = Absent}
    <3>1. free # {} => lowest(free) \in free
      BY LowestIsLeast, OutboxAssumption
    <3> QED
      BY <1>0, <2>1, <3>1 DEF CreateStore, Insert, Absent
  <2> QED
    BY <1>1, <2>1 DEF Create, CreateLookup
<1>2. CASE OwnerDecides
  <2>1. PICK q \in Rows : \/ \E f \in Facts, g \in GuardAnswers : Approve(q, f, g)
                          \/ \E b \in OwnerTexts, g \in GuardAnswers : OwnerText(q, b, g)
                          \/ RecordWarning(q)
                          \/ Cancel(q)
    BY <1>2 DEF OwnerDecides
  <2> QED
    BY <1>0, <2>1 DEF Approve, ApproveInTime, Grant, OwnerText, RecordWarning, Cancel, Withdraw
<1>3. CASE ClientTakesBack
  BY <1>0, <1>3 DEF ClientTakesBack, ExpireEdited, Withdraw
<1>4. CASE AdapterClaims
  <2>1. PICK q \in Rows, f \in Facts : ClaimReady(q, f)
    BY <1>4 DEF AdapterClaims
  <2>2. ~f.raises /\ Apply(q, decision(q, f), f)
    BY <1>0, <2>1 DEF ClaimReady, HoldAfterError
  <2>3. decision(q, f).action = "send" /\ q = r
    BY <1>0, <2>2 DEF Apply
  <2> QED
    BY <2>3
<1>5. CASE AdapterReports
  BY <1>0, <1>5 DEF AdapterReports, Complete, Sent, Fail
<1>6. CASE \E q \in Rows : Job(q)
  BY <1>0, <1>6 DEF Job, Expire, Withdraw, Reconcile, Sent, InDoubt, TellUnknown
<1>7. CASE PolicyChanges
  BY <1>7 DEF PolicyChanges, OwnerPauses, OwnerResumes, OwnerSetsMode, Demote, TripBreaker, SetPolicies
<1>8. CASE ReaderStores \/ Tick \/ UNCHANGED vars
  BY <1>8 DEF ReaderStores, StoreOutgoing, Tick, vars
<1> QED
  BY <1>1, <1>2, <1>3, <1>4, <1>5, <1>6, <1>7, <1>8 DEF Next

LEMMA SentIsTimely ==
  ASSUME Inv, NEW r \in Rows, NEW f \in Facts, decision(r, f).action = "send"
  PROVE  /\ now < ExpiresAt(r)
         /\ not_before[r] <= now
         /\ ~stopped(policies, GLOBAL, now)
         /\ ~stopped(policies, channel_scope(Channel), now)
<1> DEFINE s == snapshot(r)
           c == Context(r, f)
<1>1. \A k \in 1..11 : LINES(s, c)[k].action \in {"none", "send"}
  BY EvaluateIsALine DEF decision
<1>2. pause_line(s, c).action \in {"none", "send"} /\ trigger_line(s, c).action \in {"none", "send"}
  <2>1. LINES(s, c)[2] = pause_line(s, c) /\ LINES(s, c)[7] = trigger_line(s, c)
    BY DEF LINES
  <2> QED
    BY <1>1, <2>1
<1>3. s.channel = Channel /\ c.policies = policies /\ c.now = now
      /\ s.expires_at = ExpiresAt(r) /\ s.not_before = not_before[r]
  BY DEF snapshot, Context
<1>4. now \in Nat /\ ExpiresAt(r) \in Nat /\ not_before[r] \in OptTime
  BY OutboxAssumption DEF Inv, TypeOK, ExpiresAt, OptTime, Time, NoTime
<1> HIDE DEF s, c
<1>5. stop_for(policies, Channel, now).code = "none"
  BY <1>2, <1>3 DEF pause_line, Hold, Decision, Pass
<1>6. ~stopped(policies, GLOBAL, now) /\ ~stopped(policies, channel_scope(Channel), now)
  BY <1>5 DEF stop_for, Stop, NoStop
<1>7. now < ExpiresAt(r) /\ not_before[r] <= now
  BY <1>2, <1>3, <1>4 DEF trigger_line, Hold, Decision, Pass, OptTime, Time, NoTime
<1> QED
  BY <1>6, <1>7

(* outbox.claim_ready: no row is handed out past its expiry, before its    *)
(* time, or while a pause or a breaker stops everything or its channel.    *)
THEOREM TimelyClaims == Spec => ClaimsAreTimely
<1>1. Inv /\ [Next]_vars =>
        \A r \in Rows : state[r] = "approved" /\ state'[r] = "sending" =>
          /\ now < ExpiresAt(r)
          /\ not_before[r] <= now
          /\ ~stopped(policies, GLOBAL, now)
          /\ ~stopped(policies, channel_scope(Channel), now)
  BY OnlyClaimsSend, SentIsTimely
<1> QED
  BY <1>1, Invariance, PTL DEF Spec, ClaimsAreTimely
-----------------------------------------------------------------------------
(* One row for a proposal                                                  *)

(* Once a row is there it keeps what it proposes, and once it is over the  *)
(* reason it is over.                                                      *)
LEMMA NextKeepsIdentity ==
  ASSUME Inv, [Next]_vars, NEW r \in Rows, state[r] # Absent
  PROVE  /\ proposal'[r] = proposal[r] /\ revision'[r] = revision[r]
         /\ state[r] \in Terminal => last_error'[r] = last_error[r]
<1> USE DEF identity, text, approval, claim, report, outside, transition
<1>0. /\ proposal \in [Rows -> Proposals \union {NoProposal}] /\ revision \in [Rows -> 0..MAX_REVISIONS]
      /\ last_error \in [Rows -> {"none", "other"} \union REDRAFT_CODES]
      /\ state \in [Rows -> States \union {Absent}]
  BY DEF Inv, TypeOK
<1>m. \A s \in Terminal : TRANSITIONS[s] = {} /\ s \notin PENDING \union {"sending", "unknown", Absent}
  BY DEF TRANSITIONS, Terminal, States, PENDING, Absent
<1>1. CASE Create
  <2>1. ASSUME NEW c \in Creators, NEW f \in Facts, NEW g \in GuardAnswers, CreateStore(c, f, g)
        PROVE  /\ proposal'[r] = proposal[r] /\ revision'[r] = revision[r]
               /\ last_error'[r] = last_error[r]
    <3> DEFINE free == {q \in Rows : state[q] = Absent}
    <3>1. free # {} => lowest(free) \in free
      BY LowestIsLeast, OutboxAssumption
    <3> QED
      BY <1>0, <2>1, <3>1 DEF CreateStore, Insert
  <2> QED
    BY <1>1, <2>1 DEF Create, CreateLookup
<1>2. CASE OwnerDecides
  <2>1. PICK q \in Rows : \/ \E f \in Facts, g \in GuardAnswers : Approve(q, f, g)
                          \/ \E b \in OwnerTexts, g \in GuardAnswers : OwnerText(q, b, g)
                          \/ RecordWarning(q)
                          \/ Cancel(q)
    BY <1>2 DEF OwnerDecides
  <2>2. UNCHANGED identity
    BY <2>1 DEF Approve, OwnerText, RecordWarning, Cancel, Withdraw
  <2>3. q # r => last_error'[r] = last_error[r]
    BY <1>0, <2>1 DEF Approve, ApproveInTime, Grant, OwnerText, RecordWarning, Cancel, Withdraw
  <2>4. state[q] \in PENDING
    BY <2>1 DEF Approve, OwnerText, RecordWarning, Cancel, PENDING
  <2> QED
    BY <1>m, <2>2, <2>3, <2>4
<1>3. CASE ClientTakesBack
  BY <1>0, <1>m, <1>3 DEF ClientTakesBack, ExpireEdited, Withdraw
<1>4. CASE AdapterClaims
  <2>1. PICK q \in Rows, f \in Facts : ClaimReady(q, f)
    BY <1>4 DEF AdapterClaims
  <2>2. state[q] = "approved"
    BY <2>1, FirstReadyIsReady DEF ClaimReady, ready
  <2>3. UNCHANGED identity /\ (q # r => last_error'[r] = last_error[r])
    BY <1>0, <2>1 DEF ClaimReady, HoldAfterError, Apply
  <2> QED
    BY <1>m, <2>2, <2>3 DEF PENDING
<1>5. CASE AdapterReports
  BY <1>0, <1>m, <1>5 DEF AdapterReports, Complete, Sent, Fail
<1>6. CASE \E q \in Rows : Job(q)
  BY <1>0, <1>m, <1>6 DEF Job, Expire, due, Withdraw, Reconcile, Sent, InDoubt, TellUnknown
<1>7. CASE PolicyChanges
  BY <1>7 DEF PolicyChanges, OwnerPauses, OwnerResumes, OwnerSetsMode, Demote, TripBreaker, SetPolicies
<1>8. CASE ReaderStores \/ Tick \/ UNCHANGED vars
  BY <1>8 DEF ReaderStores, StoreOutgoing, Tick, vars
<1> QED
  BY <1>1, <1>2, <1>3, <1>4, <1>5, <1>6, <1>7, <1>8 DEF Next

(* A row that gave way to a later one never comes back.                    *)
LEMMA SupersededStays ==
  ASSUME Inv, [Next]_vars, NEW p, NEW n, NEW r \in RowsOfKey(Key(p, n)), superseded(r)
  PROVE  (r \in RowsOfKey(Key(p, n)) /\ superseded(r))'
<1>1. r \in Rows /\ state[r] \in Terminal /\ state[r] # Absent /\ Key(proposal[r], revision[r]) = Key(p, n)
  BY DEF RowsOfKey, superseded, Terminal
<1>2. state'[r] = state[r]
  <2>1. TRANSITIONS[state[r]] = {}
    BY <1>1 DEF TRANSITIONS, Terminal, States
  <2> QED
    BY <1>1, <2>1, NextMoves
<1>3. /\ proposal'[r] = proposal[r] /\ revision'[r] = revision[r] /\ last_error'[r] = last_error[r]
  BY <1>1, NextKeepsIdentity
<1>4. author'[r] = author[r]
  BY <1>1, NextKeepsText DEF Terminal, Absent
<1>5. r \in RowsOfKey(Key(p, n))'
  BY <1>1, <1>2, <1>3 DEF RowsOfKey
<1>6. superseded(r)'
  BY <1>2, <1>3, <1>4 DEF superseded
<1> QED
  BY <1>5, <1>6

(* Keys are unique, and before a key of a proposal is used every earlier   *)
(* key of it had a row that gave way.                                      *)
GaveWay(p, n) == \A k \in 0..n-1 : \E r \in RowsOfKey(Key(p, k)) : superseded(r)
KeysInv ==
  /\ \A r, q \in Rows :
       /\ state[r] # Absent /\ state[q] # Absent
       /\ Key(proposal[r], revision[r]) = Key(proposal[q], revision[q])
       => r = q
  /\ \A r \in Rows : state[r] # Absent => GaveWay(proposal[r], revision[r])
  /\ \A c \in Creators : creating[c] # NotCreating =>
       GaveWay(creating[c].proposal, creating[c].revision)

LEMMA GaveWayStays ==
  ASSUME Inv, [Next]_vars
  PROVE  \A p, n : GaveWay(p, n) => GaveWay(p, n)'
  BY SupersededStays DEF GaveWay

LEMMA NextKeys ==
  ASSUME Inv, KeysInv, [Next]_vars
  PROVE  KeysInv'
<1>0. /\ state \in [Rows -> States \union {Absent}] /\ revision \in [Rows -> 0..MAX_REVISIONS]
      /\ proposal \in [Rows -> Proposals \union {NoProposal}]
      /\ creating \in [Creators -> [proposal : Proposals \union {NoProposal}, revision : 0..MAX_REVISIONS]]
  BY DEF Inv, TypeOK
<1>1. ASSUME \A r \in Rows : state'[r] # Absent => state[r] # Absent,
             \A c \in Creators : creating'[c] # NotCreating =>
               \/ creating'[c] = creating[c]
               \/ GaveWay(creating'[c].proposal, creating'[c].revision)
      PROVE  KeysInv'
  <2>1. \A r \in Rows : state'[r] # Absent =>
          state[r] # Absent /\ proposal'[r] = proposal[r] /\ revision'[r] = revision[r]
    BY <1>1, NextKeepsIdentity
  <2>2. \A r, q \in Rows : /\ state'[r] # Absent /\ state'[q] # Absent
                           /\ Key(proposal'[r], revision'[r]) = Key(proposal'[q], revision'[q])
                           => r = q
    BY <2>1 DEF KeysInv
  <2>3. \A r \in Rows : state'[r] # Absent => GaveWay(proposal[r], revision[r])'
    BY <2>1, GaveWayStays DEF KeysInv
  <2>4. \A c \in Creators : creating'[c] # NotCreating =>
          GaveWay(creating[c].proposal, creating[c].revision)'
    BY <1>1, GaveWayStays DEF KeysInv
  <2> QED
    BY <2>2, <2>3, <2>4 DEF KeysInv
<1>2. ASSUME NEW c \in Creators, NEW p \in Proposals, NEW f \in Facts, CreateLookup(c, p, f)
      PROVE  KeysInv'
  <2> DEFINE n == lowest(open_revisions(p))
  <2>1. open_revisions(p) \subseteq 0..MAX_REVISIONS /\ open_revisions(p) # {}
    BY <1>2 DEF CreateLookup, open_revisions
  <2>2. n \in 0..MAX_REVISIONS /\ \A k \in open_revisions(p) : n <= k
    BY <2>1, LowestIsLeast, OutboxAssumption
  <2> HIDE DEF n
  <2>3. GaveWay(p, n)
    <3> SUFFICES ASSUME NEW k \in 0..n-1
                 PROVE  \E r \in RowsOfKey(Key(p, k)) : superseded(r)
      BY DEF GaveWay
    <3>1. k \in 0..MAX_REVISIONS /\ k \notin open_revisions(p)
      BY <2>2, OutboxAssumption
    <3> QED
      BY <3>1 DEF open_revisions
  <2>4. UNCHANGED state /\ creating' = [creating EXCEPT ![c] = [proposal |-> p, revision |-> n]]
    BY <1>2 DEF CreateLookup, n
  <2>5. \A d \in Creators : \/ creating'[d] = creating[d]
                            \/ creating'[d].proposal = p /\ creating'[d].revision = n
    BY <1>0, <2>4
  <2> QED
    BY <1>1, <2>3, <2>4, <2>5
<1>3. ASSUME NEW c \in Creators, NEW f \in Facts, NEW g \in GuardAnswers, CreateStore(c, f, g)
      PROVE  KeysInv'
  <2> DEFINE p == creating[c].proposal
             n == creating[c].revision
             free == {q \in Rows : state[q] = Absent}
             new == initial_state(p, f, g)
  <2>0. \A d \in Creators : creating'[d] # NotCreating => creating'[d] = creating[d]
    BY <1>0, <1>3 DEF CreateStore
  <2>1. CASE UNCHANGED state
    BY <1>1, <2>0, <2>1
  <2>2. CASE ~taken(p, n) /\ free # {} /\ Insert(lowest(free), p, n, new, g)
    <3>1. PICK r \in Rows : r = lowest(free) /\ state[r] = Absent
      BY <2>2, LowestIsLeast, OutboxAssumption
    <3>2. /\ state' = [state EXCEPT ![r] = new]
          /\ proposal' = [proposal EXCEPT ![r] = p] /\ revision' = [revision EXCEPT ![r] = n]
      BY <2>2, <3>1 DEF Insert, transition
    <3>3. \A q \in Rows : Key(proposal[q], revision[q]) = Key(p, n) => state[q] = Absent
      BY <2>2 DEF taken, RowsOfKey
    <3>4. GaveWay(p, n)
      BY <1>3 DEF CreateStore, KeysInv
    <3> HIDE DEF p, n, new
    <3>5. proposal'[r] = p /\ revision'[r] = n
      BY <1>0, <3>2
    <3>6. \A q \in Rows \ {r} : /\ state'[q] = state[q] /\ proposal'[q] = proposal[q]
                                /\ revision'[q] = revision[q]
      BY <1>0, <3>2
    <3>7. \A x, y \in Rows : /\ state'[x] # Absent /\ state'[y] # Absent
                             /\ Key(proposal'[x], revision'[x]) = Key(proposal'[y], revision'[y])
                             => x = y
      BY <3>3, <3>5, <3>6 DEF KeysInv
    <3>8. \A q \in Rows : state'[q] # Absent => GaveWay(proposal[q], revision[q])'
      BY <3>4, <3>5, <3>6, GaveWayStays DEF KeysInv
    <3>9. \A d \in Creators : creating'[d] # NotCreating =>
            GaveWay(creating[d].proposal, creating[d].revision)'
      BY <2>0, GaveWayStays DEF KeysInv
    <3> QED
      BY <3>7, <3>8, <3>9 DEF KeysInv
  <2> QED
    BY <1>3, <2>1, <2>2 DEF CreateStore
<1>4. CASE Create
  BY <1>2, <1>3, <1>4 DEF Create
<1>5. CASE ~Create
  <2>1. UNCHANGED creating
    BY <1>5 DEF Next, vars, outside, OwnerDecides, Approve, OwnerText, RecordWarning, Cancel, Withdraw,
       ClientTakesBack, ExpireEdited, AdapterClaims, ClaimReady, HoldAfterError, Apply, AdapterReports,
       Complete, Sent, Fail, Job, Expire, Reconcile, InDoubt, TellUnknown, PolicyChanges, OwnerPauses,
       OwnerResumes, OwnerSetsMode, Demote, TripBreaker, SetPolicies, ReaderStores, StoreOutgoing, Tick
  <2>2. \A r \in Rows : state[r] = Absent => state'[r] = Absent
    BY <1>0, <1>5, FirstReadyIsReady
       DEF Next, vars, OwnerDecides, Approve, ApproveInTime, Grant, OwnerText, RecordWarning, Cancel,
       Withdraw, ClientTakesBack, ExpireEdited, AdapterClaims, ClaimReady, ready, HoldAfterError, Apply,
       AdapterReports, Complete, Sent, Fail, Job, Expire, due, Reconcile, InDoubt, TellUnknown,
       PolicyChanges, OwnerPauses, OwnerResumes, OwnerSetsMode, Demote, TripBreaker, SetPolicies,
       ReaderStores, StoreOutgoing, Tick, transition, PENDING, Absent
  <2> QED
    BY <1>1, <2>1, <2>2
<1> QED
  BY <1>4, <1>5

(* outbox.create: however often and by however many callers at once a      *)
(* message is answered, a later row of it comes only after the earlier one *)
(* gave way.                                                               *)
THEOREM OneRowEach == Spec => []OneRowPerProposal
<1>1. Init => KeysInv
  <2> SUFFICES ASSUME Init PROVE KeysInv
    OBVIOUS
  <2> QED
    BY DEF Init, KeysInv
<1>2. Inv /\ KeysInv => OneRowPerProposal
  <2> SUFFICES ASSUME Inv, KeysInv, NEW r \in Rows, NEW q \in Rows,
                      r # q, state[r] # Absent, state[q] # Absent,
                      Key(proposal[r], 0) = Key(proposal[q], 0)
               PROVE  revision[r] # revision[q] /\ (superseded(r) \/ superseded(q))
    BY DEF OneRowPerProposal
  <2>1. revision[r] \in Nat /\ revision[q] \in Nat
    BY OutboxAssumption DEF Inv, TypeOK
  <2>2. \A n : Key(proposal[r], n) = Key(proposal[q], n)
    BY DEF Key
  <2>3. revision[r] # revision[q]
    BY <2>2 DEF KeysInv
  <2>4. ASSUME NEW x \in Rows, NEW y \in Rows, state[x] # Absent, state[y] # Absent,
               revision[x] \in Nat, revision[y] \in Nat, revision[x] < revision[y],
               Key(proposal[y], revision[x]) = Key(proposal[x], revision[x])
        PROVE  superseded(x)
    <3>1. revision[x] \in 0..revision[y]-1 /\ GaveWay(proposal[y], revision[y])
      BY <2>4 DEF KeysInv
    <3>2. PICK o \in RowsOfKey(Key(proposal[y], revision[x])) : superseded(o)
      BY <3>1 DEF GaveWay
    <3>3. o \in Rows /\ state[o] # Absent /\ Key(proposal[o], revision[o]) = Key(proposal[x], revision[x])
      BY <2>4, <3>2 DEF RowsOfKey
    <3>4. o = x
      BY <2>4, <3>3 DEF KeysInv
    <3> QED
      BY <3>2, <3>4
  <2>5. CASE revision[r] < revision[q]
    BY <2>1, <2>2, <2>4, <2>5
  <2>6. CASE revision[q] < revision[r]
    BY <2>1, <2>2, <2>4, <2>6
  <2> QED
    BY <2>1, <2>3, <2>5, <2>6
<1>3. Inv /\ KeysInv /\ [Next]_vars => KeysInv'
  BY NextKeys
<1> QED
  BY <1>1, <1>2, <1>3, Invariance, PTL DEF Spec

-----------------------------------------------------------------------------
(* The daily caps *)

(* What nobody tapped is MIYA's own text, and a draft carries no approval. *)
AutoIsAi ==
  \A r \in Rows : /\ approver[r] = AUTO_APPROVER => author[r] = AI
                  /\ state[r] \in {"draft", Absent} => approver[r] = NoApprover

LEMMA NextAutoIsAi ==
  ASSUME Inv, AutoIsAi, [Next]_vars
  PROVE  AutoIsAi'
<1> USE DEF identity, text, approval, claim, report, outside, transition
<1>0. /\ approver \in [Rows -> {NoApprover, OWNER, AUTO_APPROVER}]
      /\ author \in [Rows -> {AI, OWNER}]
      /\ state \in [Rows -> States \union {Absent}]
      /\ creating \in [Creators -> [proposal : Proposals \union {NoProposal}, revision : 0..MAX_REVISIONS]]
  BY DEF Inv, TypeOK
<1>n. NoApprover # AUTO_APPROVER /\ OWNER # AUTO_APPROVER /\ AI # OWNER
  BY DEF NoApprover, AUTO_APPROVER, OWNER, AI
<1>1. CASE Create
  <2>1. ASSUME NEW c \in Creators, NEW f \in Facts, NEW g \in GuardAnswers, CreateStore(c, f, g)
        PROVE  AutoIsAi'
    <3> DEFINE p == creating[c].proposal
               new == initial_state(p, f, g)
               free == {q \in Rows : state[q] = Absent}
    <3>1. new = "approved" => p.authored_by = AI
      <4>1. p \in Proposals \union {NoProposal} /\ p.authored_by \in {AI, OWNER}
        BY <1>0, OutboxAssumption DEF NoProposal
      <4> QED
        BY <4>1 DEF initial_state
    <3>2. CASE new = Absent \/ taken(p, creating[c].revision)
      BY <2>1, <3>2 DEF CreateStore, AutoIsAi
    <3>3. CASE ~(new = Absent \/ taken(p, creating[c].revision))
      <4>1. free # {} /\ Insert(lowest(free), p, creating[c].revision, new, g)
        BY <2>1, <3>3 DEF CreateStore
      <4>2. lowest(free) \in Rows
        BY <4>1, LowestIsLeast, OutboxAssumption
      <4> HIDE DEF free, new, p
      <4> QED
        BY <1>0, <1>n, <3>1, <3>3, <4>1, <4>2 DEF Insert, AutoIsAi
    <3> QED
      BY <3>2, <3>3
  <2>2. ASSUME NEW c \in Creators, NEW f \in Facts, NEW p \in Proposals, CreateLookup(c, p, f)
        PROVE  AutoIsAi'
    BY <2>2 DEF CreateLookup, AutoIsAi
  <2> QED
    BY <1>1, <2>1, <2>2 DEF Create
<1>2. CASE OwnerDecides
  <2>1. PICK q \in Rows : \/ \E f \in Facts, g \in GuardAnswers : Approve(q, f, g)
                          \/ \E b \in OwnerTexts, g \in GuardAnswers : OwnerText(q, b, g)
                          \/ RecordWarning(q)
                          \/ Cancel(q)
    BY <1>2 DEF OwnerDecides
  <2>2. ASSUME NEW f \in Facts, NEW g \in GuardAnswers, Approve(q, f, g)
        PROVE  AutoIsAi'
    BY <1>0, <1>n, <2>2 DEF Approve, ApproveInTime, Grant, AutoIsAi, Absent
  <2>3. ASSUME NEW b \in OwnerTexts, NEW g \in GuardAnswers, OwnerText(q, b, g)
        PROVE  AutoIsAi'
    BY <1>0, <1>n, <2>3 DEF OwnerText, AutoIsAi
  <2>4. CASE RecordWarning(q) \/ Cancel(q)
    BY <1>0, <2>4 DEF RecordWarning, Cancel, Withdraw, AutoIsAi, Absent
  <2> QED
    BY <2>1, <2>2, <2>3, <2>4
<1>3. CASE ClientTakesBack
  BY <1>0, <1>3 DEF ClientTakesBack, ExpireEdited, Withdraw, AutoIsAi, Absent
<1>4. CASE AdapterClaims
  <2>1. PICK q \in Rows, f \in Facts : ClaimReady(q, f)
    BY <1>4 DEF AdapterClaims
  <2>2. CASE f.raises
    BY <2>1, <2>2 DEF ClaimReady, HoldAfterError, AutoIsAi
  <2>3. CASE ~f.raises
    <3>1. Apply(q, decision(q, f), f)
      BY <2>1, <2>3 DEF ClaimReady
    <3>2. state[q] = "approved"
      BY <2>1, FirstReadyIsReady DEF ClaimReady, ready
    <3> QED
      BY <1>0, <1>n, <3>1, <3>2 DEF Apply, drop_approval, AutoIsAi, Absent
  <2> QED
    BY <2>2, <2>3
<1>5. CASE AdapterReports
  BY <1>0, <1>5 DEF AdapterReports, Complete, Sent, Fail, AutoIsAi, Absent
<1>6. CASE \E q \in Rows : Job(q)
  BY <1>0, <1>6 DEF Job, Expire, due, Withdraw, Reconcile, Sent, InDoubt, TellUnknown, AutoIsAi, Absent
<1>7. CASE PolicyChanges
  BY <1>7 DEF PolicyChanges, OwnerPauses, OwnerResumes, OwnerSetsMode, Demote, TripBreaker, SetPolicies, AutoIsAi
<1>8. CASE ReaderStores \/ Tick \/ UNCHANGED vars
  BY <1>8 DEF ReaderStores, StoreOutgoing, Tick, vars, AutoIsAi
<1> QED
  BY <1>1, <1>2, <1>3, <1>4, <1>5, <1>6, <1>7, <1>8 DEF Next

(* A claim the gate let through leaves every other row as it was; no other *)
(* step puts a row on the wire, or changes who approved one there.         *)
LEMMA WireStep ==
  ASSUME Inv, [Next]_vars
  PROVE  \/ \E r \in Rows, f \in Facts :
              /\ state[r] = "approved" /\ decision(r, f).action = "send"
              /\ state' = [state EXCEPT ![r] = "sending"]
              /\ lease' = [lease EXCEPT ![r] = now + SEND_LEASE]
              /\ UNCHANGED <<approver, author, proposal, sent_at, now>>
         \/ \A r \in Rows : state'[r] \in WIRE_STATES =>
              /\ state[r] \in WIRE_STATES
              /\ approver'[r] = approver[r]
<1> USE DEF identity, text, approval, claim, report, outside, transition
<1> DEFINE Stays == \A r \in Rows : state'[r] \in WIRE_STATES =>
                      state[r] \in WIRE_STATES /\ approver'[r] = approver[r]
<1>0. /\ approver \in [Rows -> {NoApprover, OWNER, AUTO_APPROVER}]
      /\ state \in [Rows -> States \union {Absent}]
  BY DEF Inv, TypeOK
<1>1. CASE Create
  <2>1. ASSUME NEW c \in Creators, NEW f \in Facts, NEW g \in GuardAnswers, CreateStore(c, f, g)
        PROVE  Stays
    <3> DEFINE free == {q \in Rows : state[q] = Absent}
    <3>1. free # {} => lowest(free) \in free
      BY LowestIsLeast, OutboxAssumption
    <3> QED
      BY <1>0, <2>1, <3>1 DEF CreateStore, Insert, TRANSITIONS, States, Absent, WIRE_STATES
  <2> QED
    BY <1>1, <2>1 DEF Create, CreateLookup
<1>2. CASE OwnerDecides
  <2>1. PICK q \in Rows : \/ \E f \in Facts, g \in GuardAnswers : Approve(q, f, g)
                          \/ \E b \in OwnerTexts, g \in GuardAnswers : OwnerText(q, b, g)
                          \/ RecordWarning(q)
                          \/ Cancel(q)
    BY <1>2 DEF OwnerDecides
  <2> QED
    BY <1>0, <2>1 DEF Approve, ApproveInTime, Grant, OwnerText, RecordWarning, Cancel, Withdraw,
                      WIRE_STATES
<1>3. CASE ClientTakesBack
  BY <1>0, <1>3 DEF ClientTakesBack, ExpireEdited, Withdraw, WIRE_STATES
<1>4. CASE AdapterClaims
  <2>1. PICK q \in Rows, f \in Facts : ClaimReady(q, f)
    BY <1>4 DEF AdapterClaims
  <2>2. state[q] = "approved"
    BY <2>1, FirstReadyIsReady DEF ClaimReady, ready
  <2>3. CASE f.raises
    BY <2>1, <2>3 DEF ClaimReady, HoldAfterError
  <2>4. CASE ~f.raises /\ decision(q, f).action = "send"
    BY <2>1, <2>2, <2>4 DEF ClaimReady, Apply
  <2>5. CASE ~f.raises /\ decision(q, f).action # "send"
    BY <1>0, <2>1, <2>2, <2>5 DEF ClaimReady, Apply, drop_approval, WIRE_STATES
  <2> QED
    BY <2>3, <2>4, <2>5
<1>5. CASE AdapterReports
  BY <1>0, <1>5 DEF AdapterReports, Complete, Sent, Fail, WIRE_STATES
<1>6. CASE \E q \in Rows : Job(q)
  BY <1>0, <1>6 DEF Job, Expire, due, PENDING, Withdraw, Reconcile, Sent, InDoubt, TellUnknown, WIRE_STATES
<1>7. CASE PolicyChanges
  BY <1>7 DEF PolicyChanges, OwnerPauses, OwnerResumes, OwnerSetsMode, Demote, TripBreaker, SetPolicies
<1>8. CASE ReaderStores \/ Tick \/ UNCHANGED vars
  BY <1>8 DEF ReaderStores, StoreOutgoing, Tick, vars
<1> QED
  BY <1>1, <1>2, <1>3, <1>4, <1>5, <1>6, <1>7, <1>8 DEF Next

(* The rows the caps count, today.                                         *)
AutoToday == {r \in on_wire_today : approver[r] = AUTO_APPROVER}
AiToday(c) == {r \in on_wire_today : author[r] = AI /\ chat(r) = c}

CapsInv == AutoIsAi /\ IsFiniteSet(on_wire)

LEMMA NextCapsInv ==
  ASSUME Inv, CapsInv, [Next]_vars
  PROVE  CapsInv'
<1>1. CASE \E r \in Rows : state' = [state EXCEPT ![r] = "sending"]
  <2>1. PICK r \in Rows : state' = [state EXCEPT ![r] = "sending"]
    BY <1>1
  <2>2. on_wire' \subseteq on_wire \union {r}
    BY <2>1 DEF on_wire
  <2>3. IsFiniteSet(on_wire \union {r})
    BY FS_AddElement DEF CapsInv
  <2>4. IsFiniteSet(on_wire')
    BY <2>2, <2>3, FS_Subset
  <2> QED
    BY <2>4, NextAutoIsAi DEF CapsInv
<1>2. CASE \A r \in Rows : state'[r] \in WIRE_STATES => state[r] \in WIRE_STATES
  <2>1. on_wire' \subseteq on_wire
    BY <1>2 DEF on_wire
  <2>2. IsFiniteSet(on_wire')
    BY <2>1, FS_Subset DEF CapsInv
  <2> QED
    BY <2>2, NextAutoIsAi DEF CapsInv
<1> QED
  BY <1>1, <1>2, WireStep

LEMMA CapsInvariance == Spec => [](Inv /\ CapsInv)
<1>1. Init => CapsInv
  <2> SUFFICES ASSUME Init PROVE CapsInv
    OBVIOUS
  <2>1. on_wire = {}
    BY DEF Init, on_wire, WIRE_STATES, Absent
  <2> QED
    BY <2>1, FS_EmptySet DEF Init, CapsInv, AutoIsAi, NoApprover, AUTO_APPROVER
<1>2. Inv /\ CapsInv /\ [Next]_vars => CapsInv'
  BY NextCapsInv
<1> QED
  BY <1>1, <1>2, Invariance, PTL DEF Spec

LEMMA FiniteToday ==
  ASSUME CapsInv
  PROVE  /\ IsFiniteSet(AutoToday) /\ Cardinality(AutoToday) \in Nat
         /\ \A c : IsFiniteSet(AiToday(c)) /\ Cardinality(AiToday(c)) \in Nat
<1>1. AutoToday \subseteq on_wire /\ \A c : AiToday(c) \subseteq on_wire
  BY DEF AutoToday, AiToday, on_wire_today
<1>2. IsFiniteSet(AutoToday) /\ \A c : IsFiniteSet(AiToday(c))
  BY <1>1, FS_Subset DEF CapsInv
<1> QED
  BY <1>2, FS_CardinalityType

(* caps_line lets a row through only under the caps that count it.         *)
LEMMA SentIsUnderTheCaps ==
  ASSUME Inv, CapsInv, NEW r \in Rows, NEW f \in Facts, decision(r, f).action = "send"
  PROVE  /\ approver[r] = AUTO_APPROVER => Cardinality(AutoToday) < AUTO_CAP
         /\ author[r] = AI => Cardinality(AiToday(chat(r))) < CHAT_CAP
<1> DEFINE s == snapshot(r)
           c == Context(r, f)
<1>1. caps_line(s, c).action \in {"none", "send"}
  <2>1. \A k \in 1..11 : LINES(s, c)[k].action \in {"none", "send"}
    BY EvaluateIsALine DEF decision
  <2>2. LINES(s, c)[8] = caps_line(s, c)
    BY DEF LINES
  <2> QED
    BY <2>1, <2>2
<1>2. s.authored_by = author[r] /\ s.approved_by = approver[r]
  BY DEF snapshot
<1>3. /\ c.caps.auto_sent = Cardinality(AutoToday) /\ c.caps.auto_cap = AUTO_CAP
      /\ c.caps.chat_ai_sent = Cardinality(AiToday(chat(r))) /\ c.caps.per_chat_cap = CHAT_CAP
  BY DEF Context, Caps, AutoToday, AiToday
<1> HIDE DEF s, c
<1>4. /\ auto(s) => ~(Cardinality(AutoToday) >= AUTO_CAP)
      /\ ai(s) /\ ~auto(s) => ~(Cardinality(AiToday(chat(r))) >= CHAT_CAP)
      /\ auto(s) => ~(Cardinality(AiToday(chat(r))) >= CHAT_CAP)
  BY <1>1, <1>3 DEF caps_line, Hold, Decision, Pass, auto
<1>5. approver[r] = AUTO_APPROVER => author[r] = AI
  BY DEF CapsInv, AutoIsAi
<1>6. /\ ai(s) <=> author[r] # OWNER
      /\ auto(s) <=> ai(s) /\ approver[r] = AUTO_APPROVER
  BY <1>2 DEF ai, auto
<1> QED
  BY <1>4, <1>5, <1>6, FiniteToday, OutboxAssumption DEF AI, OWNER

LEMMA OneMore ==
  ASSUME NEW S, IsFiniteSet(S), NEW r, NEW cap \in Nat, Cardinality(S) < cap,
         NEW T \in SUBSET (S \union {r})
  PROVE  Cardinality(T) <= cap
<1>0. Cardinality(S) \in Nat
  BY FS_CardinalityType
<1>1. IsFiniteSet(S \union {r}) /\ Cardinality(S \union {r}) <= Cardinality(S) + 1
  <2>1. /\ IsFiniteSet(S \union {r})
        /\ Cardinality(S \union {r}) = IF r \in S THEN Cardinality(S) ELSE Cardinality(S) + 1
    BY FS_AddElement
  <2> QED
    BY <1>0, <2>1
<1>2. IsFiniteSet(T) /\ Cardinality(T) <= Cardinality(S \union {r})
  BY <1>1, FS_Subset
<1>3. Cardinality(T) \in Nat /\ Cardinality(S \union {r}) \in Nat
  BY <1>1, <1>2, FS_CardinalityType
<1> QED
  BY <1>0, <1>1, <1>2, <1>3

(* A claim adds its own row to what is counted today, and nothing else.    *)
LEMMA ClaimAddsItsRow ==
  ASSUME Inv, NEW r \in Rows,
         state' = [state EXCEPT ![r] = "sending"],
         lease' = [lease EXCEPT ![r] = now + SEND_LEASE],
         UNCHANGED <<approver, author, proposal, sent_at, now>>
  PROVE  /\ AutoToday' \subseteq AutoToday \union {r}
         /\ \A c : AiToday(c)' \subseteq AiToday(c) \union {r}
<1>1. \A q \in Rows : q # r => state'[q] = state[q] /\ wire_moment(q)' = wire_moment(q)
  BY DEF Inv, TypeOK, wire_moment
<1>2. on_wire_today' \subseteq on_wire_today \union {r}
  BY <1>1 DEF on_wire_today, on_wire, day_start
<1> QED
  BY <1>2 DEF AutoToday, AiToday, chat

(* Every hand-out, of whatever day, leaves the day within the caps that    *)
(* count its row, whatever was lost, in doubt or retried before.           *)
ClaimsKeepTheCaps ==
  [][\A r \in Rows : state[r] = "approved" /\ state'[r] = "sending" =>
       /\ approver[r] = AUTO_APPROVER => Cardinality(AutoToday)' <= AUTO_CAP
       /\ author[r] = AI => Cardinality(AiToday(chat(r)))' <= CHAT_CAP]_vars

LEMMA ClaimIsUnderTheCaps ==
  ASSUME Inv, CapsInv, [Next]_vars, NEW r \in Rows, state[r] = "approved", state'[r] = "sending"
  PROVE  /\ approver[r] = AUTO_APPROVER => Cardinality(AutoToday)' <= AUTO_CAP
         /\ author[r] = AI => Cardinality(AiToday(chat(r)))' <= CHAT_CAP
<1>1. PICK q \in Rows, f \in Facts :
        /\ state[q] = "approved" /\ decision(q, f).action = "send"
        /\ state' = [state EXCEPT ![q] = "sending"]
        /\ lease' = [lease EXCEPT ![q] = now + SEND_LEASE]
        /\ UNCHANGED <<approver, author, proposal, sent_at, now>>
  BY WireStep DEF WIRE_STATES
<1>2. q = r
  BY <1>1 DEF Inv, TypeOK
<1>3. /\ AutoToday' \subseteq AutoToday \union {r}
      /\ \A c : AiToday(c)' \subseteq AiToday(c) \union {r}
  BY <1>1, <1>2, ClaimAddsItsRow
<1>4. /\ approver[r] = AUTO_APPROVER => Cardinality(AutoToday) < AUTO_CAP
      /\ author[r] = AI => Cardinality(AiToday(chat(r))) < CHAT_CAP
  BY <1>1, <1>2, SentIsUnderTheCaps
<1>5. AUTO_CAP \in Nat /\ CHAT_CAP \in Nat
  BY OutboxAssumption
<1>6. AiToday(chat(r))' \subseteq AiToday(chat(r)) \union {r}
  <2>1. chat(r)' = chat(r)
    BY <1>1 DEF chat
  <2> QED
    BY <1>3, <2>1 DEF AiToday
<1> QED
  BY <1>3, <1>4, <1>5, <1>6, FiniteToday, OneMore

(* gate.caps_line on what caps.day_counts counts: no claim takes its day   *)
(* over a cap, after any sequence of lost reports, late answers, crashes   *)
(* and retries.                                                            *)
THEOREM HandOutsKeepTheCaps == Spec => ClaimsKeepTheCaps
<1>1. Inv /\ CapsInv /\ [Next]_vars =>
        \A r \in Rows : state[r] = "approved" /\ state'[r] = "sending" =>
          /\ approver[r] = AUTO_APPROVER => Cardinality(AutoToday)' <= AUTO_CAP
          /\ author[r] = AI => Cardinality(AiToday(chat(r)))' <= CHAT_CAP
  BY ClaimIsUnderTheCaps
<1> QED
  BY <1>1, CapsInvariance, PTL DEF Spec, ClaimsKeepTheCaps

(* A row claimed before midnight and recorded after it is counted on the   *)
(* new day, whose claims were not measured against it.  Within a day       *)
(* nothing moves.                                                          *)
OneDay == now < DAY
DayCaps ==
  /\ Cardinality(AutoToday) <= AUTO_CAP
  /\ \A c : Cardinality(AiToday(c)) <= CHAT_CAP

LEMMA AllToday ==
  ASSUME Inv, OneDay
  PROVE  on_wire_today = on_wire
<1>1. now \in Nat /\ DAY \in Nat \ {0}
  BY OutboxAssumption DEF Inv, TypeOK
<1>2. day_start(now) = 0
  BY <1>1 DEF OneDay, day_start
<1>3. \A r \in on_wire : wire_moment(r) \in 0..now
  BY WireMoments DEF Inv, on_wire
<1> QED
  BY <1>1, <1>2, <1>3 DEF on_wire_today

LEMMA NextDayCaps ==
  ASSUME Inv, CapsInv, DayCaps, OneDay, [Next]_vars, Inv', OneDay'
  PROVE  DayCaps'
<1>1. ASSUME NEW S, IsFiniteSet(S), NEW cap, Cardinality(S) <= cap, cap \in Nat, NEW T \in SUBSET S
      PROVE  Cardinality(T) <= cap
  <2>1. IsFiniteSet(T) /\ Cardinality(T) <= Cardinality(S)
    BY <1>1, FS_Subset
  <2>2. Cardinality(S) \in Nat /\ Cardinality(T) \in Nat
    BY <1>1, <2>1, FS_CardinalityType
  <2> QED
    BY <1>1, <2>1, <2>2
<1>2. AUTO_CAP \in Nat /\ CHAT_CAP \in Nat
  BY OutboxAssumption
<1>3. ASSUME NEW r \in Rows, NEW f \in Facts,
             state[r] = "approved", decision(r, f).action = "send",
             state' = [state EXCEPT ![r] = "sending"],
             lease' = [lease EXCEPT ![r] = now + SEND_LEASE],
             UNCHANGED <<approver, author, proposal, sent_at, now>>
      PROVE  DayCaps'
  <2>1. /\ AutoToday' \subseteq AutoToday \union {r}
        /\ \A c : AiToday(c)' \subseteq AiToday(c) \union {r}
    BY <1>3, ClaimAddsItsRow
  <2>2. /\ approver[r] = AUTO_APPROVER => Cardinality(AutoToday) < AUTO_CAP
        /\ author[r] = AI => Cardinality(AiToday(chat(r))) < CHAT_CAP
    BY <1>3, SentIsUnderTheCaps
  <2>3. Cardinality(AutoToday)' <= AUTO_CAP
    <3>1. CASE approver[r] = AUTO_APPROVER
      BY <1>2, <2>1, <2>2, <3>1, FiniteToday, OneMore
    <3>2. CASE approver[r] # AUTO_APPROVER
      <4>1. AutoToday' \subseteq AutoToday
        BY <1>3, <2>1, <3>2 DEF AutoToday
      <4> QED
        BY <1>1, <1>2, <4>1, FiniteToday DEF DayCaps
    <3> QED
      BY <3>1, <3>2
  <2>4. ASSUME NEW c
        PROVE  Cardinality(AiToday(c))' <= CHAT_CAP
    <3>1. AiToday(c)' \subseteq AiToday(c) \union {r}
      BY <2>1
    <3>2. CASE author[r] = AI /\ chat(r) = c
      BY <1>2, <2>2, <3>1, <3>2, FiniteToday, OneMore
    <3>3. CASE ~(author[r] = AI /\ chat(r) = c)
      <4>1. AiToday(c)' \subseteq AiToday(c)
        BY <1>3, <3>1, <3>3 DEF AiToday, chat
      <4> QED
        BY <1>1, <1>2, <4>1, FiniteToday DEF DayCaps
    <3> QED
      BY <3>2, <3>3
  <2> QED
    BY <2>3, <2>4 DEF DayCaps
<1>4. ASSUME \A r \in Rows : state'[r] \in WIRE_STATES =>
               state[r] \in WIRE_STATES /\ approver'[r] = approver[r]
      PROVE  DayCaps'
  <2>1. \A r \in on_wire' : /\ r \in on_wire
                            /\ approver'[r] = approver[r] /\ author'[r] = author[r]
                            /\ proposal'[r] = proposal[r]
    <3> SUFFICES ASSUME NEW r \in Rows, state'[r] \in WIRE_STATES
                 PROVE  /\ r \in on_wire
                        /\ approver'[r] = approver[r] /\ author'[r] = author[r]
                        /\ proposal'[r] = proposal[r]
      BY DEF on_wire
    <3>1. state[r] \in WIRE_STATES /\ approver'[r] = approver[r]
      BY <1>4
    <3>2. state[r] \notin {"draft", Absent}
      BY <3>1 DEF WIRE_STATES, Absent
    <3> QED
      BY <3>1, <3>2, NextKeepsText, NextKeepsIdentity DEF on_wire
  <2>2. on_wire_today = on_wire /\ on_wire_today' = on_wire'
    <3>1. (Inv /\ OneDay => on_wire_today = on_wire)'
      BY AllToday, PTL
    <3> QED
      BY <3>1, AllToday
  <2>3. AutoToday' \subseteq AutoToday /\ \A c : AiToday(c)' \subseteq AiToday(c)
    BY <2>1, <2>2 DEF AutoToday, AiToday, chat
  <2> QED
    BY <1>1, <1>2, <2>3, FiniteToday DEF DayCaps
<1> QED
  BY <1>3, <1>4, WireStep

(* caps.day_counts and gate.caps_line: within a day no sequence of claims, *)
(* lost reports, late answers and retries puts more rows on the wire than  *)
(* the caps allow.  Across midnight it is false, and HandOutsKeepTheCaps   *)
(* is what holds.                                                          *)
THEOREM CapsOfADay == Spec /\ []OneDay => []DailyCapsHold
<1>1. Init => DayCaps
  <2> SUFFICES ASSUME Init PROVE DayCaps
    OBVIOUS
  <2>1. AutoToday = {} /\ \A c : AiToday(c) = {}
    BY DEF Init, AutoToday, AiToday, on_wire_today, on_wire, WIRE_STATES, Absent
  <2> QED
    BY <2>1, FS_EmptySet, OutboxAssumption DEF DayCaps
<1>2. Inv /\ CapsInv /\ DayCaps /\ OneDay /\ [Next]_vars /\ Inv' /\ OneDay' => DayCaps'
  BY NextDayCaps
<1>3. DayCaps => DailyCapsHold
  <2>1. on_wire_today = {r \in Rows : state[r] \in {"sending", "sent", "unknown"}
                                        /\ wire_moment(r) >= day_start(now)}
    BY DEF on_wire_today, on_wire, WIRE_STATES
  <2> QED
    BY <2>1 DEF DayCaps, DailyCapsHold, AutoToday, AiToday
<1> QED
  BY <1>1, <1>2, <1>3, CapsInvariance, PTL DEF Spec


-----------------------------------------------------------------------------
(* The Telegram sender                                                     *)

Claims == [row : Rows, attempt : Nat, chat : Chats, body : Bodies, claimed_at : Nat]
Stages == {"down", "idle", "pacing", "wire", "readback", "refused"}
Holding == {"pacing", "wire", "readback", "refused"}
Verdict == [action : {"none", "requeue", "fail", "breaker"},
            until : OptTime, retry_at : OptTime, pause : Nat]
Sendings == [request : Claims \union {NoClaim}, row : Rows \union {NoRow},
             chat : Chats, body : Bodies, at : OptTime]

SenderTypes ==
  /\ pc \in Stages
  /\ IF pc \in Holding THEN cur \in Claims ELSE cur = NoClaim
  /\ verdict \in Verdict
  /\ pc = "refused" <=> verdict.action # "none"
  /\ resume_at \in OptTime
  /\ requests \subseteq Claims
  /\ chatlog \in [Messages -> Sendings]
  /\ \A m \in Messages : in_chat(m) =>
       /\ chatlog[m].at \in 0..now
       /\ IF chatlog[m].row = NoRow THEN chatlog[m].request = NoClaim
                                     ELSE chatlog[m].request \in requests

(* A row is on the wire, in the chat or with the sender only while the     *)
(* outbox says it may be; until it is sent, or is about to be refused,     *)
(* nothing of it is out.                                                   *)
Carried(r) == state[r] \in WIRE_STATES
RowsInv ==
  /\ pc \in Holding => Carried(cur.row)
  /\ \A q \in requests : Carried(q.row)
  /\ pc \in {"pacing", "refused"} => \A q \in requests : q.row # cur.row

(* One request for a row, one message for a request, with the row's words. *)
OfRow(q) == q.chat = chat(q.row) /\ q.body = body[q.row]
OnceInv ==
  /\ \A p, q \in requests : p.row = q.row => p = q
  /\ \A m \in Messages : in_chat(m) /\ chatlog[m].row # NoRow =>
       /\ chatlog[m].row = chatlog[m].request.row
       /\ chatlog[m].chat = chatlog[m].request.chat /\ chatlog[m].body = chatlog[m].request.body
  /\ \A m, n \in Messages :
       in_chat(m) /\ in_chat(n) /\ chatlog[m].row # NoRow /\ chatlog[m].request = chatlog[n].request
         => m = n
  /\ pc \in Holding => OfRow(cur)
  /\ \A q \in requests : OfRow(q)

(* What the reader stored is in the chat, and only sent rows, all of them, *)
(* have a message of their own.                                            *)
StoredInv ==
  /\ \A m \in Messages : echoes[m].stored =>
       in_chat(m) /\ echoes[m].chat = chatlog[m].chat /\ echoes[m].body = chatlog[m].body
  /\ \A m \in Messages : echoes[m].stored /\ echoes[m].tag \in Rows => state[echoes[m].tag] = "sent"
  /\ \A r \in Rows : external[r] # NoMessage <=> state[r] = "sent"

SenderInv ==
  Inv /\ SenderTypes /\ RowsInv /\ OnceInv /\ StoredInv /\ SentIsInTheChat

-----------------------------------------------------------------------------
(* What the others do to the outbox                                        *)

(* A row's move by anybody but the sender: into doubt, or among the states *)
(* in which nothing of it is out.                                          *)
Moves(r, to) ==
  /\ to \in TRANSITIONS[state[r]]
  /\ state' = [state EXCEPT ![r] = to]
QuietMove(r, to) ==
  /\ Moves(r, to)
  /\ \/ state[r] \in PENDING \union {Absent} /\ to \notin WIRE_STATES
     \/ state[r] = "sending" /\ to = "unknown"

LEMMA OthersMove ==
  ASSUME Inv, Others
  PROVE  \/ UNCHANGED <<external, echoes>>
            /\ (UNCHANGED state \/ \E r \in Rows : \E to : QuietMove(r, to))
         \/ \E r \in Rows : \E m \in found_echoes(r) : Sent(r, m, echoes[m].at) /\ Reconcile(r)
<1> USE DEF identity, text, approval, claim, report, outside, transition
<1>0. /\ state \in [Rows -> States \union {Absent}]
      /\ TRANSITIONS["absent"] = {"shadow", "draft", "approved", "blocked"}
  BY DEF Inv, TypeOK, WIRE_STATES, TRANSITIONS, Absent
<1>1. CASE Create
  <2>1. ASSUME NEW c \in Creators, NEW f \in Facts, NEW g \in GuardAnswers, CreateStore(c, f, g)
        PROVE  /\ UNCHANGED <<external, echoes>>
               /\ UNCHANGED state \/ \E r \in Rows : \E to : QuietMove(r, to)
    <3> DEFINE free == {q \in Rows : state[q] = Absent}
               new == initial_state(creating[c].proposal, f, g)
    <3>1. free # {} => lowest(free) \in free
      BY LowestIsLeast, OutboxAssumption
    <3>2. CASE free # {} /\ Insert(lowest(free), creating[c].proposal, creating[c].revision, new, g)
      <4>1. lowest(free) \in Rows /\ state[lowest(free)] = Absent
        BY <3>1, <3>2
      <4>2. Moves(lowest(free), new) /\ UNCHANGED external
        BY <3>2 DEF Insert, Moves
      <4>3. new \in {"shadow", "draft", "approved", "blocked"}
        BY <1>0, <4>1, <4>2 DEF Moves, Absent
      <4>4. QuietMove(lowest(free), new)
        BY <4>1, <4>2, <4>3 DEF QuietMove, WIRE_STATES
      <4>5. UNCHANGED echoes
        BY <2>1 DEF CreateStore
      <4> QED
        BY <4>1, <4>2, <4>4, <4>5
    <3>3. CASE UNCHANGED <<state, external, echoes>>
      BY <3>3
    <3> QED
      BY <2>1, <3>2, <3>3 DEF CreateStore
  <2> QED
    BY <1>1, <2>1 DEF Create, CreateLookup
<1>2. CASE OwnerDecides
  <2>1. PICK q \in Rows : \/ \E f \in Facts, g \in GuardAnswers : Approve(q, f, g)
                          \/ \E b \in OwnerTexts, g \in GuardAnswers : OwnerText(q, b, g)
                          \/ RecordWarning(q)
                          \/ Cancel(q)
    BY <1>2 DEF OwnerDecides
  <2>2. /\ UNCHANGED <<external, echoes>> /\ state[q] \in PENDING
        /\ UNCHANGED state \/ \E to \in {"expired", "blocked", "approved", "cancelled"} : Moves(q, to)
    BY <2>1 DEF Approve, ApproveInTime, Grant, OwnerText, RecordWarning, Cancel, Withdraw, PENDING, Moves
  <2> QED
    BY <2>2 DEF QuietMove, WIRE_STATES
<1>3. CASE ClientTakesBack
  <2>1. PICK q \in Rows, code \in REDRAFT_CODES : ExpireEdited(q, code)
    BY <1>3 DEF ClientTakesBack
  <2>2. state[q] \in PENDING /\ Moves(q, "expired") /\ UNCHANGED <<external, echoes>>
    BY <2>1 DEF ExpireEdited, Withdraw, Moves
  <2> QED
    BY <2>2 DEF QuietMove, WIRE_STATES
<1>4. CASE \E q \in Rows : Job(q)
  <2>1. PICK q \in Rows : Expire(q) \/ Reconcile(q) \/ TellUnknown(q)
    BY <1>4 DEF Job
  <2>2. CASE Expire(q)
    <3>1. state[q] \in PENDING /\ Moves(q, "expired") /\ UNCHANGED <<external, echoes>>
      BY <2>2 DEF Expire, due, Withdraw, Moves
    <3> QED
      BY <3>1 DEF QuietMove, WIRE_STATES
  <2>3. CASE Reconcile(q)
    BY <2>3 DEF Reconcile, InDoubt, QuietMove, Moves
  <2>4. CASE TellUnknown(q)
    BY <2>4 DEF TellUnknown
  <2> QED
    BY <2>1, <2>2, <2>3, <2>4
<1>5. CASE PolicyChanges \/ Tick
  BY <1>5 DEF PolicyChanges, OwnerPauses, OwnerResumes, OwnerSetsMode, Demote, TripBreaker, SetPolicies, Tick
<1> QED
  BY <1>1, <1>2, <1>3, <1>4, <1>5 DEF Others

LEMMA OthersAreOutboxSteps == Others => [Next]_vars
  BY DEF Others, Next

(* A carried row keeps its words and its chat.                             *)
LEMMA CarriedKeepsWords ==
  ASSUME Inv, [Next]_vars
  PROVE  \A r \in Rows : Carried(r) =>
           /\ proposal'[r] = proposal[r] /\ body'[r] = body[r]
<1> SUFFICES ASSUME NEW r \in Rows, Carried(r)
             PROVE  proposal'[r] = proposal[r] /\ body'[r] = body[r]
  OBVIOUS
<1>1. state[r] \notin {"draft", Absent}
  BY DEF Carried, WIRE_STATES, Absent
<1> QED
  BY <1>1, NextKeepsText, NextKeepsIdentity

(* Steps that end no row but move rows at most into doubt, and leave the   *)
(* sender and Telegram alone.                                              *)
LEMMA QuietSender ==
  ASSUME SenderInv, Inv', UNCHANGED sender_vars, UNCHANGED <<external, echoes>>, now <= now',
         \A r \in Rows : Carried(r) =>
           Carried(r)' /\ proposal'[r] = proposal[r] /\ body'[r] = body[r],
         \A r \in Rows : state'[r] = "sent" <=> state[r] = "sent"
  PROVE  SenderInv'
<1> USE DEF sender_vars, task, telegram
<1>1. now \in Nat /\ now' \in Nat
  BY OutboxAssumption DEF SenderInv, Inv, TypeOK
<1>2. SenderTypes'
  BY <1>1 DEF SenderInv, SenderTypes, in_chat, OptTime, Time
<1>3. /\ pc \in Holding => cur.row \in Rows
      /\ \A q \in requests : q.row \in Rows
  BY DEF SenderInv, SenderTypes, Claims
<1>4. RowsInv'
  BY <1>3 DEF SenderInv, RowsInv
<1>5. OnceInv'
  BY <1>3 DEF SenderInv, OnceInv, RowsInv, OfRow, in_chat, chat
<1>6. StoredInv'
  BY DEF SenderInv, StoredInv, in_chat
<1>7. SentIsInTheChat'
  BY DEF SenderInv, SentIsInTheChat, in_chat, chat, Carried, WIRE_STATES
<1> QED
  BY <1>2, <1>4, <1>5, <1>6, <1>7 DEF SenderInv

(* A message of the row's chat with the row's words is taken for the row.  *)
Fits(r, m) == in_chat(m) /\ chatlog[m].chat = chat(r) /\ chatlog[m].body = body[r]

LEMMA SentSender ==
  ASSUME SenderInv, Inv', UNCHANGED telegram, NEW r \in Rows, NEW m \in Messages, NEW at,
         state[r] \in {"sending", "unknown"}, Sent(r, m, at), Fits(r, m)
  PROVE  /\ StoredInv' /\ SentIsInTheChat'
         /\ \A q \in Rows : Carried(q) => Carried(q)' /\ chat(q)' = chat(q) /\ body'[q] = body[q]
         /\ UNCHANGED now
<1>1. /\ state \in [Rows -> States \union {Absent}] /\ external \in [Rows -> Messages \union {NoMessage}]
      /\ echoes \in [Messages -> Echoes]
  BY DEF SenderInv, Inv, TypeOK
<1>2. /\ state' = [state EXCEPT ![r] = "sent"] /\ external' = [external EXCEPT ![r] = m]
      /\ echoes' = [echoes EXCEPT ![m] = echo_of(m, r)] /\ UNCHANGED <<proposal, body, chatlog, now>>
  BY DEF Sent, transition, tagged, identity, text, telegram
<1>3. /\ echo_of(m, r).stored /\ echo_of(m, r).tag = r /\ echo_of(m, r).chat = chat(r)
      /\ echo_of(m, r).body = IF echoes[m].stored THEN echoes[m].body ELSE body[r]
  BY DEF echo_of
<1>4. StoredInv'
  <2>1. \A n \in Messages : echoes'[n] = IF n = m THEN echo_of(m, r) ELSE echoes[n]
    BY <1>1, <1>2
  <2>2. \A q \in Rows : /\ state'[q] = IF q = r THEN "sent" ELSE state[q]
                        /\ external'[q] = IF q = r THEN m ELSE external[q]
    BY <1>1, <1>2
  <2>3. \A n \in Messages : echoes'[n].stored =>
          in_chat(n) /\ echoes'[n].chat = chatlog[n].chat /\ echoes'[n].body = chatlog[n].body
    BY <1>3, <2>1 DEF SenderInv, StoredInv, Fits
  <2>4. \A n \in Messages : echoes'[n].stored /\ echoes'[n].tag \in Rows => state'[echoes'[n].tag] = "sent"
    BY <1>3, <2>1, <2>2 DEF SenderInv, StoredInv
  <2>5. \A q \in Rows : external'[q] # NoMessage <=> state'[q] = "sent"
    BY <2>2, OutboxAssumption DEF SenderInv, StoredInv
  <2> QED
    BY <1>2, <2>3, <2>4, <2>5 DEF StoredInv, in_chat
<1>5. SentIsInTheChat'
  BY <1>1, <1>2 DEF SenderInv, SentIsInTheChat, Fits, in_chat, chat
<1>6. \A q \in Rows : Carried(q) => Carried(q)' /\ chat(q)' = chat(q) /\ body'[q] = body[q]
  BY <1>1, <1>2 DEF Carried, WIRE_STATES, chat
<1> QED
  BY <1>2, <1>4, <1>5, <1>6

(* What reconcile finds is the row's words, in the row's chat.             *)
LEMMA FoundFits ==
  ASSUME SenderInv, NEW r \in Rows, state[r] = "sending", NEW m \in found_echoes(r)
  PROVE  m \in Messages /\ Fits(r, m)
<1> DEFINE own == {n \in Messages : echoes[n].stored /\ echoes[n].tag = r}
<1>1. own = {}
  BY DEF SenderInv, StoredInv
<1>2. /\ m \in Messages /\ echoes[m].stored
      /\ echoes[m].chat = chat(r) /\ echoes[m].body = body[r]
  BY <1>1 DEF found_echoes
<1> QED
  BY <1>2 DEF SenderInv, StoredInv, Fits

LEMMA OthersSender ==
  ASSUME SenderInv, Others
  PROVE  SenderInv'
<1>1. [Next]_vars /\ UNCHANGED sender_vars
  BY OthersAreOutboxSteps DEF Others
<1>2. Inv'
  BY <1>1, NextInv DEF SenderInv
<1>3. \A r \in Rows : Carried(r) => proposal'[r] = proposal[r] /\ body'[r] = body[r]
  BY <1>1, CarriedKeepsWords DEF SenderInv
<1>4. state \in [Rows -> States \union {Absent}]
  BY DEF SenderInv, Inv, TypeOK
<1>5. now <= now'
  <2>1. now \in Nat
    BY OutboxAssumption DEF SenderInv, Inv, TypeOK
  <2>2. now' = now \/ now' = now + 1
    BY DEF Others, Create, CreateLookup, CreateStore, OwnerDecides, Approve, OwnerText, RecordWarning,
       Cancel, Withdraw, ClientTakesBack, ExpireEdited, Job, Expire, Reconcile, Sent, InDoubt, TellUnknown,
       PolicyChanges, OwnerPauses, OwnerResumes, OwnerSetsMode, Demote, TripBreaker, SetPolicies, Tick,
       outside
  <2> QED
    BY <2>1, <2>2
<1>6. CASE UNCHANGED <<external, echoes>> /\ UNCHANGED state
  BY <1>1, <1>2, <1>3, <1>5, <1>6, QuietSender DEF Carried
<1>7. ASSUME UNCHANGED <<external, echoes>>, NEW r \in Rows, NEW to, QuietMove(r, to)
      PROVE  SenderInv'
  <2>1. \A q \in Rows : Carried(q) => Carried(q)'
    BY <1>4, <1>7 DEF Carried, QuietMove, Moves, WIRE_STATES, PENDING, Absent
  <2>2. \A q \in Rows : state'[q] = "sent" <=> state[q] = "sent"
    BY <1>4, <1>7 DEF QuietMove, Moves, WIRE_STATES, PENDING, Absent
  <2> QED
    BY <1>1, <1>2, <1>3, <1>5, <1>7, <2>1, <2>2, QuietSender
<1>8. ASSUME NEW r \in Rows, NEW m \in found_echoes(r), Sent(r, m, echoes[m].at), Reconcile(r)
      PROVE  SenderInv'
  <2> USE <1>1 DEF sender_vars, task, telegram
  <2>1. state[r] = "sending"
    BY <1>8 DEF Reconcile
  <2>2. m \in Messages /\ Fits(r, m)
    BY <1>8, <2>1, FoundFits
  <2>3. /\ StoredInv' /\ SentIsInTheChat' /\ UNCHANGED now
        /\ \A q \in Rows : Carried(q) => Carried(q)' /\ chat(q)' = chat(q) /\ body'[q] = body[q]
    BY <1>2, <1>8, <2>1, <2>2, SentSender
  <2>4. /\ pc \in Holding => cur.row \in Rows
        /\ \A q \in requests : q.row \in Rows
    BY DEF SenderInv, SenderTypes, Claims
  <2>5. SenderTypes'
    BY <2>3 DEF SenderInv, SenderTypes, in_chat
  <2>6. RowsInv'
    BY <2>3, <2>4 DEF SenderInv, RowsInv
  <2>7. OnceInv'
    BY <2>3, <2>4 DEF SenderInv, OnceInv, RowsInv, OfRow, in_chat
  <2> QED
    BY <1>2, <2>3, <2>5, <2>6, <2>7 DEF SenderInv
<1> QED
  BY <1>6, <1>7, <1>8, OthersMove DEF SenderInv

-----------------------------------------------------------------------------
(* The sender's own steps                                                  *)

LEMMA InitSender == SenderInit => SenderInv
<1> SUFFICES ASSUME SenderInit PROVE SenderInv
  OBVIOUS
<1>1. Inv
  BY InitInv DEF SenderInit
<1>2. Nothing \in Sendings /\ Nothing.at = NoTime
  BY NoTextIsTyped DEF Nothing, Sendings, OptTime
<1>3. chatlog \in [Messages -> Sendings] /\ \A m \in Messages : ~in_chat(m)
  BY <1>2 DEF SenderInit, in_chat
<1>4. SenderTypes
  BY <1>3 DEF SenderInit, SenderTypes, Stages, Holding, NoVerdict, Verdict, OptTime
<1>5. RowsInv /\ OnceInv
  BY <1>3 DEF SenderInit, RowsInv, OnceInv, Holding
<1>6. /\ \A r \in Rows : state[r] = Absent /\ external[r] = NoMessage
      /\ \A m \in Messages : ~echoes[m].stored
  BY DEF SenderInit, Init, NoEcho
<1>7. StoredInv /\ SentIsInTheChat
  BY <1>6 DEF StoredInv, SentIsInTheChat, Absent
<1> QED
  BY <1>1, <1>4, <1>5, <1>7 DEF SenderInv

LEMMA NoClaimIsNone == NoClaim \notin Claims
  BY OutboxAssumption DEF NoClaim, Claims, NoRow

(* The sender lets the row go: nothing new is out, and what was out is     *)
(* still carried.                                                          *)
LEMMA LetGo ==
  ASSUME SenderInv, Inv', UNCHANGED telegram, now = now', StoredInv', SentIsInTheChat',
         pc' \in {"down", "idle"}, cur' = NoClaim, verdict' \in Verdict, verdict'.action = "none",
         resume_at' \in OptTime,
         \A q \in requests : Carried(q.row)' /\ chat(q.row)' = chat(q.row) /\ body'[q.row] = body[q.row]
  PROVE  SenderInv'
<1> USE DEF telegram
<1>1. SenderTypes'
  BY DEF SenderInv, SenderTypes, Stages, Holding, in_chat
<1>2. RowsInv'
  BY DEF SenderInv, RowsInv, Holding
<1>3. OnceInv'
  BY DEF SenderInv, OnceInv, Holding, OfRow, in_chat
<1> QED
  BY <1>1, <1>2, <1>3 DEF SenderInv

(* The outbox is left alone.                                               *)
LEMMA OutboxAlone ==
  ASSUME SenderInv, UNCHANGED vars
  PROVE  /\ Inv' /\ now' = now
         /\ UNCHANGED chatlog => StoredInv' /\ SentIsInTheChat'
         /\ \A r : Carried(r)' = Carried(r) /\ chat(r)' = chat(r) /\ body'[r] = body[r]
<1> USE DEF vars, identity, text, report, outside
<1>1. Inv'
  BY NextInv DEF SenderInv
<1>2. UNCHANGED chatlog => StoredInv' /\ SentIsInTheChat'
  BY DEF SenderInv, StoredInv, SentIsInTheChat, in_chat, chat
<1>3. \A r : Carried(r)' = Carried(r) /\ chat(r)' = chat(r) /\ body'[r] = body[r]
  BY DEF Carried, chat
<1> QED
  BY <1>1, <1>2, <1>3

(* A row that is not out goes back to the queue, or over.                  *)
LEMMA FailKeeps ==
  ASSUME SenderInv, NEW r \in Rows, NEW at \in OptTime, Fail(r, at), UNCHANGED telegram,
         \A q \in requests : q.row # r
  PROVE  /\ Inv' /\ now' = now /\ StoredInv' /\ SentIsInTheChat'
         /\ \A q \in requests : /\ Carried(q.row)' /\ chat(q.row)' = chat(q.row)
                                 /\ body'[q.row] = body[q.row]
<1> USE DEF Fail, transition, identity, text, report, outside, telegram
<1>1. Inv'
  BY FailInv DEF SenderInv
<1>2. /\ state \in [Rows -> States \union {Absent}] /\ state[r] # "sent"
      /\ \E to \in {"approved", "failed"} : state' = [state EXCEPT ![r] = to]
      /\ UNCHANGED <<proposal, body, external, echoes, chatlog, now>>
  BY DEF SenderInv, Inv, TypeOK
<1>3. /\ \A q \in Rows : q # r => state'[q] = state[q]
      /\ \A q \in Rows : state'[q] = "sent" <=> state[q] = "sent"
  BY <1>2
<1>4. StoredInv' /\ SentIsInTheChat'
  BY <1>2, <1>3 DEF SenderInv, StoredInv, SentIsInTheChat, in_chat, chat
<1>5. \A q \in requests : Carried(q.row)'
  BY <1>3 DEF SenderInv, SenderTypes, RowsInv, Carried, Claims
<1>6. now' = now /\ \A q \in requests : chat(q.row)' = chat(q.row) /\ body'[q.row] = body[q.row]
  BY <1>2 DEF chat
<1> QED
  BY <1>1, <1>4, <1>5, <1>6

LEMMA HeldRowIsTyped ==
  ASSUME SenderInv, pc \in Holding
  PROVE  /\ cur \in Claims /\ cur.row \in Rows
         /\ now \in Nat /\ verdict.retry_at \in OptTime
  BY OutboxAssumption DEF SenderInv, SenderTypes, Claims, Verdict, Inv, TypeOK

LEMMA StartSender ==
  ASSUME SenderInv, Start
  PROVE  SenderInv'
<1>1. UNCHANGED vars /\ UNCHANGED telegram /\ UNCHANGED <<cur, verdict, resume_at>> /\ pc' = "idle" /\ pc = "down"
  BY DEF Start
<1>2. cur = NoClaim /\ verdict \in Verdict /\ verdict.action = "none" /\ resume_at \in OptTime
  BY <1>1 DEF SenderInv, SenderTypes, Holding
<1>3. \A q \in requests : Carried(q.row)
  BY DEF SenderInv, RowsInv
<1> QED
  BY <1>1, <1>2, <1>3, OutboxAlone, LetGo DEF telegram

LEMMA CrashSender ==
  ASSUME SenderInv, Crash
  PROVE  SenderInv'
<1>1. UNCHANGED vars /\ UNCHANGED telegram
  BY DEF Crash, Gone
<1>2. /\ pc' = "down" /\ cur' = NoClaim /\ verdict' \in Verdict
      /\ verdict'.action = "none" /\ resume_at' \in OptTime
  BY DEF Crash, Gone, NoVerdict, Verdict, OptTime
<1>3. \A q \in requests : Carried(q.row)
  BY DEF SenderInv, RowsInv
<1> QED
  BY <1>1, <1>2, <1>3, OutboxAlone, LetGo DEF telegram

LEMMA InterruptedSender ==
  ASSUME SenderInv, Interrupted
  PROVE  SenderInv'
<1>1. UNCHANGED telegram /\ pc = "pacing" /\ Fail(cur.row, now)
  BY DEF Interrupted, Gone
<1>2. /\ pc' = "down" /\ cur' = NoClaim /\ verdict' \in Verdict
      /\ verdict'.action = "none" /\ resume_at' \in OptTime
  BY DEF Interrupted, Gone, NoVerdict, Verdict, OptTime
<1>3. cur.row \in Rows /\ now \in OptTime
  BY <1>1, HeldRowIsTyped DEF Holding, OptTime, Time
<1>4. \A q \in requests : q.row # cur.row
  BY <1>1 DEF SenderInv, RowsInv
<1> QED
  BY <1>1, <1>2, <1>3, <1>4, FailKeeps, LetGo

LEMMA SettleSender ==
  ASSUME SenderInv, Settle
  PROVE  SenderInv'
<1>1. UNCHANGED telegram /\ pc = "refused" /\ pc \in Holding
  BY DEF Settle, Left, Holding
<1>2. cur.row \in Rows /\ now \in Nat /\ verdict.retry_at \in OptTime
  BY <1>1, HeldRowIsTyped
<1>3. resume_at' \in OptTime
  BY <1>2 DEF Settle, max2, SenderInv, SenderTypes, Verdict, OptTime, Time
<1>4. pc' = "idle" /\ cur' = NoClaim /\ verdict' \in Verdict /\ verdict'.action = "none"
  BY DEF Settle, Left, NoVerdict, Verdict, OptTime
<1>5. /\ \A q \in requests : q.row # cur.row
      /\ \A q \in requests : Carried(q.row)
  BY <1>1 DEF SenderInv, RowsInv
<1>6. CASE Fail(cur.row, verdict.retry_at)
  BY <1>1, <1>2, <1>3, <1>4, <1>5, <1>6, FailKeeps, LetGo
<1>7. CASE UNCHANGED vars
  BY <1>1, <1>3, <1>4, <1>5, <1>7, OutboxAlone, LetGo DEF telegram
<1> QED
  BY <1>6, <1>7 DEF Settle

(* A claim: the row that is handed out had nothing out, and its words are  *)
(* the request's; any other decision leaves the row off the wire.          *)
LEMMA ClaimMove ==
  ASSUME SenderInv, NEW r \in Rows, NEW f \in Facts, ClaimReady(r, f)
  PROVE  /\ state[r] = "approved" /\ Inv'
         /\ UNCHANGED <<proposal, body, external, echoes, now>>
         /\ IF hands_out(r, f)
              THEN state' = [state EXCEPT ![r] = "sending"] /\ attempts'[r] = attempts[r] + 1
              ELSE \/ UNCHANGED state
                   \/ \E to \in {"draft", "blocked", "expired", "cancelled"} : Moves(r, to)
<1> USE DEF identity, text, report, outside
<1>1. state[r] = "approved"
  BY FirstReadyIsReady DEF ClaimReady, ready, SenderInv
<1>2. Inv'
  BY <1>1, ClaimReadyInv DEF SenderInv
<1>3. UNCHANGED <<proposal, body, external, echoes, now>>
  BY DEF ClaimReady, HoldAfterError, Apply
<1>4. attempts \in [Rows -> 0..MAX_ATTEMPTS]
  BY DEF SenderInv, Inv, TypeOK
<1>5. CASE hands_out(r, f)
  BY <1>1, <1>2, <1>3, <1>4, <1>5 DEF hands_out, ClaimReady, Apply, transition
<1>6. CASE ~hands_out(r, f)
  <2>1. CASE f.raises
    BY <1>1, <1>2, <1>3, <1>6, <2>1 DEF ClaimReady, HoldAfterError
  <2>2. CASE ~f.raises
    <3>1. Apply(r, decision(r, f), f) /\ decision(r, f).action # "send"
      BY <1>6, <2>2 DEF hands_out, ClaimReady
    <3> DEFINE d == decision(r, f)
    <3>2. CASE d.action = "hold"
      BY <1>1, <1>2, <1>3, <1>6, <3>1, <3>2 DEF Apply
    <3>3. CASE d.action = "redraft"
      BY <1>1, <1>2, <1>3, <1>6, <3>1, <3>3 DEF Apply, transition, Moves
    <3>4. CASE d.action \in {"block", "expire", "cancel"}
      <4>1. PICK to \in {"blocked", "expired", "cancelled"} : transition(r, to, d.code)
        BY <3>1, <3>4 DEF Apply
      <4> QED
        BY <1>1, <1>2, <1>3, <1>6, <4>1 DEF transition, Moves
    <3> QED
      BY <3>1, <3>2, <3>3, <3>4 DEF Apply
  <2> QED
    BY <2>1, <2>2
<1> QED
  BY <1>5, <1>6

LEMMA ClaimSender ==
  ASSUME SenderInv, NEW f \in Facts, Claim(f)
  PROVE  SenderInv'
<1>1. PICK r \in Rows :
        /\ ClaimReady(r, f)
        /\ IF hands_out(r, f)
             THEN /\ pc' = "pacing"
                  /\ cur' = [row |-> r, attempt |-> attempts'[r], chat |-> chat(r),
                             body |-> body[r], claimed_at |-> now]
             ELSE UNCHANGED <<pc, cur>>
  BY DEF Claim
<1>2. pc = "idle" /\ UNCHANGED <<verdict, resume_at, requests, chatlog>>
  BY DEF Claim, telegram
<1>3. /\ state \in [Rows -> States \union {Absent}] /\ attempts[r] \in Nat /\ now \in Nat
      /\ chat(r) \in Chats /\ body[r] \in Bodies
  BY OutboxAssumption DEF SenderInv, Inv, TypeOK, Chats, chat
<1>4. /\ state[r] = "approved" /\ Inv'
      /\ UNCHANGED <<proposal, body, external, echoes, now>>
      /\ IF hands_out(r, f)
           THEN state' = [state EXCEPT ![r] = "sending"] /\ attempts'[r] = attempts[r] + 1
           ELSE \/ UNCHANGED state
                \/ \E to \in {"draft", "blocked", "expired", "cancelled"} : Moves(r, to)
  BY <1>1, ClaimMove
<1>5. /\ \A q \in Rows : q # r => state'[q] = state[q]
      /\ state'[r] # "sent"
      /\ hands_out(r, f) => state'[r] = "sending"
  BY <1>3, <1>4 DEF Moves
<1>6. \A q \in requests : q.row \in Rows /\ q.row # r /\ Carried(q.row)
  BY <1>4 DEF SenderInv, SenderTypes, RowsInv, Claims, Carried, WIRE_STATES
<1>7. StoredInv' /\ SentIsInTheChat'
  BY <1>2, <1>4, <1>5 DEF SenderInv, StoredInv, SentIsInTheChat, in_chat, chat
<1>8. /\ pc' \in Stages
      /\ IF pc' \in Holding THEN cur' \in Claims /\ pc' = "pacing" /\ cur'.row = r
                               /\ cur'.chat = chat(r) /\ cur'.body = body[r] /\ hands_out(r, f)
                            ELSE cur' = NoClaim
      /\ pc' # "refused" /\ verdict.action = "none"
  <2>1. CASE hands_out(r, f)
    <3>1. attempts'[r] \in Nat
      BY <1>3, <1>4, <2>1
    <3>2. [row |-> r, attempt |-> attempts'[r], chat |-> chat(r), body |-> body[r], claimed_at |-> now] \in Claims
      BY <1>3, <3>1 DEF Claims
    <3> QED
      BY <1>1, <1>2, <2>1, <3>2 DEF SenderInv, SenderTypes, Stages, Holding
  <2>2. CASE ~hands_out(r, f)
    BY <1>1, <1>2, <2>2 DEF SenderInv, SenderTypes, Stages, Holding
  <2> QED
    BY <2>1, <2>2
<1>9. SenderTypes'
  BY <1>2, <1>4, <1>8 DEF SenderInv, SenderTypes, in_chat
<1>10. RowsInv'
  BY <1>2, <1>5, <1>6, <1>8 DEF RowsInv, Carried, WIRE_STATES, Holding
<1>11. OnceInv'
  BY <1>2, <1>4, <1>8 DEF SenderInv, OnceInv, OfRow, in_chat, chat
<1> QED
  BY <1>4, <1>7, <1>9, <1>10, <1>11 DEF SenderInv

LEMMA SendRequestSender ==
  ASSUME SenderInv, SendRequest
  PROVE  SenderInv'
<1> USE DEF SendRequest
<1>1. UNCHANGED vars /\ UNCHANGED chatlog /\ pc \in Holding /\ pc' \in Holding
  BY DEF Holding
<1>2. /\ Inv' /\ now' = now /\ StoredInv' /\ SentIsInTheChat'
      /\ \A r : Carried(r)' = Carried(r) /\ chat(r)' = chat(r) /\ body'[r] = body[r]
  BY <1>1, OutboxAlone
<1>3. cur \in Claims
  BY <1>1, HeldRowIsTyped
<1>4. SenderTypes'
  BY <1>1, <1>2, <1>3 DEF SenderInv, SenderTypes, Stages, Holding, in_chat
<1>5. RowsInv'
  BY <1>1, <1>2 DEF SenderInv, RowsInv
<1>6. OnceInv'
  BY <1>1, <1>2 DEF SenderInv, OnceInv, RowsInv, OfRow, in_chat
<1> QED
  BY <1>2, <1>4, <1>5, <1>6 DEF SenderInv

(* The request may be out or not: neither the outbox nor Telegram changes. *)
LEMMA StageSender ==
  ASSUME SenderInv, UNCHANGED vars, UNCHANGED telegram, UNCHANGED <<cur, resume_at>>,
         pc \in Holding, pc' \in Holding, verdict' \in Verdict,
         pc' = "refused" <=> verdict'.action # "none",
         pc' \in {"pacing", "refused"} => pc \in {"pacing", "refused"}
  PROVE  SenderInv'
<1> USE DEF telegram
<1>1. /\ Inv' /\ now' = now /\ StoredInv' /\ SentIsInTheChat'
      /\ \A r : Carried(r)' = Carried(r) /\ chat(r)' = chat(r) /\ body'[r] = body[r]
  BY OutboxAlone
<1>2. SenderTypes'
  BY <1>1 DEF SenderInv, SenderTypes, Stages, Holding, in_chat
<1>3. RowsInv'
  BY <1>1 DEF SenderInv, RowsInv
<1>4. OnceInv'
  BY <1>1 DEF SenderInv, OnceInv, OfRow, in_chat
<1> QED
  BY <1>1, <1>2, <1>3, <1>4 DEF SenderInv

LEMMA VerdictsAreTyped ==
  ASSUME now \in Nat, NEW v \in Verdicts
  PROVE  v \in Verdict /\ v.action # "none"
  BY SenderAssumption, OutboxAssumption
     DEF Verdicts, flood, connection, permanent, limits, limit, NoVerdict, Verdict, OptTime, Time

LEMMA OutcomeUnclearSender ==
  ASSUME SenderInv, OutcomeUnclear
  PROVE  SenderInv'
<1>1. pc \in Holding /\ pc' \in Holding /\ verdict' \in Verdict /\ verdict'.action = "none"
  BY DEF OutcomeUnclear, SenderInv, SenderTypes, Holding
<1> QED
  BY <1>1, StageSender DEF OutcomeUnclear

LEMMA PacingRefusedSender ==
  ASSUME SenderInv, NEW v \in Verdicts, PacingRefused(v)
  PROVE  SenderInv'
<1>1. pc \in Holding /\ pc' \in Holding /\ pc' = "refused" /\ pc = "pacing"
  BY DEF PacingRefused, Refused, Holding
<1>2. verdict' \in Verdict /\ verdict'.action # "none"
  BY <1>1, HeldRowIsTyped, VerdictsAreTyped DEF PacingRefused, Refused
<1>3. UNCHANGED vars /\ UNCHANGED telegram /\ UNCHANGED <<cur, resume_at>>
  BY DEF PacingRefused, Refused, telegram
<1> QED
  BY <1>1, <1>2, <1>3, StageSender

LEMMA RequestRefusedSender ==
  ASSUME SenderInv, NEW v \in Verdicts, RequestRefused(v)
  PROVE  SenderInv'
<1>1. /\ pc = "wire" /\ pc' = "refused" /\ pc \in Holding /\ pc' \in Holding
      /\ cur \in requests /\ ~accepted(cur) /\ requests' = requests \ {cur}
      /\ verdict' = v /\ UNCHANGED vars /\ UNCHANGED <<cur, resume_at, chatlog>>
  BY DEF RequestRefused, Refused, Holding
<1>2. /\ Inv' /\ now' = now /\ StoredInv' /\ SentIsInTheChat'
      /\ \A r : Carried(r)' = Carried(r) /\ chat(r)' = chat(r) /\ body'[r] = body[r]
  BY <1>1, OutboxAlone
<1>3. verdict' \in Verdict /\ verdict'.action # "none"
  BY <1>1, HeldRowIsTyped, VerdictsAreTyped
<1>4. SenderTypes'
  BY <1>1, <1>2, <1>3 DEF SenderInv, SenderTypes, Stages, Holding, in_chat, accepted
<1>5. RowsInv'
  BY <1>1, <1>2 DEF SenderInv, RowsInv, OnceInv
<1>6. OnceInv'
  BY <1>1, <1>2 DEF SenderInv, OnceInv, OfRow, in_chat
<1> QED
  BY <1>2, <1>4, <1>5, <1>6 DEF SenderInv

(* The report: a message of the chat with the row's words is the row's.    *)
LEMMA FinishSender ==
  ASSUME SenderInv, pc \in {"wire", "readback"}, NEW m \in Messages, Fits(cur.row, m), Finish(m)
  PROVE  SenderInv'
<1>1. UNCHANGED telegram /\ cur.row \in Rows /\ now \in Nat
  BY HeldRowIsTyped DEF Finish, Left, Holding
<1>2. pc' = "idle" /\ cur' = NoClaim /\ verdict' \in Verdict /\ verdict'.action = "none"
  BY DEF Finish, Left, NoVerdict, Verdict, OptTime
<1>3. resume_at' \in OptTime
  BY DEF Finish, SenderInv, SenderTypes
<1>4. \A q \in requests : q.row \in Rows /\ Carried(q.row)
  BY DEF SenderInv, SenderTypes, RowsInv, Claims
<1>5. CASE Complete(cur.row, m)
  <2>1. Inv'
    BY <1>1, <1>5, CompleteInv DEF SenderInv
  <2>2. state[cur.row] \in {"sending", "unknown"} /\ Sent(cur.row, m, now)
    BY <1>5 DEF Complete
  <2>3. /\ StoredInv' /\ SentIsInTheChat' /\ UNCHANGED now
        /\ \A q \in Rows : Carried(q) => Carried(q)' /\ chat(q)' = chat(q) /\ body'[q] = body[q]
    BY <1>1, <2>1, <2>2, SentSender
  <2> QED
    BY <1>1, <1>2, <1>3, <1>4, <2>1, <2>3, LetGo
<1>6. CASE UNCHANGED vars
  BY <1>1, <1>2, <1>3, <1>4, <1>6, OutboxAlone, LetGo DEF telegram
<1> QED
  BY <1>5, <1>6 DEF Finish

LEMMA AnsweredSender ==
  ASSUME SenderInv, Answered
  PROVE  SenderInv'
<1>1. PICK m \in Messages : in_chat(m) /\ chatlog[m].request = cur /\ Finish(m)
  BY DEF Answered
<1>2. pc = "wire" /\ pc \in Holding
  BY DEF Answered, Holding
<1>3. cur \in Claims /\ OfRow(cur)
  BY <1>2, HeldRowIsTyped DEF SenderInv, OnceInv
<1>4. chatlog[m].row # NoRow
  BY <1>1, <1>3, NoClaimIsNone DEF SenderInv, SenderTypes
<1>5. Fits(cur.row, m)
  BY <1>1, <1>3, <1>4 DEF SenderInv, OnceInv, OfRow, Fits
<1> QED
  BY <1>1, <1>2, <1>5, FinishSender

LEMMA ReadBackSender ==
  ASSUME SenderInv, ReadBack
  PROVE  SenderInv'
<1>1. pc = "readback" /\ pc \in Holding
  BY DEF ReadBack, Holding
<1>2. OfRow(cur)
  BY <1>1 DEF SenderInv, OnceInv
<1>3. CASE \E m \in read_back : Finish(m)
  <2>1. PICK m \in read_back : Finish(m)
    BY <1>3
  <2>2. m \in Messages /\ Fits(cur.row, m)
    BY <1>2 DEF read_back, Fits, OfRow
  <2> QED
    BY <1>1, <2>1, <2>2, FinishSender
<1>4. CASE Left /\ UNCHANGED <<vars, resume_at>>
  <2>1. pc' = "idle" /\ cur' = NoClaim /\ verdict' \in Verdict /\ verdict'.action = "none"
    BY <1>4 DEF Left, NoVerdict, Verdict, OptTime
  <2>2. resume_at' \in OptTime /\ UNCHANGED telegram
    BY <1>4 DEF SenderInv, SenderTypes, Left
  <2>3. \A q \in requests : Carried(q.row)
    BY DEF SenderInv, RowsInv
  <2> QED
    BY <1>4, <2>1, <2>2, <2>3, OutboxAlone, LetGo DEF telegram
<1> QED
  BY <1>3, <1>4 DEF ReadBack

(* The breaker is the policy's: the rows are left alone.                   *)
LEMMA RecordBreakerSender ==
  ASSUME SenderInv, RecordBreaker
  PROVE  SenderInv'
<1> USE DEF telegram
<1>1. /\ pc = "refused" /\ pc \in Holding /\ UNCHANGED <<pc, cur, resume_at, requests, chatlog>>
  BY DEF RecordBreaker, Holding
<1>2. verdict' \in Verdict /\ verdict'.action # "none"
  <2>1. verdict \in Verdict
    BY DEF SenderInv, SenderTypes
  <2>2. \E k \in Nat : verdict' = [verdict EXCEPT !.action = "requeue", !.pause = k]
    BY OutboxAssumption, SenderAssumption DEF RecordBreaker
  <2> QED
    BY <2>1, <2>2 DEF Verdict
<1>3. CASE TripBreaker(verdict.until)
  <2>1. verdict.until \in OptTime /\ policies \in [Scopes -> PolicyRow]
    BY DEF SenderInv, SenderTypes, Verdict, Inv, TypeOK
  <2>2. Inv'
    BY <1>3, <2>1, TrippedIsTyped, SetPoliciesInv DEF TripBreaker, SenderInv
  <2>3. UNCHANGED <<state, proposal, body, external, echoes, now>>
    BY <1>3 DEF TripBreaker, SetPolicies, identity, text, report
  <2>4. SenderTypes'
    BY <1>1, <1>2, <2>3 DEF SenderInv, SenderTypes, in_chat
  <2>5. RowsInv' /\ StoredInv' /\ SentIsInTheChat'
    BY <1>1, <2>3 DEF SenderInv, RowsInv, StoredInv, SentIsInTheChat, Carried, in_chat, chat
  <2>6. OnceInv'
    BY <1>1, <2>3 DEF SenderInv, OnceInv, OfRow, in_chat, chat
  <2> QED
    BY <2>2, <2>4, <2>5, <2>6 DEF SenderInv
<1>4. CASE UNCHANGED vars
  BY <1>1, <1>2, <1>4, StageSender
<1> QED
  BY <1>3, <1>4 DEF RecordBreaker
-----------------------------------------------------------------------------
(* Telegram, and who else writes                                           *)

(* A message appears in the chat: it is of no request, or of one that was  *)
(* not accepted before.                                                    *)
LEMMA AppearSender ==
  ASSUME SenderInv, NEW m \in Messages, ~in_chat(m), UNCHANGED <<vars, task, requests>>,
         NEW new \in Sendings, chatlog' = [chatlog EXCEPT ![m] = new], new.at = now,
         \/ new.row = NoRow /\ new.request = NoClaim
         \/ /\ new.row # NoRow /\ new.request \in requests /\ ~accepted(new.request)
            /\ new.row = new.request.row
            /\ new.chat = new.request.chat /\ new.body = new.request.body
  PROVE  SenderInv'
<1> USE DEF task
<1>1. /\ Inv' /\ now' = now
      /\ \A r : Carried(r)' = Carried(r) /\ chat(r)' = chat(r) /\ body'[r] = body[r]
  BY OutboxAlone
<1>2. now \in Nat /\ requests \subseteq Claims /\ NoClaim \notin requests
  BY OutboxAssumption, NoClaimIsNone DEF SenderInv, Inv, TypeOK, SenderTypes
<1>3. chatlog \in [Messages -> Sendings]
  BY DEF SenderInv, SenderTypes
<1>4. /\ \A n \in Messages : chatlog'[n] = IF n = m THEN new ELSE chatlog[n]
      /\ \A n \in Messages : in_chat(n)' <=> n = m \/ in_chat(n)
  BY <1>2, <1>3 DEF in_chat, NoTime
<1>5. SenderTypes'
  <2>1. chatlog' \in [Messages -> Sendings]
    BY <1>3
  <2>2. \A n \in Messages : in_chat(n)' =>
          /\ chatlog'[n].at \in 0..now
          /\ IF chatlog'[n].row = NoRow THEN chatlog'[n].request = NoClaim
                                        ELSE chatlog'[n].request \in requests
    BY <1>2, <1>4 DEF SenderInv, SenderTypes
  <2> QED
    BY <1>1, <2>1, <2>2 DEF SenderInv, SenderTypes
<1>6. RowsInv'
  BY <1>1 DEF SenderInv, RowsInv
<1>7. OnceInv'
  <2>1. \A n \in Messages : in_chat(n)' /\ chatlog'[n].row # NoRow =>
          /\ chatlog'[n].row = chatlog'[n].request.row
          /\ chatlog'[n].chat = chatlog'[n].request.chat
          /\ chatlog'[n].body = chatlog'[n].request.body
    BY <1>4 DEF SenderInv, OnceInv
  <2>2. ASSUME NEW k \in Messages, NEW n \in Messages, in_chat(k)', in_chat(n)',
               chatlog'[k].row # NoRow, chatlog'[k].request = chatlog'[n].request
        PROVE  k = n
    <3>1. CASE k # m /\ n # m
      BY <1>4, <2>2, <3>1 DEF SenderInv, OnceInv
    <3>2. CASE k = m /\ n # m
      BY <1>2, <1>4, <2>2, <3>2 DEF SenderInv, SenderTypes, accepted
    <3>3. CASE k # m /\ n = m
      <4>1. in_chat(k) /\ chatlog[k].request = new.request /\ chatlog[k].request \in requests
        BY <1>4, <2>2, <3>3 DEF SenderInv, SenderTypes
      <4> QED
        BY <1>2, <4>1 DEF accepted
    <3> QED
      BY <3>1, <3>2, <3>3
  <2> QED
    BY <1>1, <2>1, <2>2 DEF SenderInv, OnceInv, OfRow
<1>8. StoredInv'
  <2>1. \A n \in Messages : echoes[n].stored =>
          /\ in_chat(n)' /\ echoes[n].chat = chatlog'[n].chat /\ echoes[n].body = chatlog'[n].body
    BY <1>4 DEF SenderInv, StoredInv
  <2> QED
    BY <2>1 DEF SenderInv, StoredInv, vars, outside, report
<1>9. SentIsInTheChat'
  <2>1. \A r \in Rows : state[r] = "sent" => external[r] \in Messages
    BY DEF SenderInv, Inv, TypeOK, StoredInv
  <2>2. \A r \in Rows : state[r] = "sent" =>
          /\ in_chat(external[r])'
          /\ chatlog'[external[r]].chat = chat(r) /\ chatlog'[external[r]].body = body[r]
    BY <1>4, <2>1 DEF SenderInv, SentIsInTheChat, in_chat, vars, report
  <2> QED
    BY <1>1, <2>2 DEF SentIsInTheChat, in_chat, vars, report
<1> QED
  BY <1>1, <1>5, <1>6, <1>7, <1>8, <1>9 DEF SenderInv

LEMMA ArriveSender ==
  ASSUME SenderInv, NEW q \in requests, NEW m \in Messages, Arrive(q, m)
  PROVE  SenderInv'
<1> DEFINE new == [request |-> q, row |-> q.row, chat |-> q.chat, body |-> q.body, at |-> now]
<1>1. q \in Claims /\ q.row # NoRow /\ q.row \in Rows
  BY OutboxAssumption DEF SenderInv, SenderTypes, Claims, NoRow
<1>2. now \in OptTime
  BY OutboxAssumption DEF SenderInv, Inv, TypeOK, OptTime, Time
<1>3. new \in Sendings
  BY <1>1, <1>2 DEF Sendings, Claims
<1>4. ~in_chat(m) /\ ~accepted(q) /\ UNCHANGED <<vars, task, requests>>
      /\ chatlog' = [chatlog EXCEPT ![m] = new]
  BY DEF Arrive
<1> QED
  BY <1>1, <1>3, <1>4, AppearSender

LEMMA OwnerTypesSender ==
  ASSUME SenderInv, NEW o \in OwnMessages, NEW m \in Messages, OwnerTypes(o, m)
  PROVE  SenderInv'
<1> DEFINE new == [Nothing EXCEPT !.chat = o.chat, !.body = o.body, !.at = now]
<1>1. o.chat \in Chats /\ o.body \in Bodies
  BY DEF Chats, Bodies
<1>2. now \in OptTime
  BY OutboxAssumption DEF SenderInv, Inv, TypeOK, OptTime, Time
<1>3. new \in Sendings /\ new.at = now /\ new.row = NoRow /\ new.request = NoClaim
  BY <1>1, <1>2 DEF Sendings, Nothing
<1>4. ~in_chat(m) /\ UNCHANGED <<vars, task, requests>> /\ chatlog' = [chatlog EXCEPT ![m] = new]
  BY DEF OwnerTypes
<1> HIDE DEF new
<1> QED
  BY <1>3, <1>4, AppearSender

LEMMA ReaderSender ==
  ASSUME SenderInv, NEW m \in Messages, ReaderStoresOutgoing(m)
  PROVE  SenderInv'
<1> USE DEF sender_vars, task, telegram
<1> DEFINE c == chatlog[m].chat
           b == chatlog[m].body
           carriers == {r \in Rows : external[r] = m}
<1>1. in_chat(m) /\ StoreOutgoing(m, c, b, chatlog[m].at) /\ UNCHANGED sender_vars
  BY DEF ReaderStoresOutgoing
<1>2. c \in Chats /\ b \in Bodies /\ chatlog[m].at \in 0..now
  BY <1>1 DEF SenderInv, SenderTypes, Sendings
<1>3. Inv'
  BY <1>1, <1>2, StoreOutgoingInv DEF SenderInv
<1>4. UNCHANGED <<state, proposal, body, external, now>>
  BY <1>1 DEF StoreOutgoing, identity, text, report
<1>5. /\ echoes'[m].chat = c /\ echoes'[m].body = b
      /\ echoes'[m].tag = IF carriers = {} THEN NoRow ELSE lowest(carriers)
      /\ \A n \in Messages : n # m => echoes'[n] = echoes[n]
  BY <1>1 DEF StoreOutgoing, SenderInv, Inv, TypeOK
<1>6. echoes'[m].tag \in Rows => state[echoes'[m].tag] = "sent"
  <2>1. CASE carriers = {}
    BY <1>5, <2>1, OutboxAssumption DEF NoRow
  <2>2. CASE carriers # {}
    <3>1. lowest(carriers) \in carriers
      BY <2>2, LowestIsLeast, OutboxAssumption
    <3> QED
      BY <1>5, <2>2, <3>1, OutboxAssumption DEF SenderInv, StoredInv
  <2> QED
    BY <2>1, <2>2
<1>7. StoredInv'
  BY <1>1, <1>4, <1>5, <1>6 DEF SenderInv, StoredInv, in_chat
<1>8. SenderTypes'
  BY <1>1, <1>4 DEF SenderInv, SenderTypes, in_chat
<1>9. RowsInv' /\ SentIsInTheChat'
  BY <1>1, <1>4 DEF SenderInv, RowsInv, SentIsInTheChat, Carried, in_chat, chat
<1>10. OnceInv'
  BY <1>1, <1>4 DEF SenderInv, OnceInv, OfRow, in_chat, chat
<1> QED
  BY <1>3, <1>7, <1>8, <1>9, <1>10 DEF SenderInv

LEMMA SenderNextInv ==
  ASSUME SenderInv, [SenderNext]_all_vars
  PROVE  SenderInv'
<1>1. CASE Sender
  BY <1>1, StartSender, CrashSender, InterruptedSender, ClaimSender, SendRequestSender,
     OutcomeUnclearSender, AnsweredSender, ReadBackSender, PacingRefusedSender, RequestRefusedSender,
     RecordBreakerSender, SettleSender DEF Sender
<1>2. CASE Platform
  BY <1>2, ArriveSender, OwnerTypesSender, ReaderSender DEF Platform
<1>3. CASE Others
  BY <1>3, OthersSender
<1>4. CASE UNCHANGED all_vars
  <2> USE <1>4 DEF all_vars, sender_vars, task, telegram
  <2>1. UNCHANGED vars
    OBVIOUS
  <2>2. /\ Inv' /\ now' = now /\ StoredInv' /\ SentIsInTheChat'
        /\ \A r : Carried(r)' = Carried(r) /\ chat(r)' = chat(r) /\ body'[r] = body[r]
    BY <2>1, OutboxAlone
  <2>3. SenderTypes' /\ RowsInv'
    BY <2>2 DEF SenderInv, SenderTypes, RowsInv, in_chat
  <2>4. OnceInv'
    BY <2>2 DEF SenderInv, OnceInv, OfRow, in_chat
  <2> QED
    BY <2>2, <2>3, <2>4 DEF SenderInv
<1> QED
  BY <1>1, <1>2, <1>3, <1>4 DEF SenderNext

(* The invariant of the sender next to the outbox: rows, requests and      *)
(* messages stand for one another.                                         *)
THEOREM SenderInvariance == SenderSpec => []SenderInv
<1>1. SenderInit => SenderInv
  BY InitSender
<1>2. SenderInv /\ [SenderNext]_all_vars => SenderInv'
  BY SenderNextInv
<1> QED
  BY <1>1, <1>2, PTL DEF SenderSpec

(* sender._finish and outbox.reconcile: whatever is lost on the way, a row *)
(* is sent only when a message of its chat has its words.                  *)
THEOREM SentIsThere == SenderSpec => []SentIsInTheChat
<1>1. SenderInv => SentIsInTheChat
  BY DEF SenderInv
<1> QED
  BY <1>1, SenderInvariance, PTL
-----------------------------------------------------------------------------
(* The sender and the outbox implement SendOnce                            *)

Standing(s) ==
  CASE s = "sending" -> "handed"
    [] s = "unknown" -> "doubt"
    [] s = "sent" -> "sent"
    [] s \in {"failed", "blocked", "cancelled", "expired"} -> "over"
    [] OTHER -> "held"
promised == [r \in Rows |-> Standing(state[r])]
copies == [r \in Rows |-> Cardinality(of_row(r))]

(* What is launched is what has a request, and a request that was not      *)
(* accepted has no copy in the chat.                                       *)
LEMMA LaunchedAreRequested ==
  ASSUME SenderInv
  PROVE  /\ launched_rows = {r \in Rows : \E q \in requests : q.row = r}
         /\ \A q \in requests : ~accepted(q) => of_row(q.row) = {}
         /\ \A r \in launched_rows : Carried(r)
<1>1. \A r \in Rows : \A m \in of_row(r) :
        /\ m \in Messages /\ in_chat(m) /\ chatlog[m].request \in requests
        /\ chatlog[m].request.row = r
  BY OutboxAssumption DEF of_row, SenderInv, SenderTypes, OnceInv, NoRow
<1>2. launched_rows = {r \in Rows : \E q \in requests : q.row = r}
  BY <1>1 DEF launched_rows
<1>3. \A q \in requests : q.row \in Rows /\ Carried(q.row)
  BY DEF SenderInv, SenderTypes, RowsInv, Claims
<1>4. \A q \in requests : ~accepted(q) => of_row(q.row) = {}
  <2> SUFFICES ASSUME NEW q \in requests, NEW m \in of_row(q.row) PROVE accepted(q)
    OBVIOUS
  <2>1. chatlog[m].request = q
    BY <1>1, <1>3 DEF SenderInv, OnceInv
  <2> QED
    BY <1>1, <1>3, <2>1 DEF accepted
<1> QED
  BY <1>2, <1>3, <1>4

PromiseStep == [Promise!Next]_<<promised, launched_rows, copies>>

(* A row's move, while Telegram stays as it is.                            *)
LEMMA MoveRefines ==
  ASSUME SenderInv, UNCHANGED telegram, NEW r \in Rows, NEW to, Moves(r, to),
         to \in {"sent", "unknown"} \/ r \notin launched_rows
  PROVE  PromiseStep
<1>1. UNCHANGED <<launched_rows, copies>>
  BY DEF telegram, launched_rows, copies, of_row, in_chat
<1>2. state \in [Rows -> States \union {Absent}]
  BY DEF SenderInv, Inv, TypeOK
<1>3. promised' = [promised EXCEPT ![r] = Standing(to)]
  BY <1>2 DEF promised, Moves
<1>4. promised[r] = Standing(state[r])
  BY DEF promised
<1>5. \/ Standing(to) = promised[r]
      \/ promised[r] = "held" /\ Standing(to) = "handed"
      \/ promised[r] = "held" /\ Standing(to) = "over" /\ r \notin launched_rows
      \/ promised[r] = "handed" /\ Standing(to) = "held" /\ r \notin launched_rows
      \/ promised[r] = "handed" /\ Standing(to) = "doubt"
      \/ promised[r] \in {"handed", "doubt"} /\ Standing(to) = "sent"
      \/ promised[r] \in {"handed", "doubt"} /\ Standing(to) = "over" /\ r \notin launched_rows
  <2>1. r \in launched_rows => state[r] \in WIRE_STATES
    BY LaunchedAreRequested DEF Carried
  <2>2. /\ state[r] \in States \union {Absent} /\ to \in TRANSITIONS[state[r]]
    BY <1>2 DEF Moves
  <2> QED
    BY <1>4, <2>1, <2>2 DEF Standing, TRANSITIONS, States, Absent, WIRE_STATES
<1>6. ASSUME NEW from, promised[r] \in from, NEW target, target = Standing(to)
      PROVE  Promise!Move(r, from, target)
  BY <1>1, <1>3, <1>6 DEF Promise!Move, promised, copies, Standing
<1>7. CASE Standing(to) = promised[r]
  <2>1. promised' = promised
    BY <1>3, <1>7 DEF promised
  <2> QED
    BY <1>1, <2>1 DEF PromiseStep
<1>8. CASE Standing(to) # promised[r]
  <2> HIDE DEF Standing, promised, copies
  <2>1. \/ Promise!HandOver(r) \/ Promise!TakeBack(r) \/ Promise!Doubt(r)
        \/ Promise!Confirm(r) \/ Promise!Drop(r)
    <3> DEFINE s == Standing(to)
    <3>1. CASE promised[r] = "held" /\ s = "handed"
      BY <1>6, <3>1 DEF Promise!HandOver
    <3>2. CASE promised[r] = "handed" /\ s = "held" /\ r \notin launched_rows
      BY <1>6, <3>2 DEF Promise!TakeBack
    <3>3. CASE promised[r] = "handed" /\ s = "doubt"
      BY <1>6, <3>3 DEF Promise!Doubt
    <3>4. CASE promised[r] \in {"handed", "doubt"} /\ s = "sent"
      BY <1>6, <3>4 DEF Promise!Confirm
    <3>5. CASE promised[r] \in {"held", "handed", "doubt"} /\ s = "over" /\ r \notin launched_rows
      BY <1>6, <3>5 DEF Promise!Drop
    <3> QED
      BY <1>5, <1>8, <3>1, <3>2, <3>3, <3>4, <3>5
  <2>2. Promise!Next
    BY <2>1 DEF Promise!Next
  <2> QED
    BY <2>2 DEF PromiseStep
<1> QED
  BY <1>7, <1>8

LEMMA StutterRefines == UNCHANGED <<state, telegram>> => PromiseStep
  BY DEF PromiseStep, telegram, promised, launched_rows, copies, of_row, in_chat

(* What the sender holds but has not put on the wire, or knows to be       *)
(* refused, is not launched.                                               *)
LEMMA HeldBackIsNotOut ==
  ASSUME SenderInv, pc \in {"pacing", "refused"}
  PROVE  cur.row \in Rows /\ cur.row \notin launched_rows
<1>1. cur.row \in Rows /\ \A q \in requests : q.row # cur.row
  BY HeldRowIsTyped DEF Holding, SenderInv, RowsInv
<1> QED
  BY <1>1, LaunchedAreRequested

LEMMA FailRefines ==
  ASSUME SenderInv, pc \in {"pacing", "refused"}, UNCHANGED telegram, NEW at, Fail(cur.row, at)
  PROVE  PromiseStep
<1>1. cur.row \in Rows /\ cur.row \notin launched_rows
  BY HeldBackIsNotOut
<1>2. Moves(cur.row, "approved") \/ Moves(cur.row, "failed")
  BY DEF Fail, transition, Moves
<1> QED
  BY <1>1, <1>2, MoveRefines

LEMMA FinishRefines ==
  ASSUME SenderInv, pc \in Holding, NEW m, Finish(m)
  PROVE  PromiseStep
<1>1. UNCHANGED telegram /\ cur.row \in Rows
  BY HeldRowIsTyped DEF Finish, Left
<1>2. Complete(cur.row, m) => Moves(cur.row, "sent")
  BY DEF Complete, Sent, transition, Moves
<1> QED
  BY <1>1, <1>2, MoveRefines, StutterRefines DEF Finish, vars, telegram

LEMMA ClaimRefines ==
  ASSUME SenderInv, NEW f \in Facts, Claim(f)
  PROVE  PromiseStep
<1>1. PICK r \in Rows : ClaimReady(r, f)
  BY DEF Claim
<1>2. UNCHANGED telegram
  BY DEF Claim
<1>3. /\ state[r] = "approved"
      /\ UNCHANGED state \/ \E to \in {"sending", "draft", "blocked", "expired", "cancelled"} : Moves(r, to)
  BY <1>1, ClaimMove DEF Moves, TRANSITIONS, States, Absent
<1>4. r \notin launched_rows
  BY <1>3, LaunchedAreRequested DEF Carried, WIRE_STATES
<1> QED
  BY <1>2, <1>3, <1>4, MoveRefines, StutterRefines DEF telegram

LEMMA SendRequestRefines ==
  ASSUME SenderInv, SendRequest
  PROVE  PromiseStep
<1> DEFINE r == cur.row
<1>1. r \in Rows /\ r \notin launched_rows
  BY HeldBackIsNotOut DEF SendRequest
<1>2. promised[r] \in {"handed", "doubt", "sent"}
  BY <1>1 DEF SendRequest, Holding, SenderInv, RowsInv, Carried, WIRE_STATES, promised, Standing
<1>3. UNCHANGED <<promised, copies>>
  BY DEF SendRequest, promised, copies, of_row, in_chat, vars
<1>4. launched_rows' = launched_rows \union {r}
  <2>1. requests' = requests \union {cur} /\ \A q : of_row(q)' = of_row(q)
    BY DEF SendRequest, of_row, in_chat
  <2> QED
    BY <1>1, <2>1 DEF launched_rows
<1>5. Promise!Launch(r)
  BY <1>1, <1>2, <1>3, <1>4 DEF Promise!Launch, Promise!Handed, promised, copies, Standing
<1> QED
  BY <1>1, <1>5 DEF PromiseStep, Promise!Next

LEMMA RequestRefusedRefines ==
  ASSUME SenderInv, NEW v, RequestRefused(v)
  PROVE  PromiseStep
<1> DEFINE r == cur.row
<1>1. cur \in requests /\ r \in Rows /\ ~accepted(cur)
  BY HeldRowIsTyped DEF RequestRefused, Holding
<1>2. r \in launched_rows /\ of_row(r) = {}
  BY <1>1, LaunchedAreRequested
<1>3. copies[r] = 0
  BY <1>1, <1>2, FS_EmptySet DEF copies
<1>4. UNCHANGED <<promised, copies>>
  BY DEF RequestRefused, Refused, promised, copies, of_row, in_chat, vars
<1>5. launched_rows' = launched_rows \ {r}
  <2>1. requests' = requests \ {cur} /\ \A q : of_row(q)' = of_row(q)
    BY DEF RequestRefused, Refused, of_row, in_chat
  <2>2. \A x \in requests : x.row = r => x = cur
    BY <1>1 DEF SenderInv, OnceInv
  <2> QED
    BY <1>1, <1>2, <2>1, <2>2 DEF launched_rows
<1>6. Promise!Refuse(r)
  BY <1>2, <1>3, <1>4, <1>5 DEF Promise!Refuse, promised, copies, Standing
<1> QED
  BY <1>1, <1>6 DEF PromiseStep, Promise!Next

LEMMA ArriveRefines ==
  ASSUME SenderInv, NEW q \in requests, NEW m \in Messages, Arrive(q, m)
  PROVE  PromiseStep
<1> DEFINE r == q.row
<1>1. r \in Rows /\ r \in launched_rows /\ of_row(r) = {}
  BY LaunchedAreRequested DEF Arrive, SenderInv, SenderTypes, Claims
<1>2. now \in Nat /\ chatlog \in [Messages -> Sendings] /\ ~in_chat(m)
  BY OutboxAssumption DEF SenderInv, Inv, TypeOK, SenderTypes, Arrive
<1>3. /\ chatlog'[m].row = r /\ chatlog'[m].at # NoTime
      /\ \A n \in Messages : n # m => chatlog'[n] = chatlog[n]
  BY <1>2 DEF Arrive, NoTime
<1>4. of_row(r)' = {m}
  BY <1>1, <1>3 DEF of_row, in_chat
<1>5. \A p \in Rows : p # r => of_row(p)' = of_row(p)
  BY <1>2, <1>3 DEF of_row, in_chat
<1>6. Cardinality({m}) = 1 /\ Cardinality({}) = 0
  BY FS_EmptySet, FS_Singleton
<1>7. copies[r] = 0 /\ copies' = [copies EXCEPT ![r] = 1]
  BY <1>1, <1>4, <1>5, <1>6 DEF copies
<1>8. UNCHANGED promised
  BY DEF Arrive, promised, vars
<1>9. launched_rows' = launched_rows
  <2>1. \A p \in Rows : (of_row(p) # {} \/ \E x \in requests : x.row = p)
                      <=> (of_row(p)' # {} \/ \E x \in requests' : x.row = p)
    BY <1>4, <1>5 DEF Arrive
  <2> QED
    BY <2>1 DEF launched_rows
<1>10. Promise!Deliver(r)
  BY <1>1, <1>7, <1>8, <1>9 DEF Promise!Deliver, promised, copies, Standing
<1> QED
  BY <1>1, <1>10 DEF PromiseStep, Promise!Next

(* What the owner types is no copy of a row.                               *)
LEMMA OwnerTypesRefines ==
  ASSUME SenderInv, NEW o, NEW m \in Messages, OwnerTypes(o, m)
  PROVE  PromiseStep
<1>1. chatlog \in [Messages -> Sendings] /\ ~in_chat(m)
  BY DEF SenderInv, SenderTypes, OwnerTypes
<1>2. chatlog'[m].row = NoRow /\ \A n \in Messages : n # m => chatlog'[n] = chatlog[n]
  BY <1>1 DEF OwnerTypes, Nothing
<1>3. \A p \in Rows : of_row(p)' = of_row(p)
  BY <1>1, <1>2, OutboxAssumption DEF of_row, in_chat, NoRow
<1>4. UNCHANGED <<state, requests>>
  BY DEF OwnerTypes, vars
<1> QED
  BY <1>3, <1>4 DEF PromiseStep, promised, copies, launched_rows

LEMMA OthersRefine ==
  ASSUME SenderInv, Others
  PROVE  PromiseStep
<1>1. UNCHANGED telegram
  BY DEF Others, sender_vars
<1>2. ASSUME NEW r \in Rows, NEW to, QuietMove(r, to)
      PROVE  PromiseStep
  <2>1. to = "unknown" \/ r \notin launched_rows
    BY <1>2, LaunchedAreRequested DEF QuietMove, Carried, WIRE_STATES, PENDING, Absent
  <2> QED
    BY <1>1, <1>2, <2>1, MoveRefines DEF QuietMove
<1>3. ASSUME NEW r \in Rows, NEW m, NEW at, Sent(r, m, at)
      PROVE  PromiseStep
  BY <1>1, <1>3, MoveRefines DEF Sent, transition, Moves
<1> QED
  BY <1>1, <1>2, <1>3, OthersMove, StutterRefines DEF SenderInv, telegram

LEMMA SenderRefines ==
  ASSUME SenderInv, [SenderNext]_all_vars
  PROVE  PromiseStep
<1>1. ASSUME Start \/ Crash \/ OutcomeUnclear \/ RecordBreaker \/ (\E v \in Verdicts : PacingRefused(v))
             \/ (\E m \in Messages : ReaderStoresOutgoing(m)) \/ UNCHANGED all_vars
      PROVE  PromiseStep
  <2>1. UNCHANGED <<state, telegram>>
    BY <1>1 DEF Start, Crash, Gone, OutcomeUnclear, RecordBreaker, TripBreaker, SetPolicies, PacingRefused,
       Refused, ReaderStoresOutgoing, StoreOutgoing, all_vars, sender_vars, vars, telegram
  <2> QED
    BY <2>1, StutterRefines
<1>2. CASE Interrupted
  BY <1>2, FailRefines DEF Interrupted, Gone
<1>3. CASE Settle
  BY <1>3, FailRefines, StutterRefines DEF Settle, Left, vars, telegram
<1>4. CASE Answered \/ ReadBack
  BY <1>4, FinishRefines, StutterRefines DEF Answered, ReadBack, Left, Holding, vars, telegram
<1>5. CASE \E f \in Facts : Claim(f)
  BY <1>5, ClaimRefines
<1>6. CASE SendRequest
  BY <1>6, SendRequestRefines
<1>7. CASE \E v \in Verdicts : RequestRefused(v)
  BY <1>7, RequestRefusedRefines
<1>8. CASE \E q \in requests, m \in Messages : Arrive(q, m)
  BY <1>8, ArriveRefines
<1>9. CASE \E o \in OwnMessages, m \in Messages : OwnerTypes(o, m)
  BY <1>9, OwnerTypesRefines
<1>10. CASE Others
  BY <1>10, OthersRefine
<1> QED
  BY <1>1, <1>2, <1>3, <1>4, <1>5, <1>6, <1>7, <1>8, <1>9, <1>10 DEF SenderNext, Sender, Platform

(* sender.py and outbox.py together send each row's text at most once, and *)
(* give a row up only while no copy of it is out: whatever is lost, late,  *)
(* retried or crashed, every step is a step of SendOnce or none.           *)
THEOREM SentOnce == SenderSpec => SendsOnce
<1>1. SenderInit => Promise!Init
  <2> SUFFICES ASSUME SenderInit PROVE Promise!Init
    OBVIOUS
  <2>1. \A m \in Messages : ~in_chat(m)
    BY DEF SenderInit, in_chat, Nothing
  <2>2. \A r \in Rows : of_row(r) = {}
    BY <2>1 DEF of_row
  <2>3. launched_rows = {}
    BY <2>2 DEF launched_rows, SenderInit
  <2>4. \A r \in Rows : state[r] = Absent
    BY DEF SenderInit, Init
  <2> QED
    BY <2>2, <2>3, <2>4, FS_EmptySet DEF Promise!Init, Absent
<1>2. SenderInv /\ [SenderNext]_all_vars => [Promise!Next]_(Promise!vars)
  BY SenderRefines DEF PromiseStep, Promise!vars, promised, copies, Standing
<1> QED
  BY <1>1, <1>2, SenderInvariance, PTL DEF SenderSpec, SendsOnce, Promise!Spec
=============================================================================
