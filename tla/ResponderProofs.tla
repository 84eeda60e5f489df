---------------------------- MODULE ResponderProofs ----------------------------
(***************************************************************************)
(* Theorems about one chat and the looks of the responder at it, for every *)
(* mode, kind of message, window, lease and number of acts.                *)
(***************************************************************************)
EXTENDS Responder, FiniteSetTheorems, WellFoundedInduction, TLAPS

-----------------------------------------------------------------------------
(* Least and greatest. *)

LEMMA LeastOf ==
  ASSUME NEW S, S \subseteq Nat, S # {}
  PROVE  \E least \in S : \A j \in S : least <= j
<1>1. PICK x \in S : \A y \in S : ~ (<<y, x>> \in OpToRel(<, Nat))
  BY NatLessThanWellFounded, WFMin
<1>2. \A y \in S : y < x => <<y, x>> \in OpToRel(<, Nat)
  BY Zenon DEF OpToRel
<1>3. \A y \in S : ~ (y < x)
  BY <1>1, <1>2, Zenon
<1> QED
  BY <1>3

LEMMA GreatestOf ==
  ASSUME NEW S, NEW bound \in Nat, S \subseteq 0..bound, S # {}
  PROVE  \E most \in S : \A j \in S : j <= most
<1> DEFINE gaps == {bound - j : j \in S}
<1>1. gaps \subseteq Nat /\ gaps # {}
  <2>1. \A j \in S : bound - j \in Nat
    OBVIOUS
  <2> QED
    BY <2>1
<1>2. PICK least \in gaps : \A g \in gaps : least <= g
  <2> HIDE DEF gaps
  <2> QED
    BY <1>1, LeastOf
<1>3. PICK most \in S : least = bound - most
  OBVIOUS
<1>4. \A j \in S : j <= most
  BY <1>2, <1>3
<1> QED
  BY <1>4

LEMMA EarliestIs ==
  ASSUME NEW S, S \subseteq Nat, S # {}
  PROVE  earliest(S) \in S /\ \A j \in S : earliest(S) <= j
<1>1. PICK t \in S : \A u \in S : t <= u
  BY LeastOf
<1> QED
  BY <1>1, Zenon DEF earliest

LEMMA LatestIs ==
  ASSUME NEW S, NEW bound \in Nat, S \subseteq 0..bound, S # {}
  PROVE  latest(S) \in S /\ \A j \in S : j <= latest(S)
<1>1. PICK t \in S : \A u \in S : u <= t
  BY GreatestOf
<1> QED
  BY <1>1, Zenon DEF latest

-----------------------------------------------------------------------------
(* Types. *)

Messages == [occurred_at : Nat, kind : Kinds, version : Nat, edited_at : OptTime,
             deleted : BOOLEAN]

Chats == [known : BOOLEAN, respond_after : OptTime, leased : BOOLEAN,
          last_inbound_at : OptTime, owner_seen_at : OptTime,
          owner_composing_at : OptTime, owner_replied_at : OptTime,
          ai_paused_until : OptTime, last_ai_sent_at : OptTime, turns : Nat]

RowStates == PENDING \union {"sending", "sent", "cancelled", "expired", "blocked"}

Codes == {"", "expired", "trigger_edited", "trigger_deleted", "trigger_missing", "no_trigger",
          "burst_deleted", "not_before", "owner_replied", "owner_composing", "owner_seen",
          "owner_will_write", "ai_paused"}

RowRecords ==
  [state : RowStates, authored_by : {AI}, approved_by : {NoApprover, OWNER, AUTO_APPROVER},
   approved_at : OptTime, created_at : Time, has_trigger : {TRUE}, trigger : Nat,
   not_before : OptTime, expires_at : Time, read : SUBSET [m : Nat, version : Nat],
   escalation : Nat, code : Codes, sent_at : OptTime]

EscalationRecords ==
  [state : ESCALATION_OPEN_STATES \union {"resolved", "expired", "cancelled"},
   interaction : Nat, repeated : Nat, created_at : Time, edited : BOOLEAN]

Looks == [pc : {"idle", "claimed", "thinking"}, lease : OptTime, at : OptTime,
          read : SUBSET [m : Nat, version : Nat], trigger : Nat, stall_after : OptTime,
          owner_at : OptTime, seen : SUBSET Nat]

NoteRecords == [kind : {"enqueue", "edited", "wrote"}, m : Nat, at : Time]

messages_of(read) == {x.m : x \in read}

TypesInv ==
  /\ now \in 0..MaxTime
  /\ typed_at \in OptTime /\ typed_at <= now
  /\ inbound \in Seq(Messages)
  /\ chat \in Chats
  /\ rows \in Seq(RowRecords)
  /\ escalations \in Seq(EscalationRecords)
  /\ notes \subseteq NoteRecords
  /\ unread \subseteq DOMAIN inbound
  /\ look \in Looks
  /\ spent \in [DOMAIN Budget -> Nat]

(* Ids point at what exists and nothing is dated after now.                *)
Points(row) ==
  /\ row.trigger \in DOMAIN inbound
  /\ messages_of(row.read) \subseteq DOMAIN inbound /\ messages_of(row.read) # {}
  /\ row.escalation \in {0} \union DOMAIN escalations
  /\ row.approved_by = NoApprover <=> row.approved_at = NoTime
  /\ row.state \in {"approved", "sending", "sent"} => row.approved_by # NoApprover

PointsInv ==
  /\ \A m \in DOMAIN inbound : occurred(m) <= now
  /\ \A r \in DOMAIN rows : Points(rows[r])
  /\ \A k \in DOMAIN escalations : /\ escalations[k].interaction \in DOMAIN inbound
                                   /\ escalations[k].repeated \in 0..Len(inbound)
  /\ \A n \in notes : n.kind # "wrote" => n.m \in DOMAIN inbound
  /\ \A n \in notes : n.at <= now
  /\ look.seen \subseteq DOMAIN inbound
  /\ look.pc = "thinking" =>
       /\ look.trigger \in DOMAIN inbound
       /\ messages_of(look.read) \subseteq DOMAIN inbound /\ messages_of(look.read) # {}
       /\ look.at \in 0..now

(* A chat that is being looked at is queued: by the lease, or by what came *)
(* meanwhile; while it is by the lease, every message was read.            *)
QueueInv ==
  /\ chat.leased => chat.respond_after # NoTime
  /\ look.pc # "idle" => chat.respond_after # NoTime
  /\ look.pc # "thinking" => look.seen = {}
  /\ look.pc = "thinking" /\ chat.leased /\ chat.respond_after = look.lease => unread = {}
  /\ NothingIsLost

(* One escalation is open, and a stall belongs to one escalation.          *)
EscalationInv ==
  /\ \A j, k \in open_in(escalations) : j = k
  /\ \A r, q \in DOMAIN rows :
       rows[r].escalation # 0 /\ rows[r].escalation = rows[q].escalation => r = q

window_over(list, read) ==
  earliest({list[m].occurred_at : m \in messages_of(read)}) + OWNER_FIRST

window_end(read) == window_over(inbound, read)

(* A row is kept until the owner had the window, or was read after it.     *)
WindowInv ==
  /\ \A r \in DOMAIN rows :
       /\ rows[r].created_at <= now
       /\ rows[r].created_at >= window_end(rows[r].read) \/ rows[r].not_before >= window_end(rows[r].read)
  /\ look.pc = "thinking" => look.at >= window_end(look.read)

Inv == TypesInv /\ PointsInv /\ QueueInv /\ EscalationInv /\ WindowInv

LEMMA InitInv == Init => Inv
<1> SUFFICES ASSUME Init PROVE Inv
  OBVIOUS
<1>1. /\ now = 0 /\ inbound = <<>> /\ typed_at = -1 /\ chat = NewChat /\ rows = <<>>
      /\ escalations = <<>> /\ notes = {} /\ unread = {} /\ look = NoLook
      /\ spent = [act \in DOMAIN Budget |-> 0] /\ NoTime = -1
  BY DEF Init, ChatInit, NoTime
<1>2. NewChat \in Chats /\ NewChat.leased = FALSE
  BY DEF NewChat, Chats, OptTime
<1>3. NoLook \in Looks /\ NoLook.pc = "idle" /\ NoLook.seen = {}
  BY DEF NoLook, Looks, OptTime
<1>4. TypesInv
  BY <1>1, <1>2, <1>3, ChatAssumption DEF TypesInv, OptTime
<1>5. PointsInv
  BY <1>1, <1>3 DEF PointsInv
<1>6. QueueInv
  BY <1>1, <1>2, <1>3 DEF QueueInv, NothingIsLost
<1>7. EscalationInv /\ WindowInv
  BY <1>1, <1>3 DEF EscalationInv, WindowInv, open_in
<1> QED
  BY <1>4, <1>5, <1>6, <1>7 DEF Inv

-----------------------------------------------------------------------------
(* What everyone but the look leaves as it was. *)

MessagesStay ==
  /\ inbound' \in Seq(Messages)
  /\ Len(inbound) <= Len(inbound')
  /\ \A m \in DOMAIN inbound : inbound'[m].occurred_at = inbound[m].occurred_at
  /\ \A m \in DOMAIN inbound' \ DOMAIN inbound : /\ inbound'[m].occurred_at \in moments
                                                 /\ now' = now

live_state(state) == state \in PENDING \union {"sending", "sent"}

(* A row keeps what it answers; its state only moves on.                   *)
RowStays(old, new) ==
  /\ new.trigger = old.trigger /\ new.read = old.read /\ new.escalation = old.escalation
  /\ new.created_at = old.created_at /\ new.not_before = old.not_before
  /\ new.approved_by = NoApprover <=> new.approved_at = NoTime
  /\ new.state \in {"approved", "sending", "sent"} => new.approved_by # NoApprover
  /\ live_state(new.state) => live_state(old.state)

RowsStay ==
  /\ rows' \in Seq(RowRecords)
  /\ DOMAIN rows' = DOMAIN rows
  /\ \A r \in DOMAIN rows : RowStays(rows[r], rows'[r])
  /\ \A r \in DOMAIN rows : claims(r) => objection(r).action = "none"

EscalationStays(old, new) ==
  /\ new.interaction = old.interaction /\ new.repeated = old.repeated
  /\ new.state \in ESCALATION_OPEN_STATES => old.state \in ESCALATION_OPEN_STATES

EscalationsStay ==
  /\ escalations' \in Seq(EscalationRecords)
  /\ DOMAIN escalations' = DOMAIN escalations
  /\ \A k \in DOMAIN escalations : EscalationStays(escalations[k], escalations'[k])

(* The chat leaves the queue by a look only.                               *)
QueueStays ==
  /\ chat' \in Chats
  /\ unread' \subseteq DOMAIN inbound'
  /\ \/ /\ unread' = unread
        /\ chat'.respond_after = chat.respond_after /\ chat'.leased = chat.leased
     \/ chat'.respond_after # NoTime /\ ~chat'.leased

OthersStay ==
  /\ now' \in now..MaxTime
  /\ typed_at' \in OptTime /\ typed_at' <= now'
  /\ notes' \subseteq NoteRecords
  /\ \A n \in notes' : (n.kind # "wrote" => n.m \in DOMAIN inbound') /\ n.at <= now'
  /\ spent' \in [DOMAIN Budget -> Nat]

Stays == MessagesStay /\ RowsStay /\ EscalationsStay /\ QueueStays /\ OthersStay

LEMMA ElementOf ==
  ASSUME NEW S, NEW s \in Seq(S), NEW k \in DOMAIN s
  PROVE  s[k] \in S
  OBVIOUS

(* A sequence with another element at each place is a sequence.            *)
LEMMA Respelled ==
  ASSUME NEW S, NEW s \in Seq(S), NEW t, t = [k \in DOMAIN s |-> t[k]],
         \A k \in DOMAIN s : t[k] \in S
  PROVE  t \in Seq(S) /\ DOMAIN t = DOMAIN s
<1>1. DOMAIN s = 1..Len(s) /\ Len(s) \in Nat
  OBVIOUS
<1>2. DOMAIN t = DOMAIN s
  OBVIOUS
<1>3. t = [k \in 1..Len(s) |-> t[k]]
  BY <1>1
<1> QED
  BY <1>1, <1>2, <1>3

LEMMA WhatIsUntouchedStays ==
  ASSUME Inv
  PROVE  /\ UNCHANGED inbound => MessagesStay
         /\ UNCHANGED rows => RowsStay
         /\ UNCHANGED escalations => EscalationsStay
         /\ UNCHANGED <<chat, unread>> /\ MessagesStay => QueueStays
         /\ UNCHANGED <<now, typed_at, notes>> /\ MessagesStay /\ spent' \in [DOMAIN Budget -> Nat]
              => OthersStay
         /\ MessagesStay => DOMAIN inbound \subseteq DOMAIN inbound'
<1>1. UNCHANGED inbound => MessagesStay
  BY DEF Inv, TypesInv, MessagesStay
<1>2. UNCHANGED rows => RowsStay
  BY DEF Inv, TypesInv, PointsInv, Points, RowsStay, RowStays, claims
<1>3. UNCHANGED escalations => EscalationsStay
  BY DEF Inv, TypesInv, EscalationsStay, EscalationStays
<1>4. MessagesStay => DOMAIN inbound \subseteq DOMAIN inbound'
  <2> SUFFICES ASSUME MessagesStay PROVE DOMAIN inbound \subseteq DOMAIN inbound'
    OBVIOUS
  <2>1. inbound \in Seq(Messages) /\ inbound' \in Seq(Messages) /\ Len(inbound) <= Len(inbound')
    BY DEF Inv, TypesInv, MessagesStay
  <2> QED
    BY <2>1
<1>5. UNCHANGED <<chat, unread>> /\ MessagesStay => QueueStays
  BY <1>4 DEF Inv, TypesInv, QueueStays
<1>6. UNCHANGED <<now, typed_at, notes>> /\ MessagesStay /\ spent' \in [DOMAIN Budget -> Nat]
        => OthersStay
  BY <1>4 DEF Inv, TypesInv, PointsInv, OthersStay
<1> QED
  BY <1>1, <1>2, <1>3, <1>4, <1>5, <1>6

LEMMA Spending ==
  ASSUME Inv, NEW act \in DOMAIN Budget
  PROVE  spend(act) => spent' \in [DOMAIN Budget -> Nat]
  BY DEF Inv, TypesInv, spend

LEMMA Acts == DOMAIN Budget = {"write", "change", "owner", "crash"}
  BY ChatAssumption

(* A row that is taken out of the queue stays the row it was.              *)
Moved(row, new, code) == [row EXCEPT !.state = new, !.code = code]

LEMMA RowMovedOut ==
  ASSUME NEW row \in RowRecords, row.approved_by = NoApprover <=> row.approved_at = NoTime,
         NEW new \in {"cancelled", "expired", "blocked"}, NEW code \in Codes
  PROVE  /\ Moved(row, new, code) \in RowRecords
         /\ RowStays(row, Moved(row, new, code))
         /\ Moved(row, new, code).state = new
<1> DEFINE moved == Moved(row, new, code)
<1>1. new \in RowStates /\ ~live_state(new) /\ new \notin {"approved", "sending", "sent"}
  BY DEF RowStates, live_state, PENDING
<1>2. moved \in RowRecords /\ moved.state = new
  BY <1>1 DEF RowRecords, Moved
<1>3. /\ moved.trigger = row.trigger /\ moved.read = row.read
      /\ moved.escalation = row.escalation
      /\ moved.created_at = row.created_at /\ moved.not_before = row.not_before
      /\ moved.approved_by = row.approved_by /\ moved.approved_at = row.approved_at
  BY DEF RowRecords, Moved
<1>4. RowStays(row, moved)
  <2> HIDE DEF moved
  <2> QED
    BY <1>1, <1>2, <1>3 DEF RowStays
<1> QED
  BY <1>2, <1>4

LEMMA RowsMovedOut ==
  ASSUME Inv, rows' = [r \in DOMAIN rows |-> rows'[r]],
         \A r \in DOMAIN rows :
           \/ rows'[r] = rows[r]
           \/ \E new \in {"cancelled", "expired", "blocked"}, code \in Codes :
                rows'[r] = [rows[r] EXCEPT !.state = new, !.code = code]
  PROVE  RowsStay
<1>1. rows \in Seq(RowRecords)
  BY DEF Inv, TypesInv
<1>2. ASSUME NEW r \in DOMAIN rows
      PROVE  rows'[r] \in RowRecords /\ RowStays(rows[r], rows'[r]) /\ ~claims(r)
  <2>1. rows[r] \in RowRecords
    BY <1>1, ElementOf, Zenon
  <2>4. Points(rows[r])
    BY DEF Inv, PointsInv
  <2>2. CASE rows'[r] = rows[r]
    BY <2>1, <2>2, <2>4 DEF RowStays, Points, claims
  <2>3. ASSUME NEW new \in {"cancelled", "expired", "blocked"}, NEW code \in Codes,
               rows'[r] = [rows[r] EXCEPT !.state = new, !.code = code]
        PROVE  rows'[r] \in RowRecords /\ RowStays(rows[r], rows'[r]) /\ ~claims(r)
    <3>1. rows[r].approved_by = NoApprover <=> rows[r].approved_at = NoTime
      BY <2>4 DEF Points
    <3>2. rows'[r] = Moved(rows[r], new, code)
      BY <2>3 DEF Moved
    <3>3. /\ Moved(rows[r], new, code) \in RowRecords
          /\ RowStays(rows[r], Moved(rows[r], new, code))
          /\ Moved(rows[r], new, code).state = new
      BY <2>1, <3>1, RowMovedOut
    <3> QED
      BY <3>2, <3>3 DEF claims
  <2> QED
    BY <2>2, <2>3
<1>3. rows' \in Seq(RowRecords) /\ DOMAIN rows' = DOMAIN rows
  BY <1>1, <1>2, Respelled
<1> QED
  BY <1>2, <1>3 DEF RowsStay

LEMMA MovedOut ==
  ASSUME Inv, NEW set, NEW new \in {"cancelled", "expired", "blocked"}, NEW code \in Codes,
         rows' = moved_to(set, new, code)
  PROVE  RowsStay
<1>1. rows' = [r \in DOMAIN rows |-> rows'[r]]
  BY DEF moved_to
<1>2. \A r \in DOMAIN rows :
        rows'[r] = rows[r] \/ rows'[r] = [rows[r] EXCEPT !.state = new, !.code = code]
  BY DEF moved_to
<1> QED
  BY <1>1, <1>2, RowsMovedOut

LEMMA Resolved ==
  ASSUME Inv, NEW at
  PROVE  /\ resolve_escalation(at) \in Seq(EscalationRecords)
         /\ DOMAIN resolve_escalation(at) = DOMAIN escalations
         /\ \A k \in DOMAIN escalations : EscalationStays(escalations[k], resolve_escalation(at)[k])
<1> DEFINE t == resolve_escalation(at)
<1>1. escalations \in Seq(EscalationRecords)
  BY DEF Inv, TypesInv
<1>2. t = [k \in DOMAIN escalations |-> t[k]]
  BY DEF resolve_escalation
<1>3. ASSUME NEW k \in DOMAIN escalations
      PROVE  t[k] \in EscalationRecords /\ EscalationStays(escalations[k], t[k])
  <2>1. escalations[k] \in EscalationRecords
    BY <1>1
  <2>2. t[k] = [escalations[k] EXCEPT !.state = "resolved"] \/ t[k] = escalations[k]
    BY DEF resolve_escalation
  <2> HIDE DEF t
  <2> QED
    BY <2>1, <2>2 DEF EscalationRecords, EscalationStays, ESCALATION_OPEN_STATES
<1> HIDE DEF t
<1> QED
  BY <1>1, <1>2, <1>3, Respelled DEF t

(* Moments an act may have are not after now.                              *)
LEMMA MomentsPast == Inv => \A at \in moments : at \in Nat /\ at <= now /\ at \in OptTime
  BY DEF Inv, TypesInv, moments, OptTime, Time

LEMMA ClientStays ==
  ASSUME Inv, Client
  PROVE  Stays
<1>a. /\ now \in Nat /\ now \in 0..MaxTime /\ typed_at \in OptTime /\ typed_at <= now
      /\ inbound \in Seq(Messages) /\ chat \in Chats /\ unread \subseteq DOMAIN inbound
      /\ notes \subseteq NoteRecords
  BY DEF Inv, TypesInv
<1>1. ASSUME NEW kind \in Kinds, NEW at \in moments, StoreInbound(kind, at)
      PROVE  Stays
  <2> DEFINE m == [occurred_at |-> at, kind |-> kind, version |-> 0,
                   edited_at |-> NoTime, deleted |-> FALSE]
  <2>1. m \in Messages /\ m.occurred_at = at
    BY MomentsPast DEF Messages, OptTime
  <2>2. /\ inbound' = Append(inbound, m)
        /\ notes' = notes \union {note("enqueue", Len(inbound) + 1, at)}
        /\ UNCHANGED <<now, typed_at, chat, rows, escalations, unread>>
        /\ spent' \in [DOMAIN Budget -> Nat]
    BY <1>1, Acts, Spending DEF StoreInbound
  <2> HIDE DEF m
  <2>3. MessagesStay
    BY <1>a, <2>1, <2>2 DEF MessagesStay
  <2>4. Len(inbound) + 1 \in DOMAIN inbound'
    BY <1>a, <2>2
  <2>5. OthersStay
    <3>1. note("enqueue", Len(inbound) + 1, at) \in NoteRecords
      BY <1>a, MomentsPast DEF note, NoteRecords, Time
    <3>2. ASSUME NEW n \in notes'
          PROVE  (n.kind # "wrote" => n.m \in DOMAIN inbound') /\ n.at <= now'
      <4>1. CASE n \in notes
        BY <4>1, <2>2, <2>3, WhatIsUntouchedStays DEF Inv, PointsInv
      <4>2. CASE n = note("enqueue", Len(inbound) + 1, at)
        BY <4>2, <2>2, <2>4, MomentsPast DEF note
      <4> QED
        BY <2>2, <4>1, <4>2
    <3> QED
      BY <1>a, <2>2, <3>1, <3>2 DEF OthersStay
  <2> QED
    BY <2>2, <2>3, <2>5, WhatIsUntouchedStays DEF Stays
<1>2. ASSUME NEW m \in DOMAIN inbound, NEW kind \in Kinds, NEW at \in moments,
             RecordEdit(m, kind, at)
      PROVE  Stays
  <2> DEFINE new == [inbound[m] EXCEPT !.version = inbound[m].version + 1, !.kind = kind,
                                       !.edited_at = max2(inbound[m].edited_at, at)]
  <2>1. inbound' = [inbound EXCEPT ![m] = new]
    <3>1. inbound' = [inbound EXCEPT ![m].version = @ + 1, ![m].kind = kind,
                                     ![m].edited_at = max2(@, at)]
      BY <1>2 DEF RecordEdit
    <3>2. DOMAIN inbound' = DOMAIN inbound /\ inbound' = [k \in DOMAIN inbound |-> inbound'[k]]
      BY <3>1
    <3>3. \A k \in DOMAIN inbound : k # m => inbound'[k] = inbound[k]
      BY <3>1
    <3>4. inbound[m] \in Messages
      BY <1>a
    <3>5. inbound'[m] = new
      BY <3>1, <3>4 DEF Messages
    <3> HIDE DEF new
    <3> QED
      BY <1>a, <3>2, <3>3, <3>5
  <2>2. new \in Messages /\ new.occurred_at = inbound[m].occurred_at
    <3>1. inbound[m] \in Messages /\ at \in OptTime
      BY <1>a, MomentsPast
    <3>2. max2(inbound[m].edited_at, at) \in OptTime
      BY <3>1 DEF max2, Messages
    <3>3. inbound[m].version + 1 \in Nat
      BY <3>1 DEF Messages
    <3> QED
      BY <3>1, <3>2, <3>3 DEF Messages
  <2>3. /\ notes' = notes \union {note("edited", m, at)}
        /\ UNCHANGED <<now, typed_at, chat, rows, escalations, unread>>
        /\ spent' \in [DOMAIN Budget -> Nat]
    BY <1>2, Acts, Spending DEF RecordEdit
  <2> HIDE DEF new
  <2>4. inbound' \in Seq(Messages) /\ Len(inbound') = Len(inbound) /\ DOMAIN inbound' = DOMAIN inbound
    BY <1>a, <2>1, <2>2
  <2>5. MessagesStay
    BY <1>a, <2>1, <2>2, <2>4 DEF MessagesStay
  <2>6. OthersStay
    <3>1. note("edited", m, at) \in NoteRecords
      BY <1>a, MomentsPast DEF note, NoteRecords, Time
    <3>2. ASSUME NEW n \in notes'
          PROVE  (n.kind # "wrote" => n.m \in DOMAIN inbound') /\ n.at <= now'
      <4>1. CASE n \in notes
        BY <4>1, <2>3, <2>4 DEF Inv, PointsInv
      <4>2. CASE n = note("edited", m, at)
        BY <4>2, <2>3, <2>4, MomentsPast DEF note
      <4> QED
        BY <2>3, <4>1, <4>2
    <3> QED
      BY <1>a, <2>3, <3>1, <3>2 DEF OthersStay
  <2> QED
    BY <2>3, <2>5, <2>6, WhatIsUntouchedStays DEF Stays
<1>3. ASSUME NEW m \in DOMAIN inbound, ClientDeleted(m)
      PROVE  Stays
  <2>1. /\ inbound' = [inbound EXCEPT ![m].deleted = TRUE]
        /\ UNCHANGED <<now, typed_at, escalations, notes>>
        /\ spent' \in [DOMAIN Budget -> Nat]
    BY <1>3, Acts, Spending DEF ClientDeleted
  <2>2. inbound' \in Seq(Messages) /\ Len(inbound') = Len(inbound) /\ DOMAIN inbound' = DOMAIN inbound
    <3> DEFINE new == [inbound[m] EXCEPT !.deleted = TRUE]
    <3>1. new \in Messages
      <4>1. inbound[m] \in Messages
        BY <1>a
      <4> QED
        BY <4>1 DEF Messages
    <3>2. inbound' = [inbound EXCEPT ![m] = new]
      BY <2>1
    <3> HIDE DEF new
    <3> QED
      BY <1>a, <3>1, <3>2
  <2>3. MessagesStay
    BY <1>a, <2>1, <2>2 DEF MessagesStay, Messages
  <2> DEFINE answering == {r \in DOMAIN rows : rows[r].state \in PENDING /\ rows[r].trigger = m}
             burst_rows == {r \in read_with(m, PENDING) : /\ rows[r].trigger # m
                                                          /\ rows[r].escalation = 0}
  <2>4. rows' = [r \in DOMAIN rows |->
                       IF r \in answering
                         THEN [rows[r] EXCEPT !.state = "cancelled", !.code = "trigger_deleted"]
                       ELSE IF r \in burst_rows
                         THEN [rows[r] EXCEPT !.state = "expired", !.code = "burst_deleted"]
                       ELSE rows[r]]
    BY <1>3 DEF ClientDeleted
  <2>5. \/ chat' = requeued /\ unread' = unread \union {rows[r].trigger : r \in burst_rows}
        \/ UNCHANGED <<chat, unread>>
    BY <1>3 DEF ClientDeleted
  <2>6. burst_rows \subseteq DOMAIN rows
    BY DEF read_with
  <2> HIDE DEF answering, burst_rows
  <2>7. RowsStay
    <3>1. rows' = [r \in DOMAIN rows |-> rows'[r]]
      BY <2>4
    <3>2. \A r \in DOMAIN rows :
            \/ rows'[r] = rows[r]
            \/ rows'[r] = [rows[r] EXCEPT !.state = "cancelled", !.code = "trigger_deleted"]
            \/ rows'[r] = [rows[r] EXCEPT !.state = "expired", !.code = "burst_deleted"]
      BY <2>4
    <3>3. "trigger_deleted" \in Codes /\ "burst_deleted" \in Codes
      BY DEF Codes
    <3> QED
      BY <3>1, <3>2, <3>3, RowsMovedOut
  <2>8. QueueStays
    <3>1. \A r \in burst_rows : rows[r].trigger \in DOMAIN inbound
      BY <2>6 DEF Inv, PointsInv, Points
    <3>2. CASE UNCHANGED <<chat, unread>>
      BY <3>2, <2>3, WhatIsUntouchedStays
    <3>3. CASE chat' = requeued /\ unread' = unread \union {rows[r].trigger : r \in burst_rows}
      <4>1. now + DEBOUNCE \in Nat
        BY <1>a, ChatAssumption
      <4>2. chat' \in Chats /\ chat'.respond_after = now + DEBOUNCE /\ chat'.leased = FALSE
        BY <1>a, <3>3, <4>1 DEF requeued, Chats, OptTime, Time
      <4> QED
        BY <1>a, <2>2, <3>1, <3>3, <4>1, <4>2 DEF QueueStays, NoTime
    <3> QED
      BY <2>5, <3>2, <3>3
  <2> QED
    BY <2>1, <2>3, <2>7, <2>8, WhatIsUntouchedStays DEF Stays
<1> QED
  BY <1>1, <1>2, <1>3 DEF Client

LEMMA OwnerWroteStays ==
  ASSUME Inv, NEW at \in Nat, OwnerWroteAt(at)
  PROVE  /\ RowsStay /\ EscalationsStay
         /\ chat' \in Chats
         /\ chat'.respond_after = chat.respond_after /\ chat'.leased = chat.leased
<1>1. RowsStay
  <2>1. rows' = moved_to(drafts_answered_by(at), "cancelled", "owner_replied")
    BY DEF OwnerWroteAt
  <2> QED
    BY <2>1, MovedOut DEF Codes
<1>2. EscalationsStay
  <2>1. escalations' = resolve_escalation(at)
    BY DEF OwnerWroteAt
  <2> QED
    BY <2>1, Resolved DEF EscalationsStay
<1>3. chat \in Chats /\ at \in OptTime /\ at + TAKEOVER \in OptTime
  BY ChatAssumption DEF Inv, TypesInv, OptTime, Time
<1>4. /\ max2(chat.owner_replied_at, at) \in OptTime
      /\ max2(chat.ai_paused_until, at + TAKEOVER) \in OptTime
  BY <1>3 DEF max2, Chats
<1>5. PICK turns \in Nat :
        chat' = [chat EXCEPT !.known = TRUE, !.owner_replied_at = max2(chat.owner_replied_at, at),
                             !.ai_paused_until = max2(chat.ai_paused_until, at + TAKEOVER),
                             !.turns = turns]
  BY <1>3 DEF OwnerWroteAt, Chats
<1>6. /\ chat' \in Chats
      /\ chat'.respond_after = chat.respond_after /\ chat'.leased = chat.leased
  BY <1>3, <1>4, <1>5 DEF Chats
<1> QED
  BY <1>1, <1>2, <1>6

LEMMA OwnerStays ==
  ASSUME Inv, Owner
  PROVE  Stays
<1>a. /\ now \in Nat /\ now \in 0..MaxTime /\ typed_at \in OptTime /\ typed_at <= now
      /\ chat \in Chats /\ notes \subseteq NoteRecords /\ unread \subseteq DOMAIN inbound
      /\ now \in OptTime
  BY DEF Inv, TypesInv, OptTime, Time
<1>1. ASSUME NEW at \in moments, StoreOwnerMessage(at)
      PROVE  Stays
  <2>1. /\ typed_at' = max2(typed_at, at)
        /\ notes' = notes \union {note("wrote", 0, at)}
        /\ UNCHANGED <<now, inbound, chat, rows, escalations, unread>>
        /\ spent' \in [DOMAIN Budget -> Nat]
    BY <1>1, Acts, Spending DEF StoreOwnerMessage
  <2>2. typed_at' \in OptTime /\ typed_at' <= now
    BY <1>a, <2>1, MomentsPast DEF max2
  <2>3. note("wrote", 0, at) \in NoteRecords
    BY MomentsPast DEF note, NoteRecords, Time
  <2>4. ASSUME NEW n \in notes'
        PROVE  (n.kind # "wrote" => n.m \in DOMAIN inbound') /\ n.at <= now'
    <3>1. CASE n \in notes
      BY <3>1, <2>1 DEF Inv, PointsInv
    <3>2. CASE n = note("wrote", 0, at)
      BY <3>2, <2>1, MomentsPast DEF note
    <3> QED
      BY <2>1, <3>1, <3>2
  <2>5. OthersStay
    BY <1>a, <2>1, <2>2, <2>3, <2>4 DEF OthersStay
  <2> QED
    BY <2>1, <2>5, WhatIsUntouchedStays DEF Stays
<1>2. ASSUME NEW at \in moments, NoteOwnerSticker(at)
      PROVE  Stays
  <2>1. /\ OwnerWroteAt(at) /\ UNCHANGED <<now, inbound, typed_at, notes, unread>>
        /\ spent' \in [DOMAIN Budget -> Nat]
    BY <1>2, Acts, Spending DEF NoteOwnerSticker
  <2>2. at \in Nat
    BY MomentsPast
  <2>3. /\ RowsStay /\ EscalationsStay /\ chat' \in Chats
        /\ chat'.respond_after = chat.respond_after /\ chat'.leased = chat.leased
    BY <2>1, <2>2, OwnerWroteStays
  <2>4. QueueStays
    BY <1>a, <2>1, <2>3 DEF QueueStays
  <2> QED
    BY <2>1, <2>3, <2>4, WhatIsUntouchedStays DEF Stays
<1>3. ASSUME NEW at \in moments, OwnerComposing(at)
      PROVE  Stays
  <2>1. /\ chat' = [chat EXCEPT !.owner_composing_at = max2(chat.owner_composing_at, at)]
        /\ UNCHANGED <<now, inbound, typed_at, rows, escalations, notes, unread>>
        /\ spent' \in [DOMAIN Budget -> Nat]
    BY <1>3, Acts, Spending DEF OwnerComposing
  <2>2. max2(chat.owner_composing_at, at) \in OptTime
    BY <1>a, MomentsPast DEF max2, Chats
  <2>3. /\ chat' \in Chats
        /\ chat'.respond_after = chat.respond_after /\ chat'.leased = chat.leased
    BY <1>a, <2>1, <2>2 DEF Chats
  <2>4. QueueStays
    BY <1>a, <2>1, <2>3 DEF QueueStays
  <2> QED
    BY <2>1, <2>4, WhatIsUntouchedStays DEF Stays
<1>4. CASE OwnerRead
  <2>1. /\ chat' = [chat EXCEPT !.owner_seen_at = now]
        /\ UNCHANGED <<now, inbound, typed_at, rows, escalations, notes, unread>>
        /\ spent' \in [DOMAIN Budget -> Nat]
    BY <1>4, Acts, Spending DEF OwnerRead
  <2>2. /\ chat' \in Chats
        /\ chat'.respond_after = chat.respond_after /\ chat'.leased = chat.leased
    BY <1>a, <2>1 DEF Chats
  <2>3. QueueStays
    BY <1>a, <2>1, <2>2 DEF QueueStays
  <2> QED
    BY <2>1, <2>3, WhatIsUntouchedStays DEF Stays
<1>5. CASE OwnerWillWrite
  <2>1. /\ chat' = [chat EXCEPT !.known = TRUE,
                                !.ai_paused_until = max2(chat.ai_paused_until, now + TAKEOVER)]
        /\ UNCHANGED <<now, inbound, typed_at, notes, unread>>
        /\ spent' \in [DOMAIN Budget -> Nat]
    BY <1>5, Acts, Spending DEF OwnerWillWrite
  <2>2. max2(chat.ai_paused_until, now + TAKEOVER) \in OptTime
    BY <1>a, ChatAssumption DEF max2, Chats, OptTime, Time
  <2>3. /\ chat' \in Chats
        /\ chat'.respond_after = chat.respond_after /\ chat'.leased = chat.leased
    BY <1>a, <2>1, <2>2 DEF Chats
  <2>4. QueueStays
    BY <1>a, <2>1, <2>3 DEF QueueStays
  <2>5. RowsStay
    <3>1. PICK set : rows' = moved_to(set, "cancelled", "owner_will_write")
      BY <1>5 DEF OwnerWillWrite
    <3> QED
      BY <3>1, MovedOut DEF Codes
  <2>6. EscalationsStay
    <3>1. CASE UNCHANGED escalations
      BY <3>1, WhatIsUntouchedStays
    <3>2. ASSUME NEW k \in DOMAIN escalations, shown(k),
                 escalations' = [escalations EXCEPT ![k].state = "owner_replying"]
          PROVE  EscalationsStay
      <4>1. escalations \in Seq(EscalationRecords) /\ escalations[k] \in EscalationRecords
        BY ElementOf DEF Inv, TypesInv
      <4> DEFINE new == [escalations[k] EXCEPT !.state = "owner_replying"]
      <4>2. new \in EscalationRecords /\ EscalationStays(escalations[k], new)
        BY <3>2, <4>1 DEF EscalationRecords, ESCALATION_OPEN_STATES, EscalationStays, shown
      <4>3. escalations' = [escalations EXCEPT ![k] = new]
        BY <3>2
      <4> HIDE DEF new
      <4>4. \A j \in DOMAIN escalations : EscalationStays(escalations[j], escalations'[j])
        BY <4>2, <4>3 DEF EscalationStays
      <4> QED
        BY <4>1, <4>2, <4>3, <4>4 DEF EscalationsStay
    <3> QED
      BY <1>5, <3>1, <3>2 DEF OwnerWillWrite
  <2> QED
    BY <2>1, <2>4, <2>5, <2>6, WhatIsUntouchedStays DEF Stays
<1>6. ASSUME NEW r \in DOMAIN rows, Approve(r)
      PROVE  Stays
  <2>1. /\ rows[r].state = "draft"
        /\ rows' = [rows EXCEPT ![r].state = "approved", ![r].approved_by = OWNER,
                                ![r].approved_at = now]
        /\ UNCHANGED <<now, inbound, typed_at, chat, escalations, notes, unread>>
        /\ spent' \in [DOMAIN Budget -> Nat]
    BY <1>6, Acts, Spending DEF Approve
  <2>2. rows \in Seq(RowRecords) /\ rows[r] \in RowRecords
    BY ElementOf DEF Inv, TypesInv
  <2> DEFINE new == [rows[r] EXCEPT !.state = "approved", !.approved_by = OWNER, !.approved_at = now]
  <2>3. rows' = [rows EXCEPT ![r] = new]
    <3>1. DOMAIN rows' = DOMAIN rows /\ rows' = [q \in DOMAIN rows |-> rows'[q]]
      BY <2>1
    <3>2. \A q \in DOMAIN rows : q # r => rows'[q] = rows[q]
      BY <2>1
    <3>3. rows'[r] = new
      BY <2>1, <2>2 DEF RowRecords
    <3> HIDE DEF new
    <3> QED
      BY <2>2, <3>1, <3>2, <3>3
  <2>4. new \in RowRecords /\ new.state = "approved" /\ new.approved_by = OWNER /\ new.approved_at = now
    BY <1>a, <2>2 DEF RowRecords, RowStates, PENDING
  <2>5. /\ new.trigger = rows[r].trigger /\ new.read = rows[r].read
        /\ new.escalation = rows[r].escalation
        /\ new.created_at = rows[r].created_at /\ new.not_before = rows[r].not_before
    BY <2>2 DEF RowRecords
  <2> HIDE DEF new
  <2>6. RowStays(rows[r], new)
    BY <1>a, <2>1, <2>4, <2>5 DEF RowStays, OWNER, NoApprover, NoTime, live_state, PENDING
  <2>7. \A q \in DOMAIN rows : RowStays(rows[q], rows'[q]) /\ ~claims(q)
    <3>1. \A q \in DOMAIN rows : q # r => RowStays(rows[q], rows'[q]) /\ ~claims(q)
      BY <2>3 DEF Inv, PointsInv, Points, RowStays, claims
    <3>2. RowStays(rows[r], rows'[r]) /\ ~claims(r)
      BY <2>1, <2>2, <2>3, <2>6 DEF claims
    <3> QED
      BY <3>1, <3>2
  <2>8. RowsStay
    BY <2>2, <2>3, <2>4, <2>7 DEF RowsStay
  <2> QED
    BY <2>1, <2>8, WhatIsUntouchedStays DEF Stays
<1> QED
  BY <1>1, <1>2, <1>3, <1>4, <1>5, <1>6 DEF Owner

(* Taking a note up leaves the others.                                     *)
LEMMA NoteTaken ==
  ASSUME Inv, NEW n \in notes, notes' = notes \ {n},
         UNCHANGED <<now, inbound, typed_at, spent>>
  PROVE  MessagesStay /\ OthersStay
<1>1. MessagesStay /\ spent' \in [DOMAIN Budget -> Nat]
  BY WhatIsUntouchedStays DEF Inv, TypesInv
<1>2. OthersStay
  BY DEF Inv, TypesInv, PointsInv, OthersStay
<1> QED
  BY <1>1, <1>2

LEMMA RequeuedStays ==
  ASSUME Inv, UNCHANGED <<now, inbound>>, NEW m \in DOMAIN inbound,
         \/ chat' = requeued /\ unread' = unread \union {m}
         \/ UNCHANGED <<chat, unread>>
  PROVE  QueueStays
<1>1. now + DEBOUNCE \in Nat /\ chat \in Chats /\ unread \subseteq DOMAIN inbound
  BY ChatAssumption DEF Inv, TypesInv
<1>2. CASE UNCHANGED <<chat, unread>>
  BY <1>1, <1>2 DEF QueueStays
<1>3. CASE chat' = requeued /\ unread' = unread \union {m}
  <2>1. chat' \in Chats /\ chat'.respond_after = now + DEBOUNCE /\ chat'.leased = FALSE
    BY <1>1, <1>3 DEF requeued, Chats, OptTime, Time
  <2> QED
    BY <1>1, <1>3, <2>1 DEF QueueStays, NoTime
<1> QED
  BY <1>2, <1>3

LEMMA ReaderStays ==
  ASSUME Inv, Reader
  PROVE  Stays
<1>a. PICK n \in notes : EnqueueCandidate(n) \/ NoteOwnerMessage(n)
                         \/ \E swapped \in Swaps : ClientEdited(n, swapped)
  BY DEF Reader
<1>b. /\ n.m \in Nat /\ n.at \in Nat /\ (n.kind # "wrote" => n.m \in DOMAIN inbound)
      /\ now \in Nat /\ chat \in Chats /\ unread \subseteq DOMAIN inbound
      /\ inbound \in Seq(Messages)
  BY DEF Inv, TypesInv, PointsInv, NoteRecords, Time
<1>1. CASE EnqueueCandidate(n)
  <2>1. /\ n.kind = "enqueue" /\ notes' = notes \ {n}
        /\ UNCHANGED <<now, inbound, typed_at, rows, escalations, spent>>
    BY <1>1 DEF EnqueueCandidate
  <2>2. MessagesStay /\ OthersStay
    BY <2>1, NoteTaken
  <2>3. QueueStays
    <3>1. CASE UNCHANGED <<chat, unread>>
      BY <3>1, <2>2, WhatIsUntouchedStays
    <3>2. ASSUME chat' = [chat EXCEPT !.known = TRUE, !.leased = FALSE,
                             !.last_inbound_at = occurred(n.m),
                             !.respond_after = max2(now, occurred(n.m)) + DEBOUNCE],
                 unread' = unread \union {n.m}
          PROVE  QueueStays
      <4>1. inbound[n.m] \in Messages
        BY <1>b, <2>1, ElementOf
      <4>2. occurred(n.m) \in Nat
        BY <4>1 DEF occurred, Messages
      <4>3. max2(now, occurred(n.m)) + DEBOUNCE \in Nat
        BY <1>b, <4>2, ChatAssumption DEF max2
      <4>4. /\ chat' \in Chats /\ chat'.leased = FALSE
            /\ chat'.respond_after = max2(now, occurred(n.m)) + DEBOUNCE
        BY <1>b, <3>2, <4>2, <4>3 DEF Chats, OptTime, Time
      <4> QED
        <5>1. chat'.respond_after # NoTime
          BY <4>3, <4>4 DEF NoTime
        <5>2. unread' \subseteq DOMAIN inbound'
          BY <1>b, <2>1, <3>2
        <5> QED
          BY <4>4, <5>1, <5>2 DEF QueueStays
    <3> QED
      BY <1>1, <3>1, <3>2 DEF EnqueueCandidate
  <2> QED
    BY <2>1, <2>2, <2>3, WhatIsUntouchedStays DEF Stays
<1>2. CASE NoteOwnerMessage(n)
  <2>1. /\ notes' = notes \ {n} /\ OwnerWroteAt(n.at)
        /\ UNCHANGED <<now, inbound, typed_at, unread, spent>>
    BY <1>2 DEF NoteOwnerMessage
  <2>2. MessagesStay /\ OthersStay
    BY <2>1, NoteTaken
  <2>3. /\ RowsStay /\ EscalationsStay /\ chat' \in Chats
        /\ chat'.respond_after = chat.respond_after /\ chat'.leased = chat.leased
    BY <1>b, <2>1, OwnerWroteStays
  <2>4. QueueStays
    BY <1>b, <2>1, <2>3 DEF QueueStays
  <2> QED
    BY <2>2, <2>3, <2>4 DEF Stays
<1>3. ASSUME NEW swapped \in Swaps, ClientEdited(n, swapped)
      PROVE  Stays
  <2> DEFINE expired == read_by(n.m)
  <2>1. /\ n.kind = "edited" /\ notes' = notes \ {n}
        /\ UNCHANGED <<now, inbound, typed_at, spent>>
        /\ rows' = moved_to(expired, "expired", "trigger_edited")
        /\ escalations' = cancelled_for_edit(expired)
    BY <1>3 DEF ClientEdited
  <2>2. MessagesStay /\ OthersStay
    BY <2>1, NoteTaken
  <2>3. \/ chat' = requeued /\ unread' = unread \union {n.m}
        \/ UNCHANGED <<chat, unread>>
    BY <1>3 DEF ClientEdited
  <2> HIDE DEF expired
  <2>4. RowsStay
    BY <2>1, MovedOut DEF Codes
  <2>5. EscalationsStay
    <3>1. escalations \in Seq(EscalationRecords)
      BY DEF Inv, TypesInv
    <3>2. escalations' = [k \in DOMAIN escalations |-> escalations'[k]]
      BY <2>1 DEF cancelled_for_edit
    <3>3. ASSUME NEW k \in DOMAIN escalations
          PROVE  escalations'[k] \in EscalationRecords
                 /\ EscalationStays(escalations[k], escalations'[k])
      <4>1. escalations[k] \in EscalationRecords
        BY <3>1, ElementOf
      <4>2. \/ escalations'[k] = [escalations[k] EXCEPT !.state = "cancelled", !.edited = TRUE]
            \/ escalations'[k] = escalations[k]
        BY <2>1 DEF cancelled_for_edit
      <4> QED
        BY <4>1, <4>2 DEF EscalationRecords, EscalationStays, ESCALATION_OPEN_STATES
    <3>4. escalations' \in Seq(EscalationRecords) /\ DOMAIN escalations' = DOMAIN escalations
      BY <3>1, <3>2, <3>3, Respelled
    <3> QED
      BY <3>3, <3>4 DEF EscalationsStay
  <2>6. QueueStays
    BY <1>b, <2>1, <2>3, RequeuedStays
  <2> QED
    BY <2>2, <2>4, <2>5, <2>6 DEF Stays
<1> QED
  BY <1>a, <1>1, <1>2, <1>3

LEMMA ReaderDiesStays ==
  ASSUME Inv, ReaderDies
  PROVE  Stays
<1>1. /\ notes' = {} /\ UNCHANGED <<now, inbound, typed_at, chat, rows, escalations, unread>>
      /\ spent' \in [DOMAIN Budget -> Nat]
  BY Acts, Spending DEF ReaderDies
<1>2. OthersStay
  BY <1>1 DEF Inv, TypesInv, OthersStay
<1> QED
  BY <1>1, <1>2, WhatIsUntouchedStays DEF Stays

LEMMA TickStays ==
  ASSUME Inv, Tick
  PROVE  Stays
<1>1. /\ now' = now + 1 /\ now < MaxTime
      /\ UNCHANGED <<inbound, typed_at, chat, rows, escalations, notes, unread, spent>>
  BY DEF Tick
<1>2. /\ now \in 0..MaxTime /\ MaxTime \in Nat /\ typed_at \in Int /\ typed_at <= now
  BY ChatAssumption DEF Inv, TypesInv, OptTime, Time, NoTime
<1>3. OthersStay
  <2>1. \A n \in notes : n.at \in Nat /\ n.at <= now /\ (n.kind # "wrote" => n.m \in DOMAIN inbound)
    BY DEF Inv, TypesInv, PointsInv, NoteRecords, Time
  <2>2. \A n \in notes' : (n.kind # "wrote" => n.m \in DOMAIN inbound') /\ n.at <= now'
    BY <1>1, <1>2, <2>1
  <2>3. now' \in now..MaxTime /\ typed_at' <= now'
    BY <1>1, <1>2
  <2> QED
    BY <1>1, <2>2, <2>3 DEF OthersStay, Inv, TypesInv
<1> QED
  BY <1>1, <1>3, WhatIsUntouchedStays DEF Stays

(* The claim's two lines answer with one of these words.                   *)
LEMMA Objections ==
  ASSUME NEW r
  PROVE  objection(r).action \in {"none", "hold", "block", "expire", "cancel"}
         /\ objection(r).code \in Codes
<1>1. \A row, c : /\ chat_state_line(row, c).action \in {"none", "hold", "block", "cancel"}
                  /\ chat_state_line(row, c).code \in Codes
  <2> HIDE DEF since, composing, auto, ai
  <2> QED
    BY DEF chat_state_line, Hold, Decision, Pass, Codes
<1>2. \A row, c : /\ trigger_line(row, c).action \in {"none", "hold", "block", "expire", "cancel"}
                  /\ trigger_line(row, c).code \in Codes
  <2> SUFFICES ASSUME NEW row, NEW c
               PROVE  /\ trigger_line(row, c).action \in {"none", "hold", "block", "expire", "cancel"}
                      /\ trigger_line(row, c).code \in Codes
    OBVIOUS
  <2> HIDE DEF ai
  <2> QED
    BY DEF trigger_line, Hold, Decision, Pass, Codes
<1> QED
  BY <1>1, <1>2, Zenon DEF objection

LEMMA SendingStays ==
  ASSUME Inv, Sending
  PROVE  Stays
<1>a. /\ now \in Nat /\ chat \in Chats /\ rows \in Seq(RowRecords) /\ now \in OptTime
  BY DEF Inv, TypesInv, OptTime, Time
<1>1. ASSUME NEW r \in DOMAIN rows, ClaimReady(r)
      PROVE  Stays
  <2>1. /\ rows[r].state = "approved"
        /\ objection(r).action \in DOMAIN outcome_state
        /\ rows' = moved_to({r}, outcome_state[objection(r).action], objection(r).code)
        /\ UNCHANGED <<now, inbound, typed_at, chat, escalations, notes, unread, spent>>
    BY <1>1 DEF ClaimReady
  <2>2. objection(r).code \in Codes
    BY Objections
  <2>3. CASE objection(r).action # "none"
    <3>1. outcome_state[objection(r).action] \in {"cancelled", "expired", "blocked"}
      BY <2>1, <2>3, Objections DEF outcome_state
    <3>2. RowsStay
      BY <2>1, <2>2, <3>1, MovedOut
    <3> QED
      BY <2>1, <3>2, WhatIsUntouchedStays DEF Stays, Inv, TypesInv
  <2>4. CASE objection(r).action = "none"
    <3> DEFINE code == objection(r).code
               new == [rows[r] EXCEPT !.state = "sending", !.code = code]
    <3>1. rows' = [q \in DOMAIN rows |-> IF q = r THEN new ELSE rows[q]]
      <4>1. outcome_state["none"] = "sending"
        BY DEF outcome_state
      <4>2. rows' = moved_to({r}, "sending", code)
        BY <2>1, <2>4, <4>1, Zenon
      <4> HIDE DEF code
      <4> QED
        BY <4>2 DEF moved_to
    <3>2. rows[r] \in RowRecords /\ Points(rows[r])
      BY <1>a, ElementOf DEF Inv, PointsInv
    <3>3. new \in RowRecords /\ new.state = "sending"
      BY <2>2, <3>2 DEF RowRecords, RowStates
    <3>4. /\ new.trigger = rows[r].trigger /\ new.read = rows[r].read
          /\ new.escalation = rows[r].escalation
          /\ new.created_at = rows[r].created_at /\ new.not_before = rows[r].not_before
          /\ new.approved_by = rows[r].approved_by /\ new.approved_at = rows[r].approved_at
      BY <3>2 DEF RowRecords
    <3> HIDE DEF new
    <3>5. RowStays(rows[r], new)
      BY <2>1, <3>2, <3>3, <3>4 DEF RowStays, Points, live_state, PENDING
    <3>6. ASSUME NEW q \in DOMAIN rows
          PROVE  /\ rows'[q] \in RowRecords /\ RowStays(rows[q], rows'[q])
                 /\ claims(q) => objection(q).action = "none"
      <4>1. CASE q = r
        BY <4>1, <2>4, <3>1, <3>3, <3>5
      <4>2. CASE q # r
        <5>1. rows'[q] = rows[q] /\ rows[q] \in RowRecords /\ Points(rows[q])
          BY <1>a, <3>1, <4>2, ElementOf DEF Inv, PointsInv
        <5> QED
          BY <5>1 DEF RowStays, Points, claims
      <4> QED
        BY <4>1, <4>2
    <3>7. rows' = [q \in DOMAIN rows |-> rows'[q]]
      BY <3>1
    <3>8. rows' \in Seq(RowRecords) /\ DOMAIN rows' = DOMAIN rows
      BY <1>a, <3>6, <3>7, Respelled
    <3>9. RowsStay
      BY <3>6, <3>8 DEF RowsStay
    <3> QED
      BY <2>1, <3>9, WhatIsUntouchedStays DEF Stays, Inv, TypesInv
  <2> QED
    BY <2>3, <2>4
<1>2. ASSUME NEW r \in DOMAIN rows, Complete(r)
      PROVE  Stays
  <2>1. /\ rows[r].state = "sending"
        /\ rows' = [rows EXCEPT ![r].state = "sent", ![r].sent_at = now]
        /\ chat' = [chat EXCEPT !.known = TRUE, !.last_ai_sent_at = now, !.turns = chat.turns + 1]
        /\ UNCHANGED <<now, inbound, typed_at, escalations, notes, unread, spent>>
    BY <1>2 DEF Complete
  <2> DEFINE new == [rows[r] EXCEPT !.state = "sent", !.sent_at = now]
  <2>2. rows[r] \in RowRecords /\ Points(rows[r])
    BY <1>a, ElementOf DEF Inv, PointsInv
  <2>3. rows' = [rows EXCEPT ![r] = new]
    <3>1. DOMAIN rows' = DOMAIN rows /\ rows' = [q \in DOMAIN rows |-> rows'[q]]
      BY <2>1
    <3>2. \A q \in DOMAIN rows : q # r => rows'[q] = rows[q]
      BY <2>1
    <3>3. rows'[r] = new
      BY <2>1, <2>2 DEF RowRecords
    <3> HIDE DEF new
    <3> QED
      BY <3>1, <3>2, <3>3, Zenon
  <2>4. new \in RowRecords /\ new.state = "sent"
    BY <1>a, <2>2 DEF RowRecords, RowStates
  <2>5. /\ new.trigger = rows[r].trigger /\ new.read = rows[r].read
        /\ new.escalation = rows[r].escalation
        /\ new.created_at = rows[r].created_at /\ new.not_before = rows[r].not_before
        /\ new.approved_by = rows[r].approved_by /\ new.approved_at = rows[r].approved_at
    BY <2>2 DEF RowRecords
  <2> HIDE DEF new
  <2>6. RowStays(rows[r], new)
    BY <2>1, <2>2, <2>4, <2>5 DEF RowStays, Points, live_state
  <2>7. \A q \in DOMAIN rows : RowStays(rows[q], rows'[q]) /\ ~claims(q)
    <3>1. \A q \in DOMAIN rows : q # r => RowStays(rows[q], rows'[q]) /\ ~claims(q)
      BY <2>3 DEF Inv, PointsInv, Points, RowStays, claims
    <3>2. RowStays(rows[r], rows'[r]) /\ ~claims(r)
      BY <1>a, <2>1, <2>3, <2>6 DEF claims
    <3> QED
      BY <3>1, <3>2
  <2>8. RowsStay
    BY <1>a, <2>3, <2>4, <2>7 DEF RowsStay
  <2>9. /\ chat' \in Chats
        /\ chat'.respond_after = chat.respond_after /\ chat'.leased = chat.leased
    <3>1. chat.turns + 1 \in Nat
      BY <1>a DEF Chats
    <3> QED
      BY <1>a, <2>1, <3>1 DEF Chats
  <2>10. QueueStays
    BY <2>1, <2>9 DEF QueueStays, Inv, TypesInv
  <2> QED
    BY <2>1, <2>8, <2>10, WhatIsUntouchedStays DEF Stays, Inv, TypesInv
<1>3. ASSUME NEW r \in DOMAIN rows, Expire(r)
      PROVE  Stays
  <2>1. /\ rows' = moved_to({r}, "expired", "expired")
        /\ UNCHANGED <<now, inbound, typed_at, chat, escalations, notes, unread, spent>>
    BY <1>3 DEF Expire
  <2>2. RowsStay
    BY <2>1, MovedOut DEF Codes
  <2> QED
    BY <2>1, <2>2, WhatIsUntouchedStays DEF Stays, Inv, TypesInv
<1> QED
  BY <1>1, <1>2, <1>3 DEF Sending

(* Whoever acts outside a look leaves it all as it should stay.            *)
LEMMA ChatStays == Inv /\ ChatNext => Stays
  BY ClientStays, OwnerStays, ReaderStays, ReaderDiesStays, SendingStays, TickStays DEF ChatNext

-----------------------------------------------------------------------------
(* The invariant is kept outside a look. *)

(* Messages that came do not change when the others were sent.             *)
LEMMA WindowsStay ==
  ASSUME Inv, MessagesStay, NEW read, messages_of(read) \subseteq DOMAIN inbound
  PROVE  window_over(inbound', read) = window_over(inbound, read)
<1> DEFINE set == messages_of(read)
<1>1. set \subseteq DOMAIN inbound
  OBVIOUS
<1> HIDE DEF set
<1>2. \A m \in set : inbound'[m].occurred_at = inbound[m].occurred_at
  BY <1>1 DEF MessagesStay
<1>3. {inbound'[m].occurred_at : m \in set} = {inbound[m].occurred_at : m \in set}
  BY <1>2
<1> QED
  BY <1>3 DEF window_over, set

LEMMA StaysTypes ==
  ASSUME Inv, Stays, look' \in Looks
  PROVE  TypesInv'
  BY ChatAssumption
     DEF Inv, TypesInv, Stays, MessagesStay, RowsStay, EscalationsStay, QueueStays, OthersStay

LEMMA StaysPoints ==
  ASSUME Inv, Stays, UNCHANGED look
  PROVE  PointsInv'
<1>a. /\ inbound \in Seq(Messages) /\ inbound' \in Seq(Messages) /\ now \in Nat /\ now' \in Nat
      /\ now <= now' /\ Len(inbound) <= Len(inbound') /\ DOMAIN inbound \subseteq DOMAIN inbound'
  BY WhatIsUntouchedStays, ChatAssumption DEF Inv, TypesInv, Stays, MessagesStay, OthersStay
<1>1. \A m \in DOMAIN inbound' : occurred(m)' <= now'
  <2> SUFFICES ASSUME NEW m \in DOMAIN inbound' PROVE inbound'[m].occurred_at <= now'
    BY DEF occurred
  <2>1. CASE m \in DOMAIN inbound
    <3>1. inbound[m] \in Messages /\ inbound[m].occurred_at <= now
      BY <1>a, <2>1, ElementOf DEF Inv, PointsInv, occurred
    <3>2. inbound'[m].occurred_at = inbound[m].occurred_at
      BY <2>1 DEF Stays, MessagesStay
    <3> QED
      BY <1>a, <3>1, <3>2 DEF Messages
  <2>2. CASE m \notin DOMAIN inbound
    BY <1>a, <2>2, MomentsPast DEF Stays, MessagesStay
  <2> QED
    BY <2>1, <2>2
<1>2. \A r \in DOMAIN rows' : Points(rows[r])'
  <2> SUFFICES ASSUME NEW r \in DOMAIN rows' PROVE Points(rows[r])'
    OBVIOUS
  <2>1. r \in DOMAIN rows /\ RowStays(rows[r], rows'[r])
    BY DEF Stays, RowsStay
  <2>2. Points(rows[r])
    BY <2>1 DEF Inv, PointsInv
  <2>3. DOMAIN escalations' = DOMAIN escalations
    BY DEF Stays, EscalationsStay
  <2> QED
    BY <1>a, <2>1, <2>2, <2>3 DEF Points, RowStays
<1>3. \A k \in DOMAIN escalations' : /\ escalations'[k].interaction \in DOMAIN inbound'
                                     /\ escalations'[k].repeated \in 0..Len(inbound')
  <2>1. \A k \in DOMAIN escalations : /\ escalations[k].interaction \in DOMAIN inbound
                                      /\ escalations[k].repeated \in 0..Len(inbound)
    BY DEF Inv, PointsInv
  <2>2. /\ DOMAIN escalations' = DOMAIN escalations
        /\ \A k \in DOMAIN escalations : /\ escalations'[k].interaction = escalations[k].interaction
                                         /\ escalations'[k].repeated = escalations[k].repeated
    BY DEF Stays, EscalationsStay, EscalationStays
  <2>3. 0..Len(inbound) \subseteq 0..Len(inbound')
    BY <1>a
  <2> QED
    BY <1>a, <2>1, <2>2, <2>3
<1>4. \A n \in notes' : (n.kind # "wrote" => n.m \in DOMAIN inbound') /\ n.at <= now'
  BY DEF Stays, OthersStay
<1>5. /\ look'.seen \subseteq DOMAIN inbound'
      /\ look'.pc = "thinking" =>
           /\ look'.trigger \in DOMAIN inbound'
           /\ messages_of(look'.read) \subseteq DOMAIN inbound' /\ messages_of(look'.read) # {}
           /\ look'.at \in 0..now'
  <2>1. 0..now \subseteq 0..now'
    BY <1>a
  <2> QED
    BY <1>a, <2>1 DEF Inv, PointsInv
<1> QED
  BY <1>1, <1>2, <1>3, <1>4, <1>5 DEF PointsInv

LEMMA StaysQueue ==
  ASSUME Inv, Stays, UNCHANGED look
  PROVE  QueueInv'
<1>1. \/ /\ unread' = unread
         /\ chat'.respond_after = chat.respond_after /\ chat'.leased = chat.leased
      \/ chat'.respond_after # NoTime /\ ~chat'.leased
  BY DEF Stays, QueueStays
<1> QED
  BY <1>1 DEF Inv, QueueInv, NothingIsLost

LEMMA StaysEscalation ==
  ASSUME Inv, Stays
  PROVE  EscalationInv'
<1>1. \A j, k \in open_in(escalations') : j = k
  <2>1. open_in(escalations') \subseteq open_in(escalations)
    BY DEF Stays, EscalationsStay, EscalationStays, open_in
  <2> QED
    BY <2>1 DEF Inv, EscalationInv
<1>2. \A r, q \in DOMAIN rows' :
        rows'[r].escalation # 0 /\ rows'[r].escalation = rows'[q].escalation => r = q
  <2>1. DOMAIN rows' = DOMAIN rows /\ \A r \in DOMAIN rows : rows'[r].escalation = rows[r].escalation
    BY DEF Stays, RowsStay, RowStays
  <2> QED
    BY <2>1 DEF Inv, EscalationInv
<1> QED
  BY <1>1, <1>2 DEF EscalationInv

LEMMA StaysWindow ==
  ASSUME Inv, Stays, UNCHANGED look
  PROVE  WindowInv'
<1>a. now \in Nat /\ now' \in Nat /\ now <= now'
  BY ChatAssumption DEF Inv, TypesInv, Stays, OthersStay
<1>1. ASSUME NEW r \in DOMAIN rows'
      PROVE  /\ rows'[r].created_at <= now'
             /\ \/ rows'[r].created_at >= window_over(inbound', rows'[r].read)
                \/ rows'[r].not_before >= window_over(inbound', rows'[r].read)
  <2>1. r \in DOMAIN rows /\ RowStays(rows[r], rows'[r]) /\ Points(rows[r]) /\ rows[r] \in RowRecords
    BY ElementOf DEF Stays, RowsStay, Inv, TypesInv, PointsInv
  <2>2. /\ rows'[r].read = rows[r].read /\ rows'[r].created_at = rows[r].created_at
        /\ rows'[r].not_before = rows[r].not_before
        /\ messages_of(rows[r].read) \subseteq DOMAIN inbound
    BY <2>1 DEF RowStays, Points
  <2>3. window_over(inbound', rows[r].read) = window_over(inbound, rows[r].read)
    BY <2>2, WindowsStay DEF Stays
  <2>4. /\ rows[r].created_at <= now
        /\ \/ rows[r].created_at >= window_over(inbound, rows[r].read)
           \/ rows[r].not_before >= window_over(inbound, rows[r].read)
    BY <2>1 DEF Inv, WindowInv, window_end
  <2>5. rows[r].created_at \in Nat
    BY <2>1 DEF RowRecords, Time
  <2> HIDE DEF window_over
  <2> QED
    BY <1>a, <2>2, <2>3, <2>4, <2>5
<1>2. look'.pc = "thinking" => look'.at >= window_over(inbound', look'.read)
  <2>1. CASE look.pc = "thinking"
    <3>1. messages_of(look.read) \subseteq DOMAIN inbound
          /\ look.at >= window_over(inbound, look.read)
      BY <2>1 DEF Inv, PointsInv, WindowInv, window_end
    <3>2. window_over(inbound', look.read) = window_over(inbound, look.read)
      BY <3>1, WindowsStay DEF Stays
    <3> QED
      BY <3>1, <3>2
  <2>2. CASE look.pc # "thinking"
    BY <2>2
  <2> QED
    BY <2>1, <2>2
<1> HIDE DEF window_over
<1> QED
  BY <1>1, <1>2 DEF WindowInv, window_end

-----------------------------------------------------------------------------
(* What a look reads. *)

LEMMA MessageIs ==
  ASSUME Inv, NEW m \in DOMAIN inbound
  PROVE  /\ inbound[m] \in Messages /\ occurred(m) \in Nat /\ occurred(m) \in 0..now
         /\ inbound[m].version \in Nat /\ m \in Nat
<1>1. inbound \in Seq(Messages) /\ now \in Nat
  BY DEF Inv, TypesInv
<1>2. inbound[m] \in Messages
  BY <1>1, ElementOf
<1>3. occurred(m) \in Nat /\ occurred(m) <= now /\ inbound[m].version \in Nat
  BY <1>2 DEF Inv, PointsInv, occurred, Messages
<1> QED
  BY <1>1, <1>2, <1>3

LEMMA LastOfIs ==
  ASSUME Inv, NEW set, set \subseteq DOMAIN inbound, set # {}
  PROVE  /\ last_of(set) \in set
         /\ \A q \in set : \/ occurred(q) < occurred(last_of(set))
                           \/ occurred(q) = occurred(last_of(set)) /\ q <= last_of(set)
<1>a. /\ now \in Nat /\ inbound \in Seq(Messages) /\ Len(inbound) \in Nat
      /\ DOMAIN inbound = 1..Len(inbound)
  BY DEF Inv, TypesInv
<1>b. \A m \in DOMAIN inbound : occurred(m) \in 0..now
  BY MessageIs
<1> DEFINE times == {occurred(m) : m \in set}
<1>1. PICK latest_time \in times : \A t \in times : t <= latest_time
  <2>1. times \subseteq 0..now /\ times # {}
    BY <1>b
  <2> HIDE DEF times
  <2> QED
    BY <1>a, <2>1, GreatestOf
<1> DEFINE newest == {m \in set : occurred(m) = latest_time}
<1>2. PICK m \in newest : \A q \in newest : q <= m
  <2>1. newest \subseteq 0..Len(inbound) /\ newest # {}
    BY <1>a
  <2> HIDE DEF newest
  <2> QED
    BY <1>a, <2>1, GreatestOf
<1>3. \A q \in set : \/ occurred(q) < occurred(m)
                     \/ occurred(q) = occurred(m) /\ q <= m
  <2> SUFFICES ASSUME NEW q \in set
               PROVE  \/ occurred(q) < occurred(m)
                      \/ occurred(q) = occurred(m) /\ q <= m
    OBVIOUS
  <2>1. occurred(q) \in Nat /\ occurred(m) \in Nat /\ occurred(q) <= occurred(m)
    BY <1>b, <1>1
  <2>2. CASE occurred(q) = occurred(m)
    BY <1>2, <2>2
  <2> HIDE DEF occurred
  <2> QED
    BY <2>1, <2>2
<1> HIDE DEF occurred
<1> QED
  BY <1>2, <1>3, Zenon DEF last_of

LEMMA SinceFirstIs ==
  ASSUME Inv, NEW set, set \subseteq DOMAIN inbound, set # {}
  PROVE  since_first(set) \in Nat
<1>1. \A m \in DOMAIN inbound : occurred(m) \in Nat
  BY MessageIs
<1> DEFINE times == {occurred(m) : m \in set}
<1>2. times \subseteq Nat /\ times # {}
  BY <1>1
<1> HIDE DEF times
<1>3. earliest(times) \in Nat
  BY <1>2, EarliestIs
<1> QED
  BY <1>3 DEF since_first, times

LEMMA OwnerMoment == Inv => last_owner \in OptTime
<1> SUFFICES ASSUME Inv PROVE last_owner \in OptTime
  OBVIOUS
<1>1. typed_at \in OptTime /\ chat.owner_replied_at \in OptTime
  BY DEF Inv, TypesInv, Chats
<1> QED
  BY <1>1 DEF last_owner, max2

LEMMA ReadyAtIs ==
  ASSUME Inv, burst # {}
  PROVE  /\ since_first(burst) + OWNER_FIRST \in Nat
         /\ ready_at \in Nat /\ ready_at >= since_first(burst) + OWNER_FIRST
<1>1. burst \subseteq DOMAIN inbound
  BY DEF burst
<1>2. since_first(burst) + OWNER_FIRST \in Nat
  BY <1>1, SinceFirstIs, ChatAssumption
<1>3. typing => chat.owner_composing_at + COMPOSING_HOLD \in Nat
  BY GateAssumption DEF typing, Inv, TypesInv, Chats, OptTime, Time, NoTime
<1> QED
  BY <1>2, <1>3 DEF ready_at, max2

(* What the look notes down, said again without its conversions.           *)
GoodLook(d) ==
  /\ d \in Looks
  /\ d.at \in 0..now
  /\ d.trigger \in DOMAIN inbound
  /\ messages_of(d.read) \subseteq DOMAIN inbound /\ messages_of(d.read) # {}
  /\ d.seen \subseteq DOMAIN inbound
  /\ d.at >= window_over(inbound, d.read) \/ d.stall_after >= window_over(inbound, d.read)

LEMMA ReadingIsGood ==
  ASSUME Inv, answers
  PROVE  /\ GoodLook(reading)
         /\ messages_of(reading.read) = burst
         /\ reading.trigger = last_of(burst) /\ reading.lease = look.lease /\ reading.at = now
         /\ now >= ready_at => now >= window_over(inbound, reading.read)
<1>a. /\ now \in 0..MaxTime /\ now \in Nat /\ look \in Looks /\ inbound \in Seq(Messages)
      /\ unread \subseteq DOMAIN inbound /\ DOMAIN inbound \subseteq Nat /\ now \in OptTime
  BY DEF Inv, TypesInv, OptTime, Time
<1>b. burst # {} /\ burst \subseteq DOMAIN inbound
  BY DEF answers, no_reply, burst
<1> DEFINE read == {[m |-> m, version |-> inbound[m].version] : m \in burst}
<1>1. read \in SUBSET [m : Nat, version : Nat]
  <2>1. \A m \in burst : inbound[m].version \in Nat /\ m \in Nat
    BY <1>b, MessageIs
  <2> QED
    BY <2>1
<1>2. messages_of(read) = burst
  <2>1. \A x \in read : x.m \in burst
    OBVIOUS
  <2>2. ASSUME NEW m \in burst PROVE \E x \in read : x.m = m
    <3>1. [m |-> m, version |-> inbound[m].version] \in read
      OBVIOUS
    <3>2. [m |-> m, version |-> inbound[m].version].m = m
      OBVIOUS
    <3> QED
      BY <3>1, <3>2, Zenon
  <2> HIDE DEF read
  <2> QED
    BY <2>1, <2>2 DEF messages_of
<1>3. last_of(burst) \in burst
  BY <1>b, LastOfIs
<1>4. stall_moment \in OptTime
  BY <1>b, ReadyAtIs DEF stall_moment, OptTime, Time
<1>5. last_owner \in OptTime
  BY OwnerMoment
<1> DEFINE r == reading
<1>6. /\ r.pc = look.pc /\ r.lease = look.lease /\ r.at = now /\ r.read = read
      /\ r.trigger = last_of(burst) /\ r.owner_at = last_owner /\ r.stall_after = stall_moment
      /\ r.seen = unread
  BY <1>a DEF reading, Looks
<1>7. r \in Looks
  <2> HIDE DEF read
  <2>1. last_of(burst) \in Nat
    BY <1>a, <1>b, <1>3
  <2>2. unread \in SUBSET Nat
    BY <1>a
  <2>3. reading = [look EXCEPT !.at = now, !.read = read, !.trigger = last_of(burst),
                               !.owner_at = last_owner, !.stall_after = stall_moment,
                               !.seen = unread]
    BY DEF reading, read
  <2> HIDE DEF read
  <2> QED
    BY <1>a, <1>1, <1>4, <1>5, <2>1, <2>2, <2>3 DEF Looks
<1> HIDE DEF r, read
<1>8. window_over(inbound, r.read) = since_first(burst) + OWNER_FIRST
  BY <1>2, <1>6 DEF window_over, since_first, occurred
<1>9. since_first(burst) + OWNER_FIRST \in Nat /\ ready_at \in Nat
      /\ ready_at >= since_first(burst) + OWNER_FIRST
  BY <1>b, ReadyAtIs
<1>10. r.at >= window_over(inbound, r.read) \/ r.stall_after >= window_over(inbound, r.read)
  <2>1. CASE now < ready_at
    BY <2>1, <1>6, <1>8, <1>9 DEF stall_moment
  <2>2. CASE ~(now < ready_at)
    BY <2>2, <1>a, <1>6, <1>8, <1>9
  <2> QED
    BY <2>1, <2>2
<1>11. GoodLook(r)
  <2>1. now \in 0..now
    BY <1>a
  <2> QED
    BY <1>a, <1>b, <1>2, <1>3, <1>6, <1>7, <1>10, <2>1 DEF GoodLook
<1>12. now >= ready_at => now >= window_over(inbound, r.read)
  BY <1>a, <1>8, <1>9
<1> QED
  BY <1>2, <1>6, <1>11, <1>12 DEF r

LEMMA SettledStays ==
  ASSUME Inv, NEW d
  PROVE  /\ settled(d) \in Seq(EscalationRecords)
         /\ DOMAIN settled(d) = DOMAIN escalations
         /\ \A k \in DOMAIN escalations : EscalationStays(escalations[k], settled(d)[k])
<1> DEFINE owned == IF d.owner_at = NoTime THEN escalations ELSE resolve_escalation(d.owner_at)
           list == settled(d)
<1>1. /\ owned \in Seq(EscalationRecords) /\ DOMAIN owned = DOMAIN escalations
      /\ \A k \in DOMAIN escalations : EscalationStays(escalations[k], owned[k])
  BY Resolved, WhatIsUntouchedStays DEF Inv, TypesInv, EscalationStays
<1>2. list = [k \in DOMAIN owned |->
         IF owned[k].state \in EXPIRING /\ owned[k].created_at <= d.at - DRAFT_EXPIRY
           THEN [owned[k] EXCEPT !.state = "expired"] ELSE owned[k]]
  BY DEF settled
<1> HIDE DEF owned, list
<1>3. list = [k \in DOMAIN owned |-> list[k]]
  BY <1>2
<1>4. ASSUME NEW k \in DOMAIN owned
      PROVE  list[k] \in EscalationRecords /\ EscalationStays(escalations[k], list[k])
  <2>1. owned[k] \in EscalationRecords /\ EscalationStays(escalations[k], owned[k])
    BY <1>1, ElementOf
  <2>2. list[k] = [owned[k] EXCEPT !.state = "expired"] \/ list[k] = owned[k]
    BY <1>2
  <2> QED
    BY <2>1, <2>2 DEF EscalationRecords, EscalationStays, ESCALATION_OPEN_STATES
<1>5. list \in Seq(EscalationRecords) /\ DOMAIN list = DOMAIN owned
  BY <1>1, <1>3, <1>4, Respelled
<1> QED
  BY <1>1, <1>4, <1>5 DEF list

-----------------------------------------------------------------------------
(* What a look writes. *)

Wrote(d) ==
  \/ /\ Propose(d, 0, NoTime) /\ escalations' = settled(d)
     /\ d.at >= window_over(inbound, d.read)
  \/ \E stall \in BOOLEAN : Escalate(d, stall)
  \/ UNCHANGED <<rows, escalations>>

(* A row a look adds is one nobody had, for a chat as it was read.         *)
NewRow(d, row) ==
  /\ row \in RowRecords
  /\ row.trigger = d.trigger /\ row.read = d.read /\ row.created_at = d.at
  /\ row.state \in PENDING
  /\ row.approved_by = NoApprover <=> row.approved_at = NoTime
  /\ row.state = "approved" => row.approved_by # NoApprover
  /\ row.created_at >= window_over(inbound, d.read) \/ row.not_before >= window_over(inbound, d.read)

LEMMA NewRowIs ==
  ASSUME Inv, NEW d, GoodLook(d), NEW escalation \in Nat, NEW not_before \in OptTime,
         NEW state \in initial_states(escalation),
         d.at >= window_over(inbound, d.read) \/ not_before >= window_over(inbound, d.read)
  PROVE  /\ NewRow(d, new_row(d, state, escalation, not_before))
         /\ new_row(d, state, escalation, not_before).escalation = escalation
<1> DEFINE row == new_row(d, state, escalation, not_before)
<1>1. state \in PENDING
  BY ChatAssumption DEF initial_states, PENDING
<1>2. /\ d.at \in Nat /\ d.trigger \in Nat /\ d.read \in SUBSET [m : Nat, version : Nat]
      /\ d.at \in OptTime /\ d.at # NoTime
  <2>1. now \in Nat
    BY DEF Inv, TypesInv
  <2> QED
    BY <2>1 DEF GoodLook, Looks, OptTime, Time, NoTime
<1>3. max2(not_before, d.at) + DRAFT_EXPIRY \in Nat
  BY <1>2, ChatAssumption DEF max2, OptTime, Time, NoTime
<1>4. /\ row.state = state /\ row.authored_by = AI
      /\ row.approved_by = IF state = "approved" THEN AUTO_APPROVER ELSE NoApprover
      /\ row.approved_at = IF state = "approved" THEN d.at ELSE NoTime
      /\ row.created_at = d.at /\ row.trigger = d.trigger /\ row.not_before = not_before
      /\ row.read = d.read /\ row.escalation = escalation
  BY DEF new_row
<1>5. row \in RowRecords
  <2>1. state \in RowStates /\ "" \in Codes /\ NoTime \in OptTime
    BY <1>1 DEF RowStates, Codes, OptTime
  <2>2. (IF state = "approved" THEN AUTO_APPROVER ELSE NoApprover) \in {NoApprover, OWNER, AUTO_APPROVER}
    OBVIOUS
  <2>3. (IF state = "approved" THEN d.at ELSE NoTime) \in OptTime
    BY <1>2, <2>1
  <2> QED
    BY <1>2, <1>3, <2>1, <2>2, <2>3 DEF new_row, RowRecords, Time
<1> HIDE DEF row
<1>6. NewRow(d, row)
  BY <1>1, <1>2, <1>4, <1>5 DEF NewRow, NoApprover, AUTO_APPROVER
<1> QED
  BY <1>4, <1>6 DEF row

(* Escalations after a look: the old ones, or those and a new one when     *)
(* none of them is open.                                                   *)
LEMMA WrittenEscalations ==
  ASSUME Inv, NEW d, GoodLook(d), Wrote(d)
  PROVE  /\ escalations' \in Seq(EscalationRecords)
         /\ DOMAIN escalations \subseteq DOMAIN escalations'
         /\ \A k \in DOMAIN escalations' : /\ escalations'[k].interaction \in DOMAIN inbound
                                           /\ escalations'[k].repeated \in 0..Len(inbound)
         /\ \A j, k \in open_in(escalations') : j = k
<1> DEFINE list == settled(d)
<1>a. /\ escalations \in Seq(EscalationRecords) /\ inbound \in Seq(Messages)
      /\ list \in Seq(EscalationRecords) /\ DOMAIN list = DOMAIN escalations
      /\ \A k \in DOMAIN escalations : EscalationStays(escalations[k], list[k])
      /\ Len(inbound) \in Nat /\ d.at \in Nat /\ d.trigger \in DOMAIN inbound
  <2>1. now \in Nat /\ escalations \in Seq(EscalationRecords) /\ inbound \in Seq(Messages)
    BY DEF Inv, TypesInv
  <2> QED
    BY <2>1, SettledStays DEF GoodLook
<1> HIDE DEF list
<1>b. \A k \in DOMAIN escalations : /\ escalations[k].interaction \in DOMAIN inbound
                                    /\ escalations[k].repeated \in 0..Len(inbound)
  BY DEF Inv, PointsInv
<1>c. \A k \in DOMAIN list : /\ list[k].interaction \in DOMAIN inbound
                             /\ list[k].repeated \in 0..Len(inbound)
  BY <1>a, <1>b DEF EscalationStays
<1>d. \A j, k \in open_in(list) : j = k
  <2>1. open_in(list) \subseteq open_in(escalations)
    BY <1>a DEF EscalationStays, open_in
  <2> QED
    BY <2>1 DEF Inv, EscalationInv
<1>1. CASE escalations' = list
  BY <1>1, <1>a, <1>c, <1>d
<1>2. CASE UNCHANGED escalations
  BY <1>2, <1>a, <1>b DEF Inv, EscalationInv
<1>3. ASSUME open_in(list) # {},
             escalations' = [k \in DOMAIN list |->
               IF k \in open_in(list) THEN [list[k] EXCEPT !.repeated = max2(@, d.trigger)]
                                      ELSE list[k]]
      PROVE  /\ escalations' \in Seq(EscalationRecords)
             /\ DOMAIN escalations' = DOMAIN list
             /\ \A k \in DOMAIN escalations' : /\ escalations'[k].interaction \in DOMAIN inbound
                                               /\ escalations'[k].repeated \in 0..Len(inbound)
             /\ \A j, k \in open_in(escalations') : j = k
  <2>1. escalations' = [k \in DOMAIN list |-> escalations'[k]]
    BY <1>3
  <2>2. ASSUME NEW k \in DOMAIN list
        PROVE  /\ escalations'[k] \in EscalationRecords
               /\ escalations'[k].interaction = list[k].interaction
               /\ escalations'[k].state = list[k].state
               /\ escalations'[k].repeated \in 0..Len(inbound)
    <3>1. list[k] \in EscalationRecords
      BY <1>a, ElementOf
    <3>2. max2(list[k].repeated, d.trigger) \in 0..Len(inbound)
      BY <1>a, <1>c DEF max2
    <3>3. \/ escalations'[k] = [list[k] EXCEPT !.repeated = max2(list[k].repeated, d.trigger)]
          \/ escalations'[k] = list[k]
      BY <1>3
    <3>4. \A j \in 0..Len(inbound) : j \in Nat
      BY <1>a
    <3> DEFINE times == max2(list[k].repeated, d.trigger)
    <3>5. times \in Nat /\ times \in 0..Len(inbound)
      BY <3>2, <3>4
    <3> HIDE DEF times
    <3>6. CASE escalations'[k] = [list[k] EXCEPT !.repeated = times]
      BY <3>1, <3>5, <3>6 DEF EscalationRecords
    <3>7. CASE escalations'[k] = list[k]
      BY <1>c, <3>1, <3>7
    <3> QED
      BY <3>3, <3>6, <3>7 DEF times
  <2>3. escalations' \in Seq(EscalationRecords) /\ DOMAIN escalations' = DOMAIN list
    BY <1>a, <2>1, <2>2, Respelled
  <2>4. open_in(escalations') \subseteq open_in(list)
    BY <2>2, <2>3 DEF open_in
  <2> QED
    BY <1>c, <1>d, <2>2, <2>3, <2>4
<1>4. ASSUME open_in(list) = {}, escalations' = Append(list, new_escalation(d))
      PROVE  /\ escalations' \in Seq(EscalationRecords)
             /\ DOMAIN list \subseteq DOMAIN escalations'
             /\ \A k \in DOMAIN escalations' : /\ escalations'[k].interaction \in DOMAIN inbound
                                               /\ escalations'[k].repeated \in 0..Len(inbound)
             /\ \A j, k \in open_in(escalations') : j = k
  <2> DEFINE e == new_escalation(d)
  <2>1. e \in EscalationRecords /\ e.interaction = d.trigger /\ e.repeated = 0
    BY <1>a DEF new_escalation, EscalationRecords, ESCALATION_OPEN_STATES, Time
  <2> HIDE DEF e
  <2>2. escalations' = Append(list, e)
    BY <1>4 DEF e
  <2>3. /\ escalations' \in Seq(EscalationRecords) /\ DOMAIN list \subseteq DOMAIN escalations'
        /\ \A k \in DOMAIN escalations' :
             \/ k \in DOMAIN list /\ escalations'[k] = list[k]
             \/ k = Len(list) + 1 /\ escalations'[k] = e
    BY <1>a, <2>1, <2>2
  <2>4. \A k \in open_in(escalations') : k = Len(list) + 1
    BY <1>4, <2>3 DEF open_in
  <2>5. 0 \in 0..Len(inbound)
    BY <1>a
  <2> QED
    BY <1>a, <1>c, <2>1, <2>3, <2>4, <2>5
<1>5. CASE Propose(d, 0, NoTime) /\ escalations' = settled(d)
  BY <1>5, <1>1 DEF list
<1>6. ASSUME NEW stall \in BOOLEAN, Escalate(d, stall)
      PROVE  \/ open_in(list) # {} /\ escalations' = [k \in DOMAIN list |->
                  IF k \in open_in(list) THEN [list[k] EXCEPT !.repeated = max2(@, d.trigger)]
                                         ELSE list[k]]
             \/ open_in(list) = {} /\ escalations' = Append(list, new_escalation(d))
  <2>1. CASE open_in(list) # {}
    BY <1>6, <2>1, Zenon DEF Escalate, list
  <2>2. CASE open_in(list) = {}
    BY <1>6, <2>2, Zenon DEF Escalate, list
  <2> QED
    BY <2>1, <2>2
<1> QED
  BY <1>a, <1>2, <1>3, <1>4, <1>5, <1>6, Zenon DEF Wrote

(* Rows after a look: the old ones, or those and a new one that belongs to *)
(* no escalation, or to the one the look opened.                           *)
LEMMA WrittenRows ==
  ASSUME Inv, NEW d, GoodLook(d), Wrote(d)
  PROVE  \/ rows' = rows
         \/ \E row : /\ rows' = Append(rows, row) /\ NewRow(d, row)
                     /\ \/ row.escalation = 0
                        \/ /\ row.escalation = Len(escalations) + 1
                           /\ row.escalation \in DOMAIN escalations'
<1> DEFINE list == settled(d)
<1>a. /\ Len(list) = Len(escalations) /\ list \in Seq(EscalationRecords) /\ Len(escalations) \in Nat
  <2>1. escalations \in Seq(EscalationRecords)
    BY DEF Inv, TypesInv
  <2> QED
    BY <2>1, SettledStays
<1>b. d.stall_after \in OptTime /\ NoTime \in OptTime
  BY DEF GoodLook, Looks, OptTime
<1>1. CASE Propose(d, 0, NoTime) /\ d.at >= window_over(inbound, d.read)
  <2>1. \A state \in initial_states(0) :
          NewRow(d, new_row(d, state, 0, NoTime)) /\ new_row(d, state, 0, NoTime).escalation = 0
    BY <1>b, <1>1, NewRowIs
  <2> QED
    BY <1>1, <2>1 DEF Propose
<1>2. ASSUME NEW stall \in BOOLEAN, Escalate(d, stall)
      PROVE  \/ rows' = rows
             \/ \E row : /\ rows' = Append(rows, row) /\ NewRow(d, row)
                         /\ row.escalation = Len(escalations) + 1
                         /\ row.escalation \in DOMAIN escalations'
  <2>1. CASE rows' = rows
    BY <2>1
  <2>2. CASE rows' # rows
    <3>1. open_in(list) = {} /\ stall
      BY <1>2, <2>2 DEF Escalate
    <3>2. /\ escalations' = Append(list, new_escalation(d))
          /\ Propose(d, Len(list) + 1, d.stall_after)
      BY <1>2, <3>1 DEF Escalate
    <3>3. PICK state \in initial_states(Len(list) + 1) :
            rows' = Append(rows, new_row(d, state, Len(list) + 1, d.stall_after))
      BY <2>2, <3>2 DEF Propose
    <3>4. d.at >= window_over(inbound, d.read) \/ d.stall_after >= window_over(inbound, d.read)
      BY DEF GoodLook
    <3> DEFINE row == new_row(d, state, Len(list) + 1, d.stall_after)
    <3>5. NewRow(d, row) /\ row.escalation = Len(list) + 1
      BY <1>a, <1>b, <3>4, NewRowIs
    <3>6. Len(list) + 1 \in DOMAIN escalations'
      <4> HIDE DEF list
      <4> QED
        BY <1>a, <3>2
    <3> HIDE DEF row, list
    <3> QED
      BY <1>a, <3>3, <3>5, <3>6 DEF row
  <2> QED
    BY <2>1, <2>2
<1> QED
  BY <1>1, <1>2 DEF Wrote

-----------------------------------------------------------------------------
(* What the look's own steps keep. *)

Written ==
  /\ escalations' \in Seq(EscalationRecords)
  /\ DOMAIN escalations \subseteq DOMAIN escalations'
  /\ \A k \in DOMAIN escalations' : /\ escalations'[k].interaction \in DOMAIN inbound
                                    /\ escalations'[k].repeated \in 0..Len(inbound)
  /\ \A j, k \in open_in(escalations') : j = k
  /\ \/ rows' = rows
     \/ \E d, row : /\ GoodLook(d) /\ rows' = Append(rows, row) /\ NewRow(d, row)
                    /\ \/ row.escalation = 0
                       \/ /\ row.escalation = Len(escalations) + 1
                          /\ row.escalation \in DOMAIN escalations'

LEMMA NothingWritten ==
  ASSUME Inv, UNCHANGED <<rows, escalations>>
  PROVE  Written
  BY DEF Inv, TypesInv, PointsInv, EscalationInv, Written

LEMMA WhatALookWrites ==
  ASSUME Inv, NEW d, GoodLook(d), Wrote(d)
  PROVE  Written
<1>1. /\ escalations' \in Seq(EscalationRecords)
      /\ DOMAIN escalations \subseteq DOMAIN escalations'
      /\ \A k \in DOMAIN escalations' : /\ escalations'[k].interaction \in DOMAIN inbound
                                        /\ escalations'[k].repeated \in 0..Len(inbound)
      /\ \A j, k \in open_in(escalations') : j = k
  BY WrittenEscalations
<1>2. \/ rows' = rows
      \/ \E row : /\ rows' = Append(rows, row) /\ NewRow(d, row)
                  /\ \/ row.escalation = 0
                     \/ /\ row.escalation = Len(escalations) + 1
                        /\ row.escalation \in DOMAIN escalations'
  BY WrittenRows
<1> QED
  BY <1>1, <1>2, Zenon DEF Written

(* What the worker holds, for the messages and the time it was read at.    *)
LookKept(l) ==
  /\ l \in Looks
  /\ l.seen \subseteq DOMAIN inbound
  /\ l.pc = "thinking" => /\ l.trigger \in DOMAIN inbound
                          /\ messages_of(l.read) \subseteq DOMAIN inbound
                          /\ messages_of(l.read) # {}
                          /\ l.at \in 0..now
                          /\ l.at >= window_over(inbound, l.read)

(* Every row after a look is one of the old ones or the new one.           *)
LEMMA RowsAfterALook ==
  ASSUME Inv, Written
  PROVE  /\ rows' \in Seq(RowRecords)
         /\ DOMAIN rows \subseteq DOMAIN rows'
         /\ \A r \in DOMAIN rows : rows'[r] = rows[r]
         /\ \A r \in DOMAIN rows' \ DOMAIN rows :
              /\ r = Len(rows) + 1
              /\ \E d : /\ GoodLook(d) /\ NewRow(d, rows'[r])
                        /\ \/ rows'[r].escalation = 0
                           \/ /\ rows'[r].escalation = Len(escalations) + 1
                              /\ rows'[r].escalation \in DOMAIN escalations'
<1>a. rows \in Seq(RowRecords)
  BY DEF Inv, TypesInv
<1>1. CASE rows' = rows
  BY <1>a, <1>1
<1>2. ASSUME NEW d, NEW row, GoodLook(d), rows' = Append(rows, row), NewRow(d, row),
             \/ row.escalation = 0
             \/ /\ row.escalation = Len(escalations) + 1
                /\ row.escalation \in DOMAIN escalations'
      PROVE  /\ rows' \in Seq(RowRecords)
             /\ DOMAIN rows \subseteq DOMAIN rows'
             /\ \A r \in DOMAIN rows : rows'[r] = rows[r]
             /\ \A r \in DOMAIN rows' \ DOMAIN rows : r = Len(rows) + 1 /\ rows'[r] = row
  BY <1>a, <1>2 DEF NewRow
<1> QED
  BY <1>1, <1>2, Zenon DEF Written

LEMMA LookKeeps ==
  ASSUME Inv, Written, UNCHANGED <<now, inbound, typed_at, notes>>,
         spent' \in [DOMAIN Budget -> Nat], chat' \in Chats, unread' \subseteq DOMAIN inbound,
         LookKept(look'), QueueInv'
  PROVE  Inv'
<1>a. /\ rows' \in Seq(RowRecords) /\ DOMAIN rows \subseteq DOMAIN rows'
      /\ \A r \in DOMAIN rows : rows'[r] = rows[r]
      /\ \A r \in DOMAIN rows' \ DOMAIN rows :
           /\ r = Len(rows) + 1
           /\ \E d : /\ GoodLook(d) /\ NewRow(d, rows'[r])
                     /\ \/ rows'[r].escalation = 0
                        \/ /\ rows'[r].escalation = Len(escalations) + 1
                           /\ rows'[r].escalation \in DOMAIN escalations'
  BY RowsAfterALook
<1>b. now \in Nat /\ escalations \in Seq(EscalationRecords) /\ rows \in Seq(RowRecords)
  BY DEF Inv, TypesInv
<1>1. TypesInv'
  BY <1>a DEF Inv, TypesInv, Written, LookKept
<1>2. PointsInv'
  <2>1. ASSUME NEW r \in DOMAIN rows' PROVE Points(rows[r])'
    <3>1. CASE r \in DOMAIN rows
      <4>1. Points(rows[r]) /\ rows'[r] = rows[r]
        BY <1>a, <3>1 DEF Inv, PointsInv
      <4> QED
        BY <4>1 DEF Points, Written
    <3>2. CASE r \notin DOMAIN rows
      <4>1. PICK d : /\ GoodLook(d) /\ NewRow(d, rows'[r])
                     /\ \/ rows'[r].escalation = 0
                        \/ rows'[r].escalation \in DOMAIN escalations'
        BY <1>a, <3>2
      <4> QED
        BY <4>1 DEF Points, GoodLook, NewRow, PENDING
    <3> QED
      BY <3>1, <3>2
  <2>2. /\ \A m \in DOMAIN inbound' : occurred(m)' <= now'
        /\ \A n \in notes' : n.kind # "wrote" => n.m \in DOMAIN inbound'
        /\ \A n \in notes' : n.at <= now'
    BY DEF Inv, PointsInv, occurred
  <2>3. \A k \in DOMAIN escalations' : /\ escalations'[k].interaction \in DOMAIN inbound'
                                       /\ escalations'[k].repeated \in 0..Len(inbound')
    BY DEF Written
  <2> QED
    BY <2>1, <2>2, <2>3 DEF PointsInv, LookKept
<1>3. EscalationInv'
  <2>1. \A r \in DOMAIN rows : rows[r].escalation # Len(escalations) + 1
    <3>1. \A r \in DOMAIN rows : rows[r].escalation \in {0} \union DOMAIN escalations
      BY DEF Inv, PointsInv, Points
    <3> QED
      BY <1>b, <3>1
  <2>2. ASSUME NEW r \in DOMAIN rows', NEW q \in DOMAIN rows',
               rows'[r].escalation # 0, rows'[r].escalation = rows'[q].escalation
        PROVE  r = q
    <3>1. \A p \in DOMAIN rows' : p \notin DOMAIN rows =>
            p = Len(rows) + 1 /\ (rows'[p].escalation = 0
                                  \/ rows'[p].escalation = Len(escalations) + 1)
      BY <1>a
    <3>2. CASE r \in DOMAIN rows /\ q \in DOMAIN rows
      BY <1>a, <2>2, <3>2 DEF Inv, EscalationInv
    <3>3. CASE ~(r \in DOMAIN rows /\ q \in DOMAIN rows)
      BY <1>a, <2>1, <2>2, <3>1, <3>3
    <3> QED
      BY <3>2, <3>3
  <2> QED
    BY <2>2 DEF EscalationInv, Written
<1>4. WindowInv'
  <2>1. ASSUME NEW r \in DOMAIN rows'
        PROVE  /\ rows'[r].created_at <= now
               /\ \/ rows'[r].created_at >= window_over(inbound, rows'[r].read)
                  \/ rows'[r].not_before >= window_over(inbound, rows'[r].read)
    <3>1. CASE r \in DOMAIN rows
      BY <1>a, <3>1 DEF Inv, WindowInv, window_end
    <3>2. CASE r \notin DOMAIN rows
      <4>1. PICK d : GoodLook(d) /\ NewRow(d, rows'[r])
        BY <1>a, <3>2
      <4>2. d.at <= now /\ rows'[r].created_at = d.at /\ rows'[r].read = d.read
        BY <1>b, <4>1 DEF GoodLook, NewRow
      <4> QED
        BY <4>1, <4>2 DEF NewRow
    <3> QED
      BY <3>1, <3>2
  <2> QED
    BY <2>1 DEF WindowInv, window_end, LookKept, window_over
<1> QED
  BY <1>1, <1>2, <1>3, <1>4 DEF Inv

LEMMA FinishIs ==
  ASSUME Inv, NEW until \in OptTime, Finish(until)
  PROVE  /\ chat' \in Chats
         /\ \/ chat' = chat /\ ~(chat.leased /\ chat.respond_after = look.lease)
            \/ /\ chat.leased /\ chat.respond_after = look.lease
               /\ chat'.respond_after = until /\ ~chat'.leased
  BY DEF Inv, TypesInv, Finish, Chats

LEMMA NoLookKept == LookKept(NoLook) /\ NoLook.pc = "idle" /\ NoLook.seen = {}
  BY DEF LookKept, NoLook, Looks, OptTime

LEMMA ClaimDueKeeps ==
  ASSUME Inv, ClaimDue
  PROVE  Inv'
<1>a. now \in Nat /\ chat \in Chats /\ now + CLAIM_LEASE \in Nat
  BY ChatAssumption DEF Inv, TypesInv
<1>1. /\ look' = [NoLook EXCEPT !.pc = "claimed", !.lease = now + CLAIM_LEASE]
      /\ chat' = [chat EXCEPT !.respond_after = now + CLAIM_LEASE, !.leased = TRUE]
      /\ UNCHANGED <<now, inbound, typed_at, rows, escalations, notes, unread, spent>>
  BY DEF ClaimDue
<1>2. chat' \in Chats /\ chat'.respond_after = now + CLAIM_LEASE /\ chat'.respond_after # NoTime
  <2> DEFINE lease == now + CLAIM_LEASE
  <2>1. lease \in OptTime /\ lease # NoTime
    BY <1>a DEF OptTime, Time, NoTime
  <2> HIDE DEF lease
  <2>2. chat' = [chat EXCEPT !.respond_after = lease, !.leased = TRUE]
    BY <1>1 DEF lease
  <2>3. chat' \in Chats /\ chat'.respond_after = lease
    BY <1>a, <2>1, <2>2 DEF Chats
  <2> QED
    BY <2>1, <2>3 DEF lease
<1>3. look' \in Looks /\ look'.pc = "claimed" /\ look'.seen = {}
  BY <1>a, <1>1 DEF NoLook, Looks, OptTime, Time
<1>4. QueueInv'
  BY <1>2, <1>3 DEF QueueInv, NothingIsLost
<1>5. LookKept(look')
  BY <1>3 DEF LookKept
<1> QED
  BY <1>1, <1>2, <1>4, <1>5, LookKeeps, NothingWritten DEF Inv, TypesInv

LEMMA LeaveForNextRunKeeps ==
  ASSUME Inv, LeaveForNextRun
  PROVE  Inv'
<1>1. look' = NoLook /\ UNCHANGED chat_vars
  BY DEF LeaveForNextRun
<1>2. /\ UNCHANGED <<now, inbound, typed_at, chat, rows, escalations, notes, unread, spent>>
  BY <1>1 DEF chat_vars
<1>3. QueueInv'
  BY <1>1, <1>2, NoLookKept DEF Inv, QueueInv, NothingIsLost
<1> QED
  BY <1>1, <1>2, <1>3, NoLookKept, LookKeeps, NothingWritten DEF Inv, TypesInv

LEMMA LookAwayKeeps ==
  ASSUME Inv, LookAway
  PROVE  Inv'
<1>1. /\ Finish(NoTime) /\ unread' = {} /\ look' = NoLook
      /\ UNCHANGED <<now, inbound, typed_at, rows, escalations, notes, spent>>
  BY DEF LookAway
<1>2. /\ chat' \in Chats
      /\ chat' = chat \/ (chat'.respond_after = NoTime /\ ~chat'.leased)
  BY <1>1, FinishIs DEF OptTime
<1>3. QueueInv'
  BY <1>1, <1>2, NoLookKept DEF Inv, QueueInv, NothingIsLost
<1> QED
  BY <1>1, <1>2, <1>3, NoLookKept, LookKeeps, NothingWritten DEF Inv, TypesInv

LEMMA LookAgainKeeps ==
  ASSUME Inv, LookAgain
  PROVE  Inv'
<1>1. /\ look.pc = "claimed" /\ ~no_reply /\ Finish(ready_at) /\ look' = NoLook
      /\ UNCHANGED <<now, inbound, typed_at, rows, escalations, notes, unread, spent>>
  BY DEF LookAgain, may_read
<1>2. ready_at \in OptTime /\ ready_at # NoTime
  <2>1. burst # {}
    BY <1>1 DEF no_reply
  <2> QED
    BY <2>1, ReadyAtIs DEF OptTime, Time, NoTime
<1>3. /\ chat' \in Chats
      /\ chat' = chat \/ (chat'.respond_after = ready_at /\ ~chat'.leased)
  BY <1>1, <1>2, FinishIs
<1>4. QueueInv'
  BY <1>1, <1>2, <1>3, NoLookKept DEF Inv, QueueInv, NothingIsLost
<1> QED
  BY <1>1, <1>3, <1>4, NoLookKept, LookKeeps, NothingWritten DEF Inv, TypesInv

LEMMA HandToOwnerKeeps ==
  ASSUME Inv, HandToOwner
  PROVE  Inv'
<1>1. /\ answers /\ Escalate(reading, ~owner_only)
      /\ Finish(NoTime) /\ unread' = {} /\ look' = NoLook
      /\ UNCHANGED <<now, inbound, typed_at, notes, spent>>
  BY DEF HandToOwner
<1>2. Wrote(reading)
  BY <1>1, Zenon DEF Wrote
<1>3. /\ chat' \in Chats
      /\ chat' = chat \/ (chat'.respond_after = NoTime /\ ~chat'.leased)
  BY <1>1, FinishIs DEF OptTime
<1>4. QueueInv'
  BY <1>1, <1>3, NoLookKept DEF Inv, QueueInv, NothingIsLost
<1>5. GoodLook(reading)
  BY <1>1, ReadingIsGood
<1>6. Written
  BY <1>2, <1>5, WhatALookWrites
<1> QED
  BY <1>1, <1>3, <1>4, <1>6, NoLookKept, LookKeeps DEF Inv, TypesInv

(* A model is asked only of a chat whose window ended: what escalates at   *)
(* once is never the models' to answer.                                    *)
LEMMA AskedAfterTheWindow ==
  ASSUME Inv, AskModels
  PROVE  now >= ready_at
<1>1. answers /\ ~owner_only /\ "red_line" \notin kinds(burst)
  BY DEF AskModels
<1>2. "injection" \notin kinds(burst)
  BY <1>1 DEF owner_only
<1>3. ~escalates_at_once
  BY <1>1, <1>2 DEF escalates_at_once
<1>4. ~(now < ready_at)
  BY <1>1, <1>3 DEF answers, too_early
<1>5. now \in Nat /\ ready_at \in Nat
  BY <1>1, ReadyAtIs DEF Inv, TypesInv, answers, no_reply
<1> QED
  BY <1>4, <1>5

LEMMA AskModelsKeeps ==
  ASSUME Inv, AskModels
  PROVE  Inv'
<1>1. /\ answers /\ look' = [reading EXCEPT !.pc = "thinking"] /\ unread' = {}
      /\ UNCHANGED <<now, inbound, typed_at, chat, rows, escalations, notes, spent>>
  BY DEF AskModels
<1>2. GoodLook(reading) /\ now >= window_over(inbound, reading.read) /\ reading.at = now
  BY <1>1, AskedAfterTheWindow, ReadingIsGood
<1>3. /\ look' \in Looks /\ look'.pc = "thinking" /\ look'.seen = reading.seen
      /\ look'.trigger = reading.trigger /\ look'.read = reading.read /\ look'.at = reading.at
      /\ look'.lease = reading.lease
  <2>1. reading \in Looks
    BY <1>2 DEF GoodLook
  <2> QED
    BY <1>1, <2>1 DEF Looks
<1>4. LookKept(look')
  BY <1>2, <1>3 DEF LookKept, GoodLook
<1>5. QueueInv'
  <2>1. look.pc = "claimed"
    BY <1>1 DEF answers, may_read
  <2> QED
    BY <1>1, <1>3, <2>1 DEF Inv, QueueInv, NothingIsLost
<1> QED
  BY <1>1, <1>4, <1>5, LookKeeps, NothingWritten DEF Inv, TypesInv

LEMMA ThinkingIsGood ==
  ASSUME Inv, look.pc = "thinking"
  PROVE  GoodLook(look) /\ look.at >= window_over(inbound, look.read)
  BY DEF Inv, TypesInv, PointsInv, WindowInv, window_end, GoodLook

LEMMA StoreAnswerKeeps ==
  ASSUME Inv, StoreAnswer
  PROVE  Inv'
<1>1. /\ look.pc = "thinking" /\ Finish(NoTime) /\ look' = NoLook
      /\ UNCHANGED <<now, inbound, typed_at, notes, unread, spent>>
  BY DEF StoreAnswer
<1>2. Wrote(look)
  BY <1>1, ThinkingIsGood, Zenon DEF StoreAnswer, Wrote
<1>3. /\ chat' \in Chats
      /\ \/ chat' = chat
         \/ /\ chat.leased /\ chat.respond_after = look.lease
            /\ chat'.respond_after = NoTime /\ ~chat'.leased
  BY <1>1, FinishIs DEF OptTime
<1>4. QueueInv'
  BY <1>1, <1>3, NoLookKept DEF Inv, QueueInv, NothingIsLost
<1>5. Written
  BY <1>1, <1>2, ThinkingIsGood, WhatALookWrites
<1> QED
  BY <1>1, <1>3, <1>4, <1>5, NoLookKept, LookKeeps DEF Inv, TypesInv

LEMMA WorkerDiesKeeps ==
  ASSUME Inv, WorkerDies
  PROVE  Inv'
<1>1. /\ look.pc # "idle" /\ unread' = unread \union look.seen /\ look' = NoLook
      /\ spent' \in [DOMAIN Budget -> Nat]
      /\ UNCHANGED <<now, inbound, typed_at, chat, rows, escalations, notes>>
  BY Acts, Spending DEF WorkerDies
<1>2. unread' \subseteq DOMAIN inbound /\ chat' \in Chats
  BY <1>1 DEF Inv, TypesInv, PointsInv
<1>3. QueueInv'
  BY <1>1, NoLookKept DEF Inv, QueueInv, NothingIsLost
<1> QED
  BY <1>1, <1>2, <1>3, NoLookKept, LookKeeps, NothingWritten

LEMMA ChatKeeps ==
  ASSUME Inv, ChatNext, UNCHANGED look
  PROVE  Inv'
<1>1. Stays
  BY ChatStays
<1>2. TypesInv'
  <2>1. look' \in Looks
    BY DEF Inv, TypesInv
  <2> QED
    BY <1>1, <2>1, StaysTypes
<1>3. PointsInv'
  BY <1>1, StaysPoints
<1>4. QueueInv'
  BY <1>1, StaysQueue
<1>5. EscalationInv'
  BY <1>1, StaysEscalation
<1>6. WindowInv'
  BY <1>1, StaysWindow
<1> QED
  BY <1>2, <1>3, <1>4, <1>5, <1>6 DEF Inv

LEMMA NextKeeps == Inv /\ [Next]_vars => Inv'
<1> SUFFICES ASSUME Inv, [Next]_vars PROVE Inv'
  OBVIOUS
<1>1. CASE UNCHANGED vars
  <2>1. UNCHANGED <<now, inbound, typed_at, chat, rows, escalations, notes, unread, spent, look>>
    BY <1>1 DEF vars, chat_vars
  <2>2. TypesInv'
    BY <2>1 DEF Inv, TypesInv
  <2>3. PointsInv'
    BY <2>1 DEF Inv, PointsInv, Points, occurred
  <2>4. QueueInv' /\ EscalationInv'
    BY <2>1 DEF Inv, QueueInv, NothingIsLost, EscalationInv
  <2>5. WindowInv'
    BY <2>1 DEF Inv, WindowInv, window_end, window_over
  <2> QED
    BY <2>2, <2>3, <2>4, <2>5 DEF Inv
<1>2. CASE ChatNext /\ UNCHANGED look
  BY <1>2, ChatKeeps
<1>3. CASE ClaimDue
  BY <1>3, ClaimDueKeeps
<1>4. CASE LeaveForNextRun
  BY <1>4, LeaveForNextRunKeeps
<1>5. CASE LookAway
  BY <1>5, LookAwayKeeps
<1>6. CASE LookAgain
  BY <1>6, LookAgainKeeps
<1>7. CASE HandToOwner
  BY <1>7, HandToOwnerKeeps
<1>8. CASE AskModels
  BY <1>8, AskModelsKeeps
<1>9. CASE StoreAnswer
  BY <1>9, StoreAnswerKeeps
<1>10. CASE WorkerDies
  BY <1>10, WorkerDiesKeeps
<1> QED
  BY <1>1, <1>2, <1>3, <1>4, <1>5, <1>6, <1>7, <1>8, <1>9, <1>10 DEF Next, Look

(* A step that hands a row out is the claim's, and the claim's two lines   *)
(* were silent: a look adds rows and touches none that is there.           *)
LEMMA ClaimsAreUnopposed ==
  ASSUME Inv, [Next]_vars, NEW r \in DOMAIN rows, claims(r)
  PROVE  objection(r).action = "none"
<1>1. CASE ChatNext
  BY <1>1, ChatStays DEF Stays, RowsStay
<1>2. CASE UNCHANGED rows
  BY <1>2 DEF claims
<1>3. CASE Written
  BY <1>3, RowsAfterALook DEF claims
<1>4. CASE HandToOwner
  <2>1. Wrote(reading) /\ GoodLook(reading)
    BY <1>4, ReadingIsGood, Zenon DEF HandToOwner, Wrote
  <2> QED
    BY <1>3, <2>1, WhatALookWrites
<1>5. CASE StoreAnswer
  <2>1. Wrote(look) /\ GoodLook(look)
    BY <1>5, ThinkingIsGood, Zenon DEF StoreAnswer, Wrote
  <2> QED
    BY <1>3, <2>1, WhatALookWrites
<1>6. CASE ClaimDue \/ LeaveForNextRun \/ LookAway \/ LookAgain \/ AskModels \/ WorkerDies
           \/ UNCHANGED vars
  BY <1>2, <1>6, Zenon DEF ClaimDue, LeaveForNextRun, LookAway, LookAgain, AskModels, WorkerDies,
                          vars, chat_vars
<1> QED
  BY <1>1, <1>4, <1>5, <1>6, Zenon DEF Next, Look

(* What silence of the two lines says of an AI row.                        *)
LEMMA SilentLines ==
  ASSUME Inv, NEW r \in DOMAIN rows, rows[r].state = "approved", objection(r).action = "none"
  PROVE  /\ owner_last_wrote <= since(rows[r], claim_context(r))
         /\ rows[r].not_before <= now
<1>1. rows[r] \in RowRecords
  BY ElementOf DEF Inv, TypesInv
<1>2. ai(rows[r])
  BY <1>1 DEF ai, RowRecords, AI, OWNER
<1> DEFINE row == rows[r]
           c == claim_context(r)
<1>3. chat_state_line(row, c).action = "none" /\ trigger_line(row, c).action = "none"
  BY Zenon DEF objection
<1>4. /\ c.chat_state.owner_replied_at = owner_last_wrote /\ c.now = now
  BY DEF claim_context
<1>5. /\ owner_last_wrote \in Int /\ rows[r].not_before \in Int /\ now \in Int
      /\ since(row, c) \in Int
  <2>1. /\ typed_at \in OptTime /\ chat.owner_replied_at \in OptTime /\ now \in 0..MaxTime
    BY DEF Inv, TypesInv, Chats
  <2>2. occurred(row.trigger) \in Nat
    BY MessageIs DEF Inv, PointsInv, Points
  <2>3. c.trigger.exists /\ c.trigger.occurred_at = occurred(row.trigger)
    BY DEF claim_context
  <2>4. row.approved_at \in OptTime /\ row.not_before \in OptTime
    BY <1>1 DEF RowRecords
  <2> HIDE DEF row, c
  <2> QED
    BY <2>1, <2>2, <2>3, <2>4 DEF since, owner_last_wrote, max2, OptTime, Time, NoTime, row
<1>6. ~(c.chat_state.owner_replied_at > since(row, c))
  <2> HIDE DEF c, row
  <2>1. ai(row)
    BY <1>2 DEF row
  <2> HIDE DEF since, ai, composing, auto
  <2> QED
    BY <1>3, <2>1 DEF chat_state_line, Decision, Pass
<1>7. ~(row.not_before > c.now)
  <2> HIDE DEF c, row
  <2> HIDE DEF ai
  <2> QED
    BY <1>3 DEF trigger_line, Decision, Pass, Hold
<1> QED
  <2> HIDE DEF since, c
  <2> QED
    BY <1>4, <1>5, <1>6, <1>7 DEF c

-----------------------------------------------------------------------------
(* Theorems *)

(* Types, ids that point at what exists, a queue that forgets nobody, one  *)
(* stall per escalation and a window for every row hold in every state:    *)
(* what responder.py, chat_state.py and the reader's handlers keep between *)
(* them, whatever the order of messages, edits, taps, looks and deaths.    *)
THEOREM Invariance == Spec => []Inv
<1>1. Init => Inv
  BY InitInv
<1>2. Inv /\ [Next]_vars => Inv'
  BY NextKeeps
<1> QED
  BY <1>1, <1>2, PTL DEF Spec

(* A chat with a message no look has read is in the queue                  *)
(* (chat_state.enqueue_candidate, responder._finish_chat): neither a look  *)
(* that ends after the message came nor a worker or reader that dies takes *)
(* it out.                                                                 *)
THEOREM ChatsStayQueued == Spec => []NothingIsLost
<1>1. Inv => NothingIsLost
  BY DEF Inv, QueueInv
<1> QED
  BY <1>1, Invariance, PTL

(* One escalation is open in a chat and has one stall, however often the   *)
(* client pushes (responder._escalate).                                    *)
THEOREM RepeatsAreSilent == Spec => []OneStallPerEscalation
<1>1. Inv => OneStallPerEscalation
  <2> SUFFICES ASSUME Inv PROVE OneStallPerEscalation
    OBVIOUS
  <2> DEFINE opened == open_in(escalations)
  <2>1. \A j, k \in opened : j = k
    BY DEF Inv, EscalationInv
  <2> HIDE DEF opened
  <2>2. Cardinality(opened) <= 1
    <3>1. CASE opened = {}
      BY <3>1, FS_EmptySet
    <3>2. CASE opened # {}
      <4>1. PICK k : opened = {k}
        BY <2>1, <3>2
      <4> QED
        BY <4>1, FS_Singleton
    <3> QED
      BY <3>1, <3>2
  <2> QED
    BY <2>2 DEF opened, OneStallPerEscalation, Inv, EscalationInv
<1> QED
  BY <1>1, Invariance, PTL

(* The claim (outbox.claim_ready through gate.evaluate) reads the owner's  *)
(* stored messages and the signal: no row leaves after the owner wrote,    *)
(* unless they tapped send later than that.                                *)
THEOREM OwnerIsFirst == Spec => OwnerGoesFirst
<1>1. Inv /\ [Next]_vars =>
        \A r \in DOMAIN rows : claims(r) =>
          LET tap == IF rows[r].approved_by = OWNER THEN rows[r].approved_at ELSE NoTime
          IN  /\ typed_at <= max2(tap, occurred(rows[r].trigger))
              /\ chat.owner_replied_at <= max2(tap, occurred(rows[r].trigger))
  <2> SUFFICES ASSUME Inv, [Next]_vars, NEW r \in DOMAIN rows, claims(r)
               PROVE  LET tap == IF rows[r].approved_by = OWNER THEN rows[r].approved_at ELSE NoTime
                      IN  /\ typed_at <= max2(tap, occurred(rows[r].trigger))
                          /\ chat.owner_replied_at <= max2(tap, occurred(rows[r].trigger))
    OBVIOUS
  <2>1. rows[r].state = "approved" /\ objection(r).action = "none"
    BY ClaimsAreUnopposed DEF claims
  <2>2. owner_last_wrote <= since(rows[r], claim_context(r))
    BY <2>1, SilentLines
  <2>3. rows[r] \in RowRecords /\ Points(rows[r])
    BY ElementOf DEF Inv, TypesInv, PointsInv
  <2>4. occurred(rows[r].trigger) \in Nat
    BY <2>3, MessageIs DEF Points
  <2>5. /\ typed_at \in Int /\ chat.owner_replied_at \in Int /\ rows[r].approved_at \in Int
    BY <2>3 DEF Inv, TypesInv, Chats, RowRecords, OptTime, Time, NoTime
  <2>6. typed_at <= owner_last_wrote /\ chat.owner_replied_at <= owner_last_wrote
        /\ owner_last_wrote \in Int
    BY <2>5 DEF owner_last_wrote, max2
  <2>7. since(rows[r], claim_context(r)) =
          IF rows[r].approved_by = AUTO_APPROVER THEN occurred(rows[r].trigger)
          ELSE max2(occurred(rows[r].trigger), rows[r].approved_at)
    <3>1. /\ claim_context(r).trigger.exists
          /\ claim_context(r).trigger.occurred_at = occurred(rows[r].trigger)
      BY DEF claim_context
    <3>2. auto(rows[r]) <=> rows[r].approved_by = AUTO_APPROVER
      BY <2>3 DEF auto, ai, RowRecords, AI, OWNER
    <3> HIDE DEF claim_context, auto, occurred
    <3> QED
      BY <3>1, <3>2 DEF since
  <2>8. rows[r].approved_by \in {OWNER, AUTO_APPROVER}
    BY <2>1, <2>3 DEF Points, RowRecords
  <2>9. OWNER # AUTO_APPROVER
    BY DEF OWNER, AUTO_APPROVER
  <2> DEFINE from == occurred(rows[r].trigger)
             tap == IF rows[r].approved_by = OWNER THEN rows[r].approved_at ELSE NoTime
  <2>10. since(rows[r], claim_context(r)) = max2(tap, from)
    <3>1. CASE rows[r].approved_by = OWNER
      BY <2>4, <2>5, <2>7, <2>9, <3>1 DEF max2
    <3>2. CASE rows[r].approved_by = AUTO_APPROVER
      BY <2>4, <2>7, <2>9, <3>2 DEF max2, NoTime
    <3> QED
      BY <2>8, <3>1, <3>2
  <2> HIDE DEF from, tap
  <2>11. max2(tap, from) \in Int
    BY <2>4, <2>5 DEF max2, tap, from, NoTime
  <2>12. typed_at <= max2(tap, from) /\ chat.owner_replied_at <= max2(tap, from)
    BY <2>2, <2>5, <2>6, <2>10, <2>11
  <2> QED
    BY <2>12 DEF tap, from
<1> QED
  BY <1>1, Invariance, PTL DEF Spec, OwnerGoesFirst

(* The owner's window is over when a row leaves, counted from the first    *)
(* message the row read: read after it, or held until its end by           *)
(* not_before (responder._stall_moment, gate.trigger_line).                *)
THEOREM WindowHolds == Spec => WindowIsKept
<1>1. Inv /\ [Next]_vars =>
        \A r \in DOMAIN rows : claims(r) =>
          now >= since_first({x.m : x \in rows[r].read}) + OWNER_FIRST
  <2> SUFFICES ASSUME Inv, [Next]_vars, NEW r \in DOMAIN rows, claims(r)
               PROVE  now >= since_first({x.m : x \in rows[r].read}) + OWNER_FIRST
    OBVIOUS
  <2> DEFINE ends == window_over(inbound, rows[r].read)
  <2>1. rows[r].state = "approved" /\ objection(r).action = "none"
    BY ClaimsAreUnopposed DEF claims
  <2>2. rows[r].not_before <= now
    BY <2>1, SilentLines
  <2>3. rows[r].created_at <= now /\ (rows[r].created_at >= ends \/ rows[r].not_before >= ends)
    BY DEF Inv, WindowInv, window_end
  <2>4. ends = since_first({x.m : x \in rows[r].read}) + OWNER_FIRST
    BY DEF window_over, since_first, messages_of, occurred
  <2>5. ends \in Nat
    <3>1. {x.m : x \in rows[r].read} \subseteq DOMAIN inbound /\ {x.m : x \in rows[r].read} # {}
      BY DEF Inv, PointsInv, Points, messages_of
    <3> QED
      BY <2>4, <3>1, SinceFirstIs, ChatAssumption
  <2>6. rows[r].created_at \in Int /\ rows[r].not_before \in Int /\ now \in Int
    <3>1. rows[r] \in RowRecords
      BY ElementOf DEF Inv, TypesInv
    <3> QED
      BY <3>1 DEF Inv, TypesInv, RowRecords, OptTime, Time, NoTime
  <2> HIDE DEF ends
  <2> QED
    BY <2>2, <2>3, <2>4, <2>5, <2>6
<1> QED
  BY <1>1, Invariance, PTL DEF Spec, WindowIsKept

-----------------------------------------------------------------------------
(* One answer per message, while ids follow the times of the messages.     *)

(* The client's messages are stored in the order they were sent: the order *)
(* handled_upto, which compares ids, shares with the times of a burst.     *)
StoredInOrder ==
  \A m, n \in DOMAIN inbound : m <= n => occurred(m) <= occurred(n)

(* A burst ends with its trigger and begins after every row that answers.  *)
Unanswered(d) ==
  /\ \A m \in messages_of(d.read) : m <= d.trigger
  /\ \A r \in DOMAIN rows : live(r) => \A m \in messages_of(d.read) : m > rows[r].trigger

AnswersInv ==
  /\ \A r \in DOMAIN rows : \A m \in messages_of(rows[r].read) : m <= rows[r].trigger
  /\ look.pc = "thinking" => Unanswered(look)
  /\ OneAnswerPerMessage

LEMMA LiveIs == \A r : live(r) <=> live_state(rows[r].state)
  BY DEF live, live_state

(* The last of a burst is the latest by time, so the greatest id of it.    *)
LEMMA BurstEndsWithTrigger ==
  ASSUME Inv, StoredInOrder, burst # {}
  PROVE  \A m \in burst : m <= last_of(burst)
<1>1. burst \subseteq DOMAIN inbound
  BY DEF burst
<1>2. /\ last_of(burst) \in burst
      /\ \A q \in burst : \/ occurred(q) < occurred(last_of(burst))
                          \/ occurred(q) = occurred(last_of(burst)) /\ q <= last_of(burst)
  BY <1>1, LastOfIs
<1>3. \A m \in DOMAIN inbound : m \in Nat /\ occurred(m) \in Nat
  BY MessageIs
<1> HIDE DEF burst, occurred
<1> QED
  BY <1>1, <1>2, <1>3 DEF StoredInOrder

(* A row that is pending or sent answers everything up to its trigger.     *)
LEMMA HandledCovers ==
  ASSUME Inv, NEW r \in DOMAIN rows, live(r)
  PROVE  handled_upto \in Nat /\ rows[r].trigger <= handled_upto
<1> DEFINE answering == {rows[p].trigger : p \in {q \in DOMAIN rows : answered(q)}}
           told == {escalations[k] : k \in {j \in DOMAIN escalations : ~escalations[j].edited}}
           pushed == UNION {{e.interaction, e.repeated} : e \in told}
           ids == {0} \union answering \union pushed
<1>1. Len(inbound) \in Nat /\ DOMAIN inbound = 1..Len(inbound)
  BY DEF Inv, TypesInv
<1>2. answering \subseteq 0..Len(inbound)
  <2>1. \A p \in DOMAIN rows : rows[p].trigger \in DOMAIN inbound
    BY DEF Inv, PointsInv, Points
  <2> QED
    BY <1>1, <2>1
<1>3. pushed \subseteq 0..Len(inbound)
  <2>1. \A k \in DOMAIN escalations : /\ escalations[k].interaction \in DOMAIN inbound
                                      /\ escalations[k].repeated \in 0..Len(inbound)
    BY DEF Inv, PointsInv
  <2>2. \A e \in told : e.interaction \in 0..Len(inbound) /\ e.repeated \in 0..Len(inbound)
    BY <1>1, <2>1
  <2> HIDE DEF told
  <2> QED
    BY <2>2
<1>4. rows[r].trigger \in answering
  BY DEF live, answered, PENDING
<1>5. handled_upto = latest(ids)
  BY Zenon DEF handled_upto
<1> HIDE DEF answering, pushed
<1>6. ids \subseteq 0..Len(inbound) /\ ids # {} /\ rows[r].trigger \in ids
  BY <1>1, <1>2, <1>3, <1>4
<1> HIDE DEF ids
<1>7. latest(ids) \in ids /\ rows[r].trigger <= latest(ids)
  BY <1>1, <1>6, LatestIs
<1>8. latest(ids) \in Nat
  <2> DEFINE top == latest(ids)
  <2>1. top \in 0..Len(inbound)
    BY <1>6, <1>7
  <2> HIDE DEF top
  <2>2. top \in Nat
    BY <1>1, <2>1
  <2> QED
    BY <2>2 DEF top
<1> QED
  BY <1>5, <1>7, <1>8, Zenon

LEMMA ReadingIsUnanswered ==
  ASSUME Inv, StoredInOrder, answers
  PROVE  Unanswered(reading)
<1>1. messages_of(reading.read) = burst /\ reading.trigger = last_of(burst)
  BY ReadingIsGood
<1>2. burst # {}
  BY DEF answers, no_reply
<1>3. \A m \in burst : m <= last_of(burst)
  BY <1>2, BurstEndsWithTrigger
<1>4. ASSUME NEW r \in DOMAIN rows, live(r), NEW m \in burst
      PROVE  m > rows[r].trigger
  <2>1. m > handled_upto /\ m \in Nat
    BY MessageIs DEF burst
  <2>2. handled_upto \in Nat /\ rows[r].trigger <= handled_upto
    BY <1>4, HandledCovers
  <2>3. rows[r].trigger \in Nat
    <3>1. rows[r] \in RowRecords
      BY ElementOf DEF Inv, TypesInv
    <3> QED
      BY <3>1 DEF RowRecords
  <2> HIDE DEF handled_upto
  <2> QED
    BY <2>1, <2>2, <2>3
<1> QED
  BY <1>1, <1>3, <1>4 DEF Unanswered

(* Nothing the others do gives a row back its place.                       *)
LEMMA StaysAnswered ==
  ASSUME Inv, AnswersInv, Stays, UNCHANGED look
  PROVE  AnswersInv'
<1>1. DOMAIN rows' = DOMAIN rows /\ \A r \in DOMAIN rows : RowStays(rows[r], rows'[r])
  BY DEF Stays, RowsStay
<1>2. \A r \in DOMAIN rows : /\ rows'[r].trigger = rows[r].trigger /\ rows'[r].read = rows[r].read
                             /\ live(r)' => live(r)
  BY <1>1 DEF RowStays, live, live_state
<1>3. OneAnswerPerMessage'
  BY <1>1, <1>2 DEF AnswersInv, OneAnswerPerMessage
<1>4. look'.pc = "thinking" => Unanswered(look)'
  BY <1>1, <1>2 DEF AnswersInv, Unanswered
<1>5. \A r \in DOMAIN rows' : \A m \in messages_of(rows'[r].read) : m <= rows'[r].trigger
  BY <1>1, <1>2 DEF AnswersInv
<1> QED
  BY <1>3, <1>4, <1>5 DEF AnswersInv

LEMMA UntouchedAnswered ==
  ASSUME AnswersInv, UNCHANGED rows, look'.pc # "thinking"
  PROVE  AnswersInv'
<1>1. OneAnswerPerMessage'
  BY DEF AnswersInv, OneAnswerPerMessage, live
<1> QED
  BY <1>1 DEF AnswersInv

(* What a look stores answers only what nothing else answers.              *)
LEMMA WroteAnswered ==
  ASSUME Inv, AnswersInv, NEW d, GoodLook(d), Unanswered(d), Wrote(d), look'.pc # "thinking"
  PROVE  AnswersInv'
<1>a. rows \in Seq(RowRecords)
  BY DEF Inv, TypesInv
<1>1. CASE rows' = rows
  BY <1>1, UntouchedAnswered
<1>2. ASSUME NEW row, rows' = Append(rows, row), NewRow(d, row)
      PROVE  AnswersInv'
  <2>1. /\ DOMAIN rows' = DOMAIN rows \union {Len(rows) + 1}
        /\ \A r \in DOMAIN rows : rows'[r] = rows[r]
        /\ rows'[Len(rows) + 1] = row
        /\ Len(rows) + 1 \notin DOMAIN rows
    BY <1>a, <1>2
  <2>2. row.trigger = d.trigger /\ row.read = d.read
    BY <1>2 DEF NewRow
  <2> DEFINE new == Len(rows) + 1
  <2> HIDE DEF new
  <2>3. \A r \in DOMAIN rows' : \A m \in messages_of(rows'[r].read) : m <= rows'[r].trigger
    BY <2>1, <2>2 DEF AnswersInv, Unanswered, new
  <2>4. ASSUME NEW r \in DOMAIN rows, live(r)
        PROVE  messages_of(rows[r].read) \intersect messages_of(row.read) = {}
    <3>1. \A m \in messages_of(row.read) : m > rows[r].trigger
      BY <2>2, <2>4 DEF Unanswered
    <3>2. \A m \in messages_of(rows[r].read) : m <= rows[r].trigger
      BY DEF AnswersInv
    <3>3. rows[r].trigger \in Nat /\ messages_of(row.read) \subseteq Nat
      <4>1. rows[r] \in RowRecords
        BY <1>a, ElementOf
      <4>2. messages_of(d.read) \subseteq DOMAIN inbound /\ inbound \in Seq(Messages)
        BY DEF GoodLook, Inv, TypesInv
      <4> QED
        BY <2>2, <4>1, <4>2 DEF RowRecords
    <3> QED
      BY <3>1, <3>2, <3>3
  <2>5. ASSUME NEW r \in DOMAIN rows', NEW q \in DOMAIN rows', r # q, live(r)', live(q)'
        PROVE  messages_of(rows'[r].read) \intersect messages_of(rows'[q].read) = {}
    <3>1. CASE r \in DOMAIN rows /\ q \in DOMAIN rows
      <4>1. live(r) /\ live(q)
        BY <2>1, <2>5, <3>1 DEF live
      <4> QED
        BY <2>1, <2>5, <3>1, <4>1 DEF AnswersInv, OneAnswerPerMessage, messages_of
    <3>2. CASE r \in DOMAIN rows /\ q = new
      <4>1. live(r)
        BY <2>1, <2>5, <3>2 DEF live
      <4> QED
        BY <2>1, <2>4, <3>2, <4>1 DEF new
    <3>3. CASE q \in DOMAIN rows /\ r = new
      <4>1. live(q)
        BY <2>1, <2>5, <3>3 DEF live
      <4> QED
        BY <2>1, <2>4, <3>3, <4>1 DEF new
    <3> QED
      BY <2>1, <2>5, <3>1, <3>2, <3>3 DEF new
  <2>6. OneAnswerPerMessage'
    BY <2>5 DEF OneAnswerPerMessage, messages_of
  <2> QED
    BY <2>3, <2>6 DEF AnswersInv
<1> QED
  BY <1>1, <1>2, WrittenRows

LEMMA NextAnswers ==
  ASSUME Inv, StoredInOrder, AnswersInv, [Next]_vars
  PROVE  AnswersInv'
<1>1. CASE ChatNext /\ UNCHANGED look
  BY <1>1, ChatStays, StaysAnswered
<1>2. CASE UNCHANGED vars
  <2>1. UNCHANGED <<rows, look>>
    BY <1>2 DEF vars, chat_vars
  <2> QED
    BY <2>1 DEF AnswersInv, OneAnswerPerMessage, live, Unanswered
<1>3. CASE ClaimDue
  <2>1. UNCHANGED rows /\ look'.pc # "thinking"
    BY <1>3 DEF ClaimDue, NoLook
  <2> QED
    BY <2>1, UntouchedAnswered
<1>4. CASE LeaveForNextRun \/ LookAway \/ LookAgain \/ WorkerDies
  <2>1. UNCHANGED rows /\ look' = NoLook
    BY <1>4, Zenon DEF LeaveForNextRun, LookAway, LookAgain, WorkerDies, chat_vars
  <2>2. look'.pc # "thinking"
    BY <2>1 DEF NoLook
  <2> QED
    BY <2>1, <2>2, UntouchedAnswered
<1>5. CASE HandToOwner
  <2>1. answers /\ Wrote(reading) /\ look' = NoLook
    BY <1>5, Zenon DEF HandToOwner, Wrote
  <2>2. GoodLook(reading) /\ Unanswered(reading) /\ look'.pc # "thinking"
    BY <2>1, ReadingIsGood, ReadingIsUnanswered DEF NoLook
  <2> QED
    BY <2>1, <2>2, WroteAnswered
<1>6. CASE AskModels
  <2>1. answers /\ look' = [reading EXCEPT !.pc = "thinking"] /\ UNCHANGED rows
    BY <1>6 DEF AskModels
  <2>2. reading \in Looks /\ Unanswered(reading)
    BY <2>1, ReadingIsGood, ReadingIsUnanswered DEF GoodLook
  <2>3. look'.read = reading.read /\ look'.trigger = reading.trigger
    BY <2>1, <2>2 DEF Looks
  <2>4. Unanswered(look)'
    BY <2>1, <2>2, <2>3 DEF Unanswered, live
  <2>5. OneAnswerPerMessage'
    BY <2>1 DEF AnswersInv, OneAnswerPerMessage, live
  <2> QED
    BY <2>1, <2>4, <2>5 DEF AnswersInv
<1>7. CASE StoreAnswer
  <2>1. look.pc = "thinking" /\ Wrote(look) /\ look' = NoLook
    BY <1>7, ThinkingIsGood, Zenon DEF StoreAnswer, Wrote
  <2>2. GoodLook(look) /\ Unanswered(look) /\ look'.pc # "thinking"
    BY <2>1, ThinkingIsGood DEF AnswersInv, NoLook
  <2> QED
    BY <2>1, <2>2, WroteAnswered
<1> QED
  BY <1>1, <1>2, <1>3, <1>4, <1>5, <1>6, <1>7, Zenon DEF Next, Look

LEMMA OrderKept ==
  ASSUME Inv, StoredInOrder, [Next]_vars, Late = 0
  PROVE  StoredInOrder'
<1>a. now \in Nat /\ inbound \in Seq(Messages)
  BY DEF Inv, TypesInv
<1>1. CASE UNCHANGED inbound
  BY <1>1 DEF StoredInOrder, occurred
<1>2. CASE ChatNext
  <2>1. MessagesStay
    BY <1>2, ChatStays DEF Stays
  <2>2. /\ inbound' \in Seq(Messages) /\ Len(inbound) <= Len(inbound')
        /\ \A m \in DOMAIN inbound : inbound'[m].occurred_at = occurred(m)
        /\ \A m \in DOMAIN inbound' \ DOMAIN inbound : inbound'[m].occurred_at = now
    BY <1>a, <2>1 DEF MessagesStay, moments, occurred
  <2>3. \A m \in DOMAIN inbound : occurred(m) \in Nat /\ occurred(m) <= now
    BY <1>a, MessageIs
  <2> SUFFICES ASSUME NEW m \in DOMAIN inbound', NEW n \in DOMAIN inbound', m <= n
               PROVE  inbound'[m].occurred_at <= inbound'[n].occurred_at
    BY DEF StoredInOrder, occurred
  <2>4. CASE n \in DOMAIN inbound
    <3>1. m \in DOMAIN inbound
      BY <1>a, <2>2, <2>4
    <3> QED
      BY <2>2, <2>4, <3>1 DEF StoredInOrder
  <2>5. CASE n \notin DOMAIN inbound
    <3> HIDE DEF occurred
    <3> QED
      BY <1>a, <2>2, <2>3, <2>5
  <2> QED
    BY <2>4, <2>5
<1> QED
  BY <1>1, <1>2, Zenon DEF Next, Look, ClaimDue, LeaveForNextRun, LookAway, LookAgain,
     HandToOwner, AskModels, StoreAnswer, WorkerDies, vars, chat_vars

(* A message gets one answer in every history that stores the client's     *)
(* messages in the order they were sent, however late the owner's and the  *)
(* client's signals are: responder.handled_upto compares ids, the burst    *)
(* compares times, and this is what makes them agree.                      *)
THEOREM OneAnswerInOrder == Spec /\ []StoredInOrder => []OneAnswerPerMessage
<1>1. Init => AnswersInv
  BY DEF Init, ChatInit, NoLook, AnswersInv, OneAnswerPerMessage
<1>2. Inv /\ StoredInOrder /\ AnswersInv /\ [Next]_vars => AnswersInv'
  BY NextAnswers
<1>3. AnswersInv => OneAnswerPerMessage
  BY DEF AnswersInv
<1> QED
  BY <1>1, <1>2, <1>3, Invariance, PTL DEF Spec

(* The reader that hears of everything at once stores in that order.       *)
THEOREM OneAnswerAtOnce == ASSUME Late = 0 PROVE Spec => []OneAnswerPerMessage
<1>1. Init => StoredInOrder
  BY DEF Init, ChatInit, StoredInOrder
<1>2. Inv /\ StoredInOrder /\ [Next]_vars => StoredInOrder'
  BY OrderKept
<1>3. Spec => []StoredInOrder
  BY <1>1, <1>2, Invariance, PTL DEF Spec
<1> QED
  BY <1>3, OneAnswerInOrder, PTL
=============================================================================
