---------------------------- MODULE TelegramSender ----------------------------
(***************************************************************************)
(* miya/userbot/sender.py on top of the outbox: the task inside the        *)
(* userbot process that claims one row at a time, paces it, puts it on the *)
(* wire and reports it, next to the reader that stores what the account    *)
(* sends; the account's chats at Telegram; the owner typing in them; and   *)
(* the process dying or stopping at any of these points.                   *)
(*                                                                         *)
(* A request on the wire may arrive at any later time or never, and its    *)
(* answer may be lost.  Telegram drops a repeat of a request it accepted   *)
(* (the same random_id on the same connection); nothing is assumed of its  *)
(* memory across two attempts of a row.                                    *)
(***************************************************************************)
EXTENDS Outbox

CONSTANTS RETRY,               \* after a connection error, and a short flood wait
          BREAKER_UNTIL_LIFTED,
          LOCAL_PAUSE,         \* after a breaker was stored
          MaxStarts            \* bound: starts of the process

ASSUME SenderAssumption ==
  /\ RETRY \in Nat \ {0} /\ LOCAL_PAUSE \in Nat \ {0}
  /\ BREAKER_UNTIL_LIFTED \in Nat \ {0}
  /\ MaxStarts \in Nat

VARIABLES
  pc,         \* where the sender's task stands
  cur,        \* the claimed row, as claim_ready returned it
  verdict,    \* what a refusal means for the row
  resume_at,  \* the sender's own pause, in memory only
  starts,     \* of the userbot process
  requests,   \* put on the wire and not known to be refused
  chatlog     \* the account's outgoing messages, at Telegram

task == <<pc, cur, verdict, resume_at, starts>>
telegram == <<requests, chatlog>>
sender_vars == <<task, telegram>>
all_vars == <<vars, sender_vars>>

NoClaim == [row |-> NoRow, attempt |-> 0, chat |-> "none", body |-> "none", claimed_at |-> 0]
NoVerdict == [action |-> "none", until |-> NoTime, retry_at |-> NoTime, pause |-> 0]
Nothing == [request |-> NoClaim, row |-> NoRow, chat |-> "none", body |-> "none", at |-> NoTime]

in_chat(m) == chatlog[m].at # NoTime
of_row(r) == {m \in Messages : in_chat(m) /\ chatlog[m].row = r}
accepted(q) == \E m \in Messages : in_chat(m) /\ chatlog[m].request = q
launched_rows == {r \in Rows : of_row(r) # {} \/ \E q \in requests : q.row = r}

SenderInit ==
  /\ Init
  /\ pc = "down" /\ cur = NoClaim /\ verdict = NoVerdict
  /\ resume_at = NoTime /\ starts = 0
  /\ requests = {}
  /\ chatlog = [m \in Messages |-> Nothing]

-----------------------------------------------------------------------------
(* The process *)

Start ==
  /\ pc = "down" /\ starts < MaxStarts
  /\ pc' = "idle" /\ starts' = starts + 1
  /\ UNCHANGED <<vars, cur, verdict, resume_at, telegram>>

Gone ==
  /\ pc' = "down"
  /\ cur' = NoClaim /\ verdict' = NoVerdict /\ resume_at' = NoTime
  /\ UNCHANGED <<starts, telegram>>

Crash == pc # "down" /\ Gone /\ UNCHANGED vars

(* Cancelled before the request: nothing went out, and the row is queued   *)
(* again; a report that cannot be written is a crash.                      *)
Interrupted ==
  /\ pc = "pacing"
  /\ Fail(cur.row, now)
  /\ Gone

Left == /\ pc' = "idle" /\ cur' = NoClaim /\ verdict' = NoVerdict
        /\ UNCHANGED <<starts, telegram>>

-----------------------------------------------------------------------------
(* poll_once and send_one *)

Claim(f) ==
  /\ pc = "idle" /\ resume_at <= now
  /\ \E r \in Rows :
       /\ ClaimReady(r, f)
       /\ IF hands_out(r, f)
            THEN /\ pc' = "pacing"
                 /\ cur' = [row |-> r, attempt |-> attempts'[r], chat |-> chat(r),
                            body |-> body[r], claimed_at |-> now]
            ELSE UNCHANGED <<pc, cur>>
  /\ UNCHANGED <<verdict, resume_at, starts, telegram>>

(* Paced, marked read and typed: the request carries the claimed text.     *)
SendRequest ==
  /\ pc = "pacing"
  /\ pc' = "wire"
  /\ requests' = requests \union {cur}
  /\ UNCHANGED <<vars, cur, verdict, resume_at, starts, chatlog>>

(* classify: what an error means for the row.                              *)
flood == [action |-> "requeue", until |-> NoTime, retry_at |-> now + RETRY, pause |-> RETRY]
connection == [flood EXCEPT !.pause = 0]
permanent == [NoVerdict EXCEPT !.action = "fail"]
limit(until) ==
  [action |-> "breaker", until |-> until, retry_at |-> now + BREAKER_FOR, pause |-> 0]
limits == {limit(now + BREAKER_FOR), limit(now + BREAKER_UNTIL_LIFTED)}
Verdicts == {flood, connection, permanent} \union limits

Refused(v) ==
  /\ pc' = "refused" /\ verdict' = v
  /\ UNCHANGED <<vars, cur, resume_at, starts, chatlog>>

(* Looking the peer up, the read receipt or "typing..." failed.            *)
PacingRefused(v) ==
  /\ pc = "pacing"
  /\ Refused(v) /\ UNCHANGED requests

(* Telegram refused the request itself; a dropped connection is no refusal.*)
RequestRefused(v) ==
  /\ pc = "wire" /\ cur \in requests /\ ~accepted(cur)
  /\ v # connection
  /\ requests' = requests \ {cur}
  /\ Refused(v)

\* A fault to detect: a dropped connection is tried again.
OutcomeUnclear_retries ==
  /\ pc = "wire"
  /\ pc' = "refused" /\ verdict' = connection
  /\ UNCHANGED <<vars, cur, resume_at, starts, telegram>>

(* The connection dropped, a server error, an answer without an id, or     *)
(* RandomIdDuplicateError: the chat is read back.                          *)
OutcomeUnclear ==
  /\ pc = "wire"
  /\ pc' = "readback"
  /\ UNCHANGED <<vars, cur, verdict, resume_at, starts, telegram>>

(* _finish: reported as sent, or, when that cannot be written, left to its *)
(* lease.                                                                  *)
Finish(m) ==
  /\ Complete(cur.row, m) \/ UNCHANGED vars
  /\ Left /\ UNCHANGED resume_at

Answered ==
  /\ pc = "wire"
  /\ \E m \in Messages : in_chat(m) /\ chatlog[m].request = cur /\ Finish(m)

\* A fault to detect: any outgoing message of the chat is taken.
read_back_any ==
  LET same == {m \in Messages : /\ in_chat(m)
                                /\ chatlog[m].chat = cur.chat
                                /\ chatlog[m].at >= cur.claimed_at - ECHO_SLACK}
  IN  {m \in same : \A q \in same : chatlog[q].at <= chatlog[m].at}

(* reconcile: the newest outgoing message of the chat with this text, from *)
(* the claim on.                                                           *)
read_back ==
  LET same == {m \in Messages : /\ in_chat(m)
                                /\ chatlog[m].chat = cur.chat /\ chatlog[m].body = cur.body
                                /\ chatlog[m].at >= cur.claimed_at - ECHO_SLACK}
  IN  {m \in same : \A q \in same : chatlog[q].at <= chatlog[m].at}

ReadBack ==
  /\ pc = "readback"
  /\ \/ \E m \in read_back : Finish(m)
     \/ Left /\ UNCHANGED <<vars, resume_at>>    \* nothing found, or not read

(* _record and _settle: a limit trips the breaker in a transaction of its  *)
(* own; when that fails the sender pauses itself for as long.              *)
RecordBreaker ==
  /\ pc = "refused" /\ verdict.action = "breaker"
  /\ \/ /\ TripBreaker(verdict.until)
        /\ verdict' = [verdict EXCEPT !.action = "requeue", !.pause = LOCAL_PAUSE]
     \/ /\ UNCHANGED vars
        /\ verdict' = [verdict EXCEPT !.action = "requeue", !.pause = BREAKER_FOR]
  /\ UNCHANGED <<pc, cur, resume_at, starts, telegram>>

Settle ==
  /\ pc = "refused" /\ verdict.action \in {"requeue", "fail"}
  /\ Fail(cur.row, verdict.retry_at) \/ UNCHANGED vars
  /\ resume_at' = IF verdict.pause = 0 THEN resume_at ELSE max2(resume_at, now + verdict.pause)
  /\ Left

-----------------------------------------------------------------------------
(* Telegram, and who else writes *)

Arrive(q, m) ==
  /\ q \in requests /\ ~accepted(q)
  /\ ~in_chat(m)
  /\ chatlog' = [chatlog EXCEPT ![m] =
       [request |-> q, row |-> q.row, chat |-> q.chat, body |-> q.body, at |-> now]]
  /\ UNCHANGED <<vars, task, requests>>

OwnerTypes(o, m) ==
  /\ ~in_chat(m)
  /\ chatlog' = [chatlog EXCEPT ![m] =
       [Nothing EXCEPT !.chat = o.chat, !.body = o.body, !.at = now]]
  /\ UNCHANGED <<vars, task, requests>>

(* The reader of the same process, live or in its catch-up.                *)
ReaderStoresOutgoing(m) ==
  /\ pc # "down" /\ in_chat(m)
  /\ StoreOutgoing(m, chatlog[m].chat, chatlog[m].body, chatlog[m].at)
  /\ UNCHANGED sender_vars

-----------------------------------------------------------------------------
Sender ==
  \/ Start \/ Crash \/ Interrupted
  \/ \E f \in Facts : Claim(f)
  \/ SendRequest \/ OutcomeUnclear \/ Answered \/ ReadBack
  \/ \E v \in Verdicts : PacingRefused(v) \/ RequestRefused(v)
  \/ RecordBreaker \/ Settle

Platform ==
  \/ \E q \in requests, m \in Messages : Arrive(q, m)
  \/ \E o \in OwnMessages, m \in Messages : OwnerTypes(o, m)
  \/ \E m \in Messages : ReaderStoresOutgoing(m)

Others ==
  /\ \/ Create \/ OwnerDecides \/ ClientTakesBack \/ PolicyChanges
     \/ (\E r \in Rows : Job(r)) \/ Tick
  /\ UNCHANGED sender_vars

SenderNext == Sender \/ Platform \/ Others

SenderSpec == SenderInit /\ [][SenderNext]_all_vars

-----------------------------------------------------------------------------
(* Properties *)

SenderTypeOK ==
  /\ pc \in {"down", "idle", "pacing", "wire", "readback", "refused"}
  /\ pc \in {"down", "idle"} <=> cur = NoClaim
  /\ resume_at \in OptTime
  /\ \A q \in requests : q.row \in Rows
  /\ \A m \in Messages : in_chat(m) => chatlog[m].row \in Rows \union {NoRow}

(* "Sent" is never said of a text that is not in the chat.                 *)
SentIsInTheChat ==
  \A r \in Rows : state[r] = "sent" =>
    /\ in_chat(external[r])
    /\ chatlog[external[r]].chat = chat(r) /\ chatlog[external[r]].body = body[r]

Promise == INSTANCE SendOnce WITH
  status <- [r \in Rows |->
               CASE state[r] = "sending" -> "handed"
                 [] state[r] = "unknown" -> "doubt"
                 [] state[r] = "sent" -> "sent"
                 [] state[r] \in {"failed", "blocked", "cancelled", "expired"} -> "over"
                 [] OTHER -> "held"],
  launched <- launched_rows,
  delivered <- [r \in Rows |-> Cardinality(of_row(r))]

(* The outbox with its sender keeps the promise of SendOnce.               *)
SendsOnce == Promise!Spec

=============================================================================
