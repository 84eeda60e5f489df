------------------------------- MODULE Windows -------------------------------
(***************************************************************************)
(* The userbot's messages on their way to the ledger: services/windows.py, *)
(* services/batch.py, the three jobs of worker/main.py that run them and   *)
(* the handlers of userbot/main.py and services/purge.py that change a     *)
(* message meanwhile.                                                      *)
(*                                                                         *)
(* One chat.  A row is an interaction: a message, or the synthetic row     *)
(* that owns what a window yielded (kind "window").  Rows and windows are  *)
(* never renumbered: a deleted one has `alive' FALSE.  What a row says is  *)
(* a set of words, each naming the message, how often it was edited and    *)
(* whether its voice was heard: a transcript is the union of its rows'.    *)
(*                                                                         *)
(* `looking' is the window job's own session: the windows it still has to  *)
(* extract and what it has loaded of them, which no commit refreshes       *)
(* (expire_on_commit is off).  `sending' is the submit job between its     *)
(* read and its answer.                                                    *)
(*                                                                         *)
(* History: a row's `extracted' counts the applied windows that held it,   *)
(* a window's `calls' the requests sent to the model for it, less those    *)
(* that came back without a usable answer (an API error, a result refused, *)
(* expired, missing or not JSON, a stream unreadable until the cap).  It   *)
(* counts what the vendor runs, whether or not the answer ever reaches the *)
(* database.  `forgotten' are the rows of purged chats.                    *)
(***************************************************************************)
EXTENDS Integers, Sequences, FiniteSets, SequencesExt, FiniteSetsExt

CONSTANTS
  ChatType,                        \* "private" or "group"
  Kinds, Addressed, Long, Spoken, Naming,
  WINDOW_MAX_MESSAGES, WINDOW_IDLE, WINDOW_IDLE_ADDRESSED, MEDIA_CUTOFF,
  BATCH_MAX_ATTEMPTS,
  Purges,                          \* a subset of {"chat", "range"}
  MaxMessages, StoreUntil, MaxTime,
  Budget, Troubles                 \* bounds: how often each kind of act happens, and all

ASSUME WindowsAssumption ==
  /\ ChatType \in {"private", "group"}
  /\ "window" \notin Kinds
  /\ Addressed \subseteq Kinds /\ Long \subseteq Kinds /\ Spoken \subseteq Kinds
  /\ Naming \subseteq Spoken
  /\ WINDOW_MAX_MESSAGES \in Nat \ {0} /\ BATCH_MAX_ATTEMPTS \in Nat \ {0}
  /\ WINDOW_IDLE \in Nat /\ WINDOW_IDLE_ADDRESSED \in Nat /\ MEDIA_CUTOFF \in Nat
  /\ Purges \subseteq {"chat", "range"}
  /\ MaxMessages \in Nat /\ StoreUntil \in Nat /\ MaxTime \in Nat
  /\ Budget \in [{"edit", "purge", "mishap"} -> Nat] /\ Troubles \in Nat

VARIABLES now, rows, windows, looking, sending, forgotten, spent

vars == <<now, rows, windows, looking, sending, forgotten, spent>>

none == 0

(* The lists of a set, and the one by which a query orders its ids *)
listings(S) == [1..Cardinality(S) -> S]
by_id(S) == CHOOSE s \in listings(S) : \A j, k \in DOMAIN s : j < k => s[j] < s[k]

Spend(act) == /\ spent[act] < Budget[act]
              /\ spent["edit"] + spent["purge"] + spent["mishap"] < Troubles
              /\ spent' = [spent EXCEPT ![act] = @ + 1]

-----------------------------------------------------------------------------
(* Rows and transcripts *)

words(i) == IF rows[i].kind = "window" THEN rows[i].text
            ELSE {[row |-> i, edits |-> rows[i].edits, heard |-> rows[i].heard]}
render_window(S) == UNION {words(i) : i \in S}
members(w) == {i \in DOMAIN rows : rows[i].alive /\ rows[i].window = w /\ rows[i].kind # "window"}
is_addressed(i) == rows[i].to_me

NewRow(kind, at) ==
  [kind |-> kind, at |-> at, alive |-> TRUE, text |-> {}, edits |-> 0, heard |-> FALSE,
   media |-> IF kind \in Spoken THEN "pending" ELSE "none",
   to_me |-> kind \in Addressed, window |-> none, processed |-> FALSE,
   edited_after_extraction |-> FALSE, needs_review |-> FALSE,
   extracted |-> 0]

NewWindow(S, ended, instant) ==
  [alive |-> TRUE, status |-> "pending", text |-> render_window(S), made |-> now, ended |-> ended,
   instant |-> instant, batch |-> none, attempts |-> 0, read |-> {}, asked |-> {},
   calls |-> 0]

idle_looking == [ids |-> <<>>, seen |-> <<>>, at |-> none]
idle_sending == [ids |-> {}, seen |-> <<>>]


Init ==
  /\ now = 0 /\ rows = <<>> /\ windows = <<>> /\ forgotten = {}
  /\ looking = idle_looking /\ sending = idle_sending
  /\ spent = [a \in DOMAIN Budget |-> 0]

(* ingest_message: one transaction stores the row; its media comes later *)
Store(kind) ==
  /\ Cardinality({i \in DOMAIN rows : rows[i].kind # "window"}) < MaxMessages
  /\ now <= StoreUntil
  /\ rows' = Append(rows, NewRow(kind, now))
  /\ UNCHANGED <<now, windows, looking, sending, forgotten, spent>>

(* persist_media: what was fetched and heard lands in a second transaction, *)
(* with words or, when the file could not be had, without; a voice that     *)
(* names the owner in a group is addressed to him if no window holds it yet *)
persist_media(i, heard) ==
  /\ rows[i].alive /\ rows[i].media = "pending"
  /\ rows' = [rows EXCEPT ![i] =
       [rows[i] EXCEPT !.media = "processed", !.heard = heard, !.needs_review = ~heard,
                 !.to_me = \/ rows[i].to_me
                           \/ /\ heard /\ ChatType = "group"
                              /\ rows[i].window = none /\ rows[i].kind \in Naming]]
  /\ UNCHANGED <<now, windows, looking, sending, forgotten, spent>>

(* rerender of a window from the rows that now stand for it *)
rerendered(w, text) == [windows EXCEPT ![w].text = text]

(* record_edit: a pending window is rendered again, any other keeps its text *)
record_edit(i) ==
  LET w == rows[i].window
      new == [row |-> i, edits |-> rows[i].edits + 1, heard |-> rows[i].heard]
      pending == w # none /\ windows[w].status = "pending"
  IN /\ rows[i].alive /\ rows[i].kind # "window"
     /\ Spend("edit")
     /\ rows' = [rows EXCEPT ![i].edits = @ + 1,
                             ![i].edited_after_extraction = @ \/ (w # none /\ ~pending)]
     /\ windows' = IF pending THEN rerendered(w, render_window(members(w) \ {i}) \cup {new})
                              ELSE windows
     /\ UNCHANGED <<now, looking, sending, forgotten>>

-----------------------------------------------------------------------------
(* windows.flush_ready_windows and the instant path: the window job *)

\* A fault to detect: only the window says that a message was taken.
unclaimed_by_window == {i \in DOMAIN rows : rows[i].alive /\ rows[i].window = none}
unclaimed == {i \in DOMAIN rows : /\ rows[i].alive /\ rows[i].window = none
                                  /\ ~rows[i].processed}
earlier(i, j) == rows[i].at < rows[j].at \/ (rows[i].at = rows[j].at /\ i < j)
by_time(S) == CHOOSE s \in listings(S) : \A j, k \in DOMAIN s : j < k => earlier(s[j], s[k])
\* A fault to detect: a backlog waits for its media for ever.
unsettled_for_ever(i) == rows[i].media = "pending"
unsettled(i) == rows[i].media = "pending" /\ rows[i].at > now - MEDIA_CUTOFF
\* A fault to detect: the backlog does not wait for its media.
settled_prefix_all(s) == s
settled_prefix(s) ==
  LET stops == {k \in DOMAIN s : unsettled(s[k])}
  IN IF stops = {} THEN s ELSE SubSeq(s, 1, Min(stops) - 1)

wants_instant(s) == ChatType = "private" \/ \E k \in DOMAIN s : is_addressed(s[k])
idle_minutes_for(instant) == IF instant THEN WINDOW_IDLE_ADDRESSED ELSE WINDOW_IDLE

(* How many messages of a backlog become a window now; 0 is wait *)
slice_to_flush(s, idle) ==
  LET long == {k \in DOMAIN s : rows[s[k]].kind \in Long}
  IN CASE s = <<>> -> 0
       [] Len(s) >= WINDOW_MAX_MESSAGES -> WINDOW_MAX_MESSAGES
       [] Len(s) \in 1..(WINDOW_MAX_MESSAGES - 1) /\ long # {} -> Min(long)
       [] OTHER -> IF now - rows[Last(s)].at >= idle THEN Len(s) ELSE 0

slices(s) ==
  LET idle == idle_minutes_for(wants_instant(s))
      from[k \in 1..(Len(s) + 1)] ==
        LET size == slice_to_flush(SubSeq(s, k, Len(s)), idle)
        IN IF size = 0 THEN <<>> ELSE <<SubSeq(s, k, k + size - 1)>> \o from[k + size]
  IN from[1]

window_of(s) == NewWindow(Range(s), rows[Last(s)].at, wants_instant(s))

(* The tick: the ready backlog becomes windows, then the session that will *)
(* extract the instant ones loads them, once.                              *)
FlushReadyWindows ==
  /\ looking = idle_looking
  /\ \E ready \in {slices(settled_prefix(by_time(unclaimed)))} :
       LET made == windows \o [k \in DOMAIN ready |-> window_of(ready[k])]
           instants == {w \in DOMAIN made : /\ made[w].alive /\ made[w].instant
                                           /\ made[w].status = "pending"}
       IN /\ ready # <<>> \/ instants # {}
          /\ windows' = made
          /\ rows' = [i \in DOMAIN rows |->
               LET held == {k \in DOMAIN ready : i \in Range(ready[k])}
               IN IF held = {} THEN rows[i]
                  ELSE [rows[i] EXCEPT !.window = Len(windows) + Min(held)]]
          /\ looking' = [ids |-> by_id(instants), at |-> none,
                         seen |-> [w \in instants |-> made[w].text]]
  /\ UNCHANGED <<now, sending, forgotten, spent>>

(* _apply_result and _fail_window: the synthetic row of each window that    *)
(* ended, with the receipt an applied one parks, and its rows marked        *)
window_interaction(w, text, applied) ==
  [NewRow("window", windows[w].ended) EXCEPT
     !.text = text, !.window = w, !.media = "none", !.processed = applied,
     !.needs_review = ~applied]
mark_members_processed(applied) ==
  [i \in DOMAIN rows |->
     IF rows[i].alive /\ rows[i].window \in applied
     THEN [rows[i] EXCEPT !.processed = TRUE, !.extracted = @ + 1] ELSE rows[i]]
rows_landed(applied, failed, text) ==
  LET over == by_id(applied \cup failed)
  IN mark_members_processed(applied) \o
     [k \in DOMAIN over |-> window_interaction(over[k], text[over[k]], over[k] \in applied)]

\* A fault to detect: at the cap the window is given up where it stands.
instant_given_up(w, refunded) ==
  LET last == windows[w].attempts + 1 >= BATCH_MAX_ATTEMPTS
  IN [windows[w] EXCEPT !.attempts = @ + 1, !.calls = @ - refunded, !.asked = {},
                        !.status = IF last THEN "failed" ELSE @]
(* One more try counted; `refunded' is 1 when no usable answer came back *)
instant_failed(w, refunded) ==
  LET last == windows[w].attempts + 1 >= BATCH_MAX_ATTEMPTS
  IN [windows[w] EXCEPT !.attempts = IF last THEN 0 ELSE @ + 1,
                        !.instant = ~last, !.calls = @ - refunded, !.asked = {}]

(* The next window of the run: its text goes to the model as it was loaded; *)
(* one that a rollback dropped from the session is read again or is gone,   *)
(* one deleted since it was loaded is asked about all the same              *)
ExtractNext ==
  LET w == Head(looking.ids)
      gone == w \notin DOMAIN looking.seen /\ ~windows[w].alive
      text == IF w \in DOMAIN looking.seen THEN looking.seen[w] ELSE windows[w].text
  IN /\ looking.ids # <<>> /\ looking.at = none
     /\ looking' = [ids |-> Tail(looking.ids),
                    seen |-> IF gone THEN looking.seen
                             ELSE [v \in DOMAIN looking.seen \cup {w} |->
                                     IF v = w THEN text ELSE looking.seen[v]],
                    at |-> IF gone THEN none ELSE w]
     /\ windows' = IF ~windows[w].alive THEN windows
                   ELSE [windows EXCEPT ![w].calls = @ + 1, ![w].asked = text]
     /\ UNCHANGED <<now, rows, sending, forgotten, spent>>

still_looking ==
  IF looking.ids = <<>> THEN idle_looking
  ELSE [looking EXCEPT !.at = none, !.seen = Restrict(@, DOMAIN @ \ {looking.at})]

\* A fault to detect: nothing notices that the window is gone.
ExtractAnswered_anyway ==
  LET w == looking.at
  IN /\ w # none
     /\ rows' = rows_landed({w}, {}, looking.seen)
     /\ windows' = [windows EXCEPT ![w].status = "applied", ![w].read = looking.seen[w]]
     /\ looking' = still_looking
     /\ UNCHANGED <<now, sending, forgotten, spent>>

(* The model answered and the answer is applied.  A window deleted meanwhile *)
(* is a foreign key nobody holds: the rollback takes what was written and    *)
(* empties the session, and the window, read again, is not there.            *)
ExtractAnswered ==
  LET w == looking.at
  IN /\ w # none
     /\ \/ /\ windows[w].alive
           /\ rows' = rows_landed({w}, {}, looking.seen)
           /\ windows' = [windows EXCEPT ![w].status = "applied", ![w].read = windows[w].asked,
                                         ![w].asked = {}]
           /\ looking' = still_looking
        \/ /\ ~windows[w].alive
           /\ looking' = [still_looking EXCEPT !.seen = <<>>]
           /\ UNCHANGED <<rows, windows>>
     /\ UNCHANGED <<now, sending, forgotten, spent>>

(* No usable answer.  The failure of a window deleted meanwhile cannot be    *)
(* written: the commit raises out of the run and the rest waits for a tick.  *)
ExtractFailed ==
  LET w == looking.at
  IN /\ w # none
     /\ windows' = IF windows[w].alive THEN [windows EXCEPT ![w] = instant_failed(w, 1)] ELSE windows
     /\ looking' = IF windows[w].alive THEN still_looking ELSE idle_looking
     /\ UNCHANGED <<now, rows, sending, forgotten, spent>>

(* Applying a usable answer raised: everything loaded is dropped and the try *)
(* is counted                                                                *)
ExtractRaised ==
  LET w == looking.at
  IN /\ w # none /\ Spend("mishap")
     /\ windows' = IF windows[w].alive THEN [windows EXCEPT ![w] = instant_failed(w, 0)] ELSE windows
     /\ looking' = [still_looking EXCEPT !.seen = <<>>]
     /\ UNCHANGED <<now, rows, sending, forgotten>>

(* The commit of the answer raised, out of the job: nothing is written, not  *)
(* even the try, and the rest waits for a tick                               *)
unanswered(ws) ==
  [w \in DOMAIN ws |->
     IF w = looking.at /\ ws[w].alive THEN [ws[w] EXCEPT !.asked = {}] ELSE ws[w]]
ExtractUnwritten ==
  /\ looking.at # none /\ Spend("mishap")
  /\ looking' = idle_looking
  /\ windows' = unanswered(windows)
  /\ UNCHANGED <<now, rows, sending, forgotten>>

-----------------------------------------------------------------------------
(* services/batch.py: the half-price path *)

\* A fault to detect: the batch takes the instant windows too.
pending_windows_all == {w \in DOMAIN windows : windows[w].alive /\ windows[w].status = "pending"}
for_the_batch == {w \in DOMAIN windows : /\ windows[w].alive /\ ~windows[w].instant
                                         /\ windows[w].status = "pending"}
SubmitPending ==
  /\ sending = idle_sending /\ for_the_batch # {}
  /\ sending' = [ids |-> for_the_batch, seen |-> [w \in for_the_batch |-> windows[w].text]]
  /\ UNCHANGED <<now, rows, windows, looking, forgotten, spent>>

(* A batch is a number; it is free again when no window waits for it *)
batches == {windows[w].batch : w \in {v \in DOMAIN windows : windows[v].status = "submitted"}}
next_batch == Min((1..(Len(windows) + 1)) \ batches)

(* What was sent is paid for when the vendor accepts the batch: every window *)
(* of it that is still there has one more request running                    *)
paid_for_sending ==
  [w \in DOMAIN windows |->
     IF w \in sending.ids /\ windows[w].alive THEN [windows[w] EXCEPT !.calls = @ + 1]
                                             ELSE windows[w]]
submitted_batch ==
  [w \in DOMAIN windows |->
     IF w \notin sending.ids THEN windows[w]
     ELSE [windows[w] EXCEPT !.calls = @ + 1, !.asked = sending.seen[w],
                             !.status = "submitted", !.batch = next_batch]]

(* A window deleted during the call fails the update of all of them: the     *)
(* batch runs for nobody and what is left is sent again                      *)
SubmitAccepted ==
  /\ sending # idle_sending
  /\ windows' = IF \A w \in sending.ids : windows[w].alive THEN submitted_batch
                                                          ELSE paid_for_sending
  /\ sending' = idle_sending
  /\ UNCHANGED <<now, rows, looking, forgotten, spent>>

(* The vendor accepted the batch, and its answer was lost (API_FAILURES) or  *)
(* the update could not be written: the windows stay pending                 *)
SubmitLost ==
  /\ sending # idle_sending /\ Spend("mishap")
  /\ windows' = paid_for_sending
  /\ sending' = idle_sending
  /\ UNCHANGED <<now, rows, looking, forgotten>>

SubmitRefused ==
  /\ sending # idle_sending /\ sending' = idle_sending
  /\ UNCHANGED <<now, rows, windows, looking, forgotten, spent>>

(* collect_batch.  Only windows still waiting for their result count, so a   *)
(* batch read twice applies each window once.                                *)
waiting_for(b) == {w \in DOMAIN windows : /\ windows[w].alive /\ windows[w].batch = b
                                          /\ windows[w].status = "submitted"}

(* _retry_or_fallback: back into the queue, or one try in real time, at the  *)
(* text the window has by then, and the review after that                    *)
at_cap(w) == windows[w].attempts + 1 >= BATCH_MAX_ATTEMPTS
retry_or_fallback(w, rescued) ==
  [windows[w] EXCEPT
     !.attempts = @ + 1, !.batch = none, !.asked = {},
     !.status = IF ~at_cap(w) THEN "pending" ELSE IF w \in rescued THEN "applied" ELSE "failed",
     !.calls = (@ - 1) + IF at_cap(w) /\ w \in rescued THEN 1 ELSE 0,
     !.read = IF at_cap(w) /\ w \in rescued THEN windows[w].text ELSE @]

(* One commit for the batch: `good' are applied, `laddered' take the ladder,  *)
(* `unread' stay submitted with a try counted                                 *)
collected(good, laddered, unread, rescued) ==
  LET saved == {w \in laddered : at_cap(w) /\ w \in rescued}
      lost == {w \in laddered : at_cap(w) /\ w \notin rescued}
  IN /\ windows' = [w \in DOMAIN windows |->
          CASE w \in good -> [windows[w] EXCEPT !.status = "applied", !.read = windows[w].asked, !.asked = {}]
            [] w \in laddered -> retry_or_fallback(w, rescued)
            [] w \in unread -> [windows[w] EXCEPT !.attempts = @ + 1]
            [] OTHER -> windows[w]]
     /\ rows' = rows_landed(good \cup saved, lost, [w \in DOMAIN windows |-> windows[w].text])
     /\ UNCHANGED <<now, looking, sending, forgotten>>

(* Each entry is a result, or it is no use (refused, expired, cut short, or    *)
(* missing): none is any use when the batch has no results any more            *)
CollectEntries(b) ==
  /\ waiting_for(b) # {}
  /\ \E good, rescued \in SUBSET waiting_for(b) :
       collected(good, waiting_for(b) \ good, {}, rescued)
  /\ UNCHANGED spent

(* The stream broke: the results are paid for and read again, until the cap *)
CollectUnreadable(b) ==
  LET tired == {w \in waiting_for(b) : at_cap(w)}
  IN /\ waiting_for(b) # {}
     /\ \E rescued \in SUBSET tired :
          collected({}, tired, waiting_for(b) \ tired, rescued)
     /\ UNCHANGED spent

(* When applying one of them raises, the batch is rolled back, every try it   *)
(* counted and every window it rescued in real time with it, and the next     *)
(* poll reads it again: the requests of the rescue were paid for              *)
CollectRaised(b) ==
  /\ waiting_for(b) # {} /\ Spend("mishap")
  /\ \E rescued \in SUBSET {w \in waiting_for(b) : at_cap(w)} :
       windows' = [w \in DOMAIN windows |->
                     IF w \in rescued THEN [windows[w] EXCEPT !.calls = @ + 1] ELSE windows[w]]
  /\ UNCHANGED <<now, rows, looking, sending, forgotten>>

-----------------------------------------------------------------------------
(* services/purge.py: rows go, and every window that held one of them or    *)
(* ended in the range; rows that stay lose their window                     *)
deleted_row(r) ==
  [NewRow(r.kind, 0) EXCEPT !.alive = FALSE, !.media = "none", !.to_me = FALSE]
deleted_window == [NewWindow({}, 0, FALSE) EXCEPT !.alive = FALSE, !.made = 0]
purged(gone, dropped) ==
  /\ rows' = [i \in DOMAIN rows |->
       IF i \in gone THEN deleted_row(rows[i])
       ELSE IF rows[i].window \in dropped THEN [rows[i] EXCEPT !.window = none] ELSE rows[i]]
  /\ windows' = [w \in DOMAIN windows |->
       IF w \in dropped THEN deleted_window ELSE windows[w]]
  /\ UNCHANGED <<now, looking, sending>>

PurgeChat ==
  /\ "chat" \in Purges /\ Spend("purge")
  /\ purged(DOMAIN rows, DOMAIN windows)
  /\ forgotten' = forgotten \cup DOMAIN rows

PurgeRange(from, to) ==
  LET gone == {i \in DOMAIN rows : rows[i].alive /\ rows[i].at \in from..to}
  IN /\ "range" \in Purges /\ Spend("purge") /\ gone # {}
     /\ purged(gone, {w \in DOMAIN windows :
                        \/ \E i \in gone : rows[i].window = w
                        \/ windows[w].ended \in from..to})
     /\ UNCHANGED forgotten

(* The worker dies: what its jobs held is lost.  The request about a window  *)
(* is paid for, and a batch being sent is accepted or not; neither answer    *)
(* reaches anybody.                                                          *)
WorkerDies ==
  /\ Spend("mishap")
  /\ looking' = idle_looking /\ sending' = idle_sending
  /\ windows' \in {unanswered(windows), unanswered(paid_for_sending)}
  /\ UNCHANGED <<now, rows, forgotten>>

Tick == /\ now < MaxTime /\ now' = now + 1
        /\ UNCHANGED <<rows, windows, looking, sending, forgotten, spent>>

Next ==
  \/ \E k \in Kinds : Store(k)
  \/ \E i \in DOMAIN rows : record_edit(i) \/ \E heard \in BOOLEAN : persist_media(i, heard)
  \/ FlushReadyWindows \/ ExtractNext \/ ExtractAnswered \/ ExtractFailed
  \/ ExtractRaised \/ ExtractUnwritten
  \/ SubmitPending \/ SubmitAccepted \/ SubmitRefused \/ SubmitLost
  \/ \E b \in batches : \/ CollectEntries(b) \/ CollectUnreadable(b) \/ CollectRaised(b)
  \/ PurgeChat \/ \E from \in 0..now : \E to \in from..now : PurgeRange(from, to)
  \/ WorkerDies \/ Tick

Spec == Init /\ [][Next]_vars

(* The scheduler runs the jobs again and again, a call ends with one answer  *)
(* or the other and a batch ends: as long as there is a step to take, one is *)
(* taken.  The API accepts a batch again and again.  A transcript may never  *)
(* come, and no call need ever be answered well.                             *)
Step ==
  \/ Tick \/ FlushReadyWindows \/ ExtractNext \/ ExtractAnswered \/ ExtractFailed
  \/ SubmitPending
  \/ \E b \in batches : CollectEntries(b) \/ CollectUnreadable(b)
FairSpec == Spec /\ WF_vars(Step) /\ SF_vars(SubmitAccepted)

-----------------------------------------------------------------------------
(* Properties *)

Words == [row : 1..Len(rows), edits : Nat, heard : BOOLEAN]
Row == [kind : Kinds \cup {"window"}, at : Nat, alive : BOOLEAN, text : SUBSET Words,
        edits : Nat, heard : BOOLEAN, media : {"none", "pending", "processed"},
        to_me : BOOLEAN, window : 0..Len(windows), processed : BOOLEAN,
        edited_after_extraction : BOOLEAN, needs_review : BOOLEAN,
        extracted : Nat]
Window == [alive : BOOLEAN, status : {"pending", "submitted", "applied", "failed"},
           text : SUBSET Words, made : Nat, ended : Nat, instant : BOOLEAN, batch : Nat,
           attempts : 0..BATCH_MAX_ATTEMPTS, read : SUBSET Words, asked : SUBSET Words,
           calls : Int]

(* Every variable has its type, and what waits for an answer fits the status *)
TypeOK ==
  /\ now \in 0..MaxTime
  /\ \A i \in DOMAIN rows : rows[i] \in Row
  /\ \A w \in DOMAIN windows : windows[w] \in Window
  /\ looking.at \in 0..Len(windows) /\ Range(looking.ids) \subseteq DOMAIN windows
  /\ sending.ids \subseteq DOMAIN windows /\ forgotten \subseteq DOMAIN rows
  /\ \A w \in DOMAIN windows : windows[w].status = "submitted" => windows[w].batch # none
  /\ \A a \in DOMAIN Budget : spent[a] \in 0..Budget[a]

(* windows.py:23 "no message is ever extracted twice": whatever is replayed, *)
(* sent again, handed from one path to the other or cut loose by a purge, a  *)
(* row is part of at most one window whose result was applied, and says so   *)
ExtractedOnce ==
  \A i \in DOMAIN rows :
    /\ rows[i].extracted <= 1
    /\ rows[i].extracted = 1 => rows[i].processed
    /\ rows[i].kind # "window" => (rows[i].processed => rows[i].extracted = 1)

(* batch.py:15 "Nothing is ever dropped silently": a message not yet read is *)
(* free for the next flush, in a window on its way, or in a failed window    *)
(* whose text the owner is asked to review                                   *)
NothingIsDropped ==
  \A i \in DOMAIN rows :
    LET w == rows[i].window
    IN (rows[i].alive /\ rows[i].kind # "window" /\ ~rows[i].processed) =>
         \/ w = none
         \/ windows[w].alive /\ windows[w].status \in {"pending", "submitted"}
         \/ /\ windows[w].alive /\ windows[w].status = "failed"
            /\ \E j \in DOMAIN rows : /\ rows[j].alive /\ rows[j].window = w
                                      /\ rows[j].kind = "window" /\ rows[j].needs_review

(* windows.py:372 "a window is paid for exactly once", as far as it is so:   *)
(* besides the one request that is out for a window or was applied to it, it *)
(* was paid for only in requests that came back without a usable answer or   *)
(* that the worker's death, a write that failed or a purge made useless, no  *)
(* more than one for each.  Nothing is paid twice because two paths took it. *)
mishaps == spent["mishap"] + spent["purge"]
PaidOnce ==
  \A w \in DOMAIN windows : windows[w].alive =>
    windows[w].calls <= mishaps + IF \/ looking.at = w
                                     \/ windows[w].status \in {"submitted", "applied"}
                                  THEN 1 ELSE 0

(* Media is settled before its window closes: a voice is read as it was      *)
(* heard, unless hearing it took longer than an hour or gave nothing         *)
VoiceIsHeardFirst ==
  \A w \in DOMAIN windows : \A i \in DOMAIN rows :
    (windows[w].alive /\ rows[i].alive /\ rows[i].kind \in Spoken /\ rows[i].heard
       /\ [row |-> i, edits |-> 0, heard |-> FALSE] \in windows[w].read)
    => windows[w].made >= rows[i].at + MEDIA_CUTOFF

(* A purged chat stays purged: none of its words is left in a row or window, *)
(* whatever was being extracted, submitted or collected when it went         *)
PurgeIsFinal ==
  \A i \in forgotten :
    /\ \A j \in DOMAIN rows : rows[j].alive => i \notin {v.row : v \in words(j)}
    /\ \A w \in DOMAIN windows : windows[w].alive => i \notin {v.row : v \in windows[w].text}

(* Every message is read in the end, or is left for review or gone           *)
waiting(i) == /\ i \in DOMAIN rows /\ rows[i].alive /\ ~rows[i].processed
              /\ ~(rows[i].window # none /\ windows[rows[i].window].status = "failed")
EveryMessageIsRead == \A i \in 1..MaxMessages : waiting(i) ~> ~waiting(i)

=============================================================================
