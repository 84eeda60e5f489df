# MIYA in TLA+

MIYA is a personal assistant that reads one person's chats, calls and bank
messages, and, in its "jarvis" layer, answers clients in that person's name.
This directory holds TLA+ specifications of the program in `src/`, the TLC
configurations that check them and the TLAPS proofs about them.

What matters most in this program is what it may do in the owner's name: every
message it sends is real, cannot be taken back, and comes from an account that
Telegram bans when it sends too much. The specifications start there.

## 1. The system

Four processes share one PostgreSQL database and nothing else:

| process | code | what it runs |
|---|---|---|
| bot | `src/miya/bot` | the owner's chat with MIYA: commands, cards, taps |
| userbot | `src/miya/userbot` | the owner's own Telegram account: a reader (live and catch-up) and, in the same event loop, the sender |
| worker | `src/miya/worker/main.py` | APScheduler jobs: expiry and reconcile every minute, answers every 15 s, batches, reminders, alerts |
| api | `src/miya/api` | uploads from the Android app |

A companion app on the owner's phone (`android/`) sends recordings, calls, SMS and
pushes to the api.

Components, the state they keep, and what makes them correct:

| component | state | operations | must hold |
|---|---|---|---|
| **outbox** `jarvis/outbox.py` | `outbox_messages`: state, text, guard verdict, approval, lease, attempts, report | create, approve, owner_text, cancel, expire, claim_ready, complete, fail, reconcile | only approved, guarded, unchanged text leaves; one row per proposal; a row in doubt is never sent again; nothing waits for ever |
| **gate** `jarvis/gate.py` | none (pure) | evaluate: eleven lines | the first objection decides, and a restriction never releases a row |
| **policy** `jarvis/policy.py` | `jarvis_policy` (modes, pauses, breakers per scope), reply rules | pause, resume, set mode, demote, trip breaker | the narrowest mode wins, the ceiling bounds it, a stop is seen by the next claim |
| **caps** `jarvis/caps.py` | none: counted from outbox rows | day_counts, wire_moment, last_send_at | whatever may be on the wire is counted |
| **sender** `userbot/sender.py` | the claimed row, its own pause, in memory only | poll, pace, request, classify, read back, settle, finish | at most one copy of a row reaches the chat, whatever is lost |
| **userbot reader** `userbot/main.py` | interactions | store messages, edits and deletions, catch up | an outgoing message of MIYA's is tagged as such |
| **authorship** `services/authorship.py` | tags on interactions | tag, find_echo, clauses | MIYA's words never count as the owner's |
| **chat state** `jarvis/chat_state.py` | `jarvis_chat_state`: when to look, lease, what the owner last did; escalations | client writes, edits, deletes; owner writes, reads, types | nothing is handed out after the owner's own message; no signal is lost that matters |
| **responder** `jarvis/responder.py` | a look's lease; drafts, stalls and escalations it creates | claim a chat, read, ask models, propose, escalate | the owner has a window first; no message forgotten or answered twice; one stall per escalation |
| cards, stalls, rollout | cards, alerts, earned autonomy | show, tap, snooze, promote, demote | a card shows what will be sent; autonomy is earned |
| **windows and batches** `services/windows.py`, `batch.py`, jobs of `worker/main.py` | `interactions`, `conversation_windows`: status, batch, attempts; a job's session | close a window, extract at once, submit, collect, retry, give up, edit, purge | each message is read once and paid for by one path at a time, none is dropped, a purged one does not come back |
| **money** `services/money_events.py`, `persistence.py`, `claims.py` | transactions with their evidence, debts, repayments, claims | book a text, write the owner's words, park a claim, match, answer, undo | one payment is counted once, two payments stay two, what is proven closes, what the owner undid stays undone |
| **recordings** Android client, `api/main.py`, `services/call_recordings.py` | the Room queue, WorkManager's jobs; audio, sidecars, interactions | scan, hash, probe, upload, ingest, retain | one interaction per conversation, as far as its hash or its call tells; the phone lets go of nothing the server does not hold |
| **phone events** `EventSyncWorker`, `services/phone_events.py` | queue and cursors; event keys, interactions | harvest, post, mark, refuse | one interaction per event; the cursor passes nothing that is not answered for |
| **spreadsheet** `services/sheets_sync.py` | `sheet_rows`; the owner's spreadsheet | plan, write, record, tombstone, resync | one entity per row for good; the sheet catches up with SQL |
| questions, reminders, recaps, brief | questions, marks | ask, answer, remind | each is asked and answered once |
| calendar | sync marks | push | |
| health, purge, backup, search, bot screens | small | | |

How they interact. A reply is *proposed* by the responder, a card, a stall or a
command (`outbox.create`), *approved* by the owner's tap or, for an intent in
automatic mode, by the policy; an adapter *claims* it (`claim_ready` runs the
gate on facts read in that transaction), and *reports* it (`complete` or `fail`).
A claim leaves a lease; when it runs out with no report, the worker's
`reconcile` looks for the message among the stored interactions. Messages
reach those interactions through the reader, which shares only the database with
the worker. The worker's window job reads them in windows, at once or in batches of
the model's vendor, and writes what they say into the ledger; claims of the other
side wait for the owner. The phone's texts of banks are booked as they arrive. The
mirror and the cards only read the ledger.

What is hard here: several processes act on one row between the transactions
of another; the facts a claim checked are used after a delay of seconds; a
request's answer may be lost and the request may still arrive; the process may
die between the request and the report; an echo and a report may be stored
in either order; the owner acts at any of these moments. `PROJECT.json`
lists each hazard at its line and the properties that cover it.

## 2. Modules

| module | models | extends |
|---|---|---|
| `PolicyRules` | the pure half of `policy.py`: modes, ceilings, stops, rules, exclusions | |
| `Gate` | `gate.py`: the eleven lines and `evaluate` | `PolicyRules` |
| `GateWorld` | an approved row between its approval and its claim: what owner, client, platform and clock do to the facts | `Gate` |
| `Outbox` | `outbox.py` with `caps.py` and the writes of `policy.py`: the state machine of a row | `Gate` |
| `SendOnce` | abstract: what outbox and adapter promise about a row | |
| `TelegramSender` | `sender.py`, Telegram, the reader and the owner's own typing, on top of `Outbox` | `Outbox` |
| `ChatState` | `chat_state.py` with the reader's handlers that call it: what owner and client do in one chat, how the signals reach the chat's row, what they do to rows and escalations | `Gate` |
| `Responder` | `responder.py`: a look at a chat from its claim to its end, on top of `ChatState` | `ChatState` |
| `Windows` | one chat's messages from their storing to the ledger: `windows.py`, `batch.py`, the worker's jobs, edits and purges | |
| `Money` | one movement of money in all its reports: `money_events.py`, the writers of `persistence.py`, `claims.py` | |
| `Custody` | abstract: what phone and server owe the owner about what the phone sends | |
| `Recordings` | a call recording from the dialer's folder to its interaction, on both sides of the connection | |
| `PhoneEvents` | calls, SMS and pushes from the phone's providers to their interactions, on both sides | |
| `Sheets` | `sheets_sync.py`: the mirror's runs against what changes meanwhile | |
| `OutboxProofs`, `GateProofs`, `ResponderProofs`, `WindowsProofs`, `RecordingsProofs`, `PhoneEventsProofs`, `SheetsProofs`, `MoneyProofs` | theorems about the module of that name, `OutboxProofs` about `TelegramSender` too, `GateProofs` about `GateWorld` | that module, `TLAPS` |
| `MC*` | constants for TLC | |

State and actions against the code:

* A column of `outbox_messages` is a function on `Rows` (`state`, `body`,
  `guard`, `lease`, ...). A row that does not exist yet is `Absent`. The
  history is kept only as far as code reads it back (`last_error`, `warned`,
  `told`).
* One action of `Outbox` is one committed transaction. Rows are read
  `FOR UPDATE`, so a transaction on one row is atomic. `create` is two steps,
  `CreateLookup` and `CreateStore`, since nothing locks a key that is not there.
* What an operation reads from other tables is its input `f \in Facts`: the
  switches, the rules of the chat, the trigger, the owner's last acts, the
  guard's fresh answer, quiet hours. So the world may change arbitrarily
  between two operations.
* `ClaimReady` is the whole of `claim_ready`: the choice of the row, the
  context with its caps counted from the rows, `evaluate`, `_apply`. Claims
  are serialised by an advisory lock and `CLAIM_LIMIT` is 1, so a claim is one step.
* `Outbox` leaves the adapter open: any adapter may report a claimed row at
  any time or never. `TelegramSender` is the real one: `pc` is where `send_one`
  stands, `requests` what was put on the wire, `chatlog` what is in the chat.
  A request arrives at any later moment or never. The process may die at every
  `pc`, and a report that cannot be written leaves the row to its lease.
* In `ChatState` a message is stored in one transaction and its signal recorded in
  a second one, as in `userbot/main.py`. `notes` holds the signals between the
  two. A reader that dies loses them (`ReaderDies`), and `Late` bounds how much later
  than it was written a message may be stored.
* A look of `Responder` is one transaction: `ClaimDue` takes the lease, `LookAway`,
  `LookAgain`, `HandToOwner` and `AskModels` read the chat, `StoreAnswer` stores what the
  models made of it. Between the last two anything may happen in the chat, and the
  worker may die at both places. `Finish` is the conditional update that leaves
  `respond_after` alone when it is no longer the lease.
* `unread` (messages queued and not read by a look since) and `spent` (acts used of
  `Budget`) are history and bound; no guard of the code's reads them.
* A row of `Responder` is a record with the columns the chat's protocol reads. Its claim
  evaluates the gate's `chat_state` and `trigger` lines themselves; the other nine, which
  `Outbox` and `GateWorld` cover, have no objection there.
* In `Windows` a row is an interaction and a window's text the set of the words in
  it, each with its row, its edits and whether its voice was heard. `looking` is the
  job's session, which no commit refreshes (`expire_on_commit` is off): what it
  loaded is what it uses. `calls` is what the vendor was paid for a window, less the answers that were of no
  use; it is raised when the vendor takes a request, also when the answer to that, or the write of it, is lost
  (`SubmitLost`, `ExtractUnwritten`, `CollectRaised`, `WorkerDies`). `sending` is the submit job between its read and the answer of the
  vendor. `CollectEntries` applies one batch as the code does, each entry against
  the window as it is then.
* In `Money` a report is a text, and `of`, the payment it is really about, is read by
  the properties only. `ledger.rows` are the rows written, `ledger.into` the evidence
  that joins a text to a row. A handler is one step, except the three that read and act
  later: the owner's words (looked up, then committed), a tap on "Ha", and the extraction that
  parks a claim. `parking` is the claim of an extraction that is not committed: it was linked and
  matched by what others had committed, and the unique index on the evidence undoes it when
  the row it chose has proved another claim by then. The question about a coded bank text
  (`money_gs_settle_ask`) is a report that `asks` about that text. `paid_down` splits a repayment over
  the open debts as `_apply_settlement` does. `DAY` is the local day within which typed and bank rows match.
* In `Recordings` and `PhoneEvents` phone and server meet in `req`: a request lives on
  at the server when its phone has stopped waiting. A job of WorkManager is one value per
  unique name, with its attempts; the death of either side drops what only its memory
  held. `world` is what neither program decides: the files, the call log's
  ids, what Syncthing copies, what the server refuses.
* In `Sheets` a run is in the worker's memory (`run`) between the plan, which is
  committed, the calls and the record, and everything else may happen between them. The
  words of an entity are a version, and the hash of its cells is that version.
* A text is a value; the guard's verdict is *pass* or *block*, whether all
  statements are approved ones, and which approved shapes it leaned on. "Bound"
  (the SHA-256 of the body is the one the verdict was given for) is equality
  of texts.
* Times are small naturals, `NoTime` is NULL. Each constant of the code that
  bounds a time or a number is a CONSTANT here with the code's name.

Each module states the type of its state as `TypeOK`. It is among the properties of a
run for `Outbox`; in the other modules it is there to be read, and the proofs have a type
invariant of their own, which is finer where a step needs it.

A definition whose comment says *a fault to detect* is a plausible bug of the
definition after it. No specification uses it; `PROJECT.json` lists, for each
property, the fault that violates it.

## 3. Runs

| run | question | bounds |
|---|---|---|
| `gate` | does a new restriction ever release a row, is autonomy earned at the moment of sending, are the owner's words kept | every kind of approved row, 2 events in any order, clock to 5 |
| `outbox_stops` | which text leaves, and when: the owner's rewrites, pauses, resumes, modes, demotions and breakers against claims; does every row end | 1 row, an automatic reply or a command with a delay, a guard that passes or refuses, every world the gate tells apart, one rewrite, clock 0..5, the last row is created at 0 |
| `outbox_pair` | the same proposal from two callers, two rows for one message, the daily caps | 2 rows, 2 callers, 2 messages, 3 proposals for caps of 1, 2 attempts, clock 0..3 in one day |
| `sender_once` | one row with its sender implements `SendOnce` | 1 row, 2 messages, 2 starts, 2 attempts, clock 0..2, the owner typing the same and another text |
| `responder_owner` | the owner's acts at every moment of a message's way to an answer; is every chat looked at | 1 message, plain, red line or tripwire, 2 acts of the owner, 1 death, everything up to 1 late, clock 0..8 |
| `responder_answers` | messages, edits and deletions before, during and after a look | 2 messages of 4 kinds, 1 edit or deletion, 1 death of reader or worker, clock 0..5 |
| `windows` | messages on their way through windows and batches while they are edited and purged and the worker dies | 2 messages, plain or voice, of a group, windows of 2, 2 attempts of a batch, 2 troubles among an edit, a purge and a mishap (a death, a lost acceptance, a failed write), clock 0..2 |
| `money` | the reports of payments and debts in every order | 14 stories of 3 to 5 reports of payments, a coded text and a debt, two days, one tap at a time, one correction |
| `recordings` | recordings from folder to interaction | 2 files in 6 worlds (rewritten, copied by Syncthing, too short, unreadable, matched to no call), 2 requests, 2 attempts, up to 2 faults, a reinstall, no token or a refused one at first |
| `recordings_reused` | the call log cleared between two calls | see Findings |
| `events` | calls, SMS and pushes from phone to interaction | 5 events in 8 worlds (filtered, refused, malformed, restored, wiped), batches of 2, 2 requests, up to 2 faults, a reinstall |
| `sheets` | the mirror's rows against changes, purges, resyncs, failures and deleted tabs | 2 entities of one tab or of two, 2 versions of each, 4 worlds with one or two faults, lost answers, deaths |

A run has one question and one instance; questions that need the same instance
share one, so that its states are explored once.

Why the bounds are enough. A lease is one tick and an expiry one or two, so
within the clock each timer runs out before, with and after every other step.
Rows interact only through the caps, the key, the external id and the
choice of the oldest, each of which is between two rows. Attempts are limited
to two: one retry and one refused. Messages at the platform are
interchangeable, which is the symmetry the runs declare; it is not used with
liveness.

A world names what may go wrong in one course of events; the worlds of a run are
chosen so that the troubles which bear on one another meet in one of them, since
all together would be too many states. Two files, events or entities are the least
that can be taken for one another. Batches of two and one new file at each scan leave
something for the next round.

In a chat, two messages are the smallest burst, and the smallest case of one
message queued while a look is at another; one edit or deletion then hits either of
them before, during or after the look. Acts happen up to `ActUntil`, and the
clock goes on to `MaxTime` so that the window, the lease and the expiry run out
after the last of them. The owner's two acts are a message and a tap, in both
orders, or a message and a signal (typing, reading, a sticker). The window is
checked for one message and not for bursts with the owner's taps, and
`OneAnswerPerMessage` for messages that are stored in the order they were sent
(`Late = 0`): ids follow storage and a burst follows the time of sending, so a
message stored after its successor is read with it and then once more alone.

`CHECK_DEADLOCK FALSE` where the clock's bound ends a behaviour: a program whose
rows are all over and whose clock has stopped has nothing left to do.

Fairness is assumed in the runs with a liveness property. In `outbox_stops` the clock goes on, and each of
`expire_due`, `reconcile` and the notice of a send in doubt is carried out for
each row (weak fairness of `Job(r)`): the scheduler runs `jarvis_outbox_job` every
minute (`worker/main.py`), each row is contained on its own, and a step that
failed is repeated at the next minute. Nothing is assumed of the adapter, the
owner or the callers. In `responder_owner` the clock goes on, the job that
claims and reads chats runs every 15 seconds, and a model call ends, since it has a timeout.
Nothing is assumed of the reader, the owner or the client; that the owner's acts are
finitely many is the budget, and the code needs it: each sign of typing puts the
look off. Both jobs are registered only with `JARVIS_ENABLED`; the properties are about a
system where it is.

In `windows` the clock and the jobs go on, and a batch that is submitted again and
again is accepted in the end (strong fairness of `SubmitAccepted`); a transcript may
never come and no call need be answered well. In `money` only the job that answers
claims by rule goes on. In `recordings` the sweep starts the scan, WorkManager
runs what is queued, the server handles what reaches it, and its ingest job sweeps the
folder; in `events` the same of the one worker and the server. In `sheets` the
scheduler starts run after run and every backoff ends. Faults are finitely many in each
of them, and nothing is assumed of the owner: a recording or event whose token is refused
is settled when the app has told the owner so.

### Findings

`recordings_reused` is a run TLC must find violated. The ids of Android's call log start
again when it is cleared. A test of the upload
(`tests/test_recordings_upload.py:405`) says a call id alone must never be enough, since the
phone takes "duplicate" for success and may delete the file; the upload keeps this.
The probe that `UploadWorker` asks before each upload does not: it knows a call by a bare id, and
a recording the server never received is marked done.

Other statements of the code or its documentation that do not hold as they are written.
They are outside what the runs check, and stated here and at their hazards:

* `EventSyncWorker.kt:104` says that with its cursor "nothing is skipped with only a Health note", and
  `PhoneEventEntity.kt:28` says that ids restart after a wipe, which is why an SMS is keyed by its content too.
  The cursor does not follow: `CallLogMatcher.since` asks for ids above it (`CallLogMatcher.kt:68`), and it only moves
  forward, so after a wipe new calls and SMS are passed over until their ids have caught up. A call has
  no content in its key, so one that then gets an old id is taken for the old call. The proof of custody
  met this; TLC shows it in 14 states with two calls and a wipe between them. The worlds of `events` wipe with one event
  only, and the theorem assumes no wipe.
* README.md:270 says a pause stops every send at once. It is checked when the row is
  *claimed*; pacing comes after, and a row claimed before the pause is still sent.
* `caps.py` says a row in doubt counts like a sent one, so that a crash never makes room for one
  more. Its moment moves from the claim to `sent_at` when the echo is found: a row claimed before
  midnight and confirmed after it moves to the new day's count. `outbox_pair` stays in one day.
* `windows.py:372` says a window is paid for exactly once. It is when nothing fails. When the vendor has
  accepted a batch and the update of the database fails, or the worker dies before it, the windows are
  still pending and are submitted again (`batch.py:152-165`, `561-571`); a worker that dies in an instant call leaves
  its window pending too; a batch whose application raises is applied later or rescued by a second request; a
  purge that deletes a window of a batch being submitted fails the update of all of them, and the others are
  sent again; results whose stream cannot be read until the attempts are over are paid for and never read (these count
  as answers of no use). `PaidOnce` says what is left: no window is with two paths at once, and what was paid beside the
  answer that counts is at most one for each of these mishaps.
* `api/main.py:776-779` says audio is never without its metadata. The sidecar is renamed into place first and the audio second,
  and a request whose phone hung up unlinks a sidecar that has no audio beside it, also one that a retry of the phone has
  just put there. The audio is then ingested without its call. If the dialer has rewritten the file after
  the first upload, nothing tells that the two are of one conversation, and it becomes two interactions. So does a
  rewritten file that a reinstalled app sends (its call ids carry another device) or Syncthing copies
  (without a sidecar). `ConversationOnce` says under which conditions it is one; TLC violates
  it when any of them is dropped.
* Two consequences of the claims' code that no document denies. A claim that the owner accepts looks for its bank row
  once more by `find_bank_match`, which does not ask whether that row has proved another claim already:
  one payment may then answer two claims. And a coded text that joins a row which has proved a claim cannot be booked from
  /tekshir while `money_gs_settle_ask` is on (it is off by default): the question would take that row as evidence a
  second time, the index refuses, and every try ends the same.
* `money_events.py:9` says one payment reported by several channels is one row. Three courses of events
  lead to a row too many, and TLC shows each when the stories of `money` are widened by it. Three payments of one sum,
  each near enough to the next to be joined but the first not to the third: their texts, read out of order, are
  paired across and the last finds no room. Two channels that both name cards: a text without a card joins the nearest row, which
  may be the other payment's, and the text whose card does not agree stands alone. A text ignored as a repeat that the owner books by
  hand in /tekshir: it takes its channel's place in the row of another payment.
* `authorship.py` says an automatic text never becomes the owner's. A message that went out while
  the userbot died, and whose echo is stored after `reconcile` put the row in doubt,
  stays untagged: `reconcile` reads rows in `sending` only.
* `chat_state.py` says every pending row that read an edited message expires. An edit handled
  while the models think finds no row yet, and the row stored after it answers the old words.
  (The gate refuses a row whose *trigger* was edited; an earlier message of the burst gets through.)
* README.md:208 says that after the given number of replies in a row a chat is only forwarded. The counter
  is raised by a reported send and read when a look decides, so a second reply drafted
  before the first is reported is not counted against.
* `bot/handlers.py` says a second tap on "Ha" finds the claim answered. Two taps at once both
  load it first, and the lock's SELECT does not refresh what the session has: both write.
  `money` has one tap at a time.
* `sheets_sync.py` says that every row of a recreated tab is written again on the next run. Which
  tabs are new is known to that run only: when the layout's answer or the record is
  lost, or the worker dies, rows that say `synced` stay blank. And its `_record` turns every
  tombstone of a new tab into `cleared`, also one that a purge has set since on a
  row this run has just written: forgotten words stay in the sheet, against
  `tombstone_missing`'s "so the next sync clears their cells". TLC shows both when the
  worlds of `sheets` are widened so far; its worlds purge in tabs that exist, and delete
  tabs without lost answers or deaths.

## 4. Proofs

Eight modules `XProofs` prove, with TLAPS and for every value of the constants of `X`
(any rows, callers, facts, messages, files, events, worlds and clock), what the runs
check on one instance:

| module | theorem | says | run |
|---|---|---|---|
| `OutboxProofs` | `TypeCorrectness` | every column keeps its type | `outbox_stops` |
| | `GuardedTextOnly` | what is committed to be sent was approved, in exactly the words a verdict passed | `outbox_stops` |
| | `WireCounted` | every row that may be on the wire has a moment, not in the future, from which the caps count it | |
| | `HandOutsKeepTheCaps` | no claim, on any day, takes what that day counts over a cap | |
| | `CapsOfADay` | within a day no more is out than the caps allow | `outbox_pair` |
| | `FrozenText` | from its approval on, a row keeps its words and their author | `outbox_stops` |
| | `TimelyClaims` | a row is claimed after its time, before its expiry, while nothing stops its channel | `outbox_stops` |
| | `OneRowEach` | a proposal has a later row only when the earlier ones were taken back | `outbox_pair` |
| | `SenderInvariance` | outbox, sender, wire, chat and reader agree | |
| | `SentIsThere` | a row recorded as sent has a message with its words in the chat | `sender_once` |
| | `SentOnce` | sender, Telegram and outbox implement `SendOnce` | `sender_once` |
| `GateProofs` | `AutonomyHolds`, `OwnerIsHeard`, `TapsHold` | what is sent untapped earned it; the owner's words are kept; a tap yields to later words only | `gate` |
| | `RestrictionsHold` | no restriction releases a row | `gate` |
| `ResponderProofs` | `ChatsStayQueued` | no queued message is forgotten | `responder_answers` |
| | `RepeatsAreSilent` | one escalation open, one stall for each | `responder_answers` |
| | `OwnerIsFirst` | nothing is handed out after the owner's own later message | `responder_owner` |
| | `WindowHolds` | nothing is handed out before the owner had the window | `responder_owner` |
| | `OneAnswerInOrder`, `OneAnswerAtOnce` | no message is answered twice, while messages are stored in the order they were sent | `responder_answers` |
| `WindowsProofs` | `Invariance` | messages, windows, the job's session and the vendor agree | |
| | `MessagesAreExtractedOnce` | no message is read in two windows | `windows` |
| | `NoMessageIsDropped` | a message not read is free, on its way, or left for review | `windows` |
| | `WindowsArePaidOnce` | no two paths pay for a window; beyond the answer that counts, no more was paid than mishaps explain | `windows` |
| | `VoicesAreHeardFirst` | a voice is not read unheard before its cutoff | `windows` |
| | `PurgesAreFinal` | nothing under way brings back what was purged | `windows` |
| `RecordingsProofs` | `OneInteractionEach` | one interaction for bytes that do not change, and for rewritten ones the call log names, sent by one installation without a fault | `recordings` |
| | `NothingIsLetGoUnheld` | the phone lets go only of what the server holds | (violated without its assumption: `recordings_reused`) |
| | `CustodyIsKept` | recordings implement `Custody` | `recordings` |
| `PhoneEventsProofs` | `EachEventOnce` | one interaction per event | `events` |
| | `CustodyIsKept` | events implement `Custody` | `events` |
| `SheetsProofs` | `TypeCorrectness`, `RowsAreApart` | types; one entity per row of the sheet | `sheets` |
| `MoneyProofs` | `RowsStayApart`, `UndoneStays` | two payments stay two rows; what was undone stays undone | `money` |
| | `PaymentsAreBookedOnce` | the phone books no more rows than there are payments | `money` |

### Assumptions

Each module names what it assumes of its constants (`OutboxAssumption`, `GateAssumption`,
`GateWorldAssumption`, `SenderAssumption`, `ChatAssumption`, `WindowsAssumption`,
`RecordingsAssumption`, `EventsAssumption`, `EntitiesAssumption` and the three beside it, `MoneyAssumption`). They say
that the limits are naturals, leases and polls positive, what may happen finite where it is
counted, and inputs of the shapes the code's callers give them. TLC evaluates all of them
on the runs. Nothing is assumed of how many rows exist or in which order anything happens.

Six theorems need more, and say so:

* `OneAnswerInOrder` speaks of the behaviours in which a message is never stored before
  one that was sent earlier (`StoredInOrder`). Ids follow storage and a burst follows the time of
  sending, and the code compares both. `OneAnswerAtOnce` derives it from `Late = 0`.
* `NothingIsLetGoUnheld` and the `CustodyIsKept` of `RecordingsProofs` assume `CallsAreTold`:
  no two recordings are of the same row of the phone's call log. The probe knows a call by that
  row's bare id, and `recordings_reused` shows what happens without it. `OneInteractionEach` does
  not need it.
* The `CustodyIsKept` of `PhoneEventsProofs` assumes `NoWipes`; see the findings below.
  `EachEventOnce` holds with wipes.
* `CapsOfADay` speaks of the behaviours whose clock stays below `DAY` (`OneDay`), for a row
  confirmed after midnight moves to the new day. `HandOutsKeepTheCaps` needs no such thing: it is what
  `caps.py` can promise on every day, and says it of each claim.
* `PaymentsAreBookedOnce` assumes of the texts that a payment is posted again by one channel only in its words and at
  once, and that one channel names cards (`TextsAreTold`); that texts close enough to be joined form
  groups apart from each other, each of as many payments as it likes (`GroupsAreApart`); and of the
  owner that no repeat is booked by hand (`RepeatsStayIgnored`). The stories of `money` satisfy the first two. Each of the three
  is needed: the findings below say how a row too many comes about without it.

### The arguments

*Outbox.* `LinesAreSound`: each of the eleven lines returns either no objection or
a decision of a sound form: its next moment is a time or none, a hold
rebinds no verdict, and a send that rebinds one has a verdict that passed. From
`EvaluateIsALine` (the result of `evaluate` is the first line's objection, or the
send) the same holds of `evaluate`. `Inv` is `TypeOK` with three parts.
`OnlyGuardedTextLeaves` is the statement wanted. It is not inductive by itself: a claim that
rebinds the verdict or schedules a retry is safe only if the claim's facts were well formed,
which takes `MomentsArePast` (a wire moment is not later than now, so the maximum
that `last_send_at` takes exists and the caps' `resets_at` is a natural) and
`AttemptsLeft` (an approved row has an attempt left, so the counter that the claim
raises stays within its type). The action properties follow from `Inv` and a case split
over `Next`: only a claim enters `sending` (`OnlyClaimsSend`), and a claim that commits a row has
passed each line that looks at its time (`SentIsTimely`). `OneRowEach` rests on `KeysInv`: keys are
unique, and before a revision is used, or held by a caller between its lookup and its store, each earlier
one had a row that gave way. Gaps would break it, and a row that gave way never comes back.

*Caps.* A claim passes `caps_line` on the very counts the property is about, so it leaves at most one more than was
counted, provided that it adds its own row to them and no other (`ClaimAddsItsRow`), that no other step adds
one (`WireStep`: what is out stays out with its moment, or is let go of), and that a row in the
count for automatic rows is in the count for its chat too (`CapsInv`: no row that was
approved without a tap is the owner's own). `CapsOfADay` adds that within a day nothing enters the count by being confirmed.

*Sender.* `SenderInv` adds to the outbox's `Inv` what links the five places a row can be.
`RowsInv`: what is held, on the wire or in the chat belongs to a row the outbox counts as
possibly out, and while the sender paces or was refused there is no request of the row.
`OnceInv`: one request for a row, one message for a request, with the row's words.
`StoredInv`: the reader stores what is in the chat, and exactly the sent rows have a
message. None stands alone: a second request is kept out by the state of the row, the state by
what the report may be, and that by what was requested. Whoever else moves a row
(jobs, owner, callers, lease) moves it into doubt or among the states in which nothing is out
(`Moves`), so one lemma deals with all of them; each step of the sender then is one step of
`SendOnce` or none (`MoveRefines` and one lemma per step).

*Gate.* `WorldInv` says the facts are of the shapes the code's tables have, nothing is dated
after now and MIYA is off when its ceiling is. The rest is about pure operators: that a row is sent
means that every line passed, so each statement follows from the lines that guard it. Monotonicity is
proved line by line for each kind of restriction; scopes that
stop accumulate, the narrowest mode wins, and a rule that forbids is found wherever in the sequence it
stands.

*Responder.* `Inv` has five parts: types, that ids point to rows that exist and no moment is in the
future (`PointsInv`), the queue, escalations, the window. `NothingIsLost` alone is not kept by
the end of a look, which takes the chat out of the queue: `QueueInv` adds that, while the lease is still
the chat's `respond_after`, every message was read, so that a message coming meanwhile has changed it.
`WindowInv` says of each row that it was created after the window or waits for it, and of a look under way that it
reads after it. That one message has one answer takes the order of storing: what a look reads is
then later than all that earlier live rows have read.

*Windows.* `Inv` has five parts. `TypesInv`: types and shapes. `JobsInv`: what the window job's session still
has before it and what the submit job sends is pending or gone, each window once and on its own path.
`RowsInv`: a row that points to a window is there, and so is the window; it is read exactly when its window is applied, at most
once; a failed window has its notice for review. `ExtractedOnce` and `NothingIsDropped` follow from it.
`PaidOnce` is inductive with these: the two paths never hold the same window, and each mishap
raises the count of one window by at most the request it made useless. `WordsInv`: every word that a living window, a job or a
notice keeps is of a row nobody purged, and a word of a voice that was not heard was taken after the cutoff, or there was nothing to
hear; it must speak of what the session loaded and what the batch was sent, too, since an answer that comes after an edit or a purge
writes that.
The flush is the one recursive definition. What it yields is stated without it (`SlicesAreRuns`: lists, not empty, of
rows of the backlog) and proved from the least distance from the end of the backlog at which that would fail, which needs only
that naturals are well ordered. Lists that the code gets from `order_by` are chosen in `Windows` among the
listings of a set, and the proof shows that there is one by counting for each element those before it (`ById`, `ByTime`).

*Recordings.* `Inv` says that a job that runs has a row which is not done, a call id is the one of the file it
travels with, a job waits for at most one request, a path belongs to the interaction of its
own bytes or its own call, and audio that was not heard yet stays. For `OneInteractionEach` no guard
is enough, since the guard of the sweep asks for the hash or the call, and the property for the conversation.
`ToldInv` follows the call of a recording: while nothing fails and the first installation sends, it is in the row of
each version, in each request and in the sidecar beside each audio that was not swept yet, so that the sweep
finds the interaction of another version; `SeenInv` says that nothing is of a version the dialer has not written yet, and `ApartInv`
that no two interactions have one hash, or one call and moment. For custody `HeldInv` adds that a request is answered
as taken only when the server holds the conversation: the answer may be lost or late, and what the phone does with
it must be right then. Each step hands one recording over, or leaves the disk alone, or leaves
the folder and the rows alone (`HandsNothing`, `DiskStep`).

*Events.* `Inv` says that keys are minted as the server mints them, ids of a provider are unique and below the next,
and the worker waits for one answer at a time, for the batch it holds; with the index, an event is recorded once. `CustodyInv`
follows an event along the cursor: what lies below the cursor is recorded or filtered, what lies below what this run
has read is that or queued, a row that is done is recorded, and a 200 on its way is about
recorded events.

*Spreadsheet.* `NumbersInv`: the numbers of a tab are given out once and without gaps, so that
the next one, the count plus one, is free. A run writes from memory, by numbers it read
before: `RunInv` says the numbers it holds are still those of SQL, since none is ever taken back,
and `CellsInv` that a row of the sheet has the words of the entity that owns its number.

*Money.* `GoodLedger` says that no row has two texts of one channel behind it, nor two messages of the
owner; it is stronger than `PaymentsStayApart`, which speaks of different payments only, because the code's filters do not
know which payment a text is about. `GoodClaims` says that a claim which was undone
is marked as the repeat of no other, and so the answer to another claim never reaches it; it must hold of the claims in flight
(`parking`) as of those that are stored, for they commit as they were read. What the function `answers`
makes of a chain of repeats is never computed: the proof needs only that each link is decided by
the rule or left. `PaymentsAreBookedOnce` counts: `PhoneInv` says that there is a function that names, for each row of
the phone, a booked text of its group, no two of one payment. When a text joins a row, the function stays. When
a text finds no row, every row of its group has a text of the same channel already (`FullRows`), so as
many other payments as rows have a text there; the function is chosen anew for that group, each row by that
text and the new row by the new one (`BookedIsGood`).

### What stays with TLC

* Liveness (`RowsSettle`, `QueueEmpties`, `EveryMessageIsRead`, `ProvenClaimsClose`, `EveryRecordingSettles`,
  `EventsArrive`, `MirrorCatchesUp`): liveness under fairness and ENABLED are out of the prover's reach.
* `DailyCapsHold` and `PhoneBooksOnce` beyond what their theorems assume: there they are false, not unproved (see the
  findings).

Every other property of the passing runs is stated by a theorem.

The choices (`lowest` and the like) are written without recursion, so that the prover
can expand them; no module of the project declares a RECURSIVE operator.

## 5. What is not modelled

Text rules (red lines, intents, style), prompts and ranking are inputs or left
out: they have no protocol. Within the modelled parts, these are left out: the
WhatsApp and Gmail adapters (their rows have channel caps and no sender in the
repository), the notes that only append to a row's history, jitter and typing
time, contact sync, metrics. `Responder` leaves out: other chats (the job takes them one
by one), a mode that changes under way, snoozing and the notices of
an escalation, the look-back limits on what counts as handled or deleted (longer
than the clock), a refused or doubtful send (`Outbox` has them: here a claimed row is sent,
and its echo is stored with the report), and the reads of one look at different
instants of its transaction. `Windows` leaves out other chats, purges of a person, the
content of an extraction and its embeddings. `Money` leaves out currencies,
directions and persons (one of each: the case in which every match is possible), the
parsing of texts, receipts and the cards about them. `Recordings` leaves out the
transcription behind an ingested file and the app's screens but for the token. `PhoneEvents` leaves out what the server makes of an event. `Sheets` leaves out the
header rows, the limit of a run (`WRITE_BATCH`), the heartbeat, a sheet row without a
number, and a write that Google applies after a later one. The parts with a protocol that are not modelled
yet are planned below; `PROJECT.json` gives a status and a reason for every part.

## 6. Plan

1. (done) `PolicyRules`, `Gate`, `GateWorld`; `Outbox`; `SendOnce`,
   `TelegramSender`; first proofs about `Outbox`.
2. (done) `ChatState`, `Responder`: the owner-first takeover and the path from an
   inbound burst to one draft, automatic reply, stall or escalation.
3. (done) Capture: `Windows`; `Money`; `Custody` with `Recordings` and `PhoneEvents`;
   `Sheets`.
4. (done) Proofs about the sender and its refinement, the gate's monotonicity, the caps, the responder,
   windows and batches, recordings and events with their refinements, the mirror, the ledger: every property of the
   passing runs but liveness.
5. Then `Cards` (cards, buttons, alerts, the stall ladder) and `Rollout` (earning and
   losing the automatic mode; a breaker whose demotions failed is not followed up by any job,
   although `policy.py` says the rollout job demotes again), `Questions`, `Health`.
