----------------------------- MODULE Recordings -----------------------------
(***************************************************************************)
(* A call recording on its way from the dialer's folder to one interaction *)
(* of the server: the scanner, the Room queue and the upload worker of the *)
(* companion app (RecordingScanner, RecordingRepository, UploadWorker,     *)
(* DrainWorker), POST /v1/recordings and its probe (api/main.py), and the  *)
(* sweep and the retention of services/call_recordings.py.                 *)
(*                                                                         *)
(* A file is a number, in the order of the files' mtimes, and one recorded *)
(* conversation.  The dialer may rewrite it after it was hashed: <<f, v>>  *)
(* is the hash of its v-th bytes.                                          *)
(*                                                                         *)
(* world says what is outside of both programs: number[f] is the call-log  *)
(* row the scanner matches f to (id 0: none) and the moment of that call,  *)
(* where two moments are equal iff they agree within                       *)
(* CALL_ID_AGREEMENT_MINUTES; files are the calls that are recorded at     *)
(* all, synced those Syncthing copies to the server too, short those below *)
(* the duration floor, unreadable those the app may not open; deleting     *)
(* tells whether the owner has uploaded files deleted; the rest bounds how  *)
(* often the file is rewritten, something fails, the app is reinstalled.   *)
(* token is the server and the token the owner has entered: none yet, one  *)
(* the server refuses, one that works; world.token is what the app starts  *)
(* with.                                                                   *)
(*                                                                         *)
(* work[s] is the unique WorkManager job "upload-s": n counts its runs.  A *)
(* request lives on at the server after its phone has stopped waiting for  *)
(* it (wanted = FALSE).  A path is <<how, s>>: "up" for the deterministic  *)
(* name of an upload, "sync" for a copy Syncthing brought.  side[p] is the *)
(* sidecar's call id beside the audio of path p.  owner[p] is the          *)
(* interaction that has p as its path or among its duplicate_paths.        *)
(***************************************************************************)
EXTENDS Naturals, Sequences, FiniteSets

CONSTANTS
  Files, Worlds,
  Requests,                        \* bound: uploads the server handles at once
  MAX_NEW_PER_SCAN, MAX_ATTEMPTS,
  MaxRewrites,
  NoRow, NoReq, NoCall, NoSide

Tokens == {"missing", "refused", "works"}
RowStates == {"PENDING", "UPLOADING", "DONE", "FAILED_PERMANENT", "FAILED_PRECONDITION", "SKIPPED"}
CallIds == [device : Nat, id : Nat]
Calls == CallIds \union {NoCall}
RowRecords == [st : RowStates, size : Nat, stamp : Nat, att : Nat, hashRetried : BOOLEAN,
               call : Calls]

ASSUME RecordingsAssumption ==
  /\ Files \subseteq Nat /\ IsFiniteSet(Files)
  /\ \A w \in Worlds :
       /\ {w.files, w.synced, w.short, w.unreadable} \subseteq SUBSET Files
       /\ w.number \in [Files -> [id : Nat, moment : Nat]]
       /\ w.token \in Tokens /\ w.deleting \in BOOLEAN
       /\ w.rewrites \in 0..MaxRewrites
       /\ w.faults \in Nat /\ w.reinstalls \in Nat
  /\ {MAX_NEW_PER_SCAN, MAX_ATTEMPTS, MaxRewrites} \subseteq Nat
  /\ NoRow \notin RowRecords /\ NoCall \notin CallIds /\ NoSide \notin CallIds

Hashes == Files \X (1..(MaxRewrites + 1))
Paths  == {"up", "sync"} \X Hashes

VARIABLES
  world,
  file, rewrites,                  \* the dialer's folder
  row, unscheduled, work, latch, device,
  req,
  audio, side, owner, inter, token,
  faults

phone_vars  == <<row, unscheduled, work, latch, device>>
disk_vars   == <<audio, side, owner, inter>>
world_vars  == <<world, file, rewrites>>
vars == <<world_vars, phone_vars, req, disk_vars, token, faults>>

idle == [pc |-> "idle", n |-> 0]

Init ==
  /\ world \in Worlds
  /\ file = [f \in Files |-> [at |-> "none", v |-> 1, size |-> 1]]
  /\ rewrites = 0
  /\ row = [s \in Hashes |-> NoRow] /\ unscheduled = {}
  /\ work = [s \in Hashes |-> idle]
  /\ latch = FALSE /\ device = 0
  /\ req = [r \in Requests |-> NoReq]
  /\ audio = {} /\ side = [p \in Paths |-> NoSide]
  /\ owner = [p \in Paths |-> 0] /\ inter = <<>>
  /\ token = world.token
  /\ faults = 0

number == world.number
Fault == faults < world.faults /\ faults' = faults + 1

-----------------------------------------------------------------------------
(* The dialer's folder *)

Finish(f) ==
  /\ f \in world.files /\ file[f].at = "none"
  /\ file' = [file EXCEPT ![f].at = "phone"]
  /\ UNCHANGED <<world, rewrites, phone_vars, req, disk_vars, token, faults>>

Rewrite(f) ==
  /\ file[f].at = "phone" /\ rewrites < world.rewrites
  /\ rewrites' = rewrites + 1
  /\ \E longer \in {0, 1} :
       file' = [file EXCEPT ![f].v = @ + 1, ![f].size = @ + longer]
  /\ UNCHANGED <<world, phone_vars, req, disk_vars, token, faults>>

Syncthing(f) ==
  /\ f \in world.synced /\ file[f].at = "phone"
  /\ <<"sync", <<f, file[f].v>>>> \notin audio
  /\ audio' = audio \union {<<"sync", <<f, file[f].v>>>>}
  /\ UNCHANGED <<world_vars, phone_vars, req, side, owner, inter, token, faults>>

-----------------------------------------------------------------------------
(* The scanner and the queue *)

\* A fault to detect: a file is known by its path alone.
alreadySeen_path(f) ==
  \E s \in Hashes : /\ s[1] = f /\ row[s] # NoRow
                    /\ row[s].size \in Nat

alreadySeen(f) ==
  \E s \in Hashes : /\ s[1] = f /\ row[s] # NoRow
                    /\ row[s].size = file[f].size /\ row[s].stamp = file[f].v

(* A sweep inspects the oldest MAX_NEW_PER_SCAN files it has not seen *)
ordered == {f \in Files : /\ file[f].at = "phone" /\ ~alreadySeen(f)
                          /\ Cardinality({g \in Files : /\ g < f /\ file[g].at = "phone"
                                                        /\ ~alreadySeen(g)}) < MAX_NEW_PER_SCAN}

buildRow(f) ==
  [st |-> IF f \in world.short THEN "SKIPPED" ELSE "PENDING",
   size |-> file[f].size, stamp |-> file[f].v, att |-> 0, hashRetried |-> FALSE,
   call |-> IF number[f].id = 0 THEN NoCall ELSE [device |-> device, id |-> number[f].id]]

scan(f) ==
  /\ f \in ordered \ world.unreadable
  /\ LET s == <<f, file[f].v>> IN
       \/ /\ row[s] = NoRow
          /\ row' = [row EXCEPT ![s] = buildRow(f)]
          /\ unscheduled' = IF f \in world.short THEN unscheduled ELSE unscheduled \union {s}
       \/ /\ row[s] # NoRow
          /\ row' = [row EXCEPT ![s].size = file[f].size, ![s].stamp = file[f].v]
          /\ UNCHANGED unscheduled
  /\ UNCHANGED <<world_vars, work, latch, device, req, disk_vars, token, faults>>

(* KEEP: a job of the same name that is waiting or running stays as it is *)
enqueueUniqueWork(W, S) == [s \in Hashes |-> IF s \in S /\ W[s].pc = "idle"
                                             THEN [pc |-> "queued", n |-> 0] ELSE W[s]]

scheduleUpload(s) ==
  /\ s \in unscheduled
  /\ unscheduled' = unscheduled \ {s}
  /\ work' = enqueueUniqueWork(work, {s})
  /\ UNCHANGED <<world_vars, row, latch, device, req, disk_vars, token, faults>>

in_state(states) == {s \in Hashes : row[s] # NoRow /\ row[s].st \in states}
running == {s \in Hashes : work[s].pc \notin {"idle", "queued"}}

(* A process that starts drains the queue; it had ended with nothing running *)
DrainWorker ==
  LET retryable == in_state({"PENDING", "UPLOADING", "FAILED_PRECONDITION"}) IN
    /\ running = {} /\ \E s \in retryable : work[s] = idle
    /\ work' = enqueueUniqueWork(work, retryable)
    /\ UNCHANGED <<world_vars, row, unscheduled, latch, device, req, disk_vars, token, faults>>

requeueAllFailed ==
  /\ row' = [s \in Hashes |->
               IF s \in in_state({"FAILED_PERMANENT", "FAILED_PRECONDITION", "UPLOADING"})
               THEN [row[s] EXCEPT !.st = "PENDING"] ELSE row[s]]
  /\ work' = enqueueUniqueWork(work, {s \in Hashes : row'[s] # NoRow /\ row'[s].st = "PENDING"})
  /\ latch' = FALSE

retryAll ==
  /\ in_state({"FAILED_PERMANENT", "FAILED_PRECONDITION"}) # {}
  /\ requeueAllFailed
  /\ UNCHANGED <<world_vars, unscheduled, device, req, disk_vars, token, faults>>

(* The owner pastes a token that works *)
saveServer ==
  /\ token # "works" /\ token' = "works"
  /\ requeueAllFailed
  /\ UNCHANGED <<world_vars, unscheduled, device, req, disk_vars, faults>>

purgeOldDone(s) ==
  /\ s \in in_state({"DONE"}) /\ file[s[1]].at = "deleted"
  /\ row' = [row EXCEPT ![s] = NoRow]
  /\ UNCHANGED <<world_vars, unscheduled, work, latch, device, req, disk_vars, token, faults>>

-----------------------------------------------------------------------------
(* One run of the upload worker for hash s *)

Ends(s)     == work' = [work EXCEPT ![s] = idle]
Goes(s, pc) == work' = [work EXCEPT ![s].pc = pc]
Marks(s, st) == row' = [row EXCEPT ![s].st = st]

to_upload(s) == s \in in_state(RowStates \ {"DONE"})
unchanged(s) == file[s[1]].at = "phone" /\ file[s[1]].size = row[s].size

doWork(s) ==
  /\ work[s].pc = "queued"
  /\ LET n == work[s].n + 1 IN
     \/ /\ ~to_upload(s) \/ (latch /\ token # "missing")
        /\ Ends(s) /\ UNCHANGED row
     \/ /\ to_upload(s)
        /\ token = "missing" \/ (~latch /\ ~unchanged(s))
        /\ Marks(s, "FAILED_PRECONDITION") /\ Ends(s)
     \/ /\ to_upload(s) /\ token # "missing" /\ ~latch /\ unchanged(s)
        /\ row' = [row EXCEPT ![s].st = "UPLOADING", ![s].att = n]
        /\ work' = [work EXCEPT ![s] = [pc |-> "probe", n |-> n]]
  /\ UNCHANGED <<world_vars, unscheduled, latch, device, req, disk_vars, token, faults>>

(* The row is done, the token was good, and the file is deleted if the *)
(* owner has asked for that                                            *)
markDone(s) ==
  /\ Marks(s, "DONE") /\ latch' = FALSE
  /\ file' = IF world.deleting THEN [file EXCEPT ![s[1]].at = "deleted"] ELSE file
  /\ Ends(s)

(* POST /v1/recordings/probe: by hash, staged or ingested, or by call id *)
known_sha(s)  == <<"up", s>> \in audio \/ \E i \in DOMAIN inter : inter[i].sha = s
known_call(s) == row[s].call # NoCall /\ \E i \in DOMAIN inter : inter[i].call = row[s].call

probe(s) ==
  /\ work[s].pc = "probe"
  /\ \/ /\ token = "works" /\ (known_sha(s) \/ known_call(s))
        /\ markDone(s) /\ UNCHANGED faults
     \/ /\ token # "works" \/ ~(known_sha(s) \/ known_call(s))
        /\ Goes(s, "upload") /\ UNCHANGED <<row, file, latch, faults>>
     \/ /\ Fault                   \* no answer: "a failed probe is not a failed upload"
        /\ Goes(s, "upload") /\ UNCHANGED <<row, file, latch>>
  /\ UNCHANGED <<world, rewrites, unscheduled, device, req, disk_vars, token>>

(* The rows and jobs after the uploads of hashes S have failed as a network does *)
Retry(S) ==
  LET spent(s) == row[s].att >= MAX_ATTEMPTS IN
    /\ row' = [s \in Hashes |->
                 IF s \in S THEN [row[s] EXCEPT !.st = IF spent(s) THEN "FAILED_PERMANENT"
                                                       ELSE "PENDING"]
                 ELSE row[s]]
    /\ work' = [s \in Hashes |->
                  IF s \in S THEN IF spent(s) THEN idle ELSE [work[s] EXCEPT !.pc = "queued"]
                  ELSE work[s]]

upload(s) ==
  /\ work[s].pc = "upload"
  /\ LET f == s[1] IN
     \/ /\ file[f].at # "phone"
        /\ Retry({s}) /\ UNCHANGED req
     \/ /\ file[f].at = "phone" /\ file[f].size # row[s].size
        /\ Marks(s, "FAILED_PERMANENT") /\ Ends(s) /\ UNCHANGED req
     \/ /\ file[f].at = "phone" /\ file[f].size = row[s].size
        /\ \E r \in Requests :
             /\ req[r] = NoReq
             /\ req' = [req EXCEPT ![r] = [sha |-> s, body |-> <<f, file[f].v>>, call |-> row[s].call,
                                           auth |-> token = "works",
                                           st |-> "meta", code |-> 0, wanted |-> TRUE]]
        /\ Goes(s, "sent") /\ UNCHANGED row
  /\ UNCHANGED <<world_vars, unscheduled, latch, device, disk_vars, token, faults>>

-----------------------------------------------------------------------------
(* POST /v1/recordings, one request *)

same_call(i, call, f) == /\ call # NoCall /\ inter[i].call = call
                         /\ inter[i].moment = number[f].moment
\* A fault to detect: only the bytes are compared.
find_ingested_bytes(s, call) ==
  {i \in DOMAIN inter : inter[i].sha = s}

find_ingested(s, call) ==
  {i \in DOMAIN inter : inter[i].sha = s \/ same_call(i, call, s[1])}

answered(r, code) ==
  IF req[r].wanted THEN [req[r] EXCEPT !.st = "answered", !.code = code] ELSE NoReq

upload_recording(r) ==
  /\ req[r] # NoReq /\ req[r].st = "meta"
  /\ LET s == req[r].sha
         duplicate == <<"up", s>> \in audio \/ find_ingested(s, req[r].call) # {} IN
       req' = [req EXCEPT ![r] = IF ~req[r].auth THEN answered(r, 401)
                                 ELSE IF duplicate THEN answered(r, 200)
                                 ELSE [@ EXCEPT !.st = "audio"]]
  /\ UNCHANGED <<world_vars, phone_vars, disk_vars, token, faults>>

(* What is left of a request that fails: a sidecar without its audio is *)
(* removed, whichever request wrote it                                  *)
cleanup(r) ==
  LET p == <<"up", req[r].sha>> IN
    side' = IF p \in audio THEN side ELSE [side EXCEPT ![p] = NoSide]

(* The whole body has arrived; the sidecar is published before the audio *)
publish_sidecar(r) ==
  /\ req[r] # NoReq /\ req[r].st = "audio"
  /\ \/ /\ req[r].body = req[r].sha
        /\ side' = [side EXCEPT ![<<"up", req[r].sha>>] = req[r].call]
        /\ req' = [req EXCEPT ![r].st = "sidecar"]
        /\ UNCHANGED faults
     \/ /\ req[r].body # req[r].sha
        /\ cleanup(r)
        /\ req' = [req EXCEPT ![r] = answered(r, 422)]
        /\ UNCHANGED faults
     \/ /\ Fault                   \* the transfer was corrupted
        /\ cleanup(r)
        /\ req' = [req EXCEPT ![r] = answered(r, 422)]
  /\ UNCHANGED <<world_vars, phone_vars, audio, owner, inter, token>>

publish_audio(r) ==
  /\ req[r] # NoReq /\ req[r].st = "sidecar"
  /\ \/ /\ audio' = audio \union {<<"up", req[r].sha>>}
        /\ req' = [req EXCEPT ![r] = answered(r, 202)]
        /\ UNCHANGED <<side, faults>>
     \/ /\ Fault                   \* the rename failed
        /\ cleanup(r)
        /\ req' = [req EXCEPT ![r] = answered(r, 500)]
        /\ UNCHANGED audio
  /\ UNCHANGED <<world_vars, phone_vars, owner, inter, token>>

(* The server notices that the phone has hung up while it still reads the body *)
disconnected(r) ==
  /\ req[r] # NoReq /\ ~req[r].wanted /\ req[r].st = "audio"
  /\ cleanup(r)
  /\ req' = [req EXCEPT ![r] = NoReq]
  /\ UNCHANGED <<world_vars, phone_vars, audio, owner, inter, token, faults>>

-----------------------------------------------------------------------------
(* The answer reaches the phone, or does not *)

outcome(r) ==
  /\ req[r] # NoReq /\ req[r].wanted /\ req[r].st = "answered"
  /\ req' = [req EXCEPT ![r] = NoReq]
  /\ LET s == req[r].sha
         f == s[1]
         fresh == <<f, file[f].v>> IN
     \/ /\ req[r].code \in {200, 202}
        /\ markDone(s) /\ UNCHANGED unscheduled
     \/ /\ req[r].code = 401
        /\ Marks(s, "FAILED_PERMANENT") /\ Ends(s)
        /\ latch' = TRUE /\ UNCHANGED <<unscheduled, file>>
     \/ /\ req[r].code = 500
        /\ Retry({s}) /\ UNCHANGED <<unscheduled, latch, file>>
     \/ /\ req[r].code = 422 /\ row[s].hashRetried
        /\ Marks(s, "FAILED_PERMANENT") /\ Ends(s)
        /\ UNCHANGED <<unscheduled, latch, file>>
     \/ /\ req[r].code = 422 /\ ~row[s].hashRetried /\ file[f].at # "phone"
        /\ Marks(s, "FAILED_PRECONDITION") /\ Ends(s)
        /\ UNCHANGED <<unscheduled, latch, file>>
     \/ /\ req[r].code = 422 /\ ~row[s].hashRetried /\ file[f].at = "phone" /\ fresh = s
        /\ Marks(s, "PENDING") /\ Goes(s, "queued")
        /\ UNCHANGED <<unscheduled, latch, file>>
     \/ /\ req[r].code = 422 /\ ~row[s].hashRetried /\ file[f].at = "phone" /\ fresh # s
        /\ LET replacement == [row[s] EXCEPT !.st = "PENDING", !.att = @ + 1,
                                             !.hashRetried = TRUE, !.size = file[f].size] IN
             row' = [row EXCEPT ![s] = NoRow, ![fresh] = IF @ = NoRow THEN replacement ELSE @]
        /\ Ends(s) /\ unscheduled' = unscheduled \union {fresh}
        /\ UNCHANGED <<latch, file>>
  /\ UNCHANGED <<world, rewrites, device, disk_vars, token, faults>>

(* Nobody waits for these answers any more *)
hung_up(R) == [r \in Requests |-> IF r \notin R \/ req[r] = NoReq THEN req[r]
                                  ELSE IF req[r].st = "answered" THEN NoReq
                                  ELSE [req[r] EXCEPT !.wanted = FALSE]]
waiting(r) == req[r] # NoReq /\ req[r].wanted

ConnectionLost(r) ==
  /\ waiting(r) /\ Fault
  /\ Retry({req[r].sha}) /\ req' = hung_up({r})
  /\ UNCHANGED <<world_vars, unscheduled, latch, device, disk_vars, token>>

ServerDies ==
  /\ \E r \in Requests : req[r] # NoReq
  /\ Fault
  /\ Retry({req[r].sha : r \in {q \in Requests : waiting(q)}})
  /\ req' = [r \in Requests |-> NoReq]
  /\ UNCHANGED <<world_vars, unscheduled, latch, device, disk_vars, token>>

(* A scan that is stopped, alone or with its process, schedules nothing more *)
ScanStops ==
  /\ unscheduled # {} /\ Fault
  /\ unscheduled' = {}
  /\ UNCHANGED <<world_vars, row, work, latch, device, req, disk_vars, token>>

PhoneDies ==
  /\ running # {} /\ Fault
  /\ unscheduled' = {}
  /\ work' = [s \in Hashes |-> IF s \in running THEN [work[s] EXCEPT !.pc = "queued"] ELSE work[s]]
  /\ req' = hung_up(Requests)
  /\ UNCHANGED <<world_vars, row, latch, device, disk_vars, token>>

(* Queue, device id, server and token are gone *)
Reinstall ==
  /\ device < world.reinstalls /\ device' = device + 1
  /\ row' = [s \in Hashes |-> NoRow] /\ unscheduled' = {}
  /\ work' = [s \in Hashes |-> idle] /\ latch' = FALSE /\ token' = "missing"
  /\ req' = hung_up(Requests)
  /\ UNCHANGED <<world_vars, disk_vars, faults>>

-----------------------------------------------------------------------------
(* The minute's sweep, one file of it, and the retention *)

read_sidecar(p) == IF side[p] = NoSide THEN NoCall ELSE side[p]

ingest_recording(p) ==
  /\ p \in audio /\ owner[p] = 0
  /\ LET found == find_ingested(p[2], read_sidecar(p)) IN
     \/ /\ found # {}
        /\ \E i \in found : owner' = [owner EXCEPT ![p] = i]
        /\ UNCHANGED inter
     \/ /\ found = {}
        /\ owner' = [owner EXCEPT ![p] = Len(inter) + 1]
        /\ \E heard \in BOOLEAN :
             inter' = Append(inter, [sha |-> p[2], call |-> read_sidecar(p),
                                     moment |-> number[p[2][1]].moment, heard |-> heard])
  /\ UNCHANGED <<world_vars, phone_vars, req, audio, side, token, faults>>

\* A fault to detect: audio is protected once it has been heard.
protected_audio_paths_heard == {p \in Paths : owner[p] # 0 /\ inter[owner[p]].heard}

protected_audio_paths == {p \in Paths : owner[p] # 0 /\ ~inter[owner[p]].heard}

purge_old_audio(p) ==
  /\ p \in audio /\ owner[p] # 0 /\ p \notin protected_audio_paths
  /\ audio' = audio \ {p} /\ side' = [side EXCEPT ![p] = NoSide]
  /\ UNCHANGED <<world_vars, phone_vars, req, owner, inter, token, faults>>

-----------------------------------------------------------------------------
Phone(s) == scheduleUpload(s) \/ doWork(s) \/ probe(s) \/ upload(s)
Server(r) == upload_recording(r) \/ publish_sidecar(r) \/ publish_audio(r) \/ disconnected(r)
Outside(f) == Finish(f) \/ Rewrite(f) \/ Syncthing(f)
Faults == (\E r \in Requests : ConnectionLost(r)) \/ ServerDies \/ ScanStops \/ PhoneDies

Next ==
  \/ \E f \in Files : Outside(f) \/ scan(f)
  \/ \E s \in Hashes : Phone(s) \/ purgeOldDone(s)
  \/ \E r \in Requests : Server(r) \/ outcome(r)
  \/ \E p \in Paths : ingest_recording(p) \/ purge_old_audio(p)
  \/ DrainWorker \/ retryAll \/ saveServer \/ Reinstall \/ Faults

Spec == Init /\ [][Next]_vars

(* The 15-minute sweep scans, WorkManager runs what is queued, a process    *)
(* that ends is started again, and the server handles what reaches it.      *)
(* Nothing is assumed of the owner, the dialer, Syncthing or the retention. *)
Fairness ==
  /\ \A f \in Files : WF_vars(scan(f))
  /\ \A s \in Hashes : WF_vars(Phone(s))
  /\ \A r \in Requests : WF_vars(Server(r)) /\ WF_vars(outcome(r))
  /\ \A p \in Paths : WF_vars(ingest_recording(p))
  /\ WF_vars(DrainWorker)

FairSpec == Spec /\ Fairness

-----------------------------------------------------------------------------
Stages == {"idle", "queued", "probe", "upload", "sent"}

(* Everything the modules keep stays in its range; a job waits for a       *)
(* request iff that request is wanted, and what has an owner was ingested  *)
TypeOK ==
  /\ file \in [Files -> [at : {"none", "phone", "deleted"}, v : 1..(MaxRewrites + 1),
                         size : 1..(MaxRewrites + 1)]]
  /\ \A s \in Hashes : /\ work[s].pc \in Stages
                       /\ work[s].n \in 0..(MAX_ATTEMPTS + world.faults)
                       /\ row[s] # NoRow => row[s].st \in RowStates
                       /\ (work[s].pc = "sent") <=>
                            (\E r \in Requests : waiting(r) /\ req[r].sha = s)
  /\ \A p \in Paths : owner[p] \in 0..Len(inter)
  /\ audio \subseteq Paths /\ unscheduled \subseteq Hashes
  /\ latch \in BOOLEAN /\ token \in Tokens

(* One conversation becomes one interaction.  Bytes that never change do   *)
(* so whatever fails, reinstalled and copied by Syncthing too; rewritten   *)
(* bytes do so when the call log names their call and only this app sends  *)
(* them, from one installation: then every upload of any of their versions *)
(* carries that call to the sweep, whatever the order in which versions    *)
(* are uploaded, staged and swept (call_recordings.find_ingested; "never   *)
(* audio without its metadata", api/main.py:776-779).                      *)
of(f) == {i \in DOMAIN inter : inter[i].sha[1] = f}
KnownByCall(f) == number[f].id # 0 /\ f \notin world.synced /\ device = 0 /\ faults = 0
ConversationOnce ==
  \A f \in Files : (file[f].v = 1 \/ KnownByCall(f)) => \A i, j \in of(f) : i = j

(* What the server answers for: audio on its disk, or its transcript *)
Held(f) == \/ \E p \in audio : p[2][1] = f
           \/ \E i \in DOMAIN inter : inter[i].sha[1] = f /\ inter[i].heard
LetGo(f) == \/ file[f].at = "deleted"
            \/ \E s \in Hashes : s[1] = f /\ row[s] # NoRow /\ row[s].st = "DONE"

(* The phone reports a recording done, or deletes it, only when the server *)
(* holds that conversation (call_recordings.py CALL_ID_AGREEMENT_MINUTES)  *)
LetGoMeansHeld == \A f \in Files : LetGo(f) => Held(f)

(* The whole path keeps custody of every conversation: nothing that was    *)
(* handed over is lost again, by retention, cleanup or a crash             *)
Handover == INSTANCE Custody WITH Conversations <- Files,
              held <- {f \in Files : Held(f)}, let_go <- {f \in Files : LetGo(f)}
KeepsCustody == Handover!Spec

(* Every recording the dialer finished and the app may read reaches the   *)
(* server or is shown to the owner as not sent: failed, refused, waiting   *)
(* for a server and a token, or skipped as too short.  None is forgotten   *)
(* in the queue, whatever was interrupted (RecordingRepository: "latency   *)
(* instead of data")                                                       *)
Shown(f) == \/ latch \/ token = "missing"
            \/ \E s \in Hashes : /\ s[1] = f /\ row[s] # NoRow
                                 /\ row[s].st \in {"FAILED_PERMANENT", "SKIPPED"}
EveryRecordingSettles ==
  \A f \in Files : file[f].at = "phone" /\ f \notin world.unreadable ~> Held(f) \/ Shown(f)
=============================================================================
