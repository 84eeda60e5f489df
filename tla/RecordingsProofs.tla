--------------------------- MODULE RecordingsProofs ---------------------------
(***************************************************************************)
(* Theorems about a call recording's way from the dialer's folder to one   *)
(* interaction, for every set of files, number of requests under way,      *)
(* attempts, rewrites, faults and reinstalls.                              *)
(***************************************************************************)
EXTENDS Recordings, TLAPS

-----------------------------------------------------------------------------
(* Types. *)

Versions == 1..(MaxRewrites + 1)
FileRecords == [at : {"none", "phone", "deleted"}, v : Versions, size : Nat]
Jobs == [pc : Stages, n : Nat]
Answers == {0, 200, 202, 401, 422, 500}
RequestRecords == [sha : Hashes, body : Hashes, call : Calls,
                   st : {"meta", "audio", "sidecar", "answered"}, code : Answers,
                   auth : BOOLEAN, wanted : BOOLEAN]
Interactions == [sha : Hashes, call : Calls, moment : Nat, heard : BOOLEAN]

(* A call id is the one of the file it travels with.                       *)
CallOf(call, f) == call # NoCall => number[f].id # 0 /\ call.id = number[f].id

FolderInv ==
  /\ world \in Worlds
  /\ rewrites \in 0..world.rewrites
  /\ file \in [Files -> FileRecords]
  /\ \A f \in Files : file[f].v <= 1 + rewrites

(* A job that runs has a row that is not done.                             *)
HasRow(s) == /\ row[s] \in RowRecords /\ row[s].st # "DONE"
             /\ CallOf(row[s].call, s[1])

RowInv ==
  /\ row \in [Hashes -> RowRecords \union {NoRow}]
  /\ work \in [Hashes -> Jobs]
  /\ unscheduled \subseteq Hashes
  /\ device \in Nat
  /\ \A s \in Hashes : row[s] # NoRow => CallOf(row[s].call, s[1])
  /\ \A s \in running : HasRow(s)

(* A job waits for one request at most, the one its answer is about.       *)
WaitInv ==
  /\ req \in [Requests -> RequestRecords \union {NoReq}]
  /\ \A r \in Requests : req[r] # NoReq => CallOf(req[r].call, req[r].sha[1])
  /\ \A r \in Requests : waiting(r) => work[req[r].sha].pc = "sent"
  /\ \A r, q \in Requests : waiting(r) /\ waiting(q) /\ req[r].sha = req[q].sha => r = q

(* A path belongs to the interaction of its own bytes or its own call, one *)
(* that was not heard yet keeps its audio.                                 *)
DiskInv ==
  /\ audio \subseteq Paths
  /\ side \in [Paths -> Calls \union {NoSide}]
  /\ inter \in Seq(Interactions)
  /\ owner \in [Paths -> Nat]
  /\ \A p \in Paths : side[p] # NoSide => CallOf(side[p], p[2][1])
  /\ \A p \in Paths : owner[p] # 0 => owner[p] \in DOMAIN inter
  /\ \A i \in DOMAIN inter : CallOf(inter[i].call, inter[i].sha[1])
  /\ \A i \in DOMAIN inter : inter[i].heard \/ \E p \in audio : owner[p] = i

Inv == FolderInv /\ RowInv /\ WaitInv /\ DiskInv

(* No two recordings are of the same row of the call log.                  *)
CallsAreTold ==
  \A w \in Worlds : \A f, g \in Files :
    w.number[f].id # 0 /\ w.number[f].id = w.number[g].id => f = g

(* A path belongs to an interaction of its own file, and a request is      *)
(* answered as taken only once the server holds the conversation.          *)
HeldInv ==
  /\ \A p \in Paths : owner[p] # 0 => inter[owner[p]].sha[1] = p[2][1]
  /\ \A r \in Requests : req[r] # NoReq /\ req[r].st = "answered" /\ req[r].code \in {200, 202}
                           => Held(req[r].sha[1])
  /\ LetGoMeansHeld

-----------------------------------------------------------------------------
(* Worlds, hashes and paths. *)

LEMMA WorldIs ==
  ASSUME FolderInv
  PROVE  /\ number \in [Files -> [id : Nat, moment : Nat]]
         /\ world.rewrites \in Nat /\ world.rewrites <= MaxRewrites /\ MaxRewrites \in Nat
         /\ rewrites \in Nat
<1>1. world \in Worlds /\ rewrites \in 0..world.rewrites /\ MaxRewrites \in Nat
  BY RecordingsAssumption DEF FolderInv
<1>2. world.number \in [Files -> [id : Nat, moment : Nat]] /\ world.rewrites \in 0..MaxRewrites
  BY <1>1, RecordingsAssumption
<1> QED
  BY <1>1, <1>2 DEF number

LEMMA HashIs ==
  /\ \A s \in Hashes : s[1] \in Files /\ s[2] \in Versions /\ s = <<s[1], s[2]>>
  /\ \A f \in Files, v \in Versions : <<f, v>> \in Hashes
  BY DEF Hashes, Versions

LEMMA PathIs ==
  /\ \A p \in Paths : p[2] \in Hashes
  /\ \A how \in {"up", "sync"}, s \in Hashes : <<how, s>> \in Paths /\ <<how, s>>[2] = s
  BY DEF Paths

LEMMA FileIs ==
  ASSUME FolderInv, NEW f \in Files
  PROVE  file[f] \in FileRecords /\ <<f, file[f].v>> \in Hashes
<1>1. file[f] \in FileRecords
  BY DEF FolderInv
<1>2. file[f].v \in Versions
  BY <1>1 DEF FileRecords
<1> QED
  BY <1>1, <1>2, HashIs

LEMMA InitInv == Init => Inv
<1> SUFFICES ASSUME Init PROVE Inv
  OBVIOUS
<1>1. /\ world \in Worlds /\ rewrites = 0 /\ unscheduled = {} /\ device = 0 /\ audio = {}
      /\ file = [f \in Files |-> [at |-> "none", v |-> 1, size |-> 1]]
      /\ row = [s \in Hashes |-> NoRow] /\ work = [s \in Hashes |-> idle]
      /\ req = [r \in Requests |-> NoReq] /\ side = [p \in Paths |-> NoSide]
      /\ owner = [p \in Paths |-> 0] /\ inter = <<>>
  BY DEF Init
<1>2. FolderInv
  <2>1. world.rewrites \in Nat /\ MaxRewrites \in Nat
    BY <1>1, RecordingsAssumption
  <2> QED
    BY <1>1, <2>1 DEF FolderInv, FileRecords, Versions
<1>3. RowInv
  <2>1. running = {}
    BY <1>1 DEF running, idle
  <2>2. idle \in Jobs
    BY DEF idle, Jobs, Stages
  <2> QED
    BY <1>1, <2>1, <2>2 DEF RowInv
<1>4. WaitInv
  BY <1>1 DEF WaitInv, waiting
<1>5. DiskInv
  BY <1>1 DEF DiskInv
<1> QED
  BY <1>2, <1>3, <1>4, <1>5 DEF Inv

-----------------------------------------------------------------------------
(* The dialer's folder. *)

FolderSteps ==
  \/ \E f \in Files : Finish(f) \/ Rewrite(f)
  \/ \E s \in Hashes : markDone(s) /\ UNCHANGED <<world, rewrites>>
  \/ UNCHANGED world_vars

LEMMA FolderKept ==
  ASSUME FolderInv, FolderSteps
  PROVE  FolderInv'
<1>a. /\ rewrites \in Nat /\ world.rewrites \in Nat /\ world.rewrites <= MaxRewrites
      /\ MaxRewrites \in Nat /\ file \in [Files -> FileRecords]
      /\ \A f \in Files : file[f].v <= 1 + rewrites
  BY WorldIs DEF FolderInv
<1>1. ASSUME NEW f \in Files, NEW at \in {"phone", "deleted"},
             file' = [file EXCEPT ![f].at = at], UNCHANGED <<world, rewrites>>
      PROVE  FolderInv'
  <2>1. file' \in [Files -> FileRecords] /\ \A g \in Files : file'[g].v = file[g].v
    BY <1>a, <1>1 DEF FileRecords
  <2> QED
    BY <1>1, <2>1 DEF FolderInv
<1>2. ASSUME NEW f \in Files, Rewrite(f)
      PROVE  FolderInv'
  <2>1. PICK longer \in {0, 1} :
          file' = [file EXCEPT ![f].v = file[f].v + 1, ![f].size = file[f].size + longer]
    BY <1>2 DEF Rewrite
  <2>2. /\ rewrites' = rewrites + 1 /\ rewrites < world.rewrites /\ UNCHANGED world
    BY <1>2 DEF Rewrite
  <2>3. file[f] \in FileRecords /\ file[f].v \in Nat /\ file[f].v <= 1 + rewrites
    BY <1>a DEF FileRecords, Versions
  <2> DEFINE new == [file[f] EXCEPT !.v = file[f].v + 1, !.size = file[f].size + longer]
  <2>4. file' = [file EXCEPT ![f] = new]
    <3>1. DOMAIN file' = Files /\ file' = [g \in Files |-> file'[g]]
      BY <1>a, <2>1
    <3>2. \A g \in Files : g # f => file'[g] = file[g]
      BY <1>a, <2>1
    <3>3. file'[f] = new
      BY <1>a, <2>1, <2>3 DEF FileRecords
    <3> HIDE DEF new
    <3> QED
      BY <1>a, <3>1, <3>2, <3>3
  <2>5. new \in FileRecords /\ new.v <= 1 + rewrites'
    <3>1. file[f].v + 1 \in Versions /\ file[f].v + 1 <= 1 + rewrites'
      BY <1>a, <2>2, <2>3 DEF Versions
    <3>2. file[f].size + longer \in Nat
      BY <2>3 DEF FileRecords
    <3> QED
      BY <2>3, <3>1, <3>2 DEF FileRecords
  <2> HIDE DEF new
  <2>6. \A g \in Files : file'[g].v <= 1 + rewrites'
    <3>1. \A g \in Files : file[g].v \in Nat
      BY <1>a DEF FileRecords, Versions
    <3> QED
      BY <1>a, <2>2, <2>4, <2>5, <3>1
  <2> QED
    BY <1>a, <2>2, <2>4, <2>5, <2>6 DEF FolderInv
<1>3. ASSUME NEW s \in Hashes, markDone(s), UNCHANGED <<world, rewrites>>
      PROVE  FolderInv'
  <2>1. file' = [file EXCEPT ![s[1]].at = "deleted"] \/ file' = file
    BY <1>3 DEF markDone
  <2>2. CASE file' = file
    BY <1>3, <2>2 DEF FolderInv
  <2> QED
    BY <1>1, <1>3, <2>1, <2>2, HashIs
<1>4. CASE UNCHANGED world_vars
  BY <1>4 DEF world_vars, FolderInv
<1>5. ASSUME NEW f \in Files, Finish(f)
      PROVE  FolderInv'
  BY <1>1, <1>5 DEF Finish
<1> QED
  BY <1>2, <1>3, <1>4, <1>5 DEF FolderSteps

-----------------------------------------------------------------------------
(* Rows and jobs. *)

Waits == {"idle", "queued"}

(* What a step leaves of hash s: a row with the call of its file, which is *)
(* there and not done while its job runs.                                  *)
Settled(s) ==
  /\ row'[s] \in RowRecords \union {NoRow} /\ work'[s] \in Jobs
  /\ row'[s] # NoRow => CallOf(row'[s].call, s[1])
  /\ \/ work'[s].pc \in Waits
     \/ /\ row'[s] \in RowRecords /\ row'[s].st # "DONE" /\ CallOf(row'[s].call, s[1])

LEMMA RowsSettled ==
  ASSUME RowInv, UNCHANGED world, unscheduled' \subseteq Hashes, device' \in Nat,
         row' = [s \in Hashes |-> row'[s]], work' = [s \in Hashes |-> work'[s]],
         \A s \in Hashes : Settled(s)
  PROVE  RowInv'
<1>1. row' \in [Hashes -> RowRecords \union {NoRow}] /\ work' \in [Hashes -> Jobs]
  BY DEF Settled
<1>2. \A s \in Hashes : (row[s] # NoRow => CallOf(row[s].call, s[1]))'
  BY DEF Settled, CallOf, number
<1>3. \A s \in running' : HasRow(s)'
  BY DEF Settled, CallOf, number, running, HasRow, Waits
<1> QED
  BY <1>1, <1>2, <1>3 DEF RowInv

LEMMA UntouchedSettled ==
  ASSUME RowInv, NEW s \in Hashes, row'[s] = row[s],
         work'[s] = work[s] \/ (work'[s] \in Jobs /\ work'[s].pc \in Waits)
  PROVE  Settled(s)
<1>1. row[s] \in RowRecords \union {NoRow} /\ work[s] \in Jobs
      /\ (row[s] # NoRow => CallOf(row[s].call, s[1]))
  BY DEF RowInv
<1>2. work[s].pc \in Waits \/ HasRow(s)
  BY DEF RowInv, running, Waits
<1> QED
  BY <1>1, <1>2 DEF Settled, HasRow

(* A step that touches one hash only.                                      *)
LEMMA OneSettled ==
  ASSUME RowInv, UNCHANGED world, unscheduled' \subseteq Hashes, UNCHANGED device,
         NEW s \in Hashes, NEW newrow, NEW newjob,
         row' = [row EXCEPT ![s] = newrow], work' = [work EXCEPT ![s] = newjob],
         newrow \in RowRecords \union {NoRow}, newjob \in Jobs,
         newrow # NoRow => CallOf(newrow.call, s[1]),
         newjob.pc \in Waits \/ (newrow \in RowRecords /\ newrow.st # "DONE"
                                 /\ CallOf(newrow.call, s[1]))
  PROVE  RowInv'
<1>1. row \in [Hashes -> RowRecords \union {NoRow}] /\ work \in [Hashes -> Jobs] /\ device \in Nat
  BY DEF RowInv
<1>2. /\ row' = [q \in Hashes |-> row'[q]] /\ work' = [q \in Hashes |-> work'[q]]
      /\ row'[s] = newrow /\ work'[s] = newjob
      /\ \A q \in Hashes : q # s => row'[q] = row[q] /\ work'[q] = work[q]
  BY <1>1
<1>3. Settled(s)
  BY <1>2 DEF Settled
<1>4. \A q \in Hashes : q # s => Settled(q)
  BY <1>2, UntouchedSettled
<1> QED
  BY <1>1, <1>2, <1>3, <1>4, RowsSettled

(* The same row in another state.                                          *)
LEMMA RowMarked ==
  ASSUME RowInv, NEW s \in Hashes, row[s] \in RowRecords, NEW st \in RowStates
  PROVE  /\ Marks(s, st) => row' = [row EXCEPT ![s] = [row[s] EXCEPT !.st = st]]
         /\ [row[s] EXCEPT !.st = st] \in RowRecords
         /\ [row[s] EXCEPT !.st = st].st = st
         /\ [row[s] EXCEPT !.st = st].call = row[s].call
         /\ \A f \in {"size", "stamp", "att", "hashRetried"} :
              [row[s] EXCEPT !.st = st][f] = row[s][f]
<1>1. row \in [Hashes -> RowRecords \union {NoRow}]
  BY DEF RowInv
<1>2. Marks(s, st) => row' = [row EXCEPT ![s] = [row[s] EXCEPT !.st = st]]
  BY <1>1 DEF Marks
<1> QED
  BY <1>2 DEF RowRecords

LEMMA JobIs ==
  ASSUME RowInv, NEW s \in Hashes
  PROVE  /\ work[s] \in Jobs /\ idle \in Jobs /\ idle.pc = "idle"
         /\ Ends(s) => work' = [work EXCEPT ![s] = idle]
         /\ \A pc \in Stages : /\ Goes(s, pc) => work' = [work EXCEPT ![s] = [work[s] EXCEPT !.pc = pc]]
                               /\ [work[s] EXCEPT !.pc = pc] \in Jobs
                               /\ [work[s] EXCEPT !.pc = pc].pc = pc
<1>1. work[s] \in Jobs /\ idle \in Jobs /\ idle.pc = "idle"
  BY DEF RowInv, Jobs, idle, Stages
<1>2. work \in [Hashes -> Jobs]
  BY DEF RowInv
<1>3. ASSUME NEW pc \in Stages
      PROVE  /\ Goes(s, pc) => work' = [work EXCEPT ![s] = [work[s] EXCEPT !.pc = pc]]
             /\ [work[s] EXCEPT !.pc = pc] \in Jobs
             /\ [work[s] EXCEPT !.pc = pc].pc = pc
  BY <1>1, <1>2 DEF Goes, Jobs
<1> QED
  BY <1>1, <1>3 DEF Ends

LEMMA RunningHasRow ==
  ASSUME RowInv, NEW s \in Hashes, work[s].pc \in {"probe", "upload", "sent"}
  PROVE  HasRow(s)
  BY DEF RowInv, running

(* markDone, and every other end of a run.                                 *)
LEMMA MarkedEnds ==
  ASSUME RowInv, UNCHANGED world, unscheduled' \subseteq Hashes, UNCHANGED device,
         NEW s \in Hashes, HasRow(s), NEW st \in RowStates, Marks(s, st), Ends(s)
  PROVE  RowInv'
<1> DEFINE newrow == [row[s] EXCEPT !.st = st]
<1>1. /\ row' = [row EXCEPT ![s] = newrow] /\ newrow \in RowRecords
      /\ newrow.call = row[s].call
  BY RowMarked DEF HasRow
<1>2. work' = [work EXCEPT ![s] = idle] /\ idle \in Jobs /\ idle.pc = "idle"
  BY JobIs
<1> HIDE DEF newrow
<1> QED
  BY <1>1, <1>2, OneSettled DEF HasRow, Waits

LEMMA MarkedGoes ==
  ASSUME RowInv, UNCHANGED world, unscheduled' \subseteq Hashes, UNCHANGED device,
         NEW s \in Hashes, HasRow(s), NEW st \in RowStates \ {"DONE"}, Marks(s, st),
         NEW pc \in Stages, Goes(s, pc)
  PROVE  RowInv'
<1> DEFINE newrow == [row[s] EXCEPT !.st = st]
           newjob == [work[s] EXCEPT !.pc = pc]
<1>1. /\ row' = [row EXCEPT ![s] = newrow] /\ newrow \in RowRecords
      /\ newrow.call = row[s].call /\ newrow.st = st
  BY RowMarked DEF HasRow
<1>2. work' = [work EXCEPT ![s] = newjob] /\ newjob \in Jobs
  BY JobIs
<1> HIDE DEF newrow, newjob
<1> QED
  BY <1>1, <1>2, OneSettled DEF HasRow

LEMMA UnmarkedGoes ==
  ASSUME RowInv, UNCHANGED <<world, row, device>>, unscheduled' \subseteq Hashes,
         NEW s \in Hashes, HasRow(s), NEW pc \in Stages, Goes(s, pc)
  PROVE  RowInv'
<1> DEFINE newjob == [work[s] EXCEPT !.pc = pc]
<1>1. work' = [work EXCEPT ![s] = newjob] /\ newjob \in Jobs
  BY JobIs
<1>2. row' = [row EXCEPT ![s] = row[s]]
  BY DEF RowInv
<1> HIDE DEF newjob
<1> QED
  BY <1>1, <1>2, OneSettled DEF HasRow

LEMMA ScanKeepsRows ==
  ASSUME FolderInv, RowInv, NEW f \in Files, scan(f)
  PROVE  RowInv'
<1> DEFINE s == <<f, file[f].v>>
<1>1. /\ s \in Hashes /\ s[1] = f /\ UNCHANGED <<world, work, device>>
      /\ \/ row' = [row EXCEPT ![s] = buildRow(f)]
         \/ row[s] # NoRow /\ row' = [row EXCEPT ![s].size = file[f].size, ![s].stamp = file[f].v]
      /\ unscheduled' = unscheduled \/ unscheduled' = unscheduled \union {s}
  BY FileIs DEF scan, world_vars
<1>2. /\ file[f].size \in Nat /\ file[f].v \in Nat /\ number[f] \in [id : Nat, moment : Nat]
      /\ device \in Nat /\ unscheduled \subseteq Hashes
      /\ row \in [Hashes -> RowRecords \union {NoRow}]
      /\ work \in [Hashes -> Jobs]
  <2>1. file[f] \in FileRecords
    BY FileIs
  <2>2. number[f] \in [id : Nat, moment : Nat]
    BY WorldIs
  <2>3. file[f].v \in Nat /\ file[f].size \in Nat
    BY <2>1, WorldIs DEF FileRecords, Versions
  <2> QED
    BY <2>2, <2>3 DEF RowInv
<1> HIDE DEF s
<1>3. work' = [work EXCEPT ![s] = work[s]] /\ work[s] \in Jobs
      /\ (work[s].pc \in Waits \/ HasRow(s)) /\ unscheduled' \subseteq Hashes
  BY <1>1, <1>2 DEF RowInv, running, Waits
<1>4. CASE row' = [row EXCEPT ![s] = buildRow(f)]
  <2> DEFINE new == buildRow(f)
  <2>1. new \in RowRecords /\ new.st # "DONE" /\ CallOf(new.call, f)
    <3> DEFINE st == IF f \in world.short THEN "SKIPPED" ELSE "PENDING"
               call == IF number[f].id = 0 THEN NoCall
                       ELSE [device |-> device, id |-> number[f].id]
    <3>1. st \in RowStates \ {"DONE"}
      BY DEF RowStates
    <3>2. call \in Calls /\ CallOf(call, f)
      BY <1>2 DEF Calls, CallIds, CallOf
    <3>3. new = [st |-> st, size |-> file[f].size, stamp |-> file[f].v, att |-> 0,
                 hashRetried |-> FALSE, call |-> call]
      BY DEF buildRow
    <3> HIDE DEF new, st, call
    <3>4. new \in RowRecords /\ new.st = st /\ new.call = call
      BY <1>2, <3>1, <3>2, <3>3 DEF RowRecords
    <3> QED
      BY <3>1, <3>2, <3>4
  <2>2. row' = [row EXCEPT ![s] = new]
    BY <1>4
  <2> HIDE DEF new
  <2> QED
    BY <1>1, <1>3, <2>1, <2>2, OneSettled
<1>5. CASE row[s] # NoRow /\ row' = [row EXCEPT ![s].size = file[f].size, ![s].stamp = file[f].v]
  <2> DEFINE size == file[f].size
             stamp == file[f].v
             new == [row[s] EXCEPT !.size = size, !.stamp = stamp]
  <2>1. row[s] \in RowRecords /\ CallOf(row[s].call, s[1])
    BY <1>1, <1>2, <1>5 DEF RowInv
  <2>2. size \in Nat /\ stamp \in Nat
    BY <1>2
  <2> HIDE DEF size, stamp
  <2>3. row' = [row EXCEPT ![s] = new]
    <3>1. row' = [row EXCEPT ![s].size = size, ![s].stamp = stamp]
      BY <1>5 DEF size, stamp
    <3>2. row' = [q \in Hashes |-> row'[q]] /\ \A q \in Hashes : q # s => row'[q] = row[q]
      BY <1>2, <3>1
    <3>3. row'[s] = new
      BY <1>1, <1>2, <2>1, <3>1 DEF RowRecords
    <3> HIDE DEF new
    <3> QED
      BY <1>1, <1>2, <3>2, <3>3
  <2>4. new \in RowRecords /\ new.call = row[s].call /\ new.st = row[s].st
    BY <2>1, <2>2 DEF RowRecords
  <2> HIDE DEF new
  <2> QED
    BY <1>1, <1>3, <2>1, <2>3, <2>4, OneSettled DEF HasRow
<1> QED
  BY <1>1, <1>4, <1>5

LEMMA EnqueuedSettled ==
  ASSUME RowInv, NEW S, work' = enqueueUniqueWork(work, S)
  PROVE  /\ work' = [s \in Hashes |-> work'[s]]
         /\ \A s \in Hashes : \/ work'[s] = work[s]
                              \/ /\ work[s].pc = "idle" /\ work'[s] \in Jobs
                                 /\ work'[s].pc \in Waits
  BY DEF enqueueUniqueWork, Jobs, Stages, Waits

LEMMA QueueKeepsRows ==
  ASSUME RowInv, DrainWorker \/ \E s \in Hashes : scheduleUpload(s)
  PROVE  RowInv'
<1>1. /\ UNCHANGED <<world, row, device>> /\ unscheduled' \subseteq Hashes
      /\ \E S : work' = enqueueUniqueWork(work, S)
  BY DEF DrainWorker, scheduleUpload, world_vars, RowInv
<1>2. work' = [s \in Hashes |-> work'[s]] /\ \A s \in Hashes : Settled(s)
  BY <1>1, EnqueuedSettled, UntouchedSettled
<1>3. row' = [s \in Hashes |-> row'[s]] /\ device' \in Nat
  BY <1>1 DEF RowInv
<1> QED
  BY <1>1, <1>2, <1>3, RowsSettled

LEMMA RequeueKeepsRows ==
  ASSUME RowInv, retryAll \/ saveServer
  PROVE  RowInv'
<1>1. /\ UNCHANGED <<world, device, unscheduled>>
      /\ row' = [s \in Hashes |->
                   IF s \in in_state({"FAILED_PERMANENT", "FAILED_PRECONDITION", "UPLOADING"})
                   THEN [row[s] EXCEPT !.st = "PENDING"] ELSE row[s]]
      /\ \E S : work' = enqueueUniqueWork(work, S)
  BY DEF retryAll, saveServer, requeueAllFailed, world_vars
<1>2. ASSUME NEW s \in Hashes PROVE Settled(s)
  <2>1. CASE row'[s] = row[s]
    BY <1>1, <2>1, EnqueuedSettled, UntouchedSettled
  <2>2. CASE s \in in_state({"FAILED_PERMANENT", "FAILED_PRECONDITION", "UPLOADING"})
             /\ row'[s] = [row[s] EXCEPT !.st = "PENDING"]
    <3>1. row[s] \in RowRecords /\ CallOf(row[s].call, s[1])
      BY <2>2 DEF in_state, RowInv
    <3>2. "PENDING" \in RowStates
      BY DEF RowStates
    <3>3. row'[s] \in RowRecords /\ row'[s].st = "PENDING" /\ row'[s].call = row[s].call
      BY <2>2, <3>1, <3>2, RowMarked
    <3>4. work'[s] \in Jobs
      BY <1>1, EnqueuedSettled, JobIs
    <3> QED
      BY <3>1, <3>3, <3>4 DEF Settled
  <2> QED
    BY <1>1, <2>1, <2>2
<1>3. /\ row' = [s \in Hashes |-> row'[s]] /\ work' = [s \in Hashes |-> work'[s]]
      /\ device' \in Nat /\ unscheduled' \subseteq Hashes
  BY <1>1, EnqueuedSettled DEF RowInv
<1> QED
  BY <1>1, <1>2, <1>3, RowsSettled

LEMMA PurgeKeepsRows ==
  ASSUME RowInv, NEW s \in Hashes, purgeOldDone(s)
  PROVE  RowInv'
<1>1. /\ row[s].st = "DONE" /\ row' = [row EXCEPT ![s] = NoRow]
      /\ UNCHANGED <<world, work, unscheduled, device>>
  BY DEF purgeOldDone, in_state, world_vars
<1>2. work' = [work EXCEPT ![s] = work[s]] /\ work[s] \in Jobs /\ work[s].pc \in Waits
      /\ unscheduled' \subseteq Hashes
  BY <1>1 DEF RowInv, running, HasRow, Waits
<1> QED
  BY <1>1, <1>2, OneSettled

LEMMA DoWorkKeepsRows ==
  ASSUME RowInv, NEW s \in Hashes, doWork(s)
  PROVE  RowInv'
<1>1. UNCHANGED <<world, unscheduled, device>> /\ unscheduled' \subseteq Hashes
      /\ work[s].n \in Nat
  BY JobIs DEF doWork, world_vars, RowInv, Jobs
<1>2. CASE Ends(s) /\ UNCHANGED row
  <2>1. /\ work' = [work EXCEPT ![s] = idle] /\ idle \in Jobs /\ idle.pc \in Waits
        /\ row' = [row EXCEPT ![s] = row[s]] /\ row[s] \in RowRecords \union {NoRow}
        /\ (row[s] # NoRow => CallOf(row[s].call, s[1]))
    BY <1>2, JobIs DEF RowInv, Waits
  <2> QED
    BY <1>1, <2>1, OneSettled
<1>3. ASSUME to_upload(s)
      PROVE  HasRow(s)
  BY <1>3 DEF to_upload, in_state, RowInv, HasRow
<1>4. CASE to_upload(s) /\ Marks(s, "FAILED_PRECONDITION") /\ Ends(s)
  BY <1>1, <1>3, <1>4, MarkedEnds DEF RowStates
<1>5. CASE /\ to_upload(s)
           /\ row' = [row EXCEPT ![s].st = "UPLOADING", ![s].att = work[s].n + 1]
           /\ work' = [work EXCEPT ![s] = [pc |-> "probe", n |-> work[s].n + 1]]
  <2> DEFINE n == work[s].n + 1
             new == [row[s] EXCEPT !.st = "UPLOADING", !.att = n]
             newjob == [pc |-> "probe", n |-> n]
  <2>1. n \in Nat /\ HasRow(s) /\ row \in [Hashes -> RowRecords \union {NoRow}]
    BY <1>1, <1>3, <1>5 DEF RowInv
  <2>2. newjob \in Jobs
    BY <2>1 DEF Jobs, Stages
  <2> HIDE DEF n
  <2>3. row' = [row EXCEPT ![s] = new]
    <3>1. row' = [row EXCEPT ![s].st = "UPLOADING", ![s].att = n]
      BY <1>5 DEF n
    <3>2. row' = [q \in Hashes |-> row'[q]] /\ \A q \in Hashes : q # s => row'[q] = row[q]
      BY <2>1, <3>1
    <3>3. row'[s] = new
      BY <2>1, <3>1 DEF RowRecords, HasRow
    <3> HIDE DEF new
    <3> QED
      BY <2>1, <3>2, <3>3
  <2>4. new \in RowRecords /\ new.call = row[s].call /\ new.st = "UPLOADING"
    BY <2>1 DEF RowRecords, HasRow, RowStates
  <2>5. work' = [work EXCEPT ![s] = newjob]
    BY <1>5 DEF n
  <2> HIDE DEF new, newjob
  <2> QED
    BY <1>1, <2>1, <2>2, <2>3, <2>4, <2>5, OneSettled DEF HasRow
<1> QED
  BY <1>2, <1>4, <1>5 DEF doWork

LEMMA ProbeKeepsRows ==
  ASSUME RowInv, NEW s \in Hashes, probe(s)
  PROVE  RowInv'
<1>1. UNCHANGED <<world, unscheduled, device>> /\ unscheduled' \subseteq Hashes
  BY DEF probe, RowInv
<1>2. HasRow(s)
  BY RunningHasRow DEF probe
<1>3. CASE markDone(s)
  BY <1>1, <1>2, <1>3, MarkedEnds DEF markDone, RowStates
<1>4. CASE Goes(s, "upload") /\ UNCHANGED row
  BY <1>1, <1>2, <1>4, UnmarkedGoes DEF Stages
<1> QED
  BY <1>3, <1>4 DEF probe

(* The queue goes on with what has failed: the rows had not been done.     *)
LEMMA RetryKeepsRows ==
  ASSUME RowInv, UNCHANGED <<world, device>>, unscheduled' \subseteq Hashes,
         NEW S, \A s \in S : s \in Hashes /\ HasRow(s), Retry(S)
  PROVE  RowInv'
<1>1. row' = [s \in Hashes |-> row'[s]] /\ work' = [s \in Hashes |-> work'[s]]
  BY DEF Retry
<1>2. ASSUME NEW s \in Hashes, s \notin S
      PROVE  Settled(s)
  <2>1. row'[s] = row[s] /\ work'[s] = work[s]
    BY <1>2 DEF Retry
  <2> QED
    BY <2>1, UntouchedSettled
<1>3. ASSUME NEW s \in Hashes, s \in S
      PROVE  Settled(s)
  <2>1. PICK st \in {"FAILED_PERMANENT", "PENDING"} : row'[s] = [row[s] EXCEPT !.st = st]
    BY <1>3 DEF Retry
  <2>2. row[s] \in RowRecords /\ CallOf(row[s].call, s[1]) /\ st \in RowStates /\ st # "DONE"
    BY <1>3 DEF HasRow, RowStates
  <2>3. row'[s] \in RowRecords /\ row'[s].st = st /\ row'[s].call = row[s].call
    BY <2>1, <2>2, RowMarked
  <2>4. work'[s] = idle \/ work'[s] = [work[s] EXCEPT !.pc = "queued"]
    BY <1>3 DEF Retry
  <2>5. work'[s] \in Jobs
    <3>1. "queued" \in Stages
      BY DEF Stages
    <3> QED
      BY <2>4, <3>1, JobIs
  <2> QED
    BY <2>2, <2>3, <2>5 DEF Settled
<1>4. device' \in Nat
  BY DEF RowInv
<1> QED
  BY <1>1, <1>2, <1>3, <1>4, RowsSettled

LEMMA UploadKeepsRows ==
  ASSUME RowInv, NEW s \in Hashes, upload(s)
  PROVE  RowInv'
<1>1. UNCHANGED <<world, unscheduled, device>> /\ unscheduled' \subseteq Hashes
  BY DEF upload, world_vars, RowInv
<1>2. HasRow(s)
  BY RunningHasRow DEF upload
<1>3. CASE Retry({s})
  BY <1>1, <1>2, <1>3, RetryKeepsRows
<1>4. CASE Marks(s, "FAILED_PERMANENT") /\ Ends(s)
  BY <1>1, <1>2, <1>4, MarkedEnds DEF RowStates
<1>5. CASE Goes(s, "sent") /\ UNCHANGED row
  BY <1>1, <1>2, <1>5, UnmarkedGoes DEF Stages
<1> QED
  BY <1>3, <1>4, <1>5 DEF upload

(* Rows and device stay, and every job stays or is interrupted.            *)
LEMMA StoppedKeepsRows ==
  ASSUME RowInv, UNCHANGED <<world, row, device>>, unscheduled' \subseteq Hashes,
         work' = work \/ work' = [s \in Hashes |-> IF s \in running
                                                   THEN [work[s] EXCEPT !.pc = "queued"]
                                                   ELSE work[s]]
  PROVE  RowInv'
<1>1. /\ row' = [s \in Hashes |-> row'[s]] /\ work' = [s \in Hashes |-> work'[s]]
      /\ device' \in Nat
  BY DEF RowInv
<1>2. ASSUME NEW s \in Hashes
      PROVE  work'[s] = work[s] \/ (work'[s] \in Jobs /\ work'[s].pc \in Waits)
  <2>1. "queued" \in Stages /\ "queued" \in Waits
    BY DEF Stages, Waits
  <2>2. work'[s] = work[s] \/ work'[s] = [work[s] EXCEPT !.pc = "queued"]
    OBVIOUS
  <2> DEFINE stopped == [work[s] EXCEPT !.pc = "queued"]
  <2>3. stopped \in Jobs /\ stopped.pc = "queued"
    BY <2>1, JobIs
  <2> HIDE DEF stopped
  <2>4. work'[s] = work[s] \/ work'[s] = stopped
    BY <2>2 DEF stopped
  <2> QED
    BY <2>1, <2>3, <2>4
<1>3. \A s \in Hashes : Settled(s)
  BY <1>2, UntouchedSettled
<1> QED
  BY <1>1, <1>3, RowsSettled

LEMMA ReinstallKeepsRows ==
  ASSUME RowInv, Reinstall
  PROVE  RowInv'
<1>1. /\ row' = [s \in Hashes |-> NoRow] /\ work' = [s \in Hashes |-> idle]
      /\ unscheduled' = {} /\ device' = device + 1 /\ UNCHANGED world /\ device \in Nat
  BY DEF Reinstall, world_vars, RowInv
<1>2. idle \in Jobs /\ idle.pc = "idle"
  BY DEF idle, Jobs, Stages
<1>3. \A s \in Hashes : Settled(s)
  BY <1>1, <1>2 DEF Settled, Waits
<1> QED
  BY <1>1, <1>3, RowsSettled

(* An answer is about a job that waits for it, and so has its row.         *)
LEMMA OutcomeKeepsRows ==
  ASSUME FolderInv, RowInv, WaitInv, NEW r \in Requests, outcome(r)
  PROVE  RowInv'
<1> DEFINE s == req[r].sha
           f == s[1]
           fresh == <<f, file[f].v>>
<1>1. s \in Hashes /\ HasRow(s) /\ UNCHANGED <<world, device>>
  <2>1. req[r] \in RequestRecords /\ waiting(r)
    BY DEF WaitInv, outcome, waiting
  <2>2. s \in Hashes /\ work[s].pc = "sent"
    BY <2>1 DEF WaitInv, RequestRecords
  <2> QED
    BY <2>2, RunningHasRow DEF outcome
<1>2. fresh \in Hashes /\ file[f].size \in Nat /\ fresh[1] = f
  <2>1. f \in Files
    BY <1>1, HashIs
  <2>2. file[f] \in FileRecords /\ fresh \in Hashes
    BY <2>1, FileIs
  <2> QED
    BY <2>2 DEF FileRecords
<1>3. unscheduled' \subseteq Hashes
  BY <1>2 DEF outcome, RowInv
<1>4. ASSUME NEW st \in RowStates, Marks(s, st), Ends(s)
      PROVE  RowInv'
  <2> HIDE DEF s, fresh
  <2> QED
    BY <1>1, <1>3, <1>4, MarkedEnds
<1>5. CASE markDone(s)
  BY <1>4, <1>5 DEF markDone, RowStates
<1>6. CASE Retry({s})
  <2> HIDE DEF s
  <2> QED
    BY <1>1, <1>3, <1>6, RetryKeepsRows
<1>7. CASE Marks(s, "PENDING") /\ Goes(s, "queued")
  <2>1. "PENDING" \in RowStates \ {"DONE"} /\ "queued" \in Stages
    BY DEF RowStates, Stages
  <2> HIDE DEF s
  <2> QED
    BY <1>1, <1>3, <1>7, <2>1, MarkedGoes
<1>8. CASE /\ Ends(s) /\ fresh # s
           /\ LET replacement == [row[s] EXCEPT !.st = "PENDING", !.att = @ + 1,
                                                !.hashRetried = TRUE, !.size = file[f].size] IN
                row' = [row EXCEPT ![s] = NoRow,
                                   ![fresh] = IF @ = NoRow THEN replacement ELSE @]
  <2> DEFINE size == file[f].size
             att == row[s].att + 1
             new == [row[s] EXCEPT !.st = "PENDING", !.att = att, !.hashRetried = TRUE,
                                   !.size = size]
  <2>1. size \in Nat /\ att \in Nat /\ row[s] \in RowRecords /\ CallOf(row[s].call, s[1])
    BY <1>1, <1>2 DEF HasRow, RowRecords
  <2>2. new \in RowRecords /\ new.call = row[s].call
    <3> HIDE DEF size, att, s
    <3> QED
      BY <2>1 DEF RowRecords, RowStates
  <2>3. row' = [row EXCEPT ![s] = NoRow, ![fresh] = IF @ = NoRow THEN new ELSE @]
    <3>1. [row[s] EXCEPT !.st = "PENDING", !.att = @ + 1, !.hashRetried = TRUE,
                         !.size = file[f].size] = new
      BY <2>1 DEF RowRecords
    <3> HIDE DEF new, s, f, fresh
    <3> QED
      BY <1>8, <3>1
  <2> HIDE DEF new, s, f, fresh, size, att
  <2>4. /\ row \in [Hashes -> RowRecords \union {NoRow}] /\ device \in Nat
        /\ work \in [Hashes -> Jobs]
        /\ work' = [work EXCEPT ![s] = idle] /\ idle \in Jobs /\ idle.pc = "idle"
    BY <1>1, <1>8, JobIs DEF RowInv
  <2>5. /\ row' = [q \in Hashes |-> row'[q]] /\ work' = [q \in Hashes |-> work'[q]]
        /\ row'[s] = NoRow /\ row'[fresh] = (IF row[fresh] = NoRow THEN new ELSE row[fresh])
        /\ \A q \in Hashes : q # s /\ q # fresh => row'[q] = row[q]
        /\ \A q \in Hashes : q # s => work'[q] = work[q]
        /\ work'[s] = idle
    BY <1>1, <1>2, <1>8, <2>3, <2>4
  <2>6. Settled(s)
    BY <2>4, <2>5 DEF Settled, Waits
  <2>7. ASSUME NEW q \in Hashes, q # s
        PROVE  Settled(q)
    <3>1. CASE q # fresh \/ row[fresh] # NoRow
      BY <2>5, <2>7, <3>1, UntouchedSettled
    <3>2. CASE q = fresh /\ row[fresh] = NoRow
      <4>1. row'[q] = new /\ work'[q] = work[q]
        BY <2>5, <2>7, <3>2
      <4>2. CallOf(new.call, q[1])
        BY <1>2, <2>1, <2>2, <3>2 DEF f
      <4>3. new.st = "PENDING"
        BY <2>1 DEF new, RowRecords
      <4>4. work[q] \in Jobs
        BY <2>4
      <4> QED
        BY <2>2, <4>1, <4>2, <4>3, <4>4 DEF Settled
    <3> QED
      BY <3>1, <3>2
  <2> QED
    BY <1>1, <1>3, <2>4, <2>5, <2>6, <2>7, RowsSettled
<1>9. \/ markDone(s)
      \/ Retry({s})
      \/ (Marks(s, "PENDING") /\ Goes(s, "queued"))
      \/ \E st \in RowStates : Marks(s, st) /\ Ends(s)
      \/ /\ Ends(s) /\ fresh # s
         /\ LET replacement == [row[s] EXCEPT !.st = "PENDING", !.att = @ + 1,
                                              !.hashRetried = TRUE, !.size = file[f].size] IN
              row' = [row EXCEPT ![s] = NoRow,
                                 ![fresh] = IF @ = NoRow THEN replacement ELSE @]
  BY DEF outcome, RowStates
<1> QED
  BY <1>4, <1>5, <1>6, <1>7, <1>8, <1>9

LEMMA RowKept ==
  ASSUME Inv, [Next]_vars
  PROVE  RowInv'
<1> USE DEF Inv
<1>1. ASSUME UNCHANGED <<world, phone_vars>>
      PROVE  RowInv'
  <2>1. UNCHANGED <<world, row, device, work>> /\ unscheduled' \subseteq Hashes
    BY <1>1 DEF phone_vars, RowInv
  <2> QED
    BY <2>1, StoppedKeepsRows
<1>2. ASSUME NEW f \in Files, Outside(f)
      PROVE  RowInv'
  BY <1>1, <1>2 DEF Outside, Finish, Rewrite, Syncthing, world_vars
<1>3. ASSUME NEW s \in Hashes, Phone(s) \/ purgeOldDone(s)
      PROVE  RowInv'
  BY <1>3, QueueKeepsRows, DoWorkKeepsRows, ProbeKeepsRows, UploadKeepsRows, PurgeKeepsRows
     DEF Phone
<1>4. ASSUME NEW r \in Requests, Server(r)
      PROVE  RowInv'
  BY <1>1, <1>4 DEF Server, upload_recording, publish_sidecar, publish_audio, disconnected,
                    world_vars
<1>5. ASSUME NEW p \in Paths, ingest_recording(p) \/ purge_old_audio(p)
      PROVE  RowInv'
  BY <1>1, <1>5 DEF ingest_recording, purge_old_audio, world_vars
<1>6. ASSUME NEW r \in Requests, ConnectionLost(r)
      PROVE  RowInv'
  <2>1. /\ UNCHANGED <<world, device>> /\ unscheduled' \subseteq Hashes
        /\ Retry({req[r].sha}) /\ waiting(r)
    BY <1>6 DEF ConnectionLost, world_vars, RowInv
  <2>2. req[r].sha \in Hashes /\ work[req[r].sha].pc = "sent"
    BY <2>1 DEF WaitInv, waiting, RequestRecords
  <2>3. \A s \in {req[r].sha} : s \in Hashes /\ HasRow(s)
    BY <2>2, RunningHasRow
  <2> QED
    BY <2>1, <2>3, RetryKeepsRows
<1>7. ASSUME ServerDies
      PROVE  RowInv'
  <2> DEFINE S == {req[r].sha : r \in {q \in Requests : waiting(q)}}
  <2>1. UNCHANGED <<world, device>> /\ unscheduled' \subseteq Hashes /\ Retry(S)
    BY <1>7 DEF ServerDies, world_vars, RowInv
  <2>2. \A s \in S : s \in Hashes /\ work[s].pc = "sent"
    BY DEF WaitInv, waiting, RequestRecords
  <2>3. \A s \in S : s \in Hashes /\ HasRow(s)
    BY <2>2, RunningHasRow
  <2> HIDE DEF S
  <2> QED
    BY <2>1, <2>3, RetryKeepsRows
<1>8. ASSUME ScanStops
      PROVE  RowInv'
  BY <1>8, StoppedKeepsRows DEF ScanStops, world_vars
<1>9. ASSUME PhoneDies
      PROVE  RowInv'
  BY <1>9, StoppedKeepsRows DEF PhoneDies, world_vars
<1>10. CASE UNCHANGED vars
  BY <1>1, <1>10 DEF vars, world_vars
<1>11. ASSUME NEW f \in Files, scan(f)
       PROVE  RowInv'
  BY <1>11, ScanKeepsRows
<1>12. ASSUME NEW r \in Requests, outcome(r)
       PROVE  RowInv'
  BY <1>12, OutcomeKeepsRows
<1>13. CASE DrainWorker \/ retryAll \/ saveServer \/ Reinstall
  BY <1>13, QueueKeepsRows, RequeueKeepsRows, ReinstallKeepsRows
<1> QED
  BY <1>2, <1>3, <1>4, <1>5, <1>6, <1>7, <1>8, <1>9, <1>10, <1>11, <1>12, <1>13
     DEF Next, Faults

-----------------------------------------------------------------------------
(* Requests. *)

(* What a step leaves of request r is of the same recording, and wanted    *)
(* only if it was.                                                         *)
SameRequest(r) ==
  \/ req'[r] = NoReq
  \/ /\ req[r] # NoReq /\ req'[r] \in RequestRecords
     /\ req'[r].sha = req[r].sha /\ req'[r].call = req[r].call
     /\ req'[r].wanted => req[r].wanted

LEMMA WaitKept ==
  ASSUME WaitInv, UNCHANGED world, req' = [r \in Requests |-> req'[r]],
         \A r \in Requests : SameRequest(r),
         \A r \in Requests : waiting(r) /\ req'[r] # NoReq /\ req'[r].wanted
                               => work'[req[r].sha].pc = "sent"
  PROVE  WaitInv'
<1>1. req' \in [Requests -> RequestRecords \union {NoReq}]
  BY DEF SameRequest
<1>2. \A r \in Requests : (req[r] # NoReq => CallOf(req[r].call, req[r].sha[1]))'
  BY DEF SameRequest, WaitInv, CallOf, number
<1>3. \A r \in Requests : waiting(r)' => waiting(r) /\ req'[r].sha = req[r].sha
  BY DEF SameRequest, waiting
<1>4. \A r \in Requests : waiting(r)' => work'[req'[r].sha].pc = "sent"
  BY <1>3 DEF waiting
<1>5. \A r, q \in Requests : waiting(r)' /\ waiting(q)' /\ req'[r].sha = req'[q].sha => r = q
  BY <1>3 DEF WaitInv
<1> QED
  BY <1>1, <1>2, <1>4, <1>5 DEF WaitInv

LEMMA RequestIs ==
  ASSUME WaitInv, NEW r \in Requests, req[r] # NoReq
  PROVE  req[r] \in RequestRecords /\ req[r].sha \in Hashes
BY DEF WaitInv, RequestRecords

LEMMA ReqsUnchanged ==
  ASSUME WaitInv, UNCHANGED <<world, req>>,
         \A s \in Hashes : work[s].pc = "sent" => work'[s].pc = "sent"
  PROVE  WaitInv'
<1>1. \A r \in Requests : SameRequest(r)
  BY RequestIs DEF SameRequest
<1>2. req' = [r \in Requests |-> req'[r]]
  BY DEF WaitInv
<1>3. \A r \in Requests : waiting(r) => work'[req[r].sha].pc = "sent"
  BY RequestIs DEF WaitInv, waiting
<1> QED
  BY <1>1, <1>2, <1>3, WaitKept

(* One step of the server at request r.                                    *)
LEMMA AnsweredIs ==
  ASSUME WaitInv, NEW r \in Requests, req[r] # NoReq, NEW code \in Answers
  PROVE  \/ answered(r, code) = NoReq
         \/ /\ answered(r, code) \in RequestRecords
            /\ answered(r, code).sha = req[r].sha
            /\ answered(r, code).call = req[r].call
            /\ answered(r, code).wanted = req[r].wanted
            /\ answered(r, code).st = "answered" /\ answered(r, code).code = code
<1>1. req[r] \in RequestRecords
  BY RequestIs
<1> QED
  BY <1>1 DEF answered, RequestRecords

LEMMA ServerSteps ==
  ASSUME WaitInv, NEW r \in Requests, Server(r)
  PROVE  /\ req[r] # NoReq /\ req[r].st # "answered"
         /\ \E new \in RequestRecords \union {NoReq} :
              /\ req' = [req EXCEPT ![r] = new]
              /\ \/ new = NoReq
                 \/ /\ new \in RequestRecords
                    /\ new.sha = req[r].sha /\ new.call = req[r].call
                    /\ new.wanted = req[r].wanted
<1>1. req[r] # NoReq /\ req[r].st # "answered"
  BY DEF Server, upload_recording, publish_sidecar, publish_audio, disconnected
<1>2. req[r] \in RequestRecords
  BY <1>1, RequestIs
<1>3. ASSUME NEW code \in Answers, req' = [req EXCEPT ![r] = answered(r, code)]
      PROVE  \E new \in RequestRecords \union {NoReq} :
               /\ req' = [req EXCEPT ![r] = new]
               /\ \/ new = NoReq
                  \/ /\ new \in RequestRecords
                     /\ new.sha = req[r].sha /\ new.call = req[r].call
                     /\ new.wanted = req[r].wanted
  <2> DEFINE new == answered(r, code)
  <2>1. \/ new = NoReq
        \/ /\ new \in RequestRecords
           /\ new.sha = req[r].sha /\ new.call = req[r].call /\ new.wanted = req[r].wanted
    BY <1>1, AnsweredIs
  <2>2. req' = [req EXCEPT ![r] = new]
    BY <1>3
  <2> HIDE DEF new
  <2> QED
    BY <2>1, <2>2
<1>4. ASSUME NEW st \in {"audio", "sidecar"}, req' = [req EXCEPT ![r] = [req[r] EXCEPT !.st = st]]
      PROVE  \E new \in RequestRecords \union {NoReq} :
               /\ req' = [req EXCEPT ![r] = new]
               /\ \/ new = NoReq
                  \/ /\ new \in RequestRecords
                     /\ new.sha = req[r].sha /\ new.call = req[r].call
                     /\ new.wanted = req[r].wanted
  <2> DEFINE new == [req[r] EXCEPT !.st = st]
  <2>1. /\ new \in RequestRecords
        /\ new.sha = req[r].sha /\ new.call = req[r].call /\ new.wanted = req[r].wanted
    BY <1>2 DEF RequestRecords
  <2>2. req' = [req EXCEPT ![r] = new]
    BY <1>4
  <2> HIDE DEF new
  <2> QED
    BY <2>1, <2>2
<1>5. CASE upload_recording(r)
  <2>1. \/ req' = [req EXCEPT ![r] = answered(r, 401)]
        \/ req' = [req EXCEPT ![r] = answered(r, 200)]
        \/ req' = [req EXCEPT ![r] = [req[r] EXCEPT !.st = "audio"]]
    BY <1>5 DEF upload_recording, WaitInv
  <2> QED
    BY <1>1, <1>3, <1>4, <2>1 DEF Answers
<1>6. CASE publish_sidecar(r)
  <2>1. \/ req' = [req EXCEPT ![r] = answered(r, 422)]
        \/ req' = [req EXCEPT ![r] = [req[r] EXCEPT !.st = "sidecar"]]
    BY <1>6 DEF publish_sidecar, WaitInv
  <2> QED
    BY <1>1, <1>3, <1>4, <2>1 DEF Answers
<1>7. CASE publish_audio(r)
  <2>1. \/ req' = [req EXCEPT ![r] = answered(r, 202)]
        \/ req' = [req EXCEPT ![r] = answered(r, 500)]
    BY <1>7 DEF publish_audio
  <2> QED
    BY <1>1, <1>3, <2>1 DEF Answers
<1>8. CASE disconnected(r)
  <2>1. req' = [req EXCEPT ![r] = NoReq]
    BY <1>8 DEF disconnected
  <2> QED
    BY <1>1, <2>1
<1> QED
  BY <1>5, <1>6, <1>7, <1>8 DEF Server

(* No other job stops waiting.                                             *)
LEMMA JobChanged ==
  ASSUME RowInv, NEW s \in Hashes
  PROVE  /\ Ends(s) => \A q \in Hashes : q # s => work'[q] = work[q]
         /\ \A pc : Goes(s, pc) => \A q \in Hashes : q # s => work'[q] = work[q]
BY DEF RowInv, Ends, Goes

LEMMA UploadKeepsWaits ==
  ASSUME FolderInv, RowInv, WaitInv, NEW s \in Hashes, upload(s)
  PROVE  WaitInv'
<1>1. work[s].pc = "upload" /\ UNCHANGED world /\ work \in [Hashes -> Jobs] /\ HasRow(s)
  BY RunningHasRow DEF upload, world_vars, RowInv
<1>2. CASE UNCHANGED req
  <2>1. \A q \in Hashes : q # s => work'[q] = work[q]
    <3>1. CASE Retry({s})
      BY <1>1, <3>1 DEF Retry
    <3> QED
      BY <3>1, JobChanged DEF upload
  <2> QED
    BY <1>1, <1>2, <2>1, ReqsUnchanged
<1>3. ASSUME NEW r \in Requests, req[r] = NoReq, Goes(s, "sent"),
             req' = [req EXCEPT ![r] = [sha |-> s, body |-> <<s[1], file[s[1]].v>>,
                                        call |-> row[s].call, auth |-> token = "works",
                                        st |-> "meta", code |-> 0, wanted |-> TRUE]]
      PROVE  WaitInv'
  <2> DEFINE body == <<s[1], file[s[1]].v>>
             call == row[s].call
             auth == token = "works"
             new == [sha |-> s, body |-> body, call |-> call, auth |-> auth, st |-> "meta",
                     code |-> 0, wanted |-> TRUE]
  <2>1. body \in Hashes /\ call \in Calls /\ CallOf(call, s[1])
    BY <1>1, FileIs, HashIs DEF HasRow, RowRecords
  <2>a. auth \in BOOLEAN
    OBVIOUS
  <2> HIDE DEF body, call, auth
  <2>2. new \in RequestRecords /\ new.sha = s /\ new.call = call /\ new.wanted
    BY <2>1, <2>a DEF RequestRecords, Answers
  <2>3. req' = [req EXCEPT ![r] = new]
    BY <1>3 DEF body, call, auth
  <2> HIDE DEF new
  <2>4. /\ req \in [Requests -> RequestRecords \union {NoReq}]
        /\ req'[r] = new /\ \A q \in Requests : q # r => req'[q] = req[q]
        /\ req' \in [Requests -> RequestRecords \union {NoReq}]
    BY <2>2, <2>3 DEF WaitInv
  <2>5. work'[s].pc = "sent" /\ \A q \in Hashes : q # s => work'[q] = work[q]
    BY <1>1, <1>3, JobChanged DEF Goes, Jobs
  <2>6. \A q \in Requests : waiting(q) => req[q].sha \in Hashes /\ req[q].sha # s
    BY <1>1, RequestIs DEF WaitInv, waiting
  <2>7. \A q \in Requests : (req[q] # NoReq => CallOf(req[q].call, req[q].sha[1]))'
    BY <1>1, <2>1, <2>2, <2>4 DEF WaitInv, CallOf, number
  <2>8. \A q \in Requests : q # r => (waiting(q)' <=> waiting(q)) /\ req'[q] = req[q]
    BY <2>4 DEF waiting
  <2>9. \A q \in Requests : waiting(q)' => work'[req'[q].sha].pc = "sent"
    <3> SUFFICES ASSUME NEW q \in Requests, waiting(q)' PROVE work'[req'[q].sha].pc = "sent"
      OBVIOUS
    <3>1. CASE q = r
      BY <2>2, <2>4, <2>5, <3>1
    <3>2. CASE q # r
      BY <2>5, <2>6, <2>8, <3>2 DEF WaitInv
    <3> QED
      BY <3>1, <3>2
  <2>10. \A p, q \in Requests : waiting(p)' /\ waiting(q)' /\ req'[p].sha = req'[q].sha => p = q
    BY <2>2, <2>4, <2>6, <2>8 DEF WaitInv
  <2> QED
    BY <2>4, <2>7, <2>9, <2>10 DEF WaitInv
<1> QED
  BY <1>2, <1>3 DEF upload

LEMMA ServerKeepsWaits ==
  ASSUME WaitInv, NEW r \in Requests, Server(r)
  PROVE  WaitInv'
<1>1. UNCHANGED <<world, work>>
  BY DEF Server, upload_recording, publish_sidecar, publish_audio, disconnected, world_vars,
         phone_vars
<1>2. PICK new \in RequestRecords \union {NoReq} :
        /\ req' = [req EXCEPT ![r] = new]
        /\ \/ new = NoReq
           \/ /\ new \in RequestRecords
              /\ new.sha = req[r].sha /\ new.call = req[r].call
              /\ new.wanted = req[r].wanted
  BY ServerSteps
<1>3. req \in [Requests -> RequestRecords \union {NoReq}] /\ req[r] # NoReq
  BY ServerSteps DEF WaitInv
<1>4. /\ req' = [q \in Requests |-> req'[q]] /\ req'[r] = new
      /\ \A q \in Requests : q # r => req'[q] = req[q]
  BY <1>2, <1>3
<1>5. \A q \in Requests : SameRequest(q)
  BY <1>2, <1>3, <1>4, RequestIs DEF SameRequest
<1>6. \A q \in Requests : waiting(q) => work'[req[q].sha].pc = "sent"
  BY <1>1 DEF WaitInv
<1> QED
  BY <1>1, <1>4, <1>5, <1>6, WaitKept

LEMMA OutcomeKeepsWaits ==
  ASSUME RowInv, WaitInv, NEW r \in Requests, outcome(r)
  PROVE  WaitInv'
<1>1. waiting(r) /\ req' = [req EXCEPT ![r] = NoReq] /\ UNCHANGED world /\ req[r].sha \in Hashes
      /\ work \in [Hashes -> Jobs] /\ req \in [Requests -> RequestRecords \union {NoReq}]
  BY RequestIs DEF outcome, waiting, RowInv, WaitInv
<1>2. \A q \in Hashes : q # req[r].sha => work'[q] = work[q]
  <2>1. CASE Retry({req[r].sha})
    BY <1>1, <2>1 DEF Retry
  <2>2. \/ Retry({req[r].sha}) \/ Ends(req[r].sha) \/ Goes(req[r].sha, "queued")
    BY DEF outcome, markDone
  <2> QED
    BY <1>1, <2>1, <2>2, JobChanged
<1>3. /\ req' = [q \in Requests |-> req'[q]] /\ req'[r] = NoReq
      /\ \A q \in Requests : q # r => req'[q] = req[q]
  BY <1>1
<1>4. \A q \in Requests : SameRequest(q)
  BY <1>3, RequestIs DEF SameRequest
<1>5. \A q \in Requests : waiting(q) /\ req'[q] # NoReq => work'[req[q].sha].pc = "sent"
  <2> SUFFICES ASSUME NEW q \in Requests, waiting(q), req'[q] # NoReq
               PROVE  work'[req[q].sha].pc = "sent"
    OBVIOUS
  <2>1. req[q].sha \in Hashes /\ work[req[q].sha].pc = "sent"
    BY RequestIs DEF WaitInv, waiting
  <2>2. req[q].sha # req[r].sha
    BY <1>1, <1>3 DEF WaitInv
  <2> QED
    BY <1>2, <2>1, <2>2
<1> QED
  BY <1>1, <1>3, <1>4, <1>5, WaitKept

(* Those who have hung up wait no more; what else is asked stays asked.    *)
LEMMA HungUp ==
  ASSUME WaitInv, NEW R, UNCHANGED world, req' = hung_up(R),
         \A r \in Requests : r \notin R /\ waiting(r) => work'[req[r].sha].pc = "sent"
  PROVE  WaitInv'
<1>1. req' = [r \in Requests |-> req'[r]]
  BY DEF hung_up
<1>2. ASSUME NEW r \in Requests
      PROVE  SameRequest(r) /\ (r \in R /\ req'[r] # NoReq => ~req'[r].wanted)
  <2>1. \/ req'[r] = req[r] /\ (r \notin R \/ req[r] = NoReq)
        \/ req'[r] = NoReq
        \/ req[r] # NoReq /\ req'[r] = [req[r] EXCEPT !.wanted = FALSE]
    BY DEF hung_up
  <2>2. CASE req'[r] = req[r] /\ (r \notin R \/ req[r] = NoReq)
    BY <2>2, RequestIs DEF SameRequest
  <2>3. CASE req'[r] = NoReq
    BY <2>3 DEF SameRequest
  <2>4. CASE req[r] # NoReq /\ req'[r] = [req[r] EXCEPT !.wanted = FALSE]
    <3>1. req[r] \in RequestRecords
      BY <2>4, RequestIs
    <3>2. /\ req'[r] \in RequestRecords
          /\ req'[r].sha = req[r].sha /\ req'[r].call = req[r].call /\ ~req'[r].wanted
      BY <2>4, <3>1 DEF RequestRecords
    <3> QED
      BY <2>4, <3>2 DEF SameRequest
  <2> QED
    BY <2>1, <2>2, <2>3, <2>4
<1> QED
  BY <1>1, <1>2, WaitKept

LEMMA WaitInvKept ==
  ASSUME Inv, [Next]_vars
  PROVE  WaitInv'
<1> USE DEF Inv
<1>1. ASSUME UNCHANGED <<world, work, req>>
      PROVE  WaitInv'
  BY <1>1, ReqsUnchanged
<1>2. ASSUME NEW S, UNCHANGED <<world, req>>, work' = enqueueUniqueWork(work, S)
      PROVE  WaitInv'
  <2>1. \A s \in Hashes : work[s].pc = "sent" => work'[s].pc = "sent"
    BY <1>2 DEF enqueueUniqueWork
  <2> QED
    BY <1>2, <2>1, ReqsUnchanged
<1>3. ASSUME NEW s \in Hashes, work[s].pc # "sent", UNCHANGED <<world, req>>,
             \A q \in Hashes : q # s => work'[q] = work[q]
      PROVE  WaitInv'
  BY <1>3, ReqsUnchanged
<1>4. ASSUME NEW f \in Files, Outside(f) \/ scan(f)
      PROVE  WaitInv'
  BY <1>1, <1>4 DEF Outside, Finish, Rewrite, Syncthing, scan, world_vars, phone_vars
<1>5. ASSUME NEW s \in Hashes, scheduleUpload(s)
      PROVE  WaitInv'
  BY <1>2, <1>5 DEF scheduleUpload, world_vars
<1>6. ASSUME NEW s \in Hashes, doWork(s)
      PROVE  WaitInv'
  <2>1. work[s].pc = "queued" /\ UNCHANGED <<world, req>>
    BY <1>6 DEF doWork, world_vars
  <2>2. \A q \in Hashes : q # s => work'[q] = work[q]
    <3>1. work \in [Hashes -> Jobs]
      BY DEF RowInv
    <3>2. Ends(s) \/ work' = [work EXCEPT ![s] = [pc |-> "probe", n |-> work[s].n + 1]]
      BY <1>6 DEF doWork
    <3> QED
      BY <3>1, <3>2, JobChanged
  <2> QED
    BY <1>3, <2>1, <2>2
<1>7. ASSUME NEW s \in Hashes, probe(s)
      PROVE  WaitInv'
  <2>1. work[s].pc = "probe" /\ UNCHANGED <<world, req>>
    BY <1>7 DEF probe
  <2>2. Ends(s) \/ Goes(s, "upload")
    BY <1>7 DEF probe, markDone
  <2> QED
    BY <1>3, <2>1, <2>2, JobChanged
<1>8. ASSUME NEW s \in Hashes, upload(s)
      PROVE  WaitInv'
  BY <1>8, UploadKeepsWaits
<1>9. ASSUME NEW s \in Hashes, purgeOldDone(s)
      PROVE  WaitInv'
  BY <1>1, <1>9 DEF purgeOldDone, world_vars
<1>10. ASSUME NEW r \in Requests, Server(r) \/ outcome(r)
       PROVE  WaitInv'
  BY <1>10, ServerKeepsWaits, OutcomeKeepsWaits
<1>11. ASSUME NEW p \in Paths, ingest_recording(p) \/ purge_old_audio(p)
       PROVE  WaitInv'
  BY <1>1, <1>11 DEF ingest_recording, purge_old_audio, world_vars, phone_vars
<1>12. CASE DrainWorker
  BY <1>2, <1>12 DEF DrainWorker, world_vars
<1>13. CASE retryAll \/ saveServer
  BY <1>2, <1>13 DEF retryAll, saveServer, requeueAllFailed, world_vars
<1>14. CASE Reinstall
  <2>1. UNCHANGED world /\ req' = hung_up(Requests)
    BY <1>14 DEF Reinstall, world_vars
  <2> QED
    BY <2>1, HungUp
<1>15. CASE PhoneDies
  <2>1. UNCHANGED world /\ req' = hung_up(Requests)
    BY <1>15 DEF PhoneDies, world_vars
  <2> QED
    BY <2>1, HungUp
<1>16. CASE ScanStops
  BY <1>1, <1>16 DEF ScanStops, world_vars
<1>17. CASE ServerDies
  <2>1. UNCHANGED world /\ req' = [r \in Requests |-> NoReq]
    BY <1>17 DEF ServerDies, world_vars
  <2>2. \A r \in Requests : SameRequest(r) /\ req'[r] = NoReq
    BY <2>1 DEF SameRequest
  <2> QED
    BY <2>1, <2>2, WaitKept
<1>18. ASSUME NEW r \in Requests, ConnectionLost(r)
       PROVE  WaitInv'
  <2>1. /\ waiting(r) /\ UNCHANGED world /\ req' = hung_up({r}) /\ Retry({req[r].sha})
    BY <1>18 DEF ConnectionLost, world_vars
  <2>2. ASSUME NEW q \in Requests, q \notin {r}, waiting(q)
        PROVE  work'[req[q].sha].pc = "sent"
    <3>1. req[q].sha # req[r].sha /\ req[q].sha \in Hashes /\ work[req[q].sha].pc = "sent"
      BY <2>1, <2>2, RequestIs DEF WaitInv, waiting
    <3>2. work'[req[q].sha] = work[req[q].sha]
      BY <2>1, <3>1 DEF Retry
    <3> QED
      BY <3>1, <3>2
  <2> QED
    BY <2>1, <2>2, HungUp
<1>19. CASE UNCHANGED vars
  BY <1>1, <1>19 DEF vars, world_vars, phone_vars
<1> QED
  BY <1>4, <1>5, <1>6, <1>7, <1>8, <1>9, <1>10, <1>11, <1>12, <1>13, <1>14, <1>15, <1>16,
     <1>17, <1>18, <1>19 DEF Next, Faults, Phone

-----------------------------------------------------------------------------
(* The server's disk and its interactions. *)

(* More audio, and sidecars of the same file or none.                      *)
LEMMA DiskWritten ==
  ASSUME DiskInv, UNCHANGED <<world, owner, inter>>,
         audio \subseteq audio', audio' \subseteq Paths,
         side' \in [Paths -> Calls \union {NoSide}],
         \A p \in Paths : side'[p] # NoSide => CallOf(side'[p], p[2][1])
  PROVE  DiskInv'
<1>1. \A p \in Paths : (side[p] # NoSide => CallOf(side[p], p[2][1]))'
  BY DEF CallOf, number
<1>2. \A i \in DOMAIN inter : CallOf(inter[i].call, inter[i].sha[1])'
  BY DEF DiskInv, CallOf, number
<1>3. \A i \in DOMAIN inter : inter[i].heard \/ \E p \in audio' : owner[p] = i
  BY DEF DiskInv
<1> QED
  BY <1>1, <1>2, <1>3 DEF DiskInv

LEMMA CleanedUp ==
  ASSUME DiskInv, NEW r \in Requests, cleanup(r)
  PROVE  /\ side' \in [Paths -> Calls \union {NoSide}]
         /\ \A p \in Paths : side'[p] = side[p] \/ side'[p] = NoSide
BY DEF DiskInv, cleanup

LEMMA ServerKeepsDisk ==
  ASSUME WaitInv, DiskInv, NEW r \in Requests, Server(r)
  PROVE  DiskInv'
<1>1. UNCHANGED <<world, owner, inter>>
  BY DEF Server, upload_recording, publish_sidecar, publish_audio, disconnected, world_vars,
         disk_vars
<1>2. req[r] \in RequestRecords /\ <<"up", req[r].sha>> \in Paths
      /\ <<"up", req[r].sha>>[2] = req[r].sha /\ CallOf(req[r].call, req[r].sha[1])
      /\ req[r].call \in Calls
  <2>1. req[r] # NoReq
    BY ServerSteps
  <2>2. req[r] \in RequestRecords /\ req[r].sha \in Hashes
    BY <2>1, RequestIs
  <2> QED
    BY <2>1, <2>2, PathIs DEF WaitInv, RequestRecords
<1>3. audio' = audio \/ audio' = audio \union {<<"up", req[r].sha>>}
  BY DEF Server, upload_recording, publish_sidecar, publish_audio, disconnected, disk_vars
<1>4. \/ side' = side \/ cleanup(r)
      \/ side' = [side EXCEPT ![<<"up", req[r].sha>>] = req[r].call]
  BY DEF Server, upload_recording, publish_sidecar, publish_audio, disconnected, disk_vars
<1>5. /\ side' \in [Paths -> Calls \union {NoSide}]
      /\ \A p \in Paths : side'[p] # NoSide => CallOf(side'[p], p[2][1])
  <2>1. CASE side' = side \/ cleanup(r)
    BY <2>1, CleanedUp DEF DiskInv
  <2>2. CASE side' = [side EXCEPT ![<<"up", req[r].sha>>] = req[r].call]
    <3> DEFINE path == <<"up", req[r].sha>>
               call == req[r].call
    <3>1. path \in Paths /\ CallOf(call, path[2][1]) /\ call \in Calls
      BY <1>2
    <3>2. side' = [side EXCEPT ![path] = call]
      BY <2>2
    <3> HIDE DEF path, call
    <3> QED
      BY <3>1, <3>2 DEF DiskInv
  <2> QED
    BY <1>4, <2>1, <2>2
<1>6. audio \subseteq audio' /\ audio' \subseteq Paths
  BY <1>2, <1>3 DEF DiskInv
<1> QED
  BY <1>1, <1>5, <1>6, DiskWritten

LEMMA SyncthingKeepsDisk ==
  ASSUME FolderInv, DiskInv, NEW f \in Files, Syncthing(f)
  PROVE  DiskInv'
<1>1. /\ UNCHANGED <<world, owner, inter, side>>
      /\ audio' = audio \union {<<"sync", <<f, file[f].v>>>>}
  BY DEF Syncthing, world_vars
<1>2. <<"sync", <<f, file[f].v>>>> \in Paths
  BY FileIs, PathIs
<1>3. audio \subseteq audio' /\ audio' \subseteq Paths
  BY <1>1, <1>2 DEF DiskInv
<1> QED
  BY <1>1, <1>3, DiskWritten DEF DiskInv

(* The interaction a swept file becomes, or joins.                         *)
NewInteraction(p, heard) ==
  [sha |-> p[2], call |-> read_sidecar(p), moment |-> number[p[2][1]].moment, heard |-> heard]

LEMMA SidecarIs ==
  ASSUME DiskInv, NEW p \in Paths
  PROVE  read_sidecar(p) \in Calls /\ CallOf(read_sidecar(p), p[2][1])
BY DEF DiskInv, read_sidecar, Calls, CallIds, CallOf

LEMMA NewInteractionIs ==
  ASSUME FolderInv, DiskInv, NEW p \in Paths, NEW heard \in BOOLEAN
  PROVE  /\ NewInteraction(p, heard) \in Interactions
         /\ NewInteraction(p, heard).sha = p[2]
         /\ NewInteraction(p, heard).call = read_sidecar(p)
         /\ NewInteraction(p, heard).moment = number[p[2][1]].moment
         /\ NewInteraction(p, heard).heard = heard
<1> DEFINE call == read_sidecar(p)
           moment == number[p[2][1]].moment
<1>1. p[2] \in Hashes /\ p[2][1] \in Files
  BY PathIs, HashIs
<1>2. call \in Calls
  BY SidecarIs
<1>3. moment \in Nat
  BY <1>1, WorldIs
<1>4. NewInteraction(p, heard) = [sha |-> p[2], call |-> call, moment |-> moment, heard |-> heard]
  BY DEF NewInteraction
<1> HIDE DEF call, moment
<1> QED
  BY <1>1, <1>2, <1>3, <1>4 DEF Interactions, call, moment

(* What a sweep does with one file.                                        *)
Joins(p, i) ==
  /\ i \in find_ingested(p[2], read_sidecar(p))
  /\ owner' = [owner EXCEPT ![p] = i] /\ UNCHANGED inter

Begins(p, heard) ==
  /\ find_ingested(p[2], read_sidecar(p)) = {}
  /\ owner' = [owner EXCEPT ![p] = Len(inter) + 1]
  /\ inter' = Append(inter, NewInteraction(p, heard))

LEMMA SweepIs ==
  ASSUME NEW p \in Paths, ingest_recording(p)
  PROVE  /\ p \in audio /\ owner[p] = 0
         /\ UNCHANGED <<world_vars, phone_vars, req, audio, side, token, faults>>
         /\ \/ \E i \in DOMAIN inter : Joins(p, i)
            \/ \E heard \in BOOLEAN : Begins(p, heard)
BY DEF ingest_recording, Joins, Begins, NewInteraction, find_ingested

LEMMA Appended ==
  ASSUME inter \in Seq(Interactions), NEW new \in Interactions, inter' = Append(inter, new)
  PROVE  /\ inter' \in Seq(Interactions) /\ Len(inter) \in Nat
         /\ DOMAIN inter = 1..Len(inter) /\ DOMAIN inter' = 1..(Len(inter) + 1)
         /\ inter'[Len(inter) + 1] = new
         /\ \A i \in DOMAIN inter : i \in DOMAIN inter' /\ inter'[i] = inter[i]
OBVIOUS

LEMMA SweepKeepsDisk ==
  ASSUME FolderInv, DiskInv, NEW p \in Paths, ingest_recording(p)
  PROVE  DiskInv'
<1>1. /\ p \in audio /\ owner[p] = 0 /\ UNCHANGED <<world, audio, side>>
      /\ inter \in Seq(Interactions) /\ owner \in [Paths -> Nat]
  BY SweepIs DEF world_vars, DiskInv
<1>2. ASSUME NEW i \in DOMAIN inter, Joins(p, i)
      PROVE  DiskInv'
  <2>1. /\ inter' = inter /\ owner' = [owner EXCEPT ![p] = i] /\ i \in Nat
    BY <1>1, <1>2 DEF Joins
  <2>2. /\ owner' \in [Paths -> Nat]
        /\ \A q \in Paths : owner'[q] # 0 => owner'[q] \in DOMAIN inter'
        /\ \A q \in Paths : owner[q] # 0 => owner'[q] = owner[q]
    BY <1>1, <1>2, <2>1 DEF DiskInv
  <2>3. \A j \in DOMAIN inter' : inter'[j].heard \/ \E q \in audio' : owner'[q] = j
    <3> SUFFICES ASSUME NEW j \in DOMAIN inter, ~inter[j].heard
                 PROVE  \E q \in audio : owner'[q] = j
      BY <1>1, <2>1
    <3>1. PICK q \in audio : owner[q] = j
      BY DEF DiskInv
    <3>2. q \in Paths /\ j # 0
      BY <1>1, <3>1 DEF DiskInv
    <3> QED
      BY <2>2, <3>1, <3>2
  <2>4. \A j \in DOMAIN inter' : CallOf(inter[j].call, inter[j].sha[1])'
    BY <1>1, <2>1 DEF DiskInv, CallOf, number
  <2>5. \A q \in Paths : (side[q] # NoSide => CallOf(side[q], q[2][1]))'
    BY <1>1 DEF DiskInv, CallOf, number
  <2>6. /\ audio' \subseteq Paths /\ side' \in [Paths -> Calls \union {NoSide}]
        /\ inter' \in Seq(Interactions)
    BY <1>1, <2>1 DEF DiskInv
  <2> QED
    BY <2>2, <2>3, <2>4, <2>5, <2>6 DEF DiskInv
<1>3. ASSUME NEW heard \in BOOLEAN, Begins(p, heard)
      PROVE  DiskInv'
  <2> DEFINE new == NewInteraction(p, heard)
  <2>1. /\ new \in Interactions /\ new.sha = p[2] /\ new.call = read_sidecar(p)
        /\ CallOf(new.call, new.sha[1])
    BY NewInteractionIs, SidecarIs
  <2>2. inter' = Append(inter, new) /\ owner' = [owner EXCEPT ![p] = Len(inter) + 1]
    BY <1>3 DEF Begins
  <2> HIDE DEF new
  <2>3. /\ inter' \in Seq(Interactions) /\ Len(inter) \in Nat
        /\ DOMAIN inter = 1..Len(inter) /\ DOMAIN inter' = 1..(Len(inter) + 1)
        /\ inter'[Len(inter) + 1] = new
        /\ \A i \in DOMAIN inter : i \in DOMAIN inter' /\ inter'[i] = inter[i]
    BY <1>1, <2>1, <2>2, Appended
  <2>4. /\ owner' \in [Paths -> Nat] /\ owner'[p] = Len(inter) + 1
        /\ \A q \in Paths : owner[q] # 0 => owner'[q] = owner[q]
        /\ \A q \in Paths : q # p => owner'[q] = owner[q]
    BY <1>1, <2>2, <2>3
  <2>5. \A q \in Paths : owner'[q] # 0 => owner'[q] \in DOMAIN inter'
    BY <2>3, <2>4 DEF DiskInv
  <2>6. \A j \in DOMAIN inter' : inter'[j].heard \/ \E q \in audio' : owner'[q] = j
    <3> SUFFICES ASSUME NEW j \in DOMAIN inter', ~inter'[j].heard
                 PROVE  \E q \in audio : owner'[q] = j
      BY <1>1
    <3>1. CASE j = Len(inter) + 1
      BY <1>1, <2>4, <3>1
    <3>2. CASE j \in DOMAIN inter
      <4>1. PICK q \in audio : owner[q] = j
        BY <2>3, <3>2 DEF DiskInv
      <4>2. q \in Paths /\ j # 0
        BY <2>3, <3>2, <4>1 DEF DiskInv
      <4> QED
        BY <2>4, <4>1, <4>2
    <3> QED
      BY <2>3, <3>1, <3>2
  <2>7. \A j \in DOMAIN inter' : CallOf(inter[j].call, inter[j].sha[1])'
    <3> SUFFICES ASSUME NEW j \in DOMAIN inter'
                 PROVE  CallOf(inter'[j].call, inter'[j].sha[1])
      BY <1>1 DEF CallOf, number
    <3>1. CASE j = Len(inter) + 1
      BY <2>1, <2>3, <3>1
    <3>2. CASE j \in DOMAIN inter
      BY <2>3, <3>2 DEF DiskInv
    <3> QED
      BY <2>3, <3>1, <3>2
  <2>8. \A q \in Paths : (side[q] # NoSide => CallOf(side[q], q[2][1]))'
    BY <1>1 DEF DiskInv, CallOf, number
  <2>9. audio' \subseteq Paths /\ side' \in [Paths -> Calls \union {NoSide}]
    BY <1>1 DEF DiskInv
  <2> QED
    BY <2>3, <2>4, <2>5, <2>6, <2>7, <2>8, <2>9 DEF DiskInv
<1> QED
  BY <1>2, <1>3, SweepIs

LEMMA RetentionKeepsDisk ==
  ASSUME DiskInv, NEW p \in Paths, purge_old_audio(p)
  PROVE  DiskInv'
<1>1. /\ UNCHANGED <<world, owner, inter>> /\ audio' = audio \ {p}
      /\ side' = [side EXCEPT ![p] = NoSide]
      /\ owner[p] # 0 /\ inter[owner[p]].heard
  BY DEF purge_old_audio, protected_audio_paths, world_vars
<1>2. /\ side' \in [Paths -> Calls \union {NoSide}]
      /\ \A q \in Paths : side'[q] # NoSide => side'[q] = side[q]
  BY <1>1 DEF DiskInv
<1>3. \A q \in Paths : (side[q] # NoSide => CallOf(side[q], q[2][1]))'
  BY <1>1, <1>2 DEF DiskInv, CallOf, number
<1>4. \A i \in DOMAIN inter : CallOf(inter[i].call, inter[i].sha[1])'
  BY <1>1 DEF DiskInv, CallOf, number
<1>5. \A i \in DOMAIN inter : inter[i].heard \/ \E q \in audio' : owner[q] = i
  BY <1>1 DEF DiskInv
<1> QED
  BY <1>1, <1>2, <1>3, <1>4, <1>5 DEF DiskInv

LEMMA DiskKept ==
  ASSUME Inv, [Next]_vars
  PROVE  DiskInv'
<1> USE DEF Inv
<1>1. ASSUME UNCHANGED <<world, disk_vars>>
      PROVE  DiskInv'
  <2>1. UNCHANGED <<world, audio, side, owner, inter>>
    BY <1>1 DEF disk_vars
  <2>2. \A p \in Paths : side'[p] # NoSide => CallOf(side'[p], p[2][1])
    BY <2>1 DEF DiskInv
  <2> QED
    BY <2>1, <2>2, DiskWritten DEF DiskInv
<1>2. ASSUME NEW f \in Files, Outside(f) \/ scan(f)
      PROVE  DiskInv'
  BY <1>1, <1>2, SyncthingKeepsDisk DEF Outside, Finish, Rewrite, scan, world_vars
<1>3. ASSUME NEW s \in Hashes, Phone(s) \/ purgeOldDone(s)
      PROVE  DiskInv'
  BY <1>1, <1>3 DEF Phone, scheduleUpload, doWork, probe, upload, purgeOldDone, world_vars
<1>4. ASSUME NEW r \in Requests, Server(r) \/ outcome(r)
      PROVE  DiskInv'
  BY <1>1, <1>4, ServerKeepsDisk DEF outcome
<1>5. ASSUME NEW p \in Paths, ingest_recording(p) \/ purge_old_audio(p)
      PROVE  DiskInv'
  BY <1>5, SweepKeepsDisk, RetentionKeepsDisk
<1>6. CASE DrainWorker \/ retryAll \/ saveServer \/ Reinstall
  BY <1>1, <1>6 DEF DrainWorker, retryAll, saveServer, Reinstall, world_vars
<1>7. CASE Faults
  BY <1>1, <1>7 DEF Faults, ConnectionLost, ServerDies, ScanStops, PhoneDies, world_vars
<1>8. CASE UNCHANGED vars
  BY <1>1, <1>8 DEF vars, world_vars
<1> QED
  BY <1>2, <1>3, <1>4, <1>5, <1>6, <1>7, <1>8 DEF Next

LEMMA FolderStepIs ==
  ASSUME Inv, [Next]_vars
  PROVE  FolderSteps
<1>1. ASSUME NEW f \in Files, Outside(f) \/ scan(f)
      PROVE  FolderSteps
  BY <1>1 DEF Outside, Syncthing, scan, FolderSteps
<1>2. ASSUME NEW s \in Hashes, Phone(s) \/ purgeOldDone(s)
      PROVE  FolderSteps
  BY <1>2 DEF Phone, scheduleUpload, doWork, probe, upload, purgeOldDone, FolderSteps,
              world_vars
<1>3. ASSUME NEW r \in Requests, Server(r)
      PROVE  FolderSteps
  BY <1>3 DEF Server, upload_recording, publish_sidecar, publish_audio, disconnected,
              FolderSteps
<1>4. ASSUME NEW r \in Requests, outcome(r)
      PROVE  FolderSteps
  <2>1. req[r].sha \in Hashes
    BY <1>4, RequestIs DEF outcome, Inv
  <2>2. markDone(req[r].sha) \/ file' = file
    BY <1>4 DEF outcome
  <2> QED
    BY <1>4, <2>1, <2>2 DEF outcome, FolderSteps, world_vars
<1>5. ASSUME NEW p \in Paths, ingest_recording(p) \/ purge_old_audio(p)
      PROVE  FolderSteps
  BY <1>5 DEF ingest_recording, purge_old_audio, FolderSteps
<1>6. CASE DrainWorker \/ retryAll \/ saveServer \/ Reinstall \/ Faults
  BY <1>6 DEF DrainWorker, retryAll, saveServer, Reinstall, Faults, ConnectionLost,
              ServerDies, ScanStops, PhoneDies, FolderSteps
<1>7. CASE UNCHANGED vars
  BY <1>7 DEF vars, FolderSteps
<1> QED
  BY <1>1, <1>2, <1>3, <1>4, <1>5, <1>6, <1>7 DEF Next

LEMMA FolderInvKept ==
  ASSUME Inv, [Next]_vars
  PROVE  FolderInv'
BY FolderStepIs, FolderKept DEF Inv

(* Rows, jobs, requests and the server's disk stay in their ranges and fit *)
(* together in every reachable state: a job that runs has a row, one       *)
(* request at most, and audio nobody heard yet is never removed.           *)
THEOREM Invariance == Spec => []Inv
<1>1. Init => Inv
  BY InitInv
<1>2. Inv /\ [Next]_vars => Inv'
  BY FolderInvKept, RowKept, WaitInvKept, DiskKept DEF Inv
<1> QED
  BY <1>1, <1>2, PTL DEF Spec

-----------------------------------------------------------------------------
(* One conversation, one interaction. *)

(* No two interactions carry the same bytes, or the same call at the same  *)
(* moment.                                                                 *)
ApartInv ==
  \A i, j \in DOMAIN inter :
    i # j => /\ inter[i].sha # inter[j].sha
             /\ inter[i].call # NoCall =>
                  inter[i].call # inter[j].call \/ inter[i].moment # inter[j].moment

LEMMA InteractionsFrom ==
  ASSUME [Next]_vars
  PROVE  \/ inter' = inter
         \/ \E p \in Paths, heard \in BOOLEAN : p \in audio /\ Begins(p, heard)
<1>1. ASSUME NEW p \in Paths, ingest_recording(p)
      PROVE  inter' = inter \/ \E heard \in BOOLEAN : p \in audio /\ Begins(p, heard)
  BY <1>1, SweepIs DEF Joins
<1>2. CASE UNCHANGED vars
  BY <1>2 DEF vars, disk_vars
<1>3. ASSUME NEW f \in Files, Outside(f) \/ scan(f)
      PROVE  inter' = inter
  BY <1>3 DEF Outside, Finish, Rewrite, Syncthing, scan, disk_vars
<1>4. ASSUME NEW s \in Hashes, Phone(s) \/ purgeOldDone(s)
      PROVE  inter' = inter
  BY <1>4 DEF Phone, scheduleUpload, doWork, probe, upload, purgeOldDone, disk_vars
<1>5. ASSUME NEW r \in Requests, Server(r) \/ outcome(r)
      PROVE  inter' = inter
  BY <1>5 DEF Server, upload_recording, publish_sidecar, publish_audio, disconnected, outcome,
              disk_vars
<1>6. ASSUME NEW p \in Paths, purge_old_audio(p)
      PROVE  inter' = inter
  BY <1>6 DEF purge_old_audio
<1>7. CASE DrainWorker \/ retryAll \/ saveServer \/ Reinstall \/ Faults
  BY <1>7 DEF DrainWorker, retryAll, saveServer, Reinstall, Faults, ConnectionLost,
              ServerDies, ScanStops, PhoneDies, disk_vars
<1> QED
  BY <1>1, <1>2, <1>3, <1>4, <1>5, <1>6, <1>7 DEF Next

LEMMA ApartKept ==
  ASSUME Inv, ApartInv, [Next]_vars
  PROVE  ApartInv'
<1>1. CASE inter' = inter
  BY <1>1 DEF ApartInv
<1>2. ASSUME NEW p \in Paths, NEW heard \in BOOLEAN, Begins(p, heard)
      PROVE  ApartInv'
  <2> DEFINE new == NewInteraction(p, heard)
  <2>1. /\ new \in Interactions /\ new.sha = p[2] /\ new.call = read_sidecar(p)
        /\ new.moment = number[p[2][1]].moment
    BY NewInteractionIs DEF Inv
  <2>2. inter' = Append(inter, new) /\ find_ingested(p[2], read_sidecar(p)) = {}
    BY <1>2 DEF Begins
  <2> HIDE DEF new
  <2>3. /\ Len(inter) \in Nat
        /\ DOMAIN inter = 1..Len(inter) /\ DOMAIN inter' = 1..(Len(inter) + 1)
        /\ inter'[Len(inter) + 1] = new
        /\ \A i \in DOMAIN inter : inter'[i] = inter[i]
    BY <2>1, <2>2, Appended DEF Inv, DiskInv
  <2>4. \A i \in DOMAIN inter : /\ inter[i].sha # new.sha
                                /\ new.call # NoCall =>
                                     inter[i].call # new.call \/ inter[i].moment # new.moment
    BY <2>1, <2>2 DEF find_ingested, same_call
  <2> SUFFICES ASSUME NEW i \in DOMAIN inter', NEW j \in DOMAIN inter', i # j
               PROVE  /\ inter'[i].sha # inter'[j].sha
                      /\ inter'[i].call # NoCall =>
                           inter'[i].call # inter'[j].call \/ inter'[i].moment # inter'[j].moment
    BY DEF ApartInv
  <2>5. CASE i \in DOMAIN inter /\ j \in DOMAIN inter
    BY <2>3, <2>5 DEF ApartInv
  <2>6. CASE i = Len(inter) + 1 /\ j \in DOMAIN inter
    BY <2>3, <2>4, <2>6
  <2>7. CASE j = Len(inter) + 1 /\ i \in DOMAIN inter
    BY <2>3, <2>4, <2>7
  <2> QED
    BY <2>3, <2>5, <2>6, <2>7
<1> QED
  BY <1>1, <1>2, InteractionsFrom

(* Where a row comes from: it stays the row of its call, it is of the bytes *)
(* the file now has, found by a scan or rehashed by the worker, or it goes. *)
Scanned(f) == IF number[f].id = 0 THEN NoCall ELSE [device |-> device, id |-> number[f].id]

RowFrom(s) ==
  \/ row'[s] = NoRow
  \/ row[s] # NoRow /\ row'[s].call = row[s].call
  \/ s[2] = file[s[1]].v /\ row'[s].call = Scanned(s[1])
  \/ /\ s[2] = file[s[1]].v
     /\ \E q \in Hashes : q[1] = s[1] /\ row[q] # NoRow /\ row'[s].call = row[q].call

LEMMA RowsStay ==
  ASSUME UNCHANGED row
  PROVE  \A s \in Hashes : RowFrom(s)
BY DEF RowFrom

LEMMA OneRowFrom ==
  ASSUME RowInv, NEW s \in Hashes, NEW new, row' = [row EXCEPT ![s] = new],
         new = NoRow \/ (row[s] # NoRow /\ new.call = row[s].call)
  PROVE  \A q \in Hashes : RowFrom(q)
<1>1. row'[s] = new /\ \A q \in Hashes : q # s => row'[q] = row[q]
  BY DEF RowInv
<1> QED
  BY <1>1 DEF RowFrom

LEMMA MarkedFrom ==
  ASSUME RowInv, NEW s \in Hashes, row[s] # NoRow, NEW st \in RowStates, Marks(s, st)
  PROVE  \A q \in Hashes : RowFrom(q)
<1> DEFINE new == [row[s] EXCEPT !.st = st]
<1>1. row[s] \in RowRecords
  BY DEF RowInv
<1>2. row' = [row EXCEPT ![s] = new] /\ new.call = row[s].call
  BY <1>1, RowMarked
<1> HIDE DEF new
<1> QED
  BY <1>2, OneRowFrom

(* The rows of some hashes go on in another state.                          *)
LEMMA SomeMarkedFrom ==
  ASSUME RowInv,
         \A s \in Hashes : \/ row'[s] = row[s]
                           \/ /\ row[s] \in RowRecords
                              /\ \E st \in RowStates : row'[s] = [row[s] EXCEPT !.st = st]
  PROVE  \A s \in Hashes : RowFrom(s)
<1> SUFFICES ASSUME NEW s \in Hashes PROVE RowFrom(s)
  OBVIOUS
<1>1. CASE row'[s] = row[s]
  BY <1>1 DEF RowFrom
<1>2. ASSUME row[s] \in RowRecords, NEW st \in RowStates, row'[s] = [row[s] EXCEPT !.st = st]
      PROVE  RowFrom(s)
  <2>1. row'[s].call = row[s].call /\ row[s] # NoRow
    BY <1>2, RowMarked, RecordingsAssumption
  <2> QED
    BY <2>1 DEF RowFrom
<1> QED
  BY <1>1, <1>2

LEMMA RetriedFrom ==
  ASSUME RowInv, NEW S, \A s \in S : s \in Hashes /\ HasRow(s), Retry(S)
  PROVE  \A s \in Hashes : RowFrom(s)
<1> SUFFICES ASSUME NEW s \in Hashes
             PROVE  \/ row'[s] = row[s]
                    \/ /\ row[s] \in RowRecords
                       /\ \E st \in RowStates : row'[s] = [row[s] EXCEPT !.st = st]
  BY SomeMarkedFrom
<1>1. CASE s \notin S
  BY <1>1 DEF Retry
<1>2. CASE s \in S
  <2>1. PICK st \in {"FAILED_PERMANENT", "PENDING"} : row'[s] = [row[s] EXCEPT !.st = st]
    BY <1>2 DEF Retry
  <2> QED
    BY <1>2, <2>1 DEF HasRow, RowStates
<1> QED
  BY <1>1, <1>2

LEMMA ScanFrom ==
  ASSUME FolderInv, RowInv, NEW f \in Files, scan(f)
  PROVE  \A s \in Hashes : RowFrom(s)
<1> DEFINE s == <<f, file[f].v>>
<1>1. /\ s \in Hashes /\ s[1] = f /\ s[2] = file[f].v
      /\ \/ row' = [row EXCEPT ![s] = buildRow(f)]
         \/ row[s] # NoRow /\ row' = [row EXCEPT ![s].size = file[f].size, ![s].stamp = file[f].v]
  BY FileIs DEF scan
<1> HIDE DEF s
<1>2. row \in [Hashes -> RowRecords \union {NoRow}]
  BY DEF RowInv
<1>3. \A q \in Hashes : q # s => row'[q] = row[q]
  BY <1>1, <1>2
<1>4. RowFrom(s)
  <2>1. CASE row' = [row EXCEPT ![s] = buildRow(f)]
    <3>1. row'[s].call = Scanned(f)
      BY <1>1, <1>2, <2>1 DEF buildRow, Scanned
    <3> QED
      BY <1>1, <3>1 DEF RowFrom
  <2>2. CASE row[s] # NoRow /\ row' = [row EXCEPT ![s].size = file[f].size, ![s].stamp = file[f].v]
    <3>1. row[s] \in RowRecords
      BY <1>1, <1>2, <2>2
    <3>2. row'[s].call = row[s].call
      BY <1>1, <1>2, <2>2, <3>1 DEF RowRecords
    <3> QED
      BY <2>2, <3>2 DEF RowFrom
  <2> QED
    BY <1>1, <2>1, <2>2
<1> QED
  BY <1>3, <1>4 DEF RowFrom

LEMMA DoWorkFrom ==
  ASSUME RowInv, NEW s \in Hashes, doWork(s)
  PROVE  \A q \in Hashes : RowFrom(q)
<1>1. to_upload(s) => row[s] # NoRow
  BY DEF to_upload, in_state
<1>2. CASE UNCHANGED row
  BY <1>2, RowsStay
<1>3. CASE to_upload(s) /\ Marks(s, "FAILED_PRECONDITION")
  BY <1>1, <1>3, MarkedFrom DEF RowStates
<1>4. CASE /\ to_upload(s)
           /\ row' = [row EXCEPT ![s].st = "UPLOADING", ![s].att = work[s].n + 1]
  <2>1. row \in [Hashes -> RowRecords \union {NoRow}] /\ row[s] \in RowRecords
    BY <1>1, <1>4 DEF RowInv
  <2>2. \A q \in Hashes : q # s => row'[q] = row[q]
    BY <1>4, <2>1
  <2>3. row'[s].call = row[s].call
    BY <1>4, <2>1 DEF RowRecords
  <2> QED
    BY <1>1, <1>4, <2>2, <2>3 DEF RowFrom
<1> QED
  BY <1>2, <1>3, <1>4 DEF doWork

LEMMA OutcomeFrom ==
  ASSUME FolderInv, RowInv, WaitInv, NEW r \in Requests, outcome(r)
  PROVE  \A s \in Hashes : RowFrom(s)
<1> DEFINE s == req[r].sha
           f == s[1]
           fresh == <<f, file[f].v>>
<1>1. s \in Hashes /\ HasRow(s) /\ row[s] # NoRow
  <2>1. req[r] \in RequestRecords /\ waiting(r)
    BY DEF WaitInv, outcome, waiting
  <2>2. s \in Hashes /\ work[s].pc = "sent"
    BY <2>1 DEF WaitInv, RequestRecords
  <2>3. HasRow(s)
    BY <2>2, RunningHasRow
  <2> QED
    BY <2>2, <2>3, RecordingsAssumption DEF HasRow
<1>2. fresh \in Hashes /\ fresh[1] = f /\ fresh[2] = file[f].v
  <2>1. f \in Files
    BY <1>1, HashIs
  <2> QED
    BY <2>1, FileIs
<1>3. CASE \E st \in RowStates : Marks(s, st)
  <2> HIDE DEF s
  <2> QED
    BY <1>1, <1>3, MarkedFrom
<1>4. CASE Retry({s})
  <2> HIDE DEF s
  <2> QED
    BY <1>1, <1>4, RetriedFrom
<1>5. CASE LET replacement == [row[s] EXCEPT !.st = "PENDING", !.att = @ + 1,
                                             !.hashRetried = TRUE, !.size = file[f].size] IN
             row' = [row EXCEPT ![s] = NoRow, ![fresh] = IF @ = NoRow THEN replacement ELSE @]
  <2> DEFINE new == [row[s] EXCEPT !.st = "PENDING", !.att = @ + 1, !.hashRetried = TRUE,
                                   !.size = file[f].size]
  <2>1. row[s] \in RowRecords /\ row \in [Hashes -> RowRecords \union {NoRow}]
    BY <1>1 DEF HasRow, RowInv
  <2>2. new.call = row[s].call
    <3> HIDE DEF s, f
    <3> QED
      BY <2>1 DEF RowRecords
  <2>3. row' = [row EXCEPT ![s] = NoRow, ![fresh] = IF @ = NoRow THEN new ELSE @]
    BY <1>5
  <2> HIDE DEF new, fresh, s
  <2>4. /\ \A q \in Hashes : q # s /\ q # fresh => row'[q] = row[q]
        /\ s # fresh => row'[s] = NoRow
        /\ row'[fresh] \in {NoRow, new, row[fresh]}
    BY <1>1, <1>2, <2>1, <2>3
  <2>5. RowFrom(fresh)
    BY <1>1, <1>2, <2>2, <2>4 DEF RowFrom, f
  <2> QED
    BY <2>4, <2>5 DEF RowFrom
<1>6. \/ \E st \in RowStates : Marks(s, st)
      \/ Retry({s})
      \/ LET replacement == [row[s] EXCEPT !.st = "PENDING", !.att = @ + 1,
                                           !.hashRetried = TRUE, !.size = file[f].size] IN
           row' = [row EXCEPT ![s] = NoRow, ![fresh] = IF @ = NoRow THEN replacement ELSE @]
  BY DEF outcome, markDone, RowStates
<1> QED
  BY <1>3, <1>4, <1>5, <1>6

LEMMA RowsFrom ==
  ASSUME Inv, [Next]_vars
  PROVE  \A s \in Hashes : RowFrom(s)
<1> USE DEF Inv
<1>1. ASSUME NEW f \in Files, Outside(f)
      PROVE  \A s \in Hashes : RowFrom(s)
  BY <1>1, RowsStay DEF Outside, Finish, Rewrite, Syncthing, phone_vars
<1>2. ASSUME NEW f \in Files, scan(f)
      PROVE  \A s \in Hashes : RowFrom(s)
  BY <1>2, ScanFrom
<1>3. ASSUME NEW s \in Hashes, Phone(s) \/ purgeOldDone(s)
      PROVE  \A q \in Hashes : RowFrom(q)
  <2>1. work[s].pc \in {"probe", "upload", "sent"} => HasRow(s) /\ row[s] # NoRow
    BY RunningHasRow, RecordingsAssumption DEF HasRow
  <2>2. CASE scheduleUpload(s)
    BY <2>2, RowsStay DEF scheduleUpload
  <2>3. CASE probe(s)
    BY <2>1, <2>3, RowsStay, MarkedFrom DEF probe, markDone, RowStates
  <2>4. CASE upload(s)
    BY <2>1, <2>4, RowsStay, MarkedFrom, RetriedFrom DEF upload, RowStates
  <2>5. CASE purgeOldDone(s)
    BY <2>5, OneRowFrom DEF purgeOldDone
  <2> QED
    BY <1>3, <2>2, <2>3, <2>4, <2>5, DoWorkFrom DEF Phone
<1>4. ASSUME NEW r \in Requests, Server(r)
      PROVE  \A s \in Hashes : RowFrom(s)
  BY <1>4, RowsStay DEF Server, upload_recording, publish_sidecar, publish_audio, disconnected,
                        phone_vars
<1>5. ASSUME NEW r \in Requests, outcome(r)
      PROVE  \A s \in Hashes : RowFrom(s)
  BY <1>5, OutcomeFrom
<1>6. ASSUME NEW p \in Paths, ingest_recording(p) \/ purge_old_audio(p)
      PROVE  \A s \in Hashes : RowFrom(s)
  BY <1>6, RowsStay DEF ingest_recording, purge_old_audio, phone_vars
<1>7. CASE DrainWorker \/ ScanStops \/ PhoneDies
  BY <1>7, RowsStay DEF DrainWorker, ScanStops, PhoneDies
<1>8. CASE retryAll \/ saveServer
  <2>1. ASSUME NEW s \in Hashes
        PROVE  \/ row'[s] = row[s]
               \/ row[s] \in RowRecords /\ row'[s] = [row[s] EXCEPT !.st = "PENDING"]
    BY <1>8 DEF retryAll, saveServer, requeueAllFailed, in_state, RowInv
  <2>2. "PENDING" \in RowStates
    BY DEF RowStates
  <2> QED
    BY <2>1, <2>2, SomeMarkedFrom
<1>9. CASE Reinstall
  BY <1>9 DEF Reinstall, RowFrom
<1>10. ASSUME NEW S, Retry(S), \A s \in S : \E r \in Requests : waiting(r) /\ s = req[r].sha
       PROVE  \A s \in Hashes : RowFrom(s)
  <2>1. \A s \in S : s \in Hashes /\ work[s].pc = "sent"
    BY <1>10, RequestIs DEF WaitInv, waiting
  <2> QED
    BY <1>10, <2>1, RunningHasRow, RetriedFrom
<1>11. CASE ServerDies \/ \E r \in Requests : ConnectionLost(r)
  BY <1>10, <1>11 DEF ServerDies, ConnectionLost
<1>12. CASE UNCHANGED vars
  BY <1>12, RowsStay DEF vars, phone_vars
<1> QED
  BY <1>1, <1>2, <1>3, <1>4, <1>5, <1>6, <1>7, <1>8, <1>9, <1>11, <1>12 DEF Next, Faults

(* No step forgets a version the dialer has written.                        *)
LEMMA FileGrows ==
  ASSUME Inv, [Next]_vars, NEW f \in Files
  PROVE  file[f].v \in Nat /\ file'[f].v \in Nat /\ file[f].v <= file'[f].v
<1>1. file[f] \in FileRecords /\ file'[f] \in FileRecords
  BY FolderInvKept, FileIs DEF Inv, FolderInv
<1>2. MaxRewrites \in Nat /\ Versions \subseteq Nat
  BY RecordingsAssumption DEF Versions
<1>3. file[f].v \in Nat /\ file'[f].v \in Nat
  BY <1>1, <1>2 DEF FileRecords
<1>4. file \in [Files -> FileRecords]
  BY DEF Inv, FolderInv
<1>5. ASSUME NEW g \in Files, Finish(g)
      PROVE  file'[f].v = file[f].v
  BY <1>1, <1>4, <1>5 DEF Finish, FileRecords
<1>6. ASSUME NEW g \in Files, Rewrite(g)
      PROVE  file[f].v <= file'[f].v
  <2>1. PICK longer \in {0, 1} :
          file' = [file EXCEPT ![g].v = @ + 1, ![g].size = @ + longer]
    BY <1>6 DEF Rewrite
  <2>2. CASE f = g
    <3>1. file'[f].v = file[f].v + 1
      BY <1>1, <1>4, <2>1, <2>2 DEF FileRecords
    <3> QED
      BY <1>3, <3>1
  <2>3. CASE f # g
    BY <1>3, <1>4, <2>1, <2>3
  <2> QED
    BY <2>2, <2>3
<1>7. ASSUME NEW s \in Hashes, markDone(s)
      PROVE  file'[f].v = file[f].v
  BY <1>1, <1>4, <1>7 DEF markDone, FileRecords
<1>8. FolderSteps
  BY FolderStepIs
<1> QED
  BY <1>3, <1>5, <1>6, <1>7, <1>8 DEF FolderSteps, world_vars

(* Where requests and audio come from.                                      *)
RequestFrom(r) ==
  \/ req'[r] = NoReq
  \/ req[r] # NoReq /\ req'[r].sha = req[r].sha
  \/ req'[r].sha \in Hashes /\ row[req'[r].sha] # NoRow

LEMMA RequestsFrom ==
  ASSUME Inv, [Next]_vars
  PROVE  \A r \in Requests : RequestFrom(r)
<1> USE DEF Inv
<1>1. ASSUME UNCHANGED req
      PROVE  \A r \in Requests : RequestFrom(r)
  BY <1>1 DEF RequestFrom
<1>2. ASSUME NEW R, req' = hung_up(R)
      PROVE  \A r \in Requests : RequestFrom(r)
  <2> SUFFICES ASSUME NEW r \in Requests, req[r] # NoReq, req'[r] # NoReq
               PROVE  req'[r].sha = req[r].sha
    BY <1>2 DEF RequestFrom, hung_up
  <2>1. req[r] \in RequestRecords
    BY RequestIs
  <2> QED
    BY <1>2, <2>1 DEF hung_up, RequestRecords
<1>3. ASSUME NEW f \in Files, Outside(f) \/ scan(f)
      PROVE  UNCHANGED req
  BY <1>3 DEF Outside, Finish, Rewrite, Syncthing, scan
<1>4. ASSUME NEW s \in Hashes, scheduleUpload(s) \/ doWork(s) \/ probe(s) \/ purgeOldDone(s)
      PROVE  UNCHANGED req
  BY <1>4 DEF scheduleUpload, doWork, probe, purgeOldDone
<1>5. ASSUME NEW s \in Hashes, upload(s)
      PROVE  \A r \in Requests : RequestFrom(r)
  <2>1. row[s] # NoRow
    BY <1>5, RunningHasRow, RecordingsAssumption DEF upload, HasRow
  <2>2. ASSUME NEW r \in Requests, NEW new, new.sha = s, req' = [req EXCEPT ![r] = new]
        PROVE  \A q \in Requests : RequestFrom(q)
    BY <2>1, <2>2 DEF RequestFrom, WaitInv
  <2> QED
    BY <1>1, <1>5, <2>2 DEF upload
<1>6. ASSUME NEW r \in Requests, Server(r)
      PROVE  \A q \in Requests : RequestFrom(q)
  <2>1. PICK new \in RequestRecords \union {NoReq} :
          /\ req' = [req EXCEPT ![r] = new]
          /\ new = NoReq \/ new.sha = req[r].sha
    BY <1>6, ServerSteps
  <2>2. req[r] # NoReq /\ req \in [Requests -> RequestRecords \union {NoReq}]
    BY <1>6, ServerSteps DEF WaitInv
  <2> QED
    BY <2>1, <2>2 DEF RequestFrom
<1>7. ASSUME NEW r \in Requests, outcome(r)
      PROVE  \A q \in Requests : RequestFrom(q)
  <2>1. req' = [req EXCEPT ![r] = NoReq] /\ req \in [Requests -> RequestRecords \union {NoReq}]
    BY <1>7 DEF outcome, WaitInv
  <2> QED
    BY <2>1 DEF RequestFrom
<1>8. ASSUME NEW p \in Paths, ingest_recording(p) \/ purge_old_audio(p)
      PROVE  UNCHANGED req
  BY <1>8 DEF ingest_recording, purge_old_audio
<1>9. CASE DrainWorker \/ retryAll \/ saveServer \/ ScanStops
  BY <1>1, <1>9 DEF DrainWorker, retryAll, saveServer, ScanStops
<1>10. CASE Reinstall \/ PhoneDies \/ \E r \in Requests : ConnectionLost(r)
  BY <1>2, <1>10 DEF Reinstall, PhoneDies, ConnectionLost
<1>11. CASE ServerDies
  BY <1>11 DEF ServerDies, RequestFrom
<1>12. CASE UNCHANGED vars
  BY <1>1, <1>12 DEF vars
<1> QED
  BY <1>1, <1>3, <1>4, <1>5, <1>6, <1>7, <1>8, <1>9, <1>10, <1>11, <1>12
     DEF Next, Phone, Faults

LEMMA AudioFrom ==
  ASSUME [Next]_vars, NEW p \in audio'
  PROVE  \/ p \in audio
         \/ \E f \in Files : p = <<"sync", <<f, file[f].v>>>>
         \/ \E r \in Requests : req[r] # NoReq /\ p = <<"up", req[r].sha>>
<1>1. ASSUME NEW f \in Files, Outside(f) \/ scan(f)
      PROVE  p \in audio \/ p = <<"sync", <<f, file[f].v>>>>
  BY <1>1 DEF Outside, Finish, Rewrite, Syncthing, scan, disk_vars
<1>2. ASSUME NEW s \in Hashes, Phone(s) \/ purgeOldDone(s)
      PROVE  p \in audio
  BY <1>2 DEF Phone, scheduleUpload, doWork, probe, upload, purgeOldDone, disk_vars
<1>3. ASSUME NEW r \in Requests, Server(r) \/ outcome(r)
      PROVE  p \in audio \/ (req[r] # NoReq /\ p = <<"up", req[r].sha>>)
  BY <1>3 DEF Server, upload_recording, publish_sidecar, publish_audio, disconnected, outcome,
              disk_vars
<1>4. ASSUME NEW q \in Paths, ingest_recording(q) \/ purge_old_audio(q)
      PROVE  p \in audio
  BY <1>4 DEF ingest_recording, purge_old_audio
<1>5. CASE DrainWorker \/ retryAll \/ saveServer \/ Reinstall \/ Faults \/ UNCHANGED vars
  BY <1>5 DEF DrainWorker, retryAll, saveServer, Reinstall, Faults, ConnectionLost,
              ServerDies, ScanStops, PhoneDies, disk_vars, vars
<1> QED
  BY <1>1, <1>2, <1>3, <1>4, <1>5 DEF Next

(* Nothing is of a version the dialer has not written, and an interaction  *)
(* begins at its call's moment.                                            *)
Seen(s) == s[2] <= file[s[1]].v

SeenInv ==
  /\ \A s \in Hashes : row[s] # NoRow => Seen(s)
  /\ \A r \in Requests : req[r] # NoReq => Seen(req[r].sha)
  /\ \A p \in audio : Seen(p[2])
  /\ \A i \in DOMAIN inter : /\ Seen(inter[i].sha)
                             /\ inter[i].moment = number[inter[i].sha[1]].moment

LEMMA SeenStays ==
  ASSUME Inv, [Next]_vars, NEW s \in Hashes, Seen(s)
  PROVE  Seen(s)'
<1>1. s[1] \in Files /\ s[2] \in Versions /\ MaxRewrites \in Nat
  BY HashIs, RecordingsAssumption
<1>2. s[2] \in Nat
  BY <1>1 DEF Versions
<1> QED
  BY <1>1, <1>2, FileGrows DEF Seen

LEMMA WorldStays ==
  ASSUME [Next]_vars
  PROVE  UNCHANGED world
BY DEF Next, Outside, Finish, Rewrite, Syncthing, scan, Phone, scheduleUpload, doWork, probe,
       upload, purgeOldDone, Server, upload_recording, publish_sidecar, publish_audio,
       disconnected, outcome, ingest_recording, purge_old_audio, DrainWorker, retryAll,
       saveServer, Reinstall, Faults, ConnectionLost, ServerDies, ScanStops, PhoneDies,
       vars, world_vars

LEMMA SeenKept ==
  ASSUME Inv, SeenInv, [Next]_vars
  PROVE  SeenInv'
<1>1. ASSUME NEW s \in Hashes, row'[s] # NoRow
      PROVE  Seen(s)
  <2>1. RowFrom(s)
    BY RowsFrom
  <2>2. CASE s[2] = file[s[1]].v
    <3>1. file[s[1]].v \in Nat
      BY HashIs, FileGrows
    <3> QED
      BY <2>2, <3>1 DEF Seen
  <2> QED
    BY <1>1, <2>1, <2>2 DEF RowFrom, SeenInv
<1>2. ASSUME NEW r \in Requests, req'[r] # NoReq
      PROVE  req'[r].sha \in Hashes /\ Seen(req'[r].sha)
  BY <1>2, RequestsFrom, RequestIs DEF RequestFrom, SeenInv, Inv
<1>3. ASSUME NEW p \in audio'
      PROVE  p[2] \in Hashes /\ Seen(p[2])
  <2>1. CASE p \in audio
    BY <2>1, PathIs DEF SeenInv, Inv, DiskInv
  <2>2. ASSUME NEW f \in Files, p = <<"sync", <<f, file[f].v>>>>
        PROVE  p[2] \in Hashes /\ Seen(p[2])
    <3>1. file[f].v \in Nat /\ <<f, file[f].v>> \in Hashes
      BY FileGrows, FileIs DEF Inv
    <3> QED
      BY <2>2, <3>1 DEF Seen
  <2>3. ASSUME NEW r \in Requests, req[r] # NoReq, p = <<"up", req[r].sha>>
        PROVE  p[2] \in Hashes /\ Seen(p[2])
    BY <2>3, RequestIs DEF SeenInv, Inv
  <2> QED
    BY <2>1, <2>2, <2>3, AudioFrom
<1>4. ASSUME NEW i \in DOMAIN inter'
      PROVE  /\ inter'[i].sha \in Hashes /\ Seen(inter'[i].sha)
             /\ inter'[i].moment = number[inter'[i].sha[1]].moment
  <2>1. CASE i \in DOMAIN inter /\ inter'[i] = inter[i]
    <3>1. inter[i] \in Interactions
      BY <2>1 DEF Inv, DiskInv
    <3> QED
      BY <2>1, <3>1 DEF SeenInv, Interactions
  <2>2. ASSUME NEW p \in Paths, NEW heard \in BOOLEAN, p \in audio, Begins(p, heard)
        PROVE  (i \in DOMAIN inter /\ inter'[i] = inter[i]) \/ inter'[i] = NewInteraction(p, heard)
    BY <1>4, <2>2, NewInteractionIs, Appended DEF Begins, Inv, DiskInv
  <2>3. ASSUME NEW p \in Paths, NEW heard \in BOOLEAN, p \in audio,
               inter'[i] = NewInteraction(p, heard)
        PROVE  /\ inter'[i].sha \in Hashes /\ Seen(inter'[i].sha)
               /\ inter'[i].moment = number[inter'[i].sha[1]].moment
    BY <2>3, NewInteractionIs, PathIs DEF SeenInv, Inv
  <2> QED
    BY <1>4, <2>1, <2>2, <2>3, InteractionsFrom
<1>5. UNCHANGED number
  BY WorldStays DEF number
<1> QED
  BY <1>1, <1>2, <1>3, <1>4, <1>5, SeenStays DEF SeenInv

(* A conversation the call log names carries that call from its row to its *)
(* interaction, through every version: no sidecar is written beside audio  *)
(* that is already there, and none is taken away before its audio.          *)
CallIs(f) == [device |-> 0, id |-> number[f].id]

RowsTell(f) == \A s \in Hashes : s[1] = f /\ row[s] # NoRow => row[s].call = CallIs(f)

RequestsTell(f) ==
  \A r \in Requests : req[r] # NoReq /\ req[r].sha[1] = f =>
    /\ req[r].wanted /\ req[r].call = CallIs(f)
    /\ req[r].st \in {"audio", "sidecar"} => <<"up", req[r].sha>> \notin audio
    /\ req[r].st = "sidecar" => side[<<"up", req[r].sha>>] = CallIs(f)

AudioTells(f) == \A p \in audio : p[2][1] = f => p[1] = "up" /\ side[p] = CallIs(f)

InteractionsTell(f) ==
  \A i \in DOMAIN inter : inter[i].sha[1] = f => inter[i].call = CallIs(f)

Told(f) == RowsTell(f) /\ RequestsTell(f) /\ AudioTells(f) /\ InteractionsTell(f)

LEMMA RowsTellKept ==
  ASSUME Inv, [Next]_vars, NEW f \in Files, RowsTell(f), KnownByCall(f)
  PROVE  RowsTell(f)'
<1>1. ASSUME NEW s \in Hashes, s[1] = f, row'[s] # NoRow
      PROVE  row'[s].call = CallIs(f)
  <2>1. Scanned(f) = CallIs(f)
    BY DEF Scanned, CallIs, KnownByCall
  <2> QED
    BY <1>1, <2>1, RowsFrom DEF RowFrom, RowsTell
<1>2. CallIs(f)' = CallIs(f)
  BY WorldStays DEF CallIs, number
<1> QED
  BY <1>1, <1>2 DEF RowsTell

LEMMA InteractionsTellKept ==
  ASSUME Inv, [Next]_vars, NEW f \in Files, AudioTells(f), InteractionsTell(f)
  PROVE  InteractionsTell(f)'
<1>1. CallIs(f)' = CallIs(f)
  BY WorldStays DEF CallIs, number
<1>2. CASE inter' = inter
  BY <1>1, <1>2 DEF InteractionsTell
<1>3. ASSUME NEW p \in Paths, NEW heard \in BOOLEAN, p \in audio, Begins(p, heard)
      PROVE  InteractionsTell(f)'
  <2> DEFINE new == NewInteraction(p, heard)
  <2>1. new \in Interactions /\ new.sha = p[2] /\ new.call = read_sidecar(p)
    BY NewInteractionIs DEF Inv
  <2>2. p[2][1] = f => new.call = CallIs(f)
    <3> SUFFICES ASSUME p[2][1] = f PROVE read_sidecar(p) = CallIs(f)
      BY <2>1
    <3>1. side[p] = CallIs(f)
      BY <1>3 DEF AudioTells
    <3>2. CallIs(f) # NoSide
      <4>1. number[f].id \in Nat
        BY WorldIs DEF Inv
      <4>2. CallIs(f) \in CallIds
        BY <4>1 DEF CallIs, CallIds
      <4> QED
        BY <4>2, RecordingsAssumption
    <3> QED
      BY <3>1, <3>2 DEF read_sidecar
  <2>3. inter' = Append(inter, new)
    BY <1>3 DEF Begins
  <2> HIDE DEF new
  <2>4. /\ DOMAIN inter' = 1..(Len(inter) + 1) /\ DOMAIN inter = 1..Len(inter)
        /\ Len(inter) \in Nat /\ inter'[Len(inter) + 1] = new
        /\ \A i \in DOMAIN inter : inter'[i] = inter[i]
    BY <2>1, <2>3, Appended DEF Inv, DiskInv
  <2> SUFFICES ASSUME NEW i \in DOMAIN inter', inter'[i].sha[1] = f
               PROVE  inter'[i].call = CallIs(f)
    BY <1>1 DEF InteractionsTell
  <2>5. CASE i \in DOMAIN inter
    BY <2>4, <2>5 DEF InteractionsTell
  <2>6. CASE i = Len(inter) + 1
    BY <2>1, <2>2, <2>4, <2>6
  <2> QED
    BY <2>4, <2>5, <2>6
<1> QED
  BY <1>2, <1>3, InteractionsFrom

(* The server at a request of f: nobody else is at its path.                *)
LEMMA ServerTells ==
  ASSUME Inv, NEW f \in Files, RequestsTell(f), AudioTells(f), UNCHANGED <<world, faults>>,
         faults \in Nat, NEW r \in Requests, Server(r)
  PROVE  RequestsTell(f)' /\ AudioTells(f)'
<1> DEFINE s == req[r].sha
           path == <<"up", s>>
<1>1. /\ req[r] # NoReq /\ req[r] \in RequestRecords /\ s \in Hashes /\ path \in Paths
      /\ path[1] = "up" /\ path[2] = s
  BY ServerSteps, RequestIs, PathIs DEF Inv
<1>2. CallIs(f)' = CallIs(f)
  BY DEF CallIs, number
<1>3. PICK new \in RequestRecords \union {NoReq} :
        /\ req' = [req EXCEPT ![r] = new]
        /\ new = NoReq \/ (new.sha = s /\ new.call = req[r].call /\ new.wanted = req[r].wanted)
  BY ServerSteps DEF Inv
<1>4. /\ req'[r] = new /\ \A q \in Requests : q # r => req'[q] = req[q]
  BY <1>3 DEF Inv, WaitInv
<1>5. ASSUME NEW q \in Requests, q # r, req[q] # NoReq, req[q].sha[1] = f, s[1] = f
      PROVE  req[q].sha # s /\ <<"up", req[q].sha>> # path /\ <<"up", req[q].sha>> \in Paths
  <2>1. waiting(q) /\ waiting(r)
    BY <1>1, <1>5 DEF RequestsTell, waiting
  <2>2. req[q].sha # s
    BY <1>5, <2>1 DEF Inv, WaitInv
  <2>3. <<"up", req[q].sha>> \in Paths
    BY <1>5, RequestIs, PathIs DEF Inv
  <2> QED
    BY <2>2, <2>3
<1>6. ASSUME NEW q \in Requests, q # r, req[q] # NoReq, req[q].sha[1] = f, s[1] # f
      PROVE  <<"up", req[q].sha>> # path /\ <<"up", req[q].sha>> \in Paths
  <2>1. <<"up", req[q].sha>> \in Paths
    BY <1>6, RequestIs, PathIs DEF Inv
  <2> QED
    BY <1>6, <2>1
<1>7. /\ audio' = audio \/ audio' = audio \union {path}
      /\ \A p \in Paths : p # path => side'[p] = side[p]
  <2>1. /\ audio' = audio \/ audio' = audio \union {path}
        /\ side' = side \/ side' = [side EXCEPT ![path] = req[r].call]
             \/ side' = [side EXCEPT ![path] = NoSide]
    BY DEF Server, upload_recording, publish_sidecar, publish_audio, disconnected, cleanup,
           disk_vars
  <2> QED
    BY <2>1 DEF Inv, DiskInv
(* What this request leaves at its own path.                                *)
<1>8. s[1] = f => /\ req'[r] # NoReq =>
                       /\ req'[r].st \in {"audio", "sidecar"} => path \notin audio'
                       /\ req'[r].st = "sidecar" => side'[path] = CallIs(f)
                  /\ path \in audio' => side'[path] = CallIs(f)
  <2> SUFFICES ASSUME s[1] = f
               PROVE  /\ req'[r] # NoReq =>
                            /\ req'[r].st \in {"audio", "sidecar"} => path \notin audio'
                            /\ req'[r].st = "sidecar" => side'[path] = CallIs(f)
                      /\ path \in audio' => side'[path] = CallIs(f)
    OBVIOUS
  <2>1. /\ req[r].call = CallIs(f) /\ req[r].wanted
        /\ req[r].st \in {"audio", "sidecar"} => path \notin audio
        /\ req[r].st = "sidecar" => side[path] = CallIs(f)
        /\ path \in audio => side[path] = CallIs(f)
    BY <1>1 DEF RequestsTell, AudioTells
  <2>2. ASSUME NEW code \in Answers
        PROVE  answered(r, code).st = "answered"
    BY <1>1, <2>1 DEF answered, RequestRecords, Inv, WaitInv
  <2>3. \A st \in {"audio", "sidecar"} : [req[r] EXCEPT !.st = st].st = st
    BY <1>1 DEF RequestRecords
  <2>4. CASE upload_recording(r)
    <3>1. side' = side /\ audio' = audio
      BY <2>4 DEF upload_recording, disk_vars
    <3>2. CASE req' = [req EXCEPT ![r] = answered(r, 401)] \/ req' = [req EXCEPT ![r] = answered(r, 200)]
      <4>1. req'[r].st = "answered"
        BY <2>2, <3>2 DEF Answers, Inv, WaitInv
      <4> QED
        BY <2>1, <3>1, <4>1
    <3>3. CASE path \notin audio /\ req' = [req EXCEPT ![r] = [req[r] EXCEPT !.st = "audio"]]
      <4>1. req'[r].st = "audio"
        BY <2>3, <3>3 DEF Inv, WaitInv
      <4> QED
        BY <2>1, <3>1, <3>3, <4>1
    <3> QED
      BY <2>4, <3>2, <3>3 DEF upload_recording, Inv, WaitInv
  <2>5. CASE publish_sidecar(r)
    <3>1. req[r].st = "audio" /\ audio' = audio /\ path \notin audio
      BY <2>1, <2>5 DEF publish_sidecar
    <3>2. CASE req' = [req EXCEPT ![r] = answered(r, 422)]
      <4>1. req'[r].st = "answered"
        BY <2>2, <3>2 DEF Answers, Inv, WaitInv
      <4> QED
        BY <3>1, <4>1
    <3>3. CASE /\ side' = [side EXCEPT ![path] = req[r].call]
               /\ req' = [req EXCEPT ![r] = [req[r] EXCEPT !.st = "sidecar"]]
      <4>1. side'[path] = CallIs(f)
        BY <1>1, <2>1, <3>3 DEF Inv, DiskInv
      <4> QED
        BY <3>1, <4>1
    <3> QED
      BY <2>5, <3>2, <3>3 DEF publish_sidecar, Inv, WaitInv
  <2>6. CASE publish_audio(r)
    <3>1. /\ side' = side /\ req' = [req EXCEPT ![r] = answered(r, 202)]
          /\ audio' = audio \union {path} /\ req[r].st = "sidecar"
      BY <2>6 DEF publish_audio, Fault
    <3>2. req'[r].st = "answered"
      BY <2>2, <3>1 DEF Answers, Inv, WaitInv
    <3> QED
      BY <2>1, <3>1, <3>2
  <2>7. CASE disconnected(r)
    BY <2>1, <2>7 DEF disconnected
  <2> QED
    BY <2>4, <2>5, <2>6, <2>7 DEF Server
<1> HIDE DEF s, path
<1>9. RequestsTell(f)'
  <2> SUFFICES ASSUME NEW q \in Requests, req'[q] # NoReq, req'[q].sha[1] = f
               PROVE  /\ req'[q].wanted /\ req'[q].call = CallIs(f)
                      /\ req'[q].st \in {"audio", "sidecar"} => <<"up", req'[q].sha>> \notin audio'
                      /\ req'[q].st = "sidecar" => side'[<<"up", req'[q].sha>>] = CallIs(f)
    BY <1>2 DEF RequestsTell
  <2>1. CASE q = r
    <3>1. new # NoReq /\ req'[q].sha = s /\ s[1] = f
      BY <1>3, <1>4, <2>1
    <3>2. req'[q].wanted /\ req'[q].call = CallIs(f)
      BY <1>1, <1>3, <1>4, <2>1, <3>1 DEF RequestsTell, s
    <3> QED
      BY <1>8, <2>1, <3>1, <3>2 DEF path
  <2>2. CASE q # r
    <3>1. req'[q] = req[q] /\ req[q] # NoReq
      BY <1>4, <2>2
    <3>2. <<"up", req[q].sha>> # path /\ <<"up", req[q].sha>> \in Paths
      BY <1>5, <1>6, <2>2, <3>1
    <3> QED
      BY <1>7, <3>1, <3>2 DEF RequestsTell
  <2> QED
    BY <2>1, <2>2
<1>10. AudioTells(f)'
  <2> SUFFICES ASSUME NEW p \in audio', p[2][1] = f
               PROVE  p[1] = "up" /\ side'[p] = CallIs(f)
    BY <1>2 DEF AudioTells
  <2>1. CASE p = path
    BY <1>1, <1>8, <2>1
  <2>2. CASE p # path
    <3>1. p \in audio /\ p \in Paths
      BY <1>7, <2>2 DEF Inv, DiskInv
    <3> QED
      BY <1>7, <2>2, <3>1 DEF AudioTells
  <2> QED
    BY <2>1, <2>2
<1> QED
  BY <1>9, <1>10

LEMMA DiskTellsStill ==
  ASSUME NEW f \in Files, RequestsTell(f), AudioTells(f), UNCHANGED <<world, req, audio, side>>
  PROVE  RequestsTell(f)' /\ AudioTells(f)'
BY DEF RequestsTell, AudioTells, CallIs, number

LEMMA UploadTells ==
  ASSUME Inv, NEW f \in Files, RowsTell(f), RequestsTell(f), AudioTells(f), KnownByCall(f),
         NEW s \in Hashes, upload(s)
  PROVE  RequestsTell(f)' /\ AudioTells(f)'
<1>1. UNCHANGED <<world, audio, side>> /\ work[s].pc = "upload"
  BY DEF upload, world_vars, disk_vars
<1>2. row[s] # NoRow /\ CallIs(f)' = CallIs(f)
  BY <1>1, RunningHasRow, RecordingsAssumption DEF HasRow, CallIs, number, Inv
<1>3. CASE UNCHANGED req
  BY <1>1, <1>3, DiskTellsStill
<1>4. ASSUME NEW r \in Requests, NEW new,
             new.sha = s, new.call = row[s].call, new.st = "meta", new.wanted,
             req' = [req EXCEPT ![r] = new]
      PROVE  RequestsTell(f)' /\ AudioTells(f)'
  <2>1. req'[r] = new /\ \A q \in Requests : q # r => req'[q] = req[q]
    BY <1>4 DEF Inv, WaitInv
  <2>2. s[1] = f => new.call = CallIs(f)
    BY <1>2, <1>4 DEF RowsTell
  <2>3. RequestsTell(f)'
    BY <1>1, <1>2, <1>4, <2>1, <2>2 DEF RequestsTell
  <2> QED
    BY <1>1, <1>2, <2>3 DEF AudioTells
<1>5. ASSUME NEW r \in Requests,
             req' = [req EXCEPT ![r] = [sha |-> s, body |-> <<s[1], file[s[1]].v>>,
                                        call |-> row[s].call, auth |-> token = "works",
                                        st |-> "meta", code |-> 0, wanted |-> TRUE]]
      PROVE  RequestsTell(f)' /\ AudioTells(f)'
  <2> DEFINE new == [sha |-> s, body |-> <<s[1], file[s[1]].v>>, call |-> row[s].call,
                     auth |-> token = "works", st |-> "meta", code |-> 0, wanted |-> TRUE]
  <2>1. /\ new.sha = s /\ new.call = row[s].call /\ new.st = "meta" /\ new.wanted
        /\ req' = [req EXCEPT ![r] = new]
    BY <1>5
  <2> HIDE DEF new
  <2> QED
    BY <1>4, <2>1
<1> QED
  BY <1>3, <1>5 DEF upload

LEMMA ToldKept ==
  ASSUME Inv, [Next]_vars, faults \in Nat, NEW f \in Files, Told(f), KnownByCall(f),
         UNCHANGED <<device, faults>>
  PROVE  Told(f)'
<1> USE DEF Told
<1>1. UNCHANGED world /\ CallIs(f)' = CallIs(f)
  BY WorldStays DEF CallIs, number
<1>2. ASSUME NEW g \in Files, Outside(g) \/ scan(g)
      PROVE  RequestsTell(f)' /\ AudioTells(f)'
  <2>1. CASE UNCHANGED <<req, audio, side>>
    BY <1>1, <2>1, DiskTellsStill
  <2>2. CASE Syncthing(g)
    <3> DEFINE copy == <<"sync", <<g, file[g].v>>>>
    <3>1. /\ UNCHANGED <<req, side>> /\ audio' = audio \union {copy} /\ g # f
          /\ copy[1] = "sync" /\ copy[2][1] = g
      BY <2>2 DEF Syncthing, KnownByCall
    <3> HIDE DEF copy
    <3>2. \A s \in Hashes : <<"up", s>> # copy
      BY <3>1
    <3>3. RequestsTell(f)'
      BY <1>1, <3>1, <3>2, RequestIs DEF RequestsTell, Inv
    <3>4. AudioTells(f)'
      BY <1>1, <3>1 DEF AudioTells
    <3> QED
      BY <3>3, <3>4
  <2> QED
    BY <1>2, <2>1, <2>2 DEF Outside, Finish, Rewrite, scan, disk_vars
<1>3. ASSUME NEW s \in Hashes, Phone(s) \/ purgeOldDone(s)
      PROVE  RequestsTell(f)' /\ AudioTells(f)'
  <2>1. CASE UNCHANGED <<req, audio, side>>
    BY <1>1, <2>1, DiskTellsStill
  <2> QED
    BY <1>3, <2>1, UploadTells DEF Phone, scheduleUpload, doWork, probe, purgeOldDone, disk_vars
<1>4. ASSUME NEW r \in Requests, Server(r)
      PROVE  RequestsTell(f)' /\ AudioTells(f)'
  BY <1>1, <1>4, ServerTells
<1>5. ASSUME NEW r \in Requests, outcome(r)
      PROVE  RequestsTell(f)' /\ AudioTells(f)'
  <2>1. UNCHANGED <<audio, side>> /\ req' = [req EXCEPT ![r] = NoReq]
    BY <1>5 DEF outcome, disk_vars
  <2>2. \A q \in Requests : req'[q] = NoReq \/ req'[q] = req[q]
    BY <2>1 DEF Inv, WaitInv
  <2> QED
    BY <1>1, <2>1, <2>2 DEF RequestsTell, AudioTells
<1>6. ASSUME NEW p \in Paths, ingest_recording(p) \/ purge_old_audio(p)
      PROVE  RequestsTell(f)' /\ AudioTells(f)'
  <2>1. CASE UNCHANGED <<req, audio, side>>
    BY <1>1, <2>1, DiskTellsStill
  <2>2. CASE purge_old_audio(p)
    <3>1. /\ UNCHANGED req /\ p \in audio /\ audio' = audio \ {p}
          /\ \A q \in Paths : q # p => side'[q] = side[q]
      BY <2>2 DEF purge_old_audio, Inv, DiskInv
    <3>2. \A r \in Requests : req[r] # NoReq => <<"up", req[r].sha>> \in Paths
      BY RequestIs, PathIs DEF Inv
    <3>3. RequestsTell(f)'
      BY <1>1, <3>1, <3>2 DEF RequestsTell
    <3>4. AudioTells(f)'
      BY <1>1, <3>1 DEF AudioTells, Inv, DiskInv
    <3> QED
      BY <3>3, <3>4
  <2> QED
    BY <1>6, <2>1, <2>2 DEF ingest_recording
<1>7. ASSUME DrainWorker \/ retryAll \/ saveServer \/ UNCHANGED vars
      PROVE  RequestsTell(f)' /\ AudioTells(f)'
  BY <1>1, <1>7, DiskTellsStill DEF DrainWorker, retryAll, saveServer, disk_vars, vars
<1>8. ~Reinstall
  BY DEF Reinstall, Inv, RowInv
<1>9. ~Faults
  <2>1. ~Fault
    BY DEF Fault
  <2> QED
    BY <2>1 DEF Faults, ConnectionLost, ServerDies, ScanStops, PhoneDies
<1>10. RequestsTell(f)' /\ AudioTells(f)'
  BY <1>2, <1>3, <1>4, <1>5, <1>6, <1>7, <1>8, <1>9 DEF Next
<1> QED
  BY <1>10, RowsTellKept, InteractionsTellKept

ToldInv == faults \in Nat /\ \A f \in Files : KnownByCall(f) => Told(f)

LEMMA FaultsCount ==
  ASSUME RowInv, faults \in Nat, [Next]_vars
  PROVE  /\ faults' \in Nat /\ (faults' = 0 => faults = 0)
         /\ device' \in Nat /\ (device' = 0 => device = 0)
<1>1. faults' = faults \/ faults' = faults + 1
  BY DEF Next, Outside, Finish, Rewrite, Syncthing, scan, Phone, scheduleUpload, doWork, probe,
         upload, purgeOldDone, Server, upload_recording, publish_sidecar, publish_audio,
         disconnected, outcome, ingest_recording, purge_old_audio, DrainWorker, retryAll,
         saveServer, Reinstall, Faults, Fault, ConnectionLost, ServerDies, ScanStops, PhoneDies,
         vars
<1>2. device' = device \/ device' = device + 1
  BY DEF Next, Outside, Finish, Rewrite, Syncthing, scan, Phone, scheduleUpload, doWork, probe,
         upload, purgeOldDone, Server, upload_recording, publish_sidecar, publish_audio,
         disconnected, outcome, ingest_recording, purge_old_audio, DrainWorker, retryAll,
         saveServer, Reinstall, Faults, ConnectionLost, ServerDies, ScanStops, PhoneDies,
         vars, phone_vars
<1>3. device \in Nat
  BY DEF RowInv
<1> QED
  BY <1>1, <1>2, <1>3

LEMMA ToldInvKept ==
  ASSUME Inv, ToldInv, [Next]_vars
  PROVE  ToldInv'
<1>1. /\ faults \in Nat /\ faults' \in Nat /\ (faults' = 0 => faults = 0)
      /\ (device' = 0 => device = 0)
  BY FaultsCount DEF Inv, ToldInv
<1>2. ASSUME NEW f \in Files, KnownByCall(f)'
      PROVE  Told(f)'
  <2>1. KnownByCall(f) /\ UNCHANGED <<device, faults>>
    BY <1>1, <1>2, WorldStays DEF KnownByCall, number
  <2> QED
    BY <1>1, <2>1, ToldKept DEF ToldInv
<1> QED
  BY <1>1, <1>2 DEF ToldInv

LEMMA InitTold == Init => ApartInv /\ SeenInv /\ ToldInv
<1> SUFFICES ASSUME Init PROVE ApartInv /\ SeenInv /\ ToldInv
  OBVIOUS
<1>1. /\ row = [s \in Hashes |-> NoRow] /\ req = [r \in Requests |-> NoReq]
      /\ audio = {} /\ inter = <<>> /\ faults = 0
  BY DEF Init
<1> QED
  BY <1>1 DEF ApartInv, SeenInv, ToldInv, Told, RowsTell, RequestsTell, AudioTells,
              InteractionsTell

LEMMA OnceTold ==
  ASSUME Inv, ApartInv, SeenInv, ToldInv
  PROVE  ConversationOnce
<1> SUFFICES ASSUME NEW f \in Files, file[f].v = 1 \/ KnownByCall(f),
                    NEW i \in of(f), NEW j \in of(f)
             PROVE  i = j
  BY DEF ConversationOnce
<1>1. /\ i \in DOMAIN inter /\ j \in DOMAIN inter
      /\ inter[i].sha \in Hashes /\ inter[i].sha[1] = f
      /\ inter[j].sha \in Hashes /\ inter[j].sha[1] = f
  <2>1. \A k \in of(f) : k \in DOMAIN inter /\ inter[k].sha[1] = f
    BY DEF of
  <2>2. \A k \in DOMAIN inter : inter[k].sha \in Hashes
    <3> SUFFICES ASSUME NEW k \in DOMAIN inter PROVE inter[k].sha \in Hashes
      OBVIOUS
    <3>1. inter[k] \in Interactions
      BY DEF Inv, DiskInv
    <3> QED
      BY <3>1 DEF Interactions
  <2> QED
    BY <2>1, <2>2
<1>2. CASE file[f].v = 1
  <2>1. inter[i].sha = <<f, inter[i].sha[2]>> /\ inter[j].sha = <<f, inter[j].sha[2]>>
    BY <1>1, HashIs
  <2>2. \A s \in Hashes : s[2] \in Nat /\ s[2] >= 1
    BY HashIs, RecordingsAssumption DEF Versions
  <2>3. inter[i].sha[2] <= 1 /\ inter[j].sha[2] <= 1
    BY <1>1, <1>2 DEF SeenInv, Seen
  <2>4. inter[i].sha[2] = 1 /\ inter[j].sha[2] = 1
    BY <1>1, <2>2, <2>3
  <2> QED
    BY <1>1, <2>1, <2>4 DEF ApartInv
<1>3. CASE KnownByCall(f)
  <2>1. inter[i].call = CallIs(f) /\ inter[j].call = CallIs(f)
    BY <1>1, <1>3 DEF ToldInv, Told, InteractionsTell
  <2>2. inter[i].moment = inter[j].moment
    BY <1>1 DEF SeenInv
  <2>3. CallIs(f) # NoCall
    <3>1. number[f].id \in Nat
      BY WorldIs DEF Inv
    <3>2. CallIs(f) \in CallIds
      BY <3>1 DEF CallIs, CallIds
    <3> QED
      BY <3>2, RecordingsAssumption
  <2> QED
    BY <1>1, <2>1, <2>2, <2>3 DEF ApartInv
<1> QED
  BY <1>2, <1>3

(* ConversationOnce: bytes that never change become one interaction,       *)
(* whatever fails and whoever brings them; bytes that change do so when    *)
(* the call log names their call, only this app's first installation sends *)
(* them and nothing fails, because every version then reaches the sweep    *)
(* with its call beside it.                                                *)
THEOREM OneInteractionEach == Spec => []ConversationOnce
<1>1. Init => ApartInv /\ SeenInv /\ ToldInv
  BY InitTold
<1>2. Inv /\ ApartInv /\ SeenInv /\ ToldInv /\ [Next]_vars => (ApartInv /\ SeenInv /\ ToldInv)'
  BY ApartKept, SeenKept, ToldInvKept
<1>3. Inv /\ ApartInv /\ SeenInv /\ ToldInv => ConversationOnce
  BY OnceTold
<1> QED
  BY <1>1, <1>2, <1>3, Invariance, PTL DEF Spec

-----------------------------------------------------------------------------
(* Custody.  From here on no two recordings are of the same row of the     *)
(* call log: the code tells calls apart by that row's id alone, and the    *)
(* run MCRecordingsReused shows what happens where the ids start again.    *)

LEMMA CallTells ==
  ASSUME CallsAreTold, FolderInv, NEW f \in Files, NEW g \in Files, NEW call,
         call # NoCall, CallOf(call, f), CallOf(call, g)
  PROVE  f = g
<1>1. world \in Worlds /\ number[f].id # 0 /\ number[f].id = number[g].id
  BY DEF CallOf, FolderInv
<1> QED
  BY <1>1 DEF CallsAreTold, number

(* What the server knows of a file, it holds.                              *)
LEMMA KnownIsHeld ==
  ASSUME Inv, HeldInv, NEW i \in DOMAIN inter
  PROVE  Held(inter[i].sha[1])
<1>1. CASE inter[i].heard
  BY <1>1 DEF Held
<1>2. CASE ~inter[i].heard
  <2>1. PICK p \in audio : owner[p] = i
    BY <1>2 DEF Inv, DiskInv
  <2>2. p \in Paths /\ owner[p] # 0
    BY <2>1 DEF Inv, DiskInv
  <2>3. p[2][1] = inter[i].sha[1]
    BY <2>1, <2>2 DEF HeldInv
  <2> QED
    BY <2>1, <2>3 DEF Held
<1> QED
  BY <1>1, <1>2

LEMMA FoundIsOfItsFile ==
  ASSUME CallsAreTold, Inv, NEW s \in Hashes, NEW call, CallOf(call, s[1]),
         NEW i \in DOMAIN inter,
         inter[i].sha = s \/ (call # NoCall /\ inter[i].call = call)
  PROVE  inter[i].sha[1] = s[1]
<1>1. CASE inter[i].sha = s
  BY <1>1
<1>2. CASE call # NoCall /\ inter[i].call = call
  <2>1. inter[i] \in Interactions /\ CallOf(inter[i].call, inter[i].sha[1])
    BY DEF Inv, DiskInv
  <2>2. inter[i].sha \in Hashes /\ CallOf(call, inter[i].sha[1])
    BY <1>2, <2>1 DEF Interactions
  <2> QED
    BY <1>2, <2>2, CallTells, HashIs DEF Inv
<1> QED
  BY <1>1, <1>2

(* What a step does to the folder, the rows and the disk at once: it hands *)
(* a file over, or leaves the disk alone and hands nothing over, or leaves *)
(* the folder and the rows alone.                                          *)
Done(s) == row[s] # NoRow /\ row[s].st = "DONE"

Taken(r) == req[r] # NoReq /\ req[r].st = "answered" /\ req[r].code \in {200, 202}

HandsOver(s) ==
  /\ markDone(s) /\ HasRow(s)
  /\ \/ known_sha(s) \/ known_call(s)
     \/ \E r \in Requests : Taken(r) /\ req[r].sha = s

HandsNothing ==
  /\ \A f \in Files : file'[f].at = "deleted" => file[f].at = "deleted"
  /\ \A s \in Hashes : Done(s)' => Done(s)

DiskStep ==
  \/ \E f \in Files : Syncthing(f)
  \/ \E r \in Requests : Server(r)
  \/ \E p \in Paths : ingest_recording(p) \/ purge_old_audio(p)

LEMMA RetryHandsNothing ==
  ASSUME RowInv, NEW S, \A s \in S : s \in Hashes /\ HasRow(s), Retry(S), UNCHANGED file
  PROVE  HandsNothing
<1>1. ASSUME NEW s \in Hashes, s \notin S
      PROVE  row'[s] = row[s]
  BY <1>1 DEF Retry
<1>2. ASSUME NEW s \in Hashes, s \in S
      PROVE  row'[s].st # "DONE"
  <2>1. PICK st \in {"FAILED_PERMANENT", "PENDING"} : row'[s] = [row[s] EXCEPT !.st = st]
    BY <1>2 DEF Retry
  <2> QED
    BY <1>2, <2>1 DEF HasRow, RowRecords
<1> QED
  BY <1>1, <1>2 DEF HandsNothing, Done

LEMMA MarkHandsNothing ==
  ASSUME RowInv, NEW s \in Hashes, HasRow(s), NEW st, st # "DONE", Marks(s, st), UNCHANGED file
  PROVE  HandsNothing
<1>1. /\ row'[s].st # "DONE" /\ \A q \in Hashes : q # s => row'[q] = row[q]
  BY DEF Marks, RowInv, HasRow, RowRecords
<1> QED
  BY <1>1 DEF HandsNothing, Done

LEMMA ScanHandsNothing ==
  ASSUME FolderInv, RowInv, NEW f \in Files, scan(f)
  PROVE  HandsNothing
<1> DEFINE s == <<f, file[f].v>>
<1>1. /\ s \in Hashes /\ UNCHANGED file
      /\ \/ row' = [row EXCEPT ![s] = buildRow(f)]
         \/ row[s] # NoRow /\ row' = [row EXCEPT ![s].size = file[f].size, ![s].stamp = file[f].v]
  BY FileIs DEF scan, world_vars
<1>2. row \in [Hashes -> RowRecords \union {NoRow}]
  BY DEF RowInv
<1> HIDE DEF s
<1>3. \A q \in Hashes : q # s => row'[q] = row[q]
  BY <1>1, <1>2
<1>4. row'[s] # NoRow /\ row'[s].st = "DONE" => Done(s)
  <2>1. CASE row' = [row EXCEPT ![s] = buildRow(f)]
    <3>1. row'[s] = buildRow(f)
      BY <1>1, <1>2, <2>1
    <3>2. buildRow(f).st # "DONE"
      BY DEF buildRow
    <3> QED
      BY <3>1, <3>2 DEF Done
  <2>2. CASE row[s] # NoRow /\ row' = [row EXCEPT ![s].size = file[f].size, ![s].stamp = file[f].v]
    <3>1. row[s] \in RowRecords
      BY <1>1, <1>2, <2>2
    <3>2. row'[s].st = row[s].st
      BY <1>1, <1>2, <2>2, <3>1 DEF RowRecords
    <3> QED
      BY <2>2, <3>2 DEF Done
  <2> QED
    BY <1>1, <2>1, <2>2
<1>5. \A q \in Hashes : Done(q)' => Done(q)
  BY <1>3, <1>4 DEF Done
<1> QED
  BY <1>1, <1>5 DEF HandsNothing

LEMMA OutcomeHands ==
  ASSUME Inv, NEW r \in Requests, outcome(r)
  PROVE  HandsNothing \/ HandsOver(req[r].sha)
<1> DEFINE s == req[r].sha
           f == s[1]
           fresh == <<f, file[f].v>>
<1>1. s \in Hashes /\ HasRow(s) /\ req[r] # NoReq /\ req[r].st = "answered"
  <2>1. req[r] # NoReq /\ req[r].st = "answered" /\ waiting(r)
    BY DEF outcome, waiting
  <2>2. s \in Hashes /\ work[s].pc = "sent"
    BY <2>1, RequestIs DEF Inv, WaitInv
  <2> QED
    BY <2>1, <2>2, RunningHasRow DEF Inv
<1>2. CASE req[r].code \in {200, 202} /\ markDone(s)
  BY <1>1, <1>2 DEF HandsOver, Taken
<1>3. CASE (\E st \in RowStates \ {"DONE"} : Marks(s, st)) /\ UNCHANGED file
  <2> HIDE DEF s
  <2> QED
    BY <1>1, <1>3, MarkHandsNothing DEF Inv
<1>4. CASE Retry({s}) /\ UNCHANGED file
  <2> HIDE DEF s
  <2> QED
    BY <1>1, <1>4, RetryHandsNothing DEF Inv
<1>5. CASE /\ UNCHANGED file
           /\ LET replacement == [row[s] EXCEPT !.st = "PENDING", !.att = @ + 1,
                                                !.hashRetried = TRUE, !.size = file[f].size] IN
                row' = [row EXCEPT ![s] = NoRow,
                                   ![fresh] = IF @ = NoRow THEN replacement ELSE @]
  <2> DEFINE new == [row[s] EXCEPT !.st = "PENDING", !.att = @ + 1, !.hashRetried = TRUE,
                                   !.size = file[f].size]
  <2>1. new.st = "PENDING" /\ fresh \in Hashes /\ row \in [Hashes -> RowRecords \union {NoRow}]
    <3>1. new.st = "PENDING"
      BY <1>1 DEF HasRow, RowRecords
    <3>2. f \in Files
      BY <1>1, HashIs
    <3> QED
      BY <3>1, <3>2, FileIs DEF Inv, RowInv
  <2>2. row' = [row EXCEPT ![s] = NoRow, ![fresh] = IF @ = NoRow THEN new ELSE @]
    BY <1>5
  <2>3. new.st # "DONE"
    BY <2>1
  <2> HIDE DEF new, s, fresh
  <2>4. \A q \in Hashes : row'[q] = row[q] \/ row'[q] = NoRow \/ row'[q] = new
    BY <1>1, <2>1, <2>2
  <2> QED
    BY <1>5, <2>3, <2>4 DEF HandsNothing, Done
<1>6. \/ req[r].code \in {200, 202} /\ markDone(s)
      \/ (\E st \in RowStates \ {"DONE"} : Marks(s, st)) /\ UNCHANGED file
      \/ Retry({s}) /\ UNCHANGED file
      \/ /\ UNCHANGED file
         /\ LET replacement == [row[s] EXCEPT !.st = "PENDING", !.att = @ + 1,
                                              !.hashRetried = TRUE, !.size = file[f].size] IN
              row' = [row EXCEPT ![s] = NoRow,
                                 ![fresh] = IF @ = NoRow THEN replacement ELSE @]
  BY DEF outcome, RowStates
<1> QED
  BY <1>2, <1>3, <1>4, <1>5, <1>6

LEMMA StepsHand ==
  ASSUME Inv, [Next]_vars
  PROVE  \/ DiskStep /\ UNCHANGED <<file, row>>
         \/ HandsNothing /\ UNCHANGED disk_vars
         \/ \E s \in Hashes : HandsOver(s) /\ UNCHANGED disk_vars
<1> USE DEF Inv
<1>1. ASSUME UNCHANGED <<file, row>>
      PROVE  HandsNothing
  BY <1>1 DEF HandsNothing, Done
<1>2. ASSUME DiskStep
      PROVE  UNCHANGED <<file, row>>
  BY <1>2 DEF DiskStep, Syncthing, Server, upload_recording, publish_sidecar, publish_audio,
              disconnected, ingest_recording, purge_old_audio, world_vars, phone_vars
<1>3. ASSUME NEW f \in Files, Finish(f) \/ Rewrite(f)
      PROVE  HandsNothing /\ UNCHANGED disk_vars
  <2>1. /\ UNCHANGED <<row, disk_vars>> /\ file[f].at \in {"none", "phone"}
        /\ \A g \in Files : g # f => file'[g] = file[g]
    BY <1>3 DEF Finish, Rewrite, phone_vars, FolderInv
  <2>2. file'[f].at = "phone"
    <3>1. file[f] \in FileRecords /\ file \in [Files -> FileRecords]
      BY DEF FolderInv
    <3>2. CASE Finish(f)
      BY <3>1, <3>2 DEF Finish, FileRecords
    <3>3. CASE Rewrite(f)
      <4>1. PICK longer \in {0, 1} :
              file' = [file EXCEPT ![f].v = file[f].v + 1, ![f].size = file[f].size + longer]
        BY <3>3 DEF Rewrite
      <4> QED
        BY <3>1, <3>3, <4>1 DEF Rewrite, FileRecords
    <3> QED
      BY <1>3, <3>2, <3>3
  <2> QED
    BY <2>1, <2>2 DEF HandsNothing, Done
<1>4. ASSUME NEW f \in Files, scan(f)
      PROVE  HandsNothing /\ UNCHANGED disk_vars
  BY <1>4, ScanHandsNothing DEF scan
<1>5. ASSUME NEW s \in Hashes, doWork(s)
      PROVE  HandsNothing /\ UNCHANGED disk_vars
  <2>1. UNCHANGED <<file, disk_vars>>
    BY <1>5 DEF doWork, world_vars
  <2>2. CASE UNCHANGED row
    BY <1>1, <2>1, <2>2
  <2>3. CASE to_upload(s) /\ Marks(s, "FAILED_PRECONDITION")
    <3>1. HasRow(s)
      BY <2>3 DEF to_upload, in_state, RowInv, HasRow
    <3> QED
      BY <2>1, <2>3, <3>1, MarkHandsNothing
  <2>4. CASE to_upload(s) /\ row' = [row EXCEPT ![s].st = "UPLOADING", ![s].att = work[s].n + 1]
    <3>1. row[s] \in RowRecords /\ row \in [Hashes -> RowRecords \union {NoRow}]
      BY <2>4 DEF to_upload, in_state, RowInv
    <3>2. row'[s].st = "UPLOADING" /\ \A q \in Hashes : q # s => row'[q] = row[q]
      BY <2>4, <3>1 DEF RowRecords
    <3> QED
      BY <2>1, <3>2 DEF HandsNothing, Done
  <2> QED
    BY <1>5, <2>2, <2>3, <2>4 DEF doWork
<1>6. ASSUME NEW s \in Hashes, probe(s)
      PROVE  UNCHANGED disk_vars /\ (HandsNothing \/ HandsOver(s))
  <2>1. UNCHANGED disk_vars /\ HasRow(s)
    BY <1>6, RunningHasRow DEF probe
  <2>2. CASE (known_sha(s) \/ known_call(s)) /\ markDone(s)
    BY <2>1, <2>2 DEF HandsOver
  <2>3. CASE UNCHANGED <<row, file>>
    BY <1>1, <2>1, <2>3
  <2> QED
    BY <1>6, <2>2, <2>3 DEF probe
<1>7. ASSUME NEW s \in Hashes, upload(s)
      PROVE  HandsNothing /\ UNCHANGED disk_vars
  <2>1. UNCHANGED <<file, disk_vars>> /\ HasRow(s)
    BY <1>7, RunningHasRow DEF upload, world_vars
  <2>2. CASE Retry({s})
    BY <2>1, <2>2, RetryHandsNothing
  <2>3. CASE Marks(s, "FAILED_PERMANENT")
    BY <2>1, <2>3, MarkHandsNothing
  <2>4. CASE UNCHANGED row
    BY <1>1, <2>1, <2>4
  <2> QED
    BY <1>7, <2>2, <2>3, <2>4 DEF upload
<1>8. ASSUME NEW s \in Hashes, scheduleUpload(s) \/ purgeOldDone(s)
      PROVE  HandsNothing /\ UNCHANGED disk_vars
  <2>1. UNCHANGED <<file, disk_vars>> /\ \A q \in Hashes : row'[q] = row[q] \/ row'[q] = NoRow
    BY <1>8 DEF scheduleUpload, purgeOldDone, world_vars, RowInv
  <2> QED
    BY <2>1 DEF HandsNothing, Done
<1>9. ASSUME NEW r \in Requests, outcome(r)
      PROVE  UNCHANGED disk_vars /\ (HandsNothing \/ (req[r].sha \in Hashes /\ HandsOver(req[r].sha)))
  <2>1. req[r].sha \in Hashes
    BY <1>9, RequestIs DEF outcome
  <2> QED
    BY <1>9, <2>1, OutcomeHands DEF outcome
<1>10. ASSUME NEW r \in Requests, ConnectionLost(r)
       PROVE  HandsNothing /\ UNCHANGED disk_vars
  <2>1. UNCHANGED <<file, disk_vars>> /\ Retry({req[r].sha}) /\ waiting(r)
    BY <1>10 DEF ConnectionLost, world_vars
  <2>2. req[r].sha \in Hashes /\ work[req[r].sha].pc = "sent"
    BY <2>1, RequestIs DEF WaitInv, waiting
  <2>3. \A s \in {req[r].sha} : s \in Hashes /\ HasRow(s)
    BY <2>2, RunningHasRow
  <2> QED
    BY <2>1, <2>3, RetryHandsNothing
<1>11. CASE ServerDies
  <2> DEFINE S == {req[r].sha : r \in {q \in Requests : waiting(q)}}
  <2>1. UNCHANGED <<file, disk_vars>> /\ Retry(S)
    BY <1>11 DEF ServerDies, world_vars
  <2>2. \A s \in S : s \in Hashes /\ work[s].pc = "sent"
    BY RequestIs DEF WaitInv, waiting
  <2>3. \A s \in S : s \in Hashes /\ HasRow(s)
    BY <2>2, RunningHasRow
  <2> HIDE DEF S
  <2> QED
    BY <2>1, <2>3, RetryHandsNothing
<1>12. CASE ScanStops \/ PhoneDies \/ DrainWorker \/ UNCHANGED vars
  <2>1. UNCHANGED <<file, row, disk_vars>>
    BY <1>12 DEF ScanStops, PhoneDies, DrainWorker, vars, world_vars, phone_vars
  <2> QED
    BY <1>1, <2>1
<1>13. CASE retryAll \/ saveServer
  <2>1. /\ UNCHANGED <<file, disk_vars>>
        /\ row' = [s \in Hashes |->
                     IF s \in in_state({"FAILED_PERMANENT", "FAILED_PRECONDITION", "UPLOADING"})
                     THEN [row[s] EXCEPT !.st = "PENDING"] ELSE row[s]]
    BY <1>13 DEF retryAll, saveServer, requeueAllFailed, world_vars
  <2>2. ASSUME NEW s \in Hashes, s \in in_state({"FAILED_PERMANENT", "FAILED_PRECONDITION", "UPLOADING"})
        PROVE  row'[s].st # "DONE"
    BY <2>1, <2>2 DEF in_state, RowInv, RowRecords
  <2>3. \A s \in Hashes : Done(s)' => Done(s)
    BY <2>1, <2>2 DEF Done
  <2> QED
    BY <2>1, <2>3 DEF HandsNothing
<1>14. CASE Reinstall
  <2>1. UNCHANGED <<file, disk_vars>> /\ \A s \in Hashes : row'[s] = NoRow
    BY <1>14 DEF Reinstall, world_vars
  <2> QED
    BY <2>1 DEF HandsNothing, Done
<1> QED
  BY <1>2, <1>3, <1>4, <1>5, <1>6, <1>7, <1>8, <1>9, <1>10, <1>11, <1>12, <1>13, <1>14
     DEF Next, Outside, Phone, Faults, DiskStep

(* What the server holds it keeps: retention removes only audio whose      *)
(* interaction has been heard.                                             *)
LEMMA HeldStays ==
  ASSUME Inv, HeldInv, [Next]_vars, NEW f, Held(f)
  PROVE  Held(f)'
<1>1. CASE UNCHANGED disk_vars
  BY <1>1 DEF Held, disk_vars
<1>2. CASE audio \subseteq audio' /\ UNCHANGED inter
  BY <1>2 DEF Held
<1>3. ASSUME NEW p \in Paths, ingest_recording(p)
      PROVE  Held(f)'
  <2>1. \A i \in DOMAIN inter : i \in DOMAIN inter' /\ inter'[i] = inter[i]
    <3>1. CASE inter' = inter
      BY <3>1
    <3>2. ASSUME NEW heard \in BOOLEAN, Begins(p, heard)
          PROVE  \A i \in DOMAIN inter : i \in DOMAIN inter' /\ inter'[i] = inter[i]
      <4> DEFINE new == NewInteraction(p, heard)
      <4>1. new \in Interactions /\ inter' = Append(inter, new) /\ inter \in Seq(Interactions)
        BY <3>2, NewInteractionIs DEF Begins, Inv, DiskInv
      <4> HIDE DEF new
      <4> QED
        BY <4>1, Appended
    <3> QED
      BY <1>3, <3>1, <3>2, SweepIs DEF Joins
  <2>2. audio' = audio
    BY <1>3, SweepIs
  <2> QED
    BY <2>1, <2>2 DEF Held
<1>4. ASSUME NEW p \in Paths, purge_old_audio(p)
      PROVE  Held(f)'
  <2>1. /\ audio' = audio \ {p} /\ UNCHANGED inter
        /\ owner[p] # 0 /\ inter[owner[p]].heard
    BY <1>4 DEF purge_old_audio, protected_audio_paths
  <2>2. owner[p] \in DOMAIN inter /\ inter[owner[p]].sha[1] = p[2][1]
    BY <2>1 DEF Inv, DiskInv, HeldInv
  <2>3. CASE p[2][1] = f
    BY <2>1, <2>2, <2>3 DEF Held
  <2>4. CASE p[2][1] # f
    BY <2>1, <2>4 DEF Held
  <2> QED
    BY <2>3, <2>4
<1>5. ASSUME NEW r \in Requests, Server(r)
      PROVE  audio \subseteq audio' /\ UNCHANGED inter
  BY <1>5 DEF Server, upload_recording, publish_sidecar, publish_audio, disconnected, disk_vars
<1>6. ASSUME NEW g \in Files, Syncthing(g)
      PROVE  audio \subseteq audio' /\ UNCHANGED inter
  BY <1>6 DEF Syncthing
<1> QED
  BY <1>1, <1>2, <1>3, <1>4, <1>5, <1>6, StepsHand DEF DiskStep

(* A file is handed over only when the server holds it.                    *)
LEMMA HandedIsHeld ==
  ASSUME CallsAreTold, Inv, HeldInv, NEW s \in Hashes, HandsOver(s)
  PROVE  Held(s[1])
<1>1. CASE known_sha(s)
  <2>1. CASE <<"up", s>> \in audio
    BY <2>1 DEF Held
  <2>2. CASE \E i \in DOMAIN inter : inter[i].sha = s
    BY <2>2, KnownIsHeld
  <2> QED
    BY <1>1, <2>1, <2>2 DEF known_sha
<1>2. CASE known_call(s)
  <2>1. PICK i \in DOMAIN inter : row[s].call # NoCall /\ inter[i].call = row[s].call
    BY <1>2 DEF known_call
  <2>2. inter[i].sha[1] = s[1]
    BY <2>1, FoundIsOfItsFile DEF HandsOver, HasRow
  <2> QED
    BY <2>2, KnownIsHeld
<1>3. CASE \E r \in Requests : Taken(r) /\ req[r].sha = s
  BY <1>3 DEF HeldInv, Taken
<1> QED
  BY <1>1, <1>2, <1>3 DEF HandsOver

LEMMA OwnersKept ==
  ASSUME CallsAreTold, Inv, HeldInv, [Next]_vars
  PROVE  \A p \in Paths : owner'[p] # 0 => inter'[owner'[p]].sha[1] = p[2][1]
<1>1. CASE UNCHANGED <<owner, inter>>
  BY <1>1 DEF HeldInv
<1>2. ASSUME NEW p \in Paths, NEW i \in DOMAIN inter, Joins(p, i)
      PROVE  \A q \in Paths : owner'[q] # 0 => inter'[owner'[q]].sha[1] = q[2][1]
  <2>1. /\ owner' = [owner EXCEPT ![p] = i] /\ inter' = inter
        /\ \/ inter[i].sha = p[2]
           \/ read_sidecar(p) # NoCall /\ inter[i].call = read_sidecar(p)
    BY <1>2 DEF Joins, find_ingested, same_call
  <2>2. p[2] \in Hashes /\ CallOf(read_sidecar(p), p[2][1])
    BY PathIs, SidecarIs DEF Inv
  <2>3. inter[i].sha[1] = p[2][1]
    BY <2>1, <2>2, FoundIsOfItsFile
  <2> QED
    BY <2>1, <2>3 DEF HeldInv, Inv, DiskInv
<1>3. ASSUME NEW p \in Paths, NEW heard \in BOOLEAN, Begins(p, heard)
      PROVE  \A q \in Paths : owner'[q] # 0 => inter'[owner'[q]].sha[1] = q[2][1]
  <2> DEFINE new == NewInteraction(p, heard)
  <2>1. /\ new \in Interactions /\ new.sha = p[2] /\ inter \in Seq(Interactions)
        /\ inter' = Append(inter, new) /\ owner' = [owner EXCEPT ![p] = Len(inter) + 1]
        /\ owner \in [Paths -> Nat]
    BY <1>3, NewInteractionIs DEF Begins, Inv, DiskInv
  <2> HIDE DEF new
  <2>2. inter'[Len(inter) + 1] = new /\ \A i \in DOMAIN inter : inter'[i] = inter[i]
    BY <2>1, Appended
  <2>3. \A q \in Paths : owner[q] # 0 => owner[q] \in DOMAIN inter
    BY DEF Inv, DiskInv
  <2>4. owner'[p] = Len(inter) + 1 /\ \A q \in Paths : q # p => owner'[q] = owner[q]
    BY <2>1
  <2> SUFFICES ASSUME NEW q \in Paths, owner'[q] # 0
               PROVE  inter'[owner'[q]].sha[1] = q[2][1]
    OBVIOUS
  <2>5. CASE q = p
    BY <2>1, <2>2, <2>4, <2>5
  <2>6. CASE q # p
    BY <2>2, <2>3, <2>4, <2>6 DEF HeldInv
  <2> QED
    BY <2>5, <2>6
<1>4. ASSUME NEW p \in Paths, ingest_recording(p)
      PROVE  \A q \in Paths : owner'[q] # 0 => inter'[owner'[q]].sha[1] = q[2][1]
  BY <1>2, <1>3, <1>4, SweepIs
<1>5. ASSUME DiskStep, ~ \E p \in Paths : ingest_recording(p)
      PROVE  UNCHANGED <<owner, inter>>
  BY <1>5 DEF DiskStep, Syncthing, Server, upload_recording, publish_sidecar, publish_audio,
              disconnected, purge_old_audio, disk_vars
<1>6. CASE UNCHANGED disk_vars
  BY <1>1, <1>6 DEF disk_vars
<1> QED
  BY <1>1, <1>4, <1>5, <1>6, StepsHand

(* Only the server answers, and an answer is not altered on its way.       *)
LEMMA AnswersKept ==
  ASSUME Inv, [Next]_vars, NEW r \in Requests, Taken(r)',
         ~ \E q \in Requests : Server(q)
  PROVE  Taken(r) /\ req'[r].sha = req[r].sha
<1> USE DEF Inv
<1>1. ASSUME req'[r] = req[r] \/ req'[r] = NoReq
      PROVE  Taken(r) /\ req'[r].sha = req[r].sha
  BY <1>1 DEF Taken
<1>2. ASSUME NEW R, req' = hung_up(R)
      PROVE  Taken(r) /\ req'[r].sha = req[r].sha
  <2>1. \/ req'[r] = req[r] \/ req'[r] = NoReq
        \/ req[r] # NoReq /\ req[r].st # "answered" /\ req'[r] = [req[r] EXCEPT !.wanted = FALSE]
    BY <1>2 DEF hung_up
  <2>2. CASE req[r] # NoReq /\ req[r].st # "answered" /\ req'[r] = [req[r] EXCEPT !.wanted = FALSE]
    <3>1. req'[r].st # "answered"
      BY <2>2, RequestIs DEF RequestRecords
    <3> QED
      BY <3>1 DEF Taken
  <2> QED
    BY <1>1, <2>1, <2>2
<1>3. ASSUME NEW s \in Hashes, upload(s)
      PROVE  Taken(r) /\ req'[r].sha = req[r].sha
  <2>1. CASE UNCHANGED req
    BY <1>1, <2>1
  <2>2. ASSUME NEW q \in Requests,
               req' = [req EXCEPT ![q] = [sha |-> s, body |-> <<s[1], file[s[1]].v>>,
                                          call |-> row[s].call, auth |-> token = "works",
                                          st |-> "meta", code |-> 0, wanted |-> TRUE]]
        PROVE  Taken(r) /\ req'[r].sha = req[r].sha
    <3>1. req'[r] = req[r] \/ req'[r].st = "meta"
      BY <2>2 DEF WaitInv
    <3> QED
      BY <1>1, <3>1 DEF Taken
  <2> QED
    BY <1>3, <2>1, <2>2 DEF upload
<1>4. ASSUME NEW q \in Requests, outcome(q)
      PROVE  Taken(r) /\ req'[r].sha = req[r].sha
  <2>1. req' = [req EXCEPT ![q] = NoReq]
    BY <1>4 DEF outcome
  <2>2. req'[r] = req[r] \/ req'[r] = NoReq
    BY <2>1 DEF WaitInv
  <2> QED
    BY <1>1, <2>2
<1>5. ASSUME NEW f \in Files, Outside(f) \/ scan(f)
      PROVE  req' = req
  BY <1>5 DEF Outside, Finish, Rewrite, Syncthing, scan
<1>6. ASSUME NEW s \in Hashes, scheduleUpload(s) \/ doWork(s) \/ probe(s) \/ purgeOldDone(s)
      PROVE  req' = req
  BY <1>6 DEF scheduleUpload, doWork, probe, purgeOldDone
<1>7. ASSUME NEW p \in Paths, ingest_recording(p) \/ purge_old_audio(p)
      PROVE  req' = req
  BY <1>7 DEF ingest_recording, purge_old_audio
<1>8. ASSUME DrainWorker \/ retryAll \/ saveServer \/ ScanStops \/ UNCHANGED vars
      PROVE  req' = req
  BY <1>8 DEF DrainWorker, retryAll, saveServer, ScanStops, vars
<1>9. ASSUME ServerDies
      PROVE  req'[r] = NoReq
  BY <1>9 DEF ServerDies
<1>10. ASSUME Reinstall \/ PhoneDies \/ \E q \in Requests : ConnectionLost(q)
       PROVE  \E R : req' = hung_up(R)
  BY <1>10 DEF Reinstall, PhoneDies, ConnectionLost
<1> QED
  BY <1>1, <1>2, <1>3, <1>4, <1>5, <1>6, <1>7, <1>8, <1>9, <1>10 DEF Next, Phone, Faults

(* The server answers that it has a recording only when it holds it.       *)
LEMMA ServerAnswers ==
  ASSUME CallsAreTold, Inv, HeldInv, [Next]_vars, NEW q \in Requests, Server(q),
         NEW r \in Requests, Taken(r)', NEW f, f = req'[r].sha[1]
  PROVE  Held(f)'
<1> USE DEF Inv
<1>1. /\ req[q] # NoReq /\ req[q] \in RequestRecords /\ req[q].sha \in Hashes
      /\ req \in [Requests -> RequestRecords \union {NoReq}]
  BY ServerSteps, RequestIs DEF WaitInv
<1>2. CASE req'[r] = req[r]
  <2>1. Held(f)
    BY <1>2 DEF HeldInv, Taken
  <2> QED
    BY <2>1, HeldStays
<1>3. CASE r = q
  <2> DEFINE s == req[q].sha
  <2>1. ASSUME NEW code \in Answers, req' = [req EXCEPT ![q] = answered(q, code)]
        PROVE  req'[q].sha = s /\ req'[q].code = code
    <3>1. req'[q] = answered(q, code) /\ req'[q] # NoReq
      BY <1>1, <1>3, <2>1 DEF Taken
    <3> QED
      BY <1>1, <3>1, AnsweredIs
  <2>2. ASSUME NEW st \in {"audio", "sidecar"}, req' = [req EXCEPT ![q] = [req[q] EXCEPT !.st = st]]
        PROVE  FALSE
    BY <1>1, <1>3, <2>2 DEF Taken, RequestRecords
  <2>3. CASE upload_recording(q)
    <3>1. \/ req' = [req EXCEPT ![q] = answered(q, 401)]
          \/ /\ req' = [req EXCEPT ![q] = answered(q, 200)]
             /\ <<"up", s>> \in audio \/ find_ingested(s, req[q].call) # {}
          \/ req' = [req EXCEPT ![q] = [req[q] EXCEPT !.st = "audio"]]
      BY <2>3 DEF upload_recording, WaitInv
    <3>2. req'[q].sha = s /\ (<<"up", s>> \in audio \/ find_ingested(s, req[q].call) # {})
      BY <1>3, <2>1, <2>2, <3>1 DEF Taken, Answers
    <3>3. CASE <<"up", s>> \in audio
      BY <2>3, <3>2, <3>3, <1>3 DEF Held, upload_recording, disk_vars
    <3>4. ASSUME NEW i \in find_ingested(s, req[q].call)
          PROVE  Held(f)'
      <4>1. /\ i \in DOMAIN inter /\ CallOf(req[q].call, s[1])
            /\ inter[i].sha = s \/ (req[q].call # NoCall /\ inter[i].call = req[q].call)
        BY <1>1, <3>4 DEF find_ingested, same_call, WaitInv
      <4>2. inter[i].sha[1] = s[1]
        BY <1>1, <4>1, FoundIsOfItsFile
      <4>3. Held(inter[i].sha[1])
        BY <4>1, KnownIsHeld
      <4>4. Held(s[1]) /\ UNCHANGED disk_vars
        BY <2>3, <4>2, <4>3 DEF upload_recording
      <4> QED
        BY <1>3, <3>2, <4>4 DEF Held, disk_vars
    <3> QED
      BY <3>2, <3>3, <3>4
  <2>4. CASE publish_sidecar(q)
    <3>1. \/ req' = [req EXCEPT ![q] = answered(q, 422)]
          \/ req' = [req EXCEPT ![q] = [req[q] EXCEPT !.st = "sidecar"]]
      BY <2>4 DEF publish_sidecar, WaitInv
    <3> QED
      BY <1>3, <2>1, <2>2, <3>1 DEF Taken, Answers
  <2>5. CASE publish_audio(q)
    <3>1. \/ req' = [req EXCEPT ![q] = answered(q, 202)] /\ <<"up", s>> \in audio'
          \/ req' = [req EXCEPT ![q] = answered(q, 500)]
      BY <2>5 DEF publish_audio
    <3>2. req'[q].sha = s /\ <<"up", s>> \in audio'
      BY <1>3, <2>1, <3>1 DEF Taken, Answers
    <3> QED
      BY <1>3, <3>2 DEF Held
  <2>6. CASE disconnected(q)
    BY <1>1, <1>3, <2>6 DEF disconnected, Taken
  <2> QED
    BY <2>3, <2>4, <2>5, <2>6 DEF Server
<1>4. req'[r] = req[r] \/ r = q
  BY <1>1, ServerSteps
<1> QED
  BY <1>2, <1>3, <1>4

LEMMA AnswersAreHeld ==
  ASSUME CallsAreTold, Inv, HeldInv, [Next]_vars, NEW r \in Requests, Taken(r)',
         NEW f, f = req'[r].sha[1]
  PROVE  Held(f)'
<1>1. CASE \E q \in Requests : Server(q)
  BY <1>1, ServerAnswers
<1>2. CASE ~ \E q \in Requests : Server(q)
  <2>1. Taken(r) /\ req'[r].sha = req[r].sha
    BY <1>2, AnswersKept
  <2>2. Held(f)
    BY <2>1 DEF HeldInv, Taken
  <2> QED
    BY <2>2, HeldStays
<1> QED
  BY <1>1, <1>2

(* The file of a row that is handed over.                                  *)
LEMMA HandsOverOne ==
  ASSUME Inv, NEW s \in Hashes, HandsOver(s), NEW f \in Files
  PROVE  /\ LetGo(f) => LetGo(f)'
         /\ LetGo(f)' => LetGo(f) \/ f = s[1]
<1>1. /\ row \in [Hashes -> RowRecords \union {NoRow}] /\ file \in [Files -> FileRecords]
      /\ row[s].st # "DONE" /\ s[1] \in Files
  BY HashIs DEF HandsOver, HasRow, Inv, RowInv, FolderInv
<1>2. \A q \in Hashes : q # s => row'[q] = row[q]
  BY <1>1 DEF HandsOver, markDone, Marks
<1>3. \A g \in Files : (file'[g].at = "deleted" <=> file[g].at = "deleted") \/ g = s[1]
  BY <1>1 DEF HandsOver, markDone
<1>4. \A g \in Files : file[g].at = "deleted" => file'[g].at = "deleted"
  <2>1. file' = file \/ file' = [file EXCEPT ![s[1]].at = "deleted"]
    BY DEF HandsOver, markDone
  <2> QED
    BY <1>1, <2>1 DEF FileRecords
<1>5. LetGo(f) => LetGo(f)'
  BY <1>1, <1>2, <1>4 DEF LetGo
<1>6. LetGo(f)' => LetGo(f) \/ f = s[1]
  BY <1>2, <1>3 DEF LetGo
<1> QED
  BY <1>5, <1>6

LEMMA HandsNothingIsLetGo ==
  ASSUME HandsNothing, NEW f \in Files, LetGo(f)'
  PROVE  LetGo(f)
BY DEF HandsNothing, LetGo, Done

LEMMA LetGoKept ==
  ASSUME CallsAreTold, Inv, HeldInv, [Next]_vars, NEW f \in Files, LetGo(f)'
  PROVE  Held(f)'
<1>1. CASE LetGo(f)
  BY <1>1, HeldStays DEF HeldInv, LetGoMeansHeld
<1>2. ASSUME NEW s \in Hashes, HandsOver(s), ~LetGo(f)
      PROVE  Held(f)'
  BY <1>2, HandsOverOne, HandedIsHeld, HeldStays
<1>3. CASE HandsNothing
  BY <1>1, <1>3, HandsNothingIsLetGo
<1>4. CASE UNCHANGED <<file, row>>
  BY <1>1, <1>4 DEF LetGo
<1> QED
  BY <1>1, <1>2, <1>3, <1>4, StepsHand

LEMMA HeldKept ==
  ASSUME CallsAreTold, Inv, HeldInv, [Next]_vars
  PROVE  HeldInv'
<1>1. (\A p \in Paths : owner[p] # 0 => inter[owner[p]].sha[1] = p[2][1])'
  BY OwnersKept
<1>2. (\A r \in Requests : req[r] # NoReq /\ req[r].st = "answered" /\ req[r].code \in {200, 202}
                             => Held(req[r].sha[1]))'
  <2> SUFFICES ASSUME NEW r \in Requests, Taken(r)', NEW f, f = req'[r].sha[1]
               PROVE  Held(f)'
    BY DEF Taken, Held
  <2> QED
    BY AnswersAreHeld
<1>3. LetGoMeansHeld'
  BY LetGoKept DEF LetGoMeansHeld
<1> QED
  BY <1>1, <1>2, <1>3 DEF HeldInv

LEMMA InitHeld == Init => HeldInv
<1> SUFFICES ASSUME Init PROVE HeldInv
  OBVIOUS
<1>1. /\ \A p \in Paths : owner[p] = 0
      /\ \A r \in Requests : req[r] = NoReq
      /\ \A f \in Files : file[f].at = "none"
      /\ \A s \in Hashes : row[s] = NoRow
  BY DEF Init
<1> QED
  BY <1>1 DEF HeldInv, LetGoMeansHeld, LetGo

LEMMA HeldInvariance ==
  ASSUME CallsAreTold
  PROVE  Spec => [](Inv /\ HeldInv)
<1>1. Init => HeldInv
  BY InitHeld
<1>2. Inv /\ HeldInv /\ [Next]_vars => HeldInv'
  BY HeldKept
<1> QED
  BY <1>1, <1>2, Invariance, PTL DEF Spec

(* LetGoMeansHeld: the phone reports a recording done, or deletes it, only *)
(* when the server holds that conversation, as long as no two recordings   *)
(* are of calls with the same row id.  Without that the code may let go of *)
(* a call nobody holds (the run MCRecordingsReused).                       *)
THEOREM NothingIsLetGoUnheld ==
  ASSUME CallsAreTold
  PROVE  Spec => []LetGoMeansHeld
<1>1. HeldInv => LetGoMeansHeld
  BY DEF HeldInv
<1> QED
  BY <1>1, HeldInvariance, PTL

(* The three kinds of steps are the three of the abstract hand-over.       *)
HeldFiles  == {f \in Files : Held(f)}
LetGoFiles == {f \in Files : LetGo(f)}

LEMMA StepRefines ==
  ASSUME CallsAreTold, Inv, HeldInv, [Next]_vars
  PROVE  [Handover!Next]_<<{f \in Files : Held(f)}, {f \in Files : LetGo(f)}>>
<1>1. LetGoFiles' \subseteq HeldFiles' /\ LetGoFiles \subseteq HeldFiles
  BY HeldKept DEF HeldInv, LetGoMeansHeld, HeldFiles, LetGoFiles
<1>2. HeldFiles \subseteq HeldFiles' /\ HeldFiles' \subseteq Files /\ LetGoFiles \subseteq Files
  BY HeldStays DEF HeldFiles, LetGoFiles
<1>3. CASE UNCHANGED <<file, row>>
  <2> DEFINE C == HeldFiles' \ HeldFiles
  <2>1. LetGoFiles' = LetGoFiles
    BY <1>3 DEF LetGoFiles, LetGo
  <2>2. C \in SUBSET Files /\ C \subseteq Files \ HeldFiles /\ HeldFiles' = HeldFiles \union C
    BY <1>2
  <2>3. Handover!Receive(C)
    BY <2>1, <2>2 DEF Handover!Receive, HeldFiles, LetGoFiles
  <2> QED
    BY <2>2, <2>3 DEF Handover!Next
<1>4. ASSUME UNCHANGED disk_vars
      PROVE  HeldFiles' = HeldFiles
  BY <1>4 DEF disk_vars, HeldFiles, Held
<1>5. CASE HandsNothing /\ UNCHANGED disk_vars
  <2> DEFINE C == LetGoFiles \ LetGoFiles'
  <2>1. LetGoFiles' \subseteq LetGoFiles
    BY <1>5, HandsNothingIsLetGo DEF LetGoFiles
  <2>2. C \in SUBSET Files /\ LetGoFiles' = LetGoFiles \ C
    BY <1>2, <2>1
  <2>3. Handover!Forget(C)
    BY <1>4, <1>5, <2>2 DEF Handover!Forget, HeldFiles, LetGoFiles
  <2> QED
    BY <2>2, <2>3 DEF Handover!Next
<1>6. ASSUME NEW s \in Hashes, HandsOver(s), UNCHANGED disk_vars
      PROVE  [Handover!Next]_<<{f \in Files : Held(f)}, {f \in Files : LetGo(f)}>>
  <2> DEFINE C == LetGoFiles' \ LetGoFiles
  <2>1. LetGoFiles \subseteq LetGoFiles'
    BY <1>6, HandsOverOne DEF LetGoFiles
  <2>2. /\ C \in SUBSET Files /\ C \subseteq HeldFiles \ LetGoFiles
        /\ LetGoFiles' = LetGoFiles \union C
    BY <1>1, <1>2, <1>4, <1>6, <2>1
  <2>3. Handover!LetGo(C)
    BY <1>4, <1>6, <2>2 DEF Handover!LetGo, HeldFiles, LetGoFiles
  <2> QED
    BY <2>2, <2>3 DEF Handover!Next
<1> QED
  BY <1>3, <1>5, <1>6, StepsHand

(* KeepsCustody: the scanner, the queue, the upload worker, the endpoint,  *)
(* the sweep and the retention together implement the abstract hand-over   *)
(* of Custody: what the server holds it keeps, and the phone lets go only  *)
(* of what is held, whatever is lost, interrupted, rewritten or copied.    *)
THEOREM CustodyIsKept ==
  ASSUME CallsAreTold
  PROVE  Spec => KeepsCustody
<1>1. Init => Handover!Init
  <2> SUFFICES ASSUME Init PROVE Handover!Init
    OBVIOUS
  <2>1. /\ audio = {} /\ inter = <<>>
        /\ \A f \in Files : file[f].at = "none"
        /\ \A s \in Hashes : row[s] = NoRow
    BY DEF Init
  <2>2. \A f \in Files : ~Held(f) /\ ~LetGo(f)
    BY <2>1 DEF Held, LetGo
  <2> QED
    BY <2>2 DEF Handover!Init
<1>2. Inv /\ HeldInv /\ [Next]_vars
        => [Handover!Next]_<<{f \in Files : Held(f)}, {f \in Files : LetGo(f)}>>
  BY StepRefines
<1>3. Spec => [](Inv /\ HeldInv)
  BY HeldInvariance
<1> QED
  BY <1>1, <1>2, <1>3, PTL DEF Spec, KeepsCustody, Handover!Spec
=============================================================================
