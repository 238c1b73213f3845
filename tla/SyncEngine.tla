----------------------------- MODULE SyncEngine -----------------------------
(***************************************************************************)
(* One watched folder, its manifest and retry queue, and the processes     *)
(* that run a core.SyncEngine on it: the service (receptor run) and the    *)
(* command receptor sync.  Engines of different folders share no state, so *)
(* one folder stands for all of them.                                      *)
(*                                                                         *)
(* A content and its SHA-256 are the same value.  Time is abstracted: any  *)
(* queued item that is not parked may be due.                              *)
(***************************************************************************)
EXTENDS Naturals, FiniteSets

CONSTANTS
    Procs,            \* processes working on the folder
    Daemons,          \* those that run the service loop; the others sync once
    Paths,            \* relative paths of regular, non-hidden files
    Contents,         \* contents (= hashes) a file can have
    Oversized,        \* the contents longer than MaxBytesPerFile
    Nil,              \* no file, no manifest entry, no job
    IgnoreChoices,    \* sets of paths the configured patterns may ignore
    MaxRetryAttempts, \* attempts after which a queued item is parked
    Faults            \* what the environment may do; see FaultKinds

FaultKinds ==
    { "crash",    \* a process is killed
      "persist",  \* writing a store's file fails; every caller discards it
      "load",     \* a store's file cannot be read or parsed at start
      "hash",     \* a file cannot be opened for hashing
      "walk",     \* part of the tree cannot be enumerated
      "unmount",  \* the folder's root goes away and comes back
      "race" }    \* a file is edited between its hashing and its upload

ASSUME ConstantsAssumption ==
    /\ Daemons \subseteq Procs
    /\ Oversized \subseteq Contents
    /\ Nil \notin Contents
    /\ Nil \notin [path : Paths, hash : Contents,
                   attempts : 0..MaxRetryAttempts, from : {"scan", "retry"}]
    /\ IgnoreChoices \subseteq SUBSET Paths
    /\ MaxRetryAttempts \in Nat \ {0}
    /\ Faults \subseteq FaultKinds

VARIABLES
    file,          \* the user's files: content or Nil
    mounted,       \* is the folder's root there?
    manifestFile,  \* manifests/<folder>.json: path -> hash last recorded
    queueFile,     \* retry/<folder>.json: path -> attempts, 0 if not queued
    accepted,      \* uploads the server accepted, with the hash claimed later
    phase,         \* where each process is
    manifest,      \* ManifestStore.entries of each process
    queue,         \* RetryQueueStore.items of each process
    ignored,       \* what the engine's ignore patterns match
    batch,         \* files the current loop of the process has still to do
    job            \* the upload in progress

folder  == <<file, mounted>>
disk    == <<manifestFile, queueFile>>
memory  == <<manifest, queue, ignored>>
control == <<phase, batch, job>>
vars    == <<folder, disk, accepted, memory, control>>

Hashes   == Contents \cup {Nil}
Attempts == 0..MaxRetryAttempts  \* MaxRetryAttempts stands for "or more"
Busy     == {"upload", "record", "dequeue"}
Phases   == {"off", "start", "idle", "scan", "retry"} \cup Busy
Jobs     == [path : Paths, hash : Contents, attempts : Attempts,
             from : {"scan", "retry"}]

EmptyManifest == [x \in Paths |-> Nil]
EmptyQueue    == [x \in Paths |-> 0]

\* The files os.Stat and the directory walk find.
Present == {x \in Paths : mounted /\ file[x] # Nil}

Init ==
    /\ file \in [Paths -> Hashes]
    /\ mounted = TRUE
    /\ manifestFile = EmptyManifest
    /\ queueFile = EmptyQueue
    /\ accepted = {}
    /\ phase = [p \in Procs |-> "off"]
    /\ manifest = [p \in Procs |-> EmptyManifest]
    /\ queue = [p \in Procs |-> EmptyQueue]
    /\ ignored = [p \in Procs |-> {}]
    /\ batch = [p \in Procs |-> {}]
    /\ job = [p \in Procs |-> Nil]
-----------------------------------------------------------------------------
(* The user and the file system.                                           *)

BeingUploaded(x) == \E p \in Procs : phase[p] = "upload" /\ job[p].path = x

\* The user creates, edits or deletes a file.
Edit(x, c) ==
    /\ mounted
    /\ file[x] # c
    /\ "race" \in Faults \/ ~BeingUploaded(x)
    /\ file' = [file EXCEPT ![x] = c]
    /\ UNCHANGED <<mounted, disk, accepted, memory, control>>

\* A removable or network volume leaves or returns.
Remount ==
    /\ "unmount" \in Faults
    /\ mounted' = ~mounted
    /\ UNCHANGED <<file, disk, accepted, memory, control>>
-----------------------------------------------------------------------------
(* The two stores.                                                         *)

\* What a file holds after persistLocked: callers discard its error.
AfterPersist(old, new) == {new} \cup (IF "persist" \in Faults THEN {old} ELSE {})

\* What a store holds after New...Store: empty if the file is unreadable.
AfterLoad(stored, empty) == {stored} \cup (IF "load" \in Faults THEN {empty} ELSE {})

\* SetEntry, or RemoveEntry if h is Nil.
SetEntry(p, x, h) ==
    /\ manifest' = [manifest EXCEPT ![p][x] = h]
    /\ manifestFile' \in AfterPersist(manifestFile, manifest'[p])

\* Enqueue, or Remove if n is 0.
Enqueue(p, x, n) ==
    /\ queue' = [queue EXCEPT ![p][x] = n]
    /\ queueFile' \in AfterPersist(queueFile, queue'[p])
-----------------------------------------------------------------------------
(* Starting a process and its loop.                                        *)

\* Mutant: New...Store creates the entries and never reads the file.
StartEmpty(p) ==
    /\ manifest' = [manifest EXCEPT ![p] = EmptyManifest]
    /\ queue' = [queue EXCEPT ![p] = EmptyQueue]
    /\ \E s \in IgnoreChoices : ignored' = [ignored EXCEPT ![p] = s]

\* buildEngines: both stores are read from their files.
Load(p) ==
    /\ \E m \in AfterLoad(manifestFile, EmptyManifest) :
         manifest' = [manifest EXCEPT ![p] = m]
    /\ \E q \in AfterLoad(queueFile, EmptyQueue) :
         queue' = [queue EXCEPT ![p] = q]
    /\ \E s \in IgnoreChoices : ignored' = [ignored EXCEPT ![p] = s]

Boot(p) ==
    /\ phase[p] = "off"
    /\ Load(p)
    /\ phase' = [phase EXCEPT ![p] = "start"]
    /\ UNCHANGED <<folder, disk, accepted, batch, job>>

\* The service rebuilds its engines when a check-in changed the folders.
Rebuild(p) ==
    /\ phase[p] = "idle"
    /\ Load(p)
    /\ UNCHANGED <<folder, disk, accepted, control>>

Crash(p) ==
    /\ "crash" \in Faults
    /\ phase[p] # "off"
    /\ phase' = [phase EXCEPT ![p] = "off"]
    /\ manifest' = [manifest EXCEPT ![p] = EmptyManifest]
    /\ queue' = [queue EXCEPT ![p] = EmptyQueue]
    /\ ignored' = [ignored EXCEPT ![p] = {}]
    /\ batch' = [batch EXCEPT ![p] = {}]
    /\ job' = [job EXCEPT ![p] = Nil]
    /\ UNCHANGED <<folder, disk, accepted>>
-----------------------------------------------------------------------------
(* SyncFullScan and syncOne.                                               *)

\* The tree is listed once; a missing root gives an empty list.
BeginScan(p) ==
    /\ phase[p] \in {"start", "idle"}
    /\ \E found \in SUBSET Present :
         /\ "walk" \in Faults \/ found = Present
         /\ batch' = [batch EXCEPT ![p] = found]
    /\ phase' = [phase EXCEPT ![p] = "scan"]
    /\ UNCHANGED <<folder, disk, accepted, memory, job>>

\* x is the next file of the loop process p is in.
Take(p, x, loop) ==
    /\ phase[p] = loop
    /\ x \in batch[p]
    /\ batch' = [batch EXCEPT ![p] = @ \ {x}]

\* Go on to attemptUpload with hash h; n attempts came before.
StartUpload(p, x, h, n) ==
    /\ job' = [job EXCEPT ![p] =
                 [path |-> x, hash |-> h, attempts |-> n, from |-> phase[p]]]
    /\ phase' = [phase EXCEPT ![p] = "upload"]
    /\ UNCHANGED <<folder, disk, accepted, memory>>

\* Mutant: a parked file is passed over by the scan too.
SkipParked(p, x) ==
    /\ Take(p, x, "scan")
    /\ \/ x \in ignored[p] \/ queue[p][x] = MaxRetryAttempts
       \/ x \in Present /\ (file[x] \in Oversized \/ manifest[p][x] = file[x])
    /\ UNCHANGED <<folder, disk, accepted, memory, phase, job>>

\* Ignored, too large, unreadable, or unchanged since last recorded.
SkipFile(p, x) ==
    /\ Take(p, x, "scan")
    /\ \/ x \in ignored[p]
       \/ /\ x \in Present
          /\ \/ file[x] \in Oversized
             \/ "hash" \in Faults
             \/ manifest[p][x] = file[x]
    /\ UNCHANGED <<folder, disk, accepted, memory, phase, job>>

\* Mutant: RemoveEntry forgets to persist.
DropInMemory(p, x) ==
    /\ Take(p, x, "scan")
    /\ x \notin Present
    /\ manifest' = [manifest EXCEPT ![p][x] = Nil]
    /\ UNCHANGED <<folder, disk, accepted, queue, ignored, phase, job>>

\* The file vanished after it was listed.
DropVanished(p, x) ==
    /\ Take(p, x, "scan")
    /\ x \notin ignored[p]
    /\ x \notin Present
    /\ SetEntry(p, x, Nil)
    /\ UNCHANGED <<folder, queueFile, accepted, queue, ignored, phase, job>>

\* New or changed content.
UploadChanged(p, x) ==
    /\ Take(p, x, "scan")
    /\ x \in Present \ ignored[p]
    /\ file[x] \notin Oversized
    /\ manifest[p][x] # file[x]
    /\ StartUpload(p, x, file[x], 0)
-----------------------------------------------------------------------------
(* attemptUpload, after the hash is known.  MemoryClient.Upload opens the  *)
(* file again: what it sends is what the file holds then.                  *)

Readable(x) == x \in Present /\ file[x] \notin Oversized

AcceptNow(p) ==
    accepted' = accepted \cup
        {[path |-> job[p].path, hash |-> job[p].hash, content |-> file[job[p].path]]}

\* Mutant: the error path forgets the job but not that it was uploading.
ReturnHalfway(p) ==
    /\ phase' = phase
    /\ job' = [job EXCEPT ![p] = Nil]

\* Back to the loop the upload was started from.
Return(p) ==
    /\ phase' = [phase EXCEPT ![p] = job[p].from]
    /\ job' = [job EXCEPT ![p] = Nil]

\* The answer is "queued" or "deduped".
UploadAccepted(p) ==
    /\ phase[p] = "upload"
    /\ Readable(job[p].path)
    /\ AcceptNow(p)
    /\ phase' = [phase EXCEPT ![p] = "record"]
    /\ UNCHANGED <<folder, disk, memory, batch, job>>

\* Mutant: the item is dropped, not parked, when its attempts run out.
DropAtLimit(p) ==
    /\ phase[p] = "upload"
    /\ LET n == job[p].attempts + 1
       IN  Enqueue(p, job[p].path, IF n >= MaxRetryAttempts THEN 0 ELSE n)
    /\ Return(p)
    /\ UNCHANGED <<folder, manifestFile, accepted, manifest, ignored, batch>>

\* The file or the connection failed, or the answer is a refusal or
\* unreadable; the server may have accepted it all the same.
UploadFailed(p) ==
    /\ phase[p] = "upload"
    /\ UNCHANGED accepted \/ (Readable(job[p].path) /\ AcceptNow(p))
    /\ LET n == job[p].attempts + 1
       IN  Enqueue(p, job[p].path, IF n > MaxRetryAttempts THEN MaxRetryAttempts ELSE n)
    /\ Return(p)
    /\ UNCHANGED <<folder, manifestFile, manifest, ignored, batch>>

\* Mutant: any decoded answer counts as success.
RecordAnyStatus(p) ==
    /\ phase[p] = "upload"
    /\ phase' = [phase EXCEPT ![p] = "record"]
    /\ UNCHANGED <<folder, disk, accepted, memory, batch, job>>

\* A status the switch has no case for: neither recorded nor queued.
UploadUnrecognised(p) ==
    /\ phase[p] = "upload"
    /\ Readable(job[p].path)
    /\ UNCHANGED accepted \/ AcceptNow(p)
    /\ Return(p)
    /\ UNCHANGED <<folder, disk, memory, batch>>

\* Mutant: the file is hashed again to record it.
RecordRehashed(p) ==
    /\ phase[p] = "record"
    /\ SetEntry(p, job[p].path, file[job[p].path])
    /\ phase' = [phase EXCEPT ![p] = "dequeue"]
    /\ UNCHANGED <<folder, queueFile, accepted, queue, ignored, batch, job>>

\* manifest.SetEntry with the hash taken before the upload.
Record(p) ==
    /\ phase[p] = "record"
    /\ SetEntry(p, job[p].path, job[p].hash)
    /\ phase' = [phase EXCEPT ![p] = "dequeue"]
    /\ UNCHANGED <<folder, queueFile, accepted, queue, ignored, batch, job>>

\* retryQueue.Remove after it.
Dequeue(p) ==
    /\ phase[p] = "dequeue"
    /\ Enqueue(p, job[p].path, 0)
    /\ Return(p)
    /\ UNCHANGED <<folder, manifestFile, accepted, manifest, ignored, batch>>
-----------------------------------------------------------------------------
(* ProcessRetryQueue.                                                      *)

Queued(p) == {x \in Paths : queue[p][x] > 0}

\* Parked items are due in a hundred years.
Parked(p) == {x \in Paths : queue[p][x] = MaxRetryAttempts}

\* The service takes the due items, receptor sync takes all.
BeginRetry(p) ==
    /\ phase[p] = "scan"
    /\ batch[p] = {}
    /\ \E items \in SUBSET Queued(p) :
         /\ IF p \in Daemons THEN items \cap Parked(p) = {} ELSE items = Queued(p)
         /\ batch' = [batch EXCEPT ![p] = items]
    /\ phase' = [phase EXCEPT ![p] = "retry"]
    /\ UNCHANGED <<folder, disk, accepted, memory, job>>

RetryVanished(p, x) ==
    /\ Take(p, x, "retry")
    /\ x \notin Present
    /\ Enqueue(p, x, 0)
    /\ UNCHANGED <<folder, manifestFile, accepted, manifest, ignored, phase, job>>

\* attemptUpload fails to hash the file and returns.
RetryUnreadable(p, x) ==
    /\ "hash" \in Faults
    /\ Take(p, x, "retry")
    /\ x \in Present
    /\ UNCHANGED <<folder, disk, accepted, memory, phase, job>>

\* No ignore, size or manifest check is made here.
Retry(p, x) ==
    /\ Take(p, x, "retry")
    /\ x \in Present
    /\ StartUpload(p, x, file[x], queue[p][x])

\* The service waits for its next tick, receptor sync exits.
EndRound(p) ==
    /\ phase[p] = "retry"
    /\ batch[p] = {}
    /\ IF p \in Daemons
       THEN /\ phase' = [phase EXCEPT ![p] = "idle"]
            /\ UNCHANGED memory
       ELSE /\ phase' = [phase EXCEPT ![p] = "off"]
            /\ manifest' = [manifest EXCEPT ![p] = EmptyManifest]
            /\ queue' = [queue EXCEPT ![p] = EmptyQueue]
            /\ ignored' = [ignored EXCEPT ![p] = {}]
    /\ UNCHANGED <<folder, disk, accepted, batch, job>>
-----------------------------------------------------------------------------
Scan(p) == \E x \in Paths : SkipFile(p, x) \/ DropVanished(p, x) \/ UploadChanged(p, x)

Upload(p) == UploadAccepted(p) \/ UploadFailed(p) \/ UploadUnrecognised(p)

RetryLoop(p) ==
    \E x \in Paths : RetryVanished(p, x) \/ RetryUnreadable(p, x) \/ Retry(p, x)

Step(p) ==
    \/ BeginScan(p) \/ Scan(p)
    \/ BeginRetry(p) \/ RetryLoop(p) \/ EndRound(p)
    \/ Upload(p) \/ Record(p) \/ Dequeue(p)

Environment == Remount \/ \E x \in Paths, c \in Hashes : Edit(x, c)

Next ==
    \/ Environment
    \/ \E p \in Procs : Boot(p) \/ Rebuild(p) \/ Crash(p) \/ Step(p)

Spec == Init /\ [][Next]_vars
-----------------------------------------------------------------------------
(* Scheduling: the service manager starts the service, its goroutine runs, *)
(* its tickers fire, and a call to the server returns.  A server asked for *)
(* the same file again and again accepts it in the end.  Processes are not *)
(* killed for ever.                                                        *)

Fairness ==
    /\ \A d \in Daemons :
         /\ WF_vars(Boot(d))
         /\ WF_vars(Step(d))
         /\ \A x \in Paths : SF_vars(UploadAccepted(d) /\ job[d].path = x)
    /\ <>[][~\E p \in Procs : Crash(p)]_vars

FairSpec == Spec /\ Fairness
-----------------------------------------------------------------------------
(* Properties.                                                             *)

\* Every variable has its type, and a process at work on an upload has one.
TypeOK ==
    /\ file \in [Paths -> Hashes]
    /\ mounted \in BOOLEAN
    /\ manifestFile \in [Paths -> Hashes]
    /\ queueFile \in [Paths -> Attempts]
    /\ accepted \subseteq [path : Paths, hash : Contents, content : Contents]
    /\ phase \in [Procs -> Phases]
    /\ manifest \in [Procs -> [Paths -> Hashes]]
    /\ queue \in [Procs -> [Paths -> Attempts]]
    /\ ignored \in [Procs -> SUBSET Paths]
    /\ batch \in [Procs -> SUBSET Paths]
    /\ job \in [Procs -> Jobs \cup {Nil}]
    /\ \A p \in Procs : phase[p] \in Busy => job[p] \in Jobs

\* The server accepted an upload of x made under hash h.
Backed(x, h) == \E u \in accepted : u.path = x /\ u.hash = h

\* The server has content c of x, whatever hash it was sent under.
Held(x, c) == \E u \in accepted : u.path = x /\ u.content = c

\* x -> h is in the manifest on disk or in a process's memory.
Claimed(x, h) ==
    /\ h # Nil
    /\ manifestFile[x] = h \/ \E p \in Procs : manifest[p][x] = h

\* No manifest, on disk or in memory, across crashes, failed writes and
\* processes overwriting each other, has an entry for an upload the server
\* did not accept (attemptUpload records only after the answer).
ManifestBacked ==
    \A x \in Paths, h \in Contents : Claimed(x, h) => Backed(x, h)

\* A content the manifest says is synced is on the server: a file that
\* returns to it is skipped by syncOne, so otherwise the change is missed.
NoMissedChange ==
    \A x \in Paths, h \in Contents : Claimed(x, h) => Held(x, h)

\* What of an upload the server answered for its process has still to note.
Answered == {p \in Procs : phase[p] \in {"record", "dequeue"}}

\* The stores on disk seen as durable maps.
Ledger == INSTANCE SyncLedger WITH
              present <- Present,
              accepted <- {<<u.path, u.hash>> : u \in accepted},
              answers <- {<<job[p].path, job[p].hash>> : p \in Answered},
              recorded <- manifestFile,
              queued <- {x \in Paths : queueFile[x] > 0}

\* The two files of a process that works alone on the folder and can read and
\* write them lose nothing: a record is replaced only by a later one of the
\* same path or removed when the file is gone, and an item leaves the queue
\* only after the record of its upload, across crashes and relaunches, and
\* although every write replaces the whole file by what is in memory.
ImplementsLedger == Ledger!Spec

\* A content already recorded on disk is not uploaded by a scan: a relaunch
\* resumes, and no other process's record is ignored.
RecordedNotReuploaded ==
    [][ \A p \in Procs :
          phase[p] = "scan" /\ phase'[p] = "upload"
              => manifestFile[job'[p].path] # job'[p].hash ]_vars

\* A file the configured patterns ignore is never sent to the server.
IgnoredNotUploaded ==
    \A p \in Procs : phase[p] = "upload" => job[p].path \notin ignored[p]

\* x has content c for good, where the service can see and may upload it.
Settled(d, x, c) ==
    /\ mounted
    /\ file[x] = c
    /\ c \notin Oversized
    /\ x \notin ignored[d]

\* A file left alone is recorded in the end, however often it failed.
EventuallySynced ==
    \A d \in Daemons, x \in Paths, c \in Contents :
        <>[]Settled(d, x, c) => <>[](manifest[d][x] = c)

\* A file deleted for good loses its manifest entry, as syncOne's comment on
\* deleted files says.
StaleEntryDropped ==
    \A d \in Daemons, x \in Paths :
        <>[](mounted /\ file[x] = Nil) => <>(manifest[d][x] = Nil /\ phase[d] = "idle")
=============================================================================
