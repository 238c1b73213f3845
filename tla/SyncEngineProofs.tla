-------------------------- MODULE SyncEngineProofs --------------------------
(***************************************************************************)
(* Proofs about SyncEngine, for any processes, files, contents, ignore     *)
(* patterns, retry limit and faults.                                       *)
(***************************************************************************)
EXTENDS SyncEngine, TLAPS

USE DEF Hashes, Attempts, Phases, Busy

-----------------------------------------------------------------------------
(* Type correctness.                                                       *)

\* The empty stores, and a store updated at one path, are stores.
LEMMA StoreTypes ==
    /\ EmptyManifest \in [Paths -> Hashes]
    /\ EmptyQueue \in [Paths -> Attempts]
  BY ConstantsAssumption DEF EmptyManifest, EmptyQueue

\* Loading the stores keeps their types.
LEMMA LoadTypes ==
  ASSUME TypeOK, NEW p \in Procs, Load(p)
  PROVE  /\ manifest' \in [Procs -> [Paths -> Hashes]]
         /\ queue' \in [Procs -> [Paths -> Attempts]]
         /\ ignored' \in [Procs -> SUBSET Paths]
  BY StoreTypes, ConstantsAssumption DEF TypeOK, Load, AfterLoad

\* SetEntry and RemoveEntry keep the types of the manifest and its file.
LEMMA SetEntryTypes ==
  ASSUME TypeOK, NEW p \in Procs, NEW x \in Paths, NEW h \in Hashes, SetEntry(p, x, h)
  PROVE  /\ manifest' \in [Procs -> [Paths -> Hashes]]
         /\ manifestFile' \in [Paths -> Hashes]
  <1>1. manifest' = [manifest EXCEPT ![p] = [@ EXCEPT ![x] = h]]
    BY DEF SetEntry
  <1>2. manifest[p] \in [Paths -> Hashes]
    BY DEF TypeOK
  <1>3. [manifest[p] EXCEPT ![x] = h] \in [Paths -> Hashes]
    BY <1>2
  <1>4. manifest' \in [Procs -> [Paths -> Hashes]]
    BY <1>1, <1>3 DEF TypeOK
  <1>5. manifestFile' \in [Paths -> Hashes]
    BY <1>4 DEF TypeOK, SetEntry, AfterPersist
  <1>6. QED
    BY <1>4, <1>5

\* Enqueue and Remove keep the types of the queue and its file.
LEMMA EnqueueTypes ==
  ASSUME TypeOK, NEW p \in Procs, NEW x \in Paths, NEW n \in Attempts, Enqueue(p, x, n)
  PROVE  /\ queue' \in [Procs -> [Paths -> Attempts]]
         /\ queueFile' \in [Paths -> Attempts]
  <1>1. queue' = [queue EXCEPT ![p] = [@ EXCEPT ![x] = n]]
    BY DEF Enqueue
  <1>2. queue[p] \in [Paths -> Attempts]
    BY DEF TypeOK
  <1>3. [queue[p] EXCEPT ![x] = n] \in [Paths -> Attempts]
    BY <1>2
  <1>4. queue' \in [Procs -> [Paths -> Attempts]]
    BY <1>1, <1>3 DEF TypeOK
  <1>5. queueFile' \in [Paths -> Attempts]
    BY <1>4 DEF TypeOK, Enqueue, AfterPersist
  <1>6. QED
    BY <1>4, <1>5

\* A job that is started is one.
LEMMA StartUploadTypes ==
  ASSUME TypeOK, NEW p \in Procs, NEW x \in Paths, NEW h \in Contents, NEW n \in Attempts,
         phase[p] \in {"scan", "retry"}, StartUpload(p, x, h, n)
  PROVE  /\ job' \in [Procs -> Jobs \cup {Nil}]
         /\ phase' \in [Procs -> Phases]
         /\ job'[p] \in Jobs
         /\ \A q \in Procs : phase'[q] \in Busy => job'[q] \in Jobs
  <1>1. [path |-> x, hash |-> h, attempts |-> n, from |-> phase[p]] \in Jobs
    BY DEF Jobs
  <1>2. QED
    BY <1>1 DEF TypeOK, StartUpload

\* Ending an upload leaves no process at work without a job.
LEMMA ReturnTypes ==
  ASSUME TypeOK, NEW p \in Procs, phase[p] \in Busy, Return(p)
  PROVE  /\ job' \in [Procs -> Jobs \cup {Nil}]
         /\ phase' \in [Procs -> Phases]
         /\ \A q \in Procs : phase'[q] \in Busy => job'[q] \in Jobs
  BY DEF TypeOK, Return, Jobs

\* An accepted upload has a path, a hash and a content.
LEMMA AcceptTypes ==
  ASSUME TypeOK, NEW p \in Procs, phase[p] \in Busy, Readable(job[p].path), AcceptNow(p)
  PROVE  accepted' \subseteq [path : Paths, hash : Contents, content : Contents]
  BY DEF TypeOK, Jobs, Readable, Present, AcceptNow

USE DEF folder, disk, memory, control

LEMMA InitType == Init => TypeOK
  BY StoreTypes, ConstantsAssumption DEF Init, TypeOK

LEMMA NextType == TypeOK /\ [Next]_vars => TypeOK'
  <1> SUFFICES ASSUME TypeOK, [Next]_vars
               PROVE  TypeOK'
    OBVIOUS
  <1>1. CASE Environment
    BY <1>1 DEF TypeOK, Environment, Remount, Edit
  <1>2. ASSUME NEW p \in Procs, Boot(p) \/ Rebuild(p)
        PROVE  TypeOK'
    BY <1>2, LoadTypes DEF TypeOK, Boot, Rebuild
  <1>3. ASSUME NEW p \in Procs, Crash(p)
        PROVE  TypeOK'
    BY <1>3, StoreTypes DEF TypeOK, Crash
  <1>4. ASSUME NEW p \in Procs, BeginScan(p)
        PROVE  TypeOK'
    BY <1>4 DEF TypeOK, BeginScan, Present
  <1>5. ASSUME NEW p \in Procs, NEW x \in Paths, SkipFile(p, x) \/ RetryUnreadable(p, x)
        PROVE  TypeOK'
    BY <1>5 DEF TypeOK, SkipFile, RetryUnreadable, Take
  <1>6. ASSUME NEW p \in Procs, NEW x \in Paths, DropVanished(p, x)
        PROVE  TypeOK'
    BY <1>6, SetEntryTypes DEF TypeOK, DropVanished, Take
  <1>7. ASSUME NEW p \in Procs, NEW x \in Paths, UploadChanged(p, x)
        PROVE  TypeOK'
    <2>1. file[x] \in Contents /\ 0 \in Attempts /\ phase[p] = "scan"
      BY <1>7, ConstantsAssumption DEF TypeOK, UploadChanged, Present, Take
    <2>2. QED
      BY <1>7, <2>1, StartUploadTypes DEF TypeOK, UploadChanged, Take, StartUpload
  <1>8. ASSUME NEW p \in Procs, BeginRetry(p)
        PROVE  TypeOK'
    BY <1>8 DEF TypeOK, BeginRetry, Queued
  <1>9. ASSUME NEW p \in Procs, NEW x \in Paths, RetryVanished(p, x)
        PROVE  TypeOK'
    <2>1. 0 \in Attempts
      BY ConstantsAssumption
    <2>2. QED
      BY <1>9, <2>1, EnqueueTypes DEF TypeOK, RetryVanished, Take
  <1>10. ASSUME NEW p \in Procs, NEW x \in Paths, Retry(p, x)
         PROVE  TypeOK'
    <2>1. file[x] \in Contents /\ queue[p][x] \in Attempts /\ phase[p] = "retry"
      BY <1>10 DEF TypeOK, Retry, Present, Take
    <2>2. QED
      BY <1>10, <2>1, StartUploadTypes DEF TypeOK, Retry, Take, StartUpload
  <1>11. ASSUME NEW p \in Procs, EndRound(p)
         PROVE  TypeOK'
    BY <1>11, StoreTypes DEF TypeOK, EndRound
  <1>12. ASSUME NEW p \in Procs, UploadAccepted(p)
         PROVE  TypeOK'
    BY <1>12, AcceptTypes DEF TypeOK, UploadAccepted
  <1>13. ASSUME NEW p \in Procs, UploadFailed(p)
         PROVE  TypeOK'
    <2> DEFINE n == job[p].attempts + 1
               m == IF n > MaxRetryAttempts THEN MaxRetryAttempts ELSE n
    <2>1. job[p] \in Jobs /\ phase[p] \in Busy
      BY <1>13 DEF TypeOK, UploadFailed
    <2>2. m \in Attempts
      BY <2>1, ConstantsAssumption DEF Jobs
    <2>3. Enqueue(p, job[p].path, m) /\ job[p].path \in Paths
      BY <1>13, <2>1 DEF UploadFailed, Jobs
    <2>4. /\ queue' \in [Procs -> [Paths -> Attempts]]
          /\ queueFile' \in [Paths -> Attempts]
      BY <2>2, <2>3, EnqueueTypes
    <2>5. accepted' \subseteq [path : Paths, hash : Contents, content : Contents]
      BY <1>13, <2>1, AcceptTypes DEF TypeOK, UploadFailed
    <2>6. QED
      BY <1>13, <2>1, <2>4, <2>5, ReturnTypes DEF TypeOK, UploadFailed
  <1>14. ASSUME NEW p \in Procs, UploadUnrecognised(p)
         PROVE  TypeOK'
    BY <1>14, AcceptTypes, ReturnTypes DEF TypeOK, UploadUnrecognised
  <1>15. ASSUME NEW p \in Procs, Record(p)
         PROVE  TypeOK'
    <2>1. job[p].path \in Paths /\ job[p].hash \in Hashes
      BY <1>15 DEF TypeOK, Record, Jobs
    <2>2. QED
      BY <1>15, <2>1, SetEntryTypes DEF TypeOK, Record
  <1>16. ASSUME NEW p \in Procs, Dequeue(p)
         PROVE  TypeOK'
    <2>1. job[p].path \in Paths /\ 0 \in Attempts
      BY <1>16, ConstantsAssumption DEF TypeOK, Dequeue, Jobs
    <2>2. QED
      BY <1>16, <2>1, EnqueueTypes, ReturnTypes DEF TypeOK, Dequeue
  <1>17. CASE UNCHANGED vars
    BY <1>17 DEF TypeOK, vars
  <1>18. QED
    BY <1>1, <1>2, <1>3, <1>4, <1>5, <1>6, <1>7, <1>8, <1>9, <1>10, <1>11, <1>12,
       <1>13, <1>14, <1>15, <1>16, <1>17
       DEF Next, Step, Scan, RetryLoop, Upload

\* Every reachable state has its type; in particular a process in the middle
\* of attemptUpload always has the upload it is working on.
THEOREM TypeCorrect == Spec => []TypeOK
  <1>1. QED
    BY InitType, NextType, PTL DEF Spec
-----------------------------------------------------------------------------
(* What the manifests claim.                                               *)

\* The server never loses what it accepted.
LEMMA AcceptedGrows == [Next]_vars => accepted \subseteq accepted'
  BY DEF Next, Environment, Remount, Edit, Boot, Rebuild, Crash, Step, BeginScan, Scan, SkipFile,
         DropVanished, UploadChanged, StartUpload, BeginRetry, RetryLoop, RetryVanished,
         RetryUnreadable, Retry, EndRound, Upload, UploadAccepted, UploadFailed,
         UploadUnrecognised, AcceptNow, Record, Dequeue, vars

\* A manifest changed at one path, and the file it is written to, claim
\* nothing new but the entry that was set.
LEMMA ClaimsAfterSetEntry ==
  ASSUME TypeOK, NEW p \in Procs, NEW y \in Paths, NEW k \in Hashes, SetEntry(p, y, k),
         NEW x \in Paths, NEW h \in Contents, Claimed(x, h)'
  PROVE  Claimed(x, h) \/ (x = y /\ h = k)
  <1>1. manifest' = [manifest EXCEPT ![p] = [@ EXCEPT ![y] = k]]
    BY DEF SetEntry
  <1>2. /\ manifest'[p] = [manifest[p] EXCEPT ![y] = k]
        /\ \A q \in Procs \ {p} : manifest'[q] = manifest[q]
    BY <1>1 DEF TypeOK
  <1>3. manifest'[p][x] = h => manifest[p][x] = h \/ (x = y /\ h = k)
    BY <1>2 DEF TypeOK
  <1>4. manifestFile' = manifest'[p] \/ manifestFile' = manifestFile
    BY DEF SetEntry, AfterPersist
  <1>5. QED
    BY <1>2, <1>3, <1>4 DEF Claimed

\* Loading a manifest claims nothing the file did not.
LEMMA ClaimsAfterLoad ==
  ASSUME TypeOK, NEW p \in Procs, Load(p), UNCHANGED manifestFile,
         NEW x \in Paths, NEW h \in Contents, Claimed(x, h)'
  PROVE  Claimed(x, h)
  <1>1. PICK m \in {manifestFile, EmptyManifest} : manifest' = [manifest EXCEPT ![p] = m]
    BY DEF Load, AfterLoad
  <1>2. m[x] = h => manifestFile[x] = h
    BY <1>1, ConstantsAssumption DEF EmptyManifest
  <1>3. QED
    BY <1>1, <1>2 DEF TypeOK, Claimed

\* Only Record adds a claim, and only that of its own job.
LEMMA ClaimsComeFromRecord ==
  ASSUME TypeOK, [Next]_vars, NEW x \in Paths, NEW h \in Contents, Claimed(x, h)'
  PROVE  \/ Claimed(x, h)
         \/ \E p \in Procs : Record(p) /\ job[p].path = x /\ job[p].hash = h
  <1>1. CASE UNCHANGED <<manifestFile, manifest>>
    BY <1>1 DEF Claimed
  <1>2. ASSUME NEW p \in Procs, Boot(p) \/ Rebuild(p)
        PROVE  Claimed(x, h)
    BY <1>2, ClaimsAfterLoad DEF Boot, Rebuild
  <1>3. ASSUME NEW p \in Procs, Crash(p) \/ EndRound(p)
        PROVE  Claimed(x, h)
    <2>1. \/ UNCHANGED manifest
          \/ manifest' = [manifest EXCEPT ![p] = EmptyManifest]
      BY <1>3 DEF Crash, EndRound
    <2>2. UNCHANGED manifestFile /\ EmptyManifest[x] # h
      BY <1>3, ConstantsAssumption DEF Crash, EndRound, EmptyManifest
    <2>3. QED
      BY <2>1, <2>2 DEF TypeOK, Claimed
  <1>4. ASSUME NEW p \in Procs, NEW y \in Paths, DropVanished(p, y)
        PROVE  Claimed(x, h)
    <2>1. SetEntry(p, y, Nil) /\ Nil # h
      BY <1>4, ConstantsAssumption DEF DropVanished
    <2>2. QED
      BY <2>1, ClaimsAfterSetEntry
  <1>5. ASSUME NEW p \in Procs, Record(p)
        PROVE  Claimed(x, h) \/ (job[p].path = x /\ job[p].hash = h)
    <2>1. job[p].path \in Paths /\ job[p].hash \in Hashes /\ SetEntry(p, job[p].path, job[p].hash)
      BY <1>5 DEF TypeOK, Record, Jobs
    <2>2. QED
      BY <2>1, ClaimsAfterSetEntry
  <1>6. Environment => UNCHANGED <<manifestFile, manifest>>
    BY DEF Environment, Remount, Edit
  <1>7. ASSUME NEW p \in Procs, BeginScan(p) \/ BeginRetry(p) \/ Upload(p) \/ Dequeue(p)
        PROVE  UNCHANGED <<manifestFile, manifest>>
    BY <1>7 DEF BeginScan, BeginRetry, Upload, UploadAccepted, UploadFailed,
                UploadUnrecognised, Dequeue
  <1>8. ASSUME NEW p \in Procs, NEW y \in Paths,
               \/ SkipFile(p, y) \/ UploadChanged(p, y)
               \/ RetryVanished(p, y) \/ RetryUnreadable(p, y) \/ Retry(p, y)
        PROVE  UNCHANGED <<manifestFile, manifest>>
    BY <1>8 DEF SkipFile, UploadChanged, StartUpload, RetryVanished, RetryUnreadable, Retry
  <1>9. QED
    BY <1>1, <1>2, <1>3, <1>4, <1>5, <1>6, <1>7, <1>8 DEF Next, Step, Scan, RetryLoop, vars

\* The upload about to be recorded was accepted under the hash it has.
JobBacked == \A p \in Procs : phase[p] = "record" => Backed(job[p].path, job[p].hash)

BackedInv == TypeOK /\ JobBacked /\ ManifestBacked

\* A process comes to "record" only by UploadAccepted, and keeps its job there.
LEMMA RecordComesFromAccepted ==
  ASSUME TypeOK, [Next]_vars, NEW p \in Procs, phase'[p] = "record"
  PROVE  /\ job'[p] = job[p]
         /\ phase[p] = "record" \/ UploadAccepted(p)
  <1>1. ASSUME NEW q \in Procs, UploadAccepted(q)
        PROVE  job'[p] = job[p] /\ (phase[p] = "record" \/ UploadAccepted(p))
    BY <1>1 DEF TypeOK, UploadAccepted
  <1>2. ASSUME NEW q \in Procs, Boot(q) \/ Rebuild(q) \/ Crash(q) \/ BeginScan(q)
                                \/ BeginRetry(q) \/ EndRound(q) \/ Record(q)
        PROVE  job'[p] = job[p] /\ phase[p] = "record"
    BY <1>2 DEF TypeOK, Boot, Rebuild, Crash, BeginScan, BeginRetry, EndRound, Record
  <1>3. ASSUME NEW q \in Procs, UploadFailed(q) \/ UploadUnrecognised(q) \/ Dequeue(q)
        PROVE  job'[p] = job[p] /\ phase[p] = "record"
    BY <1>3 DEF TypeOK, UploadFailed, UploadUnrecognised, Dequeue, Return, Jobs
  <1>4. ASSUME NEW q \in Procs, NEW y \in Paths,
               \/ SkipFile(q, y) \/ DropVanished(q, y) \/ UploadChanged(q, y)
               \/ RetryVanished(q, y) \/ RetryUnreadable(q, y) \/ Retry(q, y)
        PROVE  job'[p] = job[p] /\ phase[p] = "record"
    BY <1>4 DEF TypeOK, SkipFile, DropVanished, UploadChanged, RetryVanished,
                RetryUnreadable, Retry, StartUpload
  <1>5. CASE Environment \/ UNCHANGED vars
    BY <1>5 DEF Environment, Edit, Remount, vars
  <1>6. QED
    BY <1>1, <1>2, <1>3, <1>4, <1>5 DEF Next, Step, Scan, RetryLoop, Upload

LEMMA BackedInit == Init => BackedInv
  <1>1. Init => JobBacked /\ ManifestBacked
    BY ConstantsAssumption DEF Init, JobBacked, ManifestBacked, Claimed, EmptyManifest
  <1>2. QED
    BY <1>1, InitType DEF BackedInv

LEMMA BackedNext == BackedInv /\ [Next]_vars => BackedInv'
  <1> SUFFICES ASSUME BackedInv, [Next]_vars
               PROVE  BackedInv'
    OBVIOUS
  <1>1. TypeOK /\ TypeOK'
    BY NextType DEF BackedInv
  <1>2. \A x, h : Backed(x, h) => Backed(x, h)'
    BY AcceptedGrows DEF Backed
  <1>3. JobBacked'
    <2> SUFFICES ASSUME NEW p \in Procs, phase'[p] = "record"
                 PROVE  Backed(job[p].path, job[p].hash)' 
      BY DEF JobBacked
    <2>1. job'[p] = job[p] /\ (phase[p] = "record" \/ UploadAccepted(p))
      BY <1>1, RecordComesFromAccepted
    <2>2. CASE phase[p] = "record"
      <3>1. Backed(job[p].path, job[p].hash)
        BY <2>2 DEF BackedInv, JobBacked
      <3>2. QED
        BY <2>1, <3>1, AcceptedGrows DEF Backed
    <2>3. CASE UploadAccepted(p)
      <3> DEFINE u == [path |-> job[p].path, hash |-> job[p].hash,
                       content |-> file[job[p].path]]
      <3>1. u \in accepted'
        BY <2>3 DEF UploadAccepted, AcceptNow
      <3>2. u.path = job'[p].path /\ u.hash = job'[p].hash
        BY <2>1
      <3>3. QED
        BY <3>1, <3>2 DEF Backed
    <2>4. QED
      BY <2>1, <2>2, <2>3
  <1>4. ManifestBacked'
    <2> SUFFICES ASSUME NEW x \in Paths, NEW h \in Contents, Claimed(x, h)'
                 PROVE  Backed(x, h)'
      BY DEF ManifestBacked
    <2>1. CASE Claimed(x, h)
      BY <1>2, <2>1 DEF BackedInv, ManifestBacked
    <2>2. ASSUME NEW p \in Procs, Record(p), job[p].path = x, job[p].hash = h
          PROVE  Backed(x, h)'
      BY <1>2, <2>2 DEF BackedInv, JobBacked, Record
    <2>3. QED
      BY <1>1, <2>1, <2>2, ClaimsComeFromRecord
  <1>5. QED
    BY <1>1, <1>3, <1>4 DEF BackedInv

\* Whatever crashes, failed writes, unreadable stores and processes writing
\* over each other's files do, no manifest has an entry for an upload the
\* server did not accept.
THEOREM ManifestIsBacked == Spec => []ManifestBacked
  <1>1. BackedInv => ManifestBacked
    BY DEF BackedInv
  <1>2. QED
    BY BackedInit, BackedNext, <1>1, PTL DEF Spec
-----------------------------------------------------------------------------
(* What the server has of it.                                              *)

\* Without edits between hashing and upload, the file being uploaded still
\* has the hash taken of it, and the upload about to be recorded held it.
JobHeld ==
    \A p \in Procs :
        /\ phase[p] = "upload" => file[job[p].path] = job[p].hash
        /\ phase[p] = "record" => Held(job[p].path, job[p].hash)

HeldInv == TypeOK /\ JobHeld /\ NoMissedChange

\* A process comes to "upload" from a loop, with the hash of the file.
LEMMA UploadComesFromLoop ==
  ASSUME TypeOK, [Next]_vars, NEW p \in Procs, phase'[p] = "upload"
  PROVE  \/ phase[p] = "upload" /\ job'[p] = job[p]
         \/ UNCHANGED file /\ file[job'[p].path] = job'[p].hash
  <1>1. ASSUME NEW q \in Procs, NEW y \in Paths, UploadChanged(q, y) \/ Retry(q, y)
        PROVE  \/ phase[p] = "upload" /\ job'[p] = job[p]
               \/ UNCHANGED file /\ file[job'[p].path] = job'[p].hash
    <2>1. /\ job' = [job EXCEPT ![q] = [path |-> y, hash |-> file[y],
                                        attempts |-> job'[q].attempts, from |-> phase[q]]]
          /\ phase' = [phase EXCEPT ![q] = "upload"]
          /\ UNCHANGED file
      BY <1>1 DEF TypeOK, UploadChanged, Retry, StartUpload, folder
    <2>2. QED
      BY <2>1 DEF TypeOK
  <1>2. ASSUME NEW q \in Procs, Boot(q) \/ Rebuild(q) \/ Crash(q) \/ BeginScan(q)
                                \/ BeginRetry(q) \/ EndRound(q) \/ Record(q)
        PROVE  phase[p] = "upload" /\ job'[p] = job[p]
    BY <1>2 DEF TypeOK, Boot, Rebuild, Crash, BeginScan, BeginRetry, EndRound, Record
  <1>3. ASSUME NEW q \in Procs, UploadAccepted(q) \/ UploadFailed(q)
                                \/ UploadUnrecognised(q) \/ Dequeue(q)
        PROVE  phase[p] = "upload" /\ job'[p] = job[p]
    BY <1>3 DEF TypeOK, UploadAccepted, UploadFailed, UploadUnrecognised, Dequeue, Return, Jobs
  <1>4. ASSUME NEW q \in Procs, NEW y \in Paths,
               SkipFile(q, y) \/ DropVanished(q, y) \/ RetryVanished(q, y) \/ RetryUnreadable(q, y)
        PROVE  phase[p] = "upload" /\ job'[p] = job[p]
    BY <1>4 DEF SkipFile, DropVanished, RetryVanished, RetryUnreadable
  <1>5. CASE Environment \/ UNCHANGED vars
    BY <1>5 DEF Environment, Edit, Remount, vars
  <1>6. QED
    BY <1>1, <1>2, <1>3, <1>4, <1>5 DEF Next, Step, Scan, RetryLoop, Upload

\* Only the user changes files.
LEMMA FilesChangeByEdit ==
  ASSUME [Next]_vars
  PROVE  UNCHANGED file \/ \E y \in Paths, c \in Hashes : Edit(y, c)
  BY DEF Next, Environment, Remount, Boot, Rebuild, Crash, Step, BeginScan, Scan, SkipFile,
         DropVanished, UploadChanged, StartUpload, BeginRetry, RetryLoop, RetryVanished,
         RetryUnreadable, Retry, EndRound, Upload, UploadAccepted, UploadFailed,
         UploadUnrecognised, AcceptNow, Record, Dequeue, vars

LEMMA HeldInit == Init => HeldInv
  <1>1. Init => JobHeld /\ NoMissedChange
    BY ConstantsAssumption DEF Init, JobHeld, NoMissedChange, Claimed, EmptyManifest
  <1>2. QED
    BY <1>1, InitType DEF HeldInv

LEMMA HeldNext ==
  ASSUME "race" \notin Faults
  PROVE  HeldInv /\ [Next]_vars => HeldInv'
  <1> SUFFICES ASSUME HeldInv, [Next]_vars
               PROVE  HeldInv'
    OBVIOUS
  <1>1. TypeOK /\ TypeOK'
    BY NextType DEF HeldInv
  <1>2. \A x, h : Held(x, h) => Held(x, h)'
    BY AcceptedGrows DEF Held
  <1>3. ASSUME NEW p \in Procs, phase'[p] = "upload"
        PROVE  file'[job'[p].path] = job'[p].hash
    <2>1. CASE phase[p] = "upload" /\ job'[p] = job[p]
      <3>1. file[job[p].path] = job[p].hash
        BY <2>1 DEF HeldInv, JobHeld
      <3>2. ASSUME NEW y \in Paths, NEW c \in Hashes, Edit(y, c)
            PROVE  file'[job[p].path] = file[job[p].path]
        BY <2>1, <3>2, <1>1 DEF TypeOK, Jobs, Edit, BeingUploaded
      <3>3. QED
        BY <2>1, <3>1, <3>2, FilesChangeByEdit
    <2>2. QED
      BY <1>1, <1>3, <2>1, UploadComesFromLoop
  <1>4. ASSUME NEW p \in Procs, phase'[p] = "record"
        PROVE  Held(job[p].path, job[p].hash)' /\ job'[p] = job[p]
    <2>1. job'[p] = job[p] /\ (phase[p] = "record" \/ UploadAccepted(p))
      BY <1>1, <1>4, RecordComesFromAccepted
    <2>2. CASE phase[p] = "record"
      <3>1. Held(job[p].path, job[p].hash)
        BY <2>2 DEF HeldInv, JobHeld
      <3>2. QED
        BY <2>1, <3>1, AcceptedGrows DEF Held
    <2>3. CASE UploadAccepted(p)
      <3> DEFINE u == [path |-> job[p].path, hash |-> job[p].hash,
                       content |-> file[job[p].path]]
      <3>1. u \in accepted' /\ file[job[p].path] = job[p].hash
        BY <2>3 DEF UploadAccepted, AcceptNow, HeldInv, JobHeld
      <3>2. u.path = job'[p].path /\ u.content = job'[p].hash
        BY <2>1, <3>1
      <3>3. QED
        BY <2>1, <3>1, <3>2 DEF Held
    <2>4. QED
      BY <2>1, <2>2, <2>3
  <1>5. JobHeld'
    BY <1>3, <1>4 DEF JobHeld
  <1>6. NoMissedChange'
    <2> SUFFICES ASSUME NEW x \in Paths, NEW h \in Contents, Claimed(x, h)'
                 PROVE  Held(x, h)'
      BY DEF NoMissedChange
    <2>1. CASE Claimed(x, h)
      BY <1>2, <2>1 DEF HeldInv, NoMissedChange
    <2>2. ASSUME NEW p \in Procs, Record(p), job[p].path = x, job[p].hash = h
          PROVE  Held(x, h)'
      BY <1>2, <2>2 DEF HeldInv, JobHeld, Record
    <2>3. QED
      BY <1>1, <2>1, <2>2, ClaimsComeFromRecord
  <1>7. QED
    BY <1>1, <1>5, <1>6 DEF HeldInv

\* As long as no file is edited between its hashing and its upload, every
\* content a manifest says is synced is on the server, so that a file that
\* returns to it is rightly skipped.  With such edits this fails.
THEOREM NoChangeIsMissed ==
  ASSUME "race" \notin Faults
  PROVE  Spec => []NoMissedChange
  <1>1. HeldInv => NoMissedChange
    BY DEF HeldInv
  <1>2. HeldInv /\ [Next]_vars => HeldInv'
    BY HeldNext
  <1>3. QED
    BY HeldInit, <1>1, <1>2, PTL DEF Spec
=============================================================================
