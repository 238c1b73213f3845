-------------------------- MODULE SyncRoundsProofs ---------------------------
(***************************************************************************)
(* Proofs about the rounds of the one process that works on a folder: no   *)
(* failure drops a change, and nothing recorded is uploaded again.  Two    *)
(* processes overwrite each other's files, and a store whose file cannot   *)
(* be written is ahead of it; the theorems say which of this they exclude. *)
(***************************************************************************)
EXTENDS SyncRounds, SyncEngineProofs

USE DEF Hashes, Attempts, Phases, Busy, folder, disk, memory, control

\* One process works on the folder.
OneProcess == \A p, q \in Procs : p = q
-----------------------------------------------------------------------------
(* The stores and their files.                                             *)

\* What a process knows to be recorded or queued is on disk.
MemoryWritten ==
    \A p \in Procs, x \in Paths :
        /\ manifest[p][x] # Nil => manifestFile[x] = manifest[p][x]
        /\ queue[p][x] > 0 => queueFile[x] > 0

\* An entry that is set is written, and the others stay.
LEMMA EntryWritten ==
  ASSUME TypeOK, "persist" \notin Faults,
         NEW p \in Procs, NEW y \in Paths, NEW h \in Hashes, SetEntry(p, y, h)
  PROVE  /\ manifestFile' = manifest'[p]
         /\ manifest'[p][y] = h
         /\ \A x \in Paths : x # y => manifest'[p][x] = manifest[p][x]
  <1>1. manifest'[p] = [manifest[p] EXCEPT ![y] = h]
    BY DEF SetEntry, TypeOK
  <1>2. manifestFile' = manifest'[p]
    BY DEF SetEntry, AfterPersist
  <1>3. QED
    BY <1>1, <1>2 DEF TypeOK

\* So is an item of the queue.
LEMMA ItemWritten ==
  ASSUME TypeOK, "persist" \notin Faults,
         NEW p \in Procs, NEW y \in Paths, NEW n \in Attempts, Enqueue(p, y, n)
  PROVE  /\ queueFile' = queue'[p]
         /\ queue'[p][y] = n
         /\ \A x \in Paths : x # y => queue'[p][x] = queue[p][x]
  <1>1. queue'[p] = [queue[p] EXCEPT ![y] = n]
    BY DEF Enqueue, TypeOK
  <1>2. queueFile' = queue'[p]
    BY DEF Enqueue, AfterPersist
  <1>3. QED
    BY <1>1, <1>2 DEF TypeOK

\* After a failed attempt the item counts one more, up to the limit.
LEMMA FailureCounts ==
  ASSUME TypeOK, NEW p \in Procs, UploadFailed(p)
  PROVE  \E n \in Attempts : n > 0 /\ Enqueue(p, job[p].path, n)
  <1> DEFINE n == job[p].attempts + 1
             m == IF n > MaxRetryAttempts THEN MaxRetryAttempts ELSE n
  <1>1. job[p] \in Jobs /\ phase[p] \in Busy
    BY DEF TypeOK, UploadFailed
  <1>2. m \in Attempts /\ m > 0
    BY <1>1, ConstantsAssumption DEF Jobs
  <1>3. Enqueue(p, job[p].path, m)
    BY DEF UploadFailed
  <1>4. QED
    BY <1>2, <1>3

\* What each step does to the two stores of a process that is alone.
LEMMA StoreStep ==
  ASSUME TypeOK, OneProcess, "persist" \notin Faults, [Next]_vars, NEW p \in Procs
  PROVE  /\ \/ UNCHANGED <<manifest, manifestFile>>
            \/ manifestFile' = manifest'[p]
            \/ /\ UNCHANGED manifestFile
               /\ manifest'[p] = EmptyManifest \/ (Load(p) /\ manifest'[p] = manifestFile)
         /\ \/ UNCHANGED <<queue, queueFile>>
            \/ queueFile' = queue'[p]
            \/ UNCHANGED queueFile /\ (queue'[p] = EmptyQueue \/ queue'[p] = queueFile)
  <1> DEFINE Manifests == \/ UNCHANGED <<manifest, manifestFile>>
                          \/ manifestFile' = manifest'[p]
                          \/ /\ UNCHANGED manifestFile
                             /\ manifest'[p] = EmptyManifest \/ (Load(p) /\ manifest'[p] = manifestFile)
             Queues == \/ UNCHANGED <<queue, queueFile>>
                       \/ queueFile' = queue'[p]
                       \/ UNCHANGED queueFile /\ (queue'[p] = EmptyQueue \/ queue'[p] = queueFile)
  <1> SUFFICES Manifests /\ Queues
    OBVIOUS
  <1>1. \A q \in Procs : q = p
    BY DEF OneProcess
  <1>2. CASE Environment \/ UNCHANGED vars
    BY <1>2 DEF Environment, Remount, Edit, vars
  <1>3. CASE Boot(p) \/ Rebuild(p)
    BY <1>3 DEF Boot, Rebuild, Load, AfterLoad, TypeOK
  <1>4. CASE Crash(p) \/ EndRound(p)
    BY <1>4 DEF Crash, EndRound, TypeOK
  <1>5. CASE BeginScan(p) \/ BeginRetry(p) \/ UploadAccepted(p) \/ UploadUnrecognised(p)
    BY <1>5 DEF BeginScan, BeginRetry, UploadAccepted, UploadUnrecognised
  <1>6. ASSUME NEW y \in Paths,
               SkipFile(p, y) \/ UploadChanged(p, y) \/ RetryUnreadable(p, y) \/ Retry(p, y)
        PROVE  Manifests /\ Queues
    BY <1>6 DEF SkipFile, UploadChanged, RetryUnreadable, Retry, StartUpload
  <1>7. ASSUME NEW y \in Paths, DropVanished(p, y) PROVE Manifests /\ Queues
    BY <1>7, EntryWritten DEF DropVanished
  <1>8. ASSUME NEW y \in Paths, RetryVanished(p, y) PROVE Manifests /\ Queues
    <2>1. 0 \in Attempts
      BY ConstantsAssumption
    <2>2. QED
      BY <1>8, <2>1, ItemWritten DEF RetryVanished
  <1>9. CASE UploadFailed(p)
    <2>1. job[p].path \in Paths
      BY <1>9 DEF UploadFailed, TypeOK, Jobs
    <2>2. QED
      BY <1>9, <2>1, FailureCounts, ItemWritten DEF UploadFailed
  <1>10. CASE Record(p)
    <2>1. job[p].path \in Paths /\ job[p].hash \in Hashes
      BY <1>10 DEF Record, TypeOK, Jobs
    <2>2. QED
      BY <1>10, <2>1, EntryWritten DEF Record
  <1>11. CASE Dequeue(p)
    <2>1. job[p].path \in Paths /\ 0 \in Attempts
      BY <1>11, ConstantsAssumption DEF Dequeue, TypeOK, Jobs
    <2>2. QED
      BY <1>11, <2>1, ItemWritten DEF Dequeue
  <1>12. QED
    BY <1>1, <1>2, <1>3, <1>4, <1>5, <1>6, <1>7, <1>8, <1>9, <1>10, <1>11
       DEF Next, Step, Scan, RetryLoop, Upload

\* Every step keeps what is known on disk.
LEMMA NextWritten ==
  ASSUME OneProcess, "persist" \notin Faults
  PROVE  TypeOK /\ MemoryWritten /\ [Next]_vars => MemoryWritten'
  <1> SUFFICES ASSUME TypeOK, MemoryWritten, [Next]_vars, NEW p \in Procs, NEW x \in Paths
               PROVE  /\ manifest'[p][x] # Nil => manifestFile'[x] = manifest'[p][x]
                      /\ queue'[p][x] > 0 => queueFile'[x] > 0
    BY DEF MemoryWritten
  <1>1. EmptyManifest[x] = Nil /\ ~(EmptyQueue[x] > 0)
    BY DEF EmptyManifest, EmptyQueue
  <1>2. manifest'[p][x] # Nil => manifestFile'[x] = manifest'[p][x]
    <2>1. \/ UNCHANGED <<manifest, manifestFile>>
          \/ manifestFile' = manifest'[p]
          \/ UNCHANGED manifestFile /\ (manifest'[p] = EmptyManifest \/ manifest'[p] = manifestFile)
      BY StoreStep
    <2>2. QED
      BY <1>1, <2>1 DEF MemoryWritten
  <1>3. queue'[p][x] > 0 => queueFile'[x] > 0
    <2>1. \/ UNCHANGED <<queue, queueFile>>
          \/ queueFile' = queue'[p]
          \/ UNCHANGED queueFile /\ (queue'[p] = EmptyQueue \/ queue'[p] = queueFile)
      BY StoreStep
    <2>2. QED
      BY <1>1, <2>1 DEF MemoryWritten
  <1>4. QED
    BY <1>2, <1>3
-----------------------------------------------------------------------------
(* A round.  Each of its steady files is still to be listed, in work, or   *)
(* dealt with; what is in work is uploaded and recorded as the content the *)
(* file still has.                                                         *)

\* Nothing is left to do for x: it is recorded as it is, or queued.
Dealt(p, x) == manifest[p][x] = file[x] \/ queue[p][x] > 0

\* x is the file of the upload in progress.
InWork(p, x) == phase[p] \in Busy /\ job[p].path = x

\* The process is in SyncFullScan, or in an upload started from there.
Scanning(p) == phase[p] = "scan" \/ (phase[p] \in Busy /\ job[p].from = "scan")

InRound(p) == phase[p] \in {"scan", "retry"} \cup Busy

\* What holds of a steady file during a round.
SteadyAt(p, x) ==
    /\ x \in Present \ ignored[p] /\ file[x] \notin Oversized
    /\ Dealt(p, x) \/ InWork(p, x) \/ (Scanning(p) /\ x \in batch[p])
    /\ InWork(p, x) /\ phase[p] \in {"upload", "record"} => job[p].hash = file[x]
    /\ InWork(p, x) /\ phase[p] = "dequeue" => manifest[p][x] = file[x]

SteadyInv == \A p \in Procs : InRound(p) => \A x \in steady[p] : SteadyAt(p, x)

RoundInv ==
    /\ TypeOK
    /\ MemoryWritten
    /\ steady \in [Procs -> SUBSET Paths]
    /\ SteadyInv

\* What Watch leaves of the steady files in a step that begins no scan.
LEMMA SteadyStays ==
  ASSUME RoundInv, Watch, NEW p \in Procs, ~BeginScan(p), NEW x \in steady'[p]
  PROVE  /\ x \in steady[p] /\ x \in Paths /\ x \in Present /\ x \in Present'
         /\ file'[x] = file[x] /\ file[x] # Nil /\ ~GivesUp(p, x)
  <1>1. steady'[p] = {y \in steady[p] : Untouched(y) /\ ~GivesUp(p, y)}
    BY DEF Watch
  <1>2. x \in steady[p] /\ Untouched(x) /\ ~GivesUp(p, x)
    BY <1>1
  <1>3. QED
    BY <1>2 DEF Untouched, Present, RoundInv

\* A scan lists its steady files.
LEMMA ScanStarts ==
  ASSUME RoundInv, Watch, NEW p \in Procs, BeginScan(p), NEW x \in steady'[p]
  PROVE  SteadyAt(p, x)'
  <1>1. /\ x \in batch'[p] \ ignored[p] /\ file[x] \notin Oversized
    BY DEF Watch
  <1>2. /\ phase'[p] = "scan" /\ batch'[p] \subseteq Present
        /\ UNCHANGED <<folder, ignored>>
    BY DEF BeginScan, RoundInv, TypeOK
  <1>3. QED
    BY <1>1, <1>2 DEF SteadyAt, InWork, Scanning, Present

\* A step of the process keeps its steady files so, and of the others it
\* leaves its memory and control alone.
LEMMA SteadyStep ==
  ASSUME OneProcess, "persist" \notin Faults, RoundInv, [Next]_vars, Watch,
         NEW p \in Procs, ~BeginScan(p), InRound(p)', NEW x \in steady'[p]
  PROVE  SteadyAt(p, x)'
  <1>1. /\ x \in steady[p] /\ x \in Paths /\ x \in Present /\ x \in Present'
        /\ file'[x] = file[x] /\ file[x] # Nil /\ ~GivesUp(p, x)
    BY SteadyStays
  <1>2. \A q \in Procs : q = p
    BY DEF OneProcess
  <1>3. TypeOK
    BY DEF RoundInv
  <1>4. phase'[p] \in {"scan", "retry"} \cup Busy
    BY DEF InRound
  <1>5. InRound(p) => SteadyAt(p, x)
    BY <1>1 DEF RoundInv, SteadyInv
  <1>6. CASE Environment \/ UNCHANGED vars
    <2>1. UNCHANGED <<memory, control>>
      BY <1>6 DEF Environment, Remount, Edit, vars
    <2>2. SteadyAt(p, x)
      BY <1>4, <1>5, <2>1 DEF InRound
    <2>3. QED
      BY <1>1, <2>1, <2>2 DEF SteadyAt, Dealt, InWork, Scanning
  <1>7. CASE Boot(p) \/ Rebuild(p) \/ Crash(p) \/ EndRound(p)
    BY <1>3, <1>4, <1>7 DEF Boot, Rebuild, Crash, EndRound, TypeOK
  <1>8. ASSUME NEW y \in Paths, SkipFile(p, y) PROVE SteadyAt(p, x)'
    <2>1. /\ phase[p] = "scan" /\ batch'[p] = batch[p] \ {y}
          /\ UNCHANGED <<memory, phase, job>>
      BY <1>3, <1>8 DEF SkipFile, Take, TypeOK
    <2>2. SteadyAt(p, x)
      BY <1>5, <2>1 DEF InRound
    <2>3. y = x => Dealt(p, x)
      <3>1. queue[p][x] \in Nat
        BY <1>1, <1>3, ConstantsAssumption DEF TypeOK
      <3>2. QED
        BY <1>1, <1>8, <3>1 DEF GivesUp, Dealt
    <2>4. QED
      BY <1>1, <2>1, <2>2, <2>3 DEF SteadyAt, Dealt, InWork, Scanning
  <1>9. ASSUME NEW y \in Paths, DropVanished(p, y) PROVE SteadyAt(p, x)'
    <2>1. /\ phase[p] = "scan" /\ batch'[p] = batch[p] \ {y} /\ y # x
          /\ SetEntry(p, y, Nil) /\ UNCHANGED <<queue, ignored, phase, job>>
      BY <1>1, <1>3, <1>9 DEF DropVanished, Take, TypeOK
    <2>2. manifest'[p][x] = manifest[p][x]
      BY <1>1, <1>3, <2>1, EntryWritten
    <2>3. SteadyAt(p, x)
      BY <1>5, <2>1 DEF InRound
    <2>4. QED
      BY <1>1, <2>1, <2>2, <2>3 DEF SteadyAt, Dealt, InWork, Scanning
  <1>10. ASSUME NEW y \in Paths, NEW loop \in {"scan", "retry"}, Take(p, y, loop),
                UNCHANGED <<folder, memory>>, phase'[p] = "upload",
                job'[p].path = y, job'[p].hash = file[y], job'[p].from = loop
         PROVE  SteadyAt(p, x)'
    <2>1. phase[p] = loop /\ batch'[p] = batch[p] \ {y}
      BY <1>3, <1>10 DEF Take, TypeOK
    <2>2. SteadyAt(p, x)
      BY <1>5, <2>1 DEF InRound
    <2>3. x = y => InWork(p, x)' /\ job'[p].hash = file'[x]
      BY <1>1, <1>10 DEF InWork
    <2>4. x # y => ~InWork(p, x)' /\ (Scanning(p) => Scanning(p)') /\ (Dealt(p, x) => Dealt(p, x)')
      BY <1>1, <1>10, <2>1 DEF InWork, Scanning, Dealt
    <2>5. ~InWork(p, x)
      BY <2>1 DEF InWork
    <2>6. x \in Present' \ ignored'[p] /\ file'[x] \notin Oversized
      BY <1>1, <1>10, <2>2 DEF SteadyAt
    <2>7. x # y => Dealt(p, x)' \/ (Scanning(p)' /\ x \in batch'[p])
      BY <2>1, <2>2, <2>4, <2>5 DEF SteadyAt
    <2>8. phase'[p] # "dequeue"
      BY <1>10
    <2>9. QED
      BY <2>3, <2>4, <2>6, <2>7, <2>8 DEF SteadyAt
  <1>11. ASSUME NEW y \in Paths, UploadChanged(p, y) \/ Retry(p, y) PROVE SteadyAt(p, x)'
    <2>1. PICK loop \in {"scan", "retry"}, n \in Attempts :
            Take(p, y, loop) /\ StartUpload(p, y, file[y], n)
      BY <1>3, <1>11, ConstantsAssumption DEF UploadChanged, Retry, TypeOK
    <2>2. /\ phase'[p] = "upload"
          /\ job'[p] = [path |-> y, hash |-> file[y], attempts |-> n, from |-> phase[p]]
          /\ UNCHANGED <<folder, memory>>
      BY <1>3, <2>1 DEF StartUpload, TypeOK
    <2>3. phase[p] = loop
      BY <2>1 DEF Take
    <2>4. job'[p].path = y /\ job'[p].hash = file[y] /\ job'[p].from = loop
      BY <2>2, <2>3
    <2>5. QED
      BY <1>10, <2>1, <2>2, <2>4
  <1>12. CASE UploadAccepted(p)
    <2>1. phase[p] = "upload" /\ phase'[p] = "record" /\ UNCHANGED <<memory, batch, job>>
      BY <1>3, <1>12 DEF UploadAccepted, TypeOK
    <2>2. SteadyAt(p, x)
      BY <1>5, <2>1 DEF InRound
    <2>3. QED
      BY <1>1, <2>1, <2>2 DEF SteadyAt, Dealt, InWork, Scanning
  <1>13. ASSUME phase[p] \in Busy, Return(p), UNCHANGED <<ignored, batch>>,
                x # job[p].path, Dealt(p, x) => Dealt(p, x)'
         PROVE  SteadyAt(p, x)'
    <2>1. job[p] \in Jobs
      BY <1>3, <1>13 DEF TypeOK
    <2>2. phase'[p] = job[p].from /\ job[p].from \in {"scan", "retry"}
      BY <1>3, <1>13, <2>1 DEF Return, TypeOK, Jobs
    <2>3. SteadyAt(p, x)
      BY <1>5, <1>13 DEF InRound
    <2>4. ~InWork(p, x) /\ ~InWork(p, x)'
      BY <1>13, <2>2 DEF InWork
    <2>5. Scanning(p) => Scanning(p)'
      BY <1>13, <2>2 DEF Scanning
    <2>6. QED
      BY <1>1, <1>13, <2>3, <2>4, <2>5 DEF SteadyAt
  <1>14. ASSUME phase[p] \in Busy, Return(p), UNCHANGED <<ignored, batch>>,
                x = job[p].path, Dealt(p, x)'
         PROVE  SteadyAt(p, x)'
    <2>1. job[p] \in Jobs
      BY <1>3, <1>14 DEF TypeOK
    <2>2. phase'[p] \in {"scan", "retry"}
      BY <1>3, <1>14, <2>1 DEF Return, TypeOK, Jobs
    <2>3. SteadyAt(p, x)
      BY <1>5, <1>14 DEF InRound
    <2>4. ~InWork(p, x)'
      BY <2>2 DEF InWork
    <2>5. QED
      BY <1>1, <1>14, <2>3, <2>4 DEF SteadyAt
  <1>15. CASE UploadFailed(p)
    <2>1. phase[p] \in Busy /\ Return(p) /\ UNCHANGED <<folder, manifest, ignored, batch>>
      BY <1>15 DEF UploadFailed
    <2>2. PICK n \in Attempts : n > 0 /\ Enqueue(p, job[p].path, n)
      BY <1>3, <1>15, FailureCounts
    <2>3. job[p].path \in Paths
      BY <1>3, <2>1 DEF TypeOK, Jobs
    <2>4. queue'[p][job[p].path] = n /\ \A y \in Paths : y # job[p].path => queue'[p][y] = queue[p][y]
      BY <1>3, <2>2, <2>3, ItemWritten
    <2>5. CASE x = job[p].path
      BY <1>14, <2>1, <2>2, <2>4, <2>5 DEF Dealt
    <2>6. CASE x # job[p].path
      BY <1>1, <1>13, <2>1, <2>4, <2>6 DEF Dealt
    <2>7. QED
      BY <2>5, <2>6
  <1>16. CASE UploadUnrecognised(p)
    <2>1. phase[p] \in Busy /\ Return(p) /\ UNCHANGED <<folder, memory, batch>>
      BY <1>16 DEF UploadUnrecognised
    <2>2. queue[p][x] \in Nat
      BY <1>1, <1>3, ConstantsAssumption DEF TypeOK
    <2>3. CASE x = job[p].path
      <3>1. queue[p][x] > 0
        BY <1>1, <1>16, <2>2, <2>3 DEF GivesUp
      <3>2. QED
        BY <1>14, <2>1, <2>3, <3>1 DEF Dealt
    <2>4. CASE x # job[p].path
      BY <1>13, <2>1, <2>4 DEF Dealt
    <2>5. QED
      BY <2>3, <2>4
  <1>17. CASE Record(p)
    <2>1. /\ phase[p] = "record" /\ phase'[p] = "dequeue" /\ UNCHANGED <<folder, queue, ignored, batch, job>>
          /\ SetEntry(p, job[p].path, job[p].hash)
      BY <1>3, <1>17 DEF Record, TypeOK
    <2>2. job[p].path \in Paths /\ job[p].hash \in Hashes
      BY <1>3, <2>1 DEF TypeOK, Jobs
    <2>3. /\ manifest'[p][job[p].path] = job[p].hash
          /\ \A y \in Paths : y # job[p].path => manifest'[p][y] = manifest[p][y]
      BY <1>3, <2>1, <2>2, EntryWritten
    <2>4. SteadyAt(p, x)
      BY <1>5, <2>1 DEF InRound
    <2>5. CASE x = job[p].path
      BY <1>1, <2>1, <2>3, <2>4, <2>5 DEF SteadyAt, Dealt, InWork
    <2>6. CASE x # job[p].path
      BY <1>1, <2>1, <2>3, <2>4, <2>6 DEF SteadyAt, Dealt, InWork, Scanning
    <2>7. QED
      BY <2>5, <2>6
  <1>18. CASE Dequeue(p)
    <2>1. /\ phase[p] = "dequeue" /\ Return(p) /\ UNCHANGED <<folder, manifest, ignored, batch>>
          /\ Enqueue(p, job[p].path, 0)
      BY <1>18 DEF Dequeue
    <2>2. job[p].path \in Paths /\ 0 \in Attempts
      BY <1>3, <2>1, ConstantsAssumption DEF TypeOK, Jobs
    <2>3. \A y \in Paths : y # job[p].path => queue'[p][y] = queue[p][y]
      BY <1>3, <2>1, <2>2, ItemWritten
    <2>4. CASE x = job[p].path
      <3>1. manifest[p][x] = file[x]
        BY <1>5, <2>1, <2>4 DEF SteadyAt, InWork, InRound
      <3>2. QED
        BY <1>14, <2>1, <2>4, <3>1 DEF Dealt
    <2>5. CASE x # job[p].path
      BY <1>1, <1>13, <2>1, <2>3, <2>5 DEF Dealt
    <2>6. QED
      BY <2>4, <2>5
  <1>19. CASE BeginRetry(p)
    <2>1. phase[p] = "scan" /\ batch[p] = {} /\ phase'[p] = "retry" /\ UNCHANGED <<memory, job>>
      BY <1>3, <1>19 DEF BeginRetry, TypeOK
    <2>2. SteadyAt(p, x)
      BY <1>5, <2>1 DEF InRound
    <2>3. QED
      BY <1>1, <2>1, <2>2 DEF SteadyAt, Dealt, InWork
  <1>20. ASSUME NEW y \in Paths, RetryVanished(p, y) PROVE SteadyAt(p, x)'
    <2>1. /\ phase[p] = "retry" /\ y # x
          /\ Enqueue(p, y, 0) /\ UNCHANGED <<manifest, ignored, phase, job>>
      BY <1>1, <1>20 DEF RetryVanished, Take
    <2>2. 0 \in Attempts
      BY ConstantsAssumption
    <2>3. queue'[p][x] = queue[p][x]
      BY <1>1, <1>3, <2>1, <2>2, ItemWritten
    <2>4. SteadyAt(p, x)
      BY <1>5, <2>1 DEF InRound
    <2>5. QED
      BY <1>1, <2>1, <2>3, <2>4 DEF SteadyAt, Dealt, InWork, Scanning
  <1>21. ASSUME NEW y \in Paths, RetryUnreadable(p, y) PROVE SteadyAt(p, x)'
    <2>1. phase[p] = "retry" /\ UNCHANGED <<memory, phase, job>>
      BY <1>21 DEF RetryUnreadable, Take
    <2>2. SteadyAt(p, x)
      BY <1>5, <2>1 DEF InRound
    <2>3. QED
      BY <1>1, <2>1, <2>2 DEF SteadyAt, Dealt, InWork, Scanning
  <1>22. QED
    BY <1>2, <1>6, <1>7, <1>8, <1>9, <1>11, <1>12, <1>15, <1>16, <1>17, <1>18, <1>19, <1>20, <1>21
       DEF Next, Step, Scan, RetryLoop, Upload

\* The files a round watches are files.
LEMMA SteadyType ==
  ASSUME RoundInv, TypeOK', Watch
  PROVE  steady' \in [Procs -> SUBSET Paths]
  <1> DEFINE s == [p \in Procs |->
                     IF BeginScan(p)
                     THEN {x \in batch'[p] \ ignored[p] : file[x] \notin Oversized}
                     ELSE {x \in steady[p] : Untouched(x) /\ ~GivesUp(p, x)}]
  <1>1. steady' = s
    BY DEF Watch
  <1>2. \A p \in Procs : batch'[p] \subseteq Paths /\ steady[p] \subseteq Paths
    BY DEF RoundInv, TypeOK
  <1>3. QED
    BY <1>1, <1>2

\* Every step of a process that is alone keeps its round in order.
LEMMA NextRound ==
  ASSUME OneProcess, "persist" \notin Faults
  PROVE  RoundInv /\ [RoundNext]_roundVars => RoundInv'
  <1> SUFFICES ASSUME RoundInv, [RoundNext]_roundVars
               PROVE  RoundInv'
    OBVIOUS
  <1>1. CASE RoundNext
    <2>1. Next /\ Watch
      BY <1>1 DEF RoundNext
    <2>2. TypeOK' /\ MemoryWritten'
      BY <2>1, NextType, NextWritten DEF RoundInv
    <2>3. ASSUME NEW p \in Procs, InRound(p)', NEW x \in steady'[p] PROVE SteadyAt(p, x)'
      BY <2>1, <2>3, ScanStarts, SteadyStep
    <2>4. SteadyInv'
      BY <2>3 DEF SteadyInv
    <2>5. steady' \in [Procs -> SUBSET Paths]
      BY <2>1, <2>2, SteadyType
    <2>6. QED
      BY <2>2, <2>4, <2>5 DEF RoundInv
  <1>2. CASE UNCHANGED roundVars
    BY <1>2 DEF roundVars, vars, RoundInv, TypeOK, MemoryWritten, SteadyInv, SteadyAt, Present,
                Dealt, InWork, Scanning, InRound
  <1>3. QED
    BY <1>1, <1>2

\* If one process works on the folder and its stores can be written, then no
\* failure drops a change: whatever requests fail, files cannot be read or
\* listed, stores cannot be loaded and processes are killed, when a round
\* ends every file that was there throughout and that the round did not give
\* up on is recorded as synced or awaits a retry, on disk.
THEOREM RoundIsSettled ==
  ASSUME OneProcess, "persist" \notin Faults
  PROVE  RoundSpec => []RoundSettles
  <1>1. RoundInit => RoundInv
    <2>1. Init => MemoryWritten
      BY DEF Init, MemoryWritten, EmptyManifest, EmptyQueue
    <2>2. RoundInit => SteadyInv /\ steady \in [Procs -> SUBSET Paths]
      BY DEF RoundInit, Init, SteadyInv, InRound
    <2>3. QED
      BY <2>1, <2>2, InitType DEF RoundInit, RoundInv
  <1>2. RoundInv => RoundSettles
    <2> SUFFICES ASSUME RoundInv, NEW p \in Procs, phase[p] = "retry", batch[p] = {}, NEW x \in steady[p]
                 PROVE  manifestFile[x] = file[x] \/ queueFile[x] > 0
      BY DEF RoundSettles
    <2>1. SteadyAt(p, x) /\ x \in Paths
      BY DEF RoundInv, SteadyInv, InRound
    <2>2. Dealt(p, x) /\ file[x] # Nil
      BY <2>1 DEF SteadyAt, InWork, Scanning, Present
    <2>3. QED
      BY <2>1, <2>2 DEF Dealt, RoundInv, MemoryWritten
  <1>3. QED
    BY <1>1, <1>2, NextRound, PTL DEF RoundSpec
-----------------------------------------------------------------------------
(* A relaunch resumes.  With stores that can be loaded as well, a process  *)
(* knows all that is recorded.                                             *)

\* A process that is up has in memory what is on disk.
ManifestLoaded == \A p \in Procs : phase[p] # "off" => manifest[p] = manifestFile

\* Every step keeps it so.
LEMMA NextLoaded ==
  ASSUME OneProcess, Faults \cap {"persist", "load"} = {}
  PROVE  TypeOK /\ ManifestLoaded /\ [Next]_vars => ManifestLoaded'
  <1> SUFFICES ASSUME TypeOK, ManifestLoaded, [Next]_vars, NEW p \in Procs, phase'[p] # "off"
               PROVE  manifest'[p] = manifestFile'
    BY DEF ManifestLoaded
  <1>1. \A q \in Procs : q = p
    BY DEF OneProcess
  <1>2. CASE manifestFile' = manifest'[p]
    BY <1>2
  <1>3. CASE UNCHANGED <<manifest, manifestFile>>
    <2>1. CASE phase[p] # "off"
      BY <1>3, <2>1 DEF ManifestLoaded
    <2>2. CASE phase[p] = "off"
      <3>1. phase' # phase
        BY <2>2
      <3>2. Boot(p)
        BY <1>1, <2>2, <3>1 DEF Next, Environment, Remount, Edit, Rebuild, Crash, Step, BeginScan, Scan,
              SkipFile, DropVanished, UploadChanged, Take, BeginRetry, RetryLoop, RetryVanished,
              RetryUnreadable, Retry, EndRound, Upload, UploadAccepted, UploadFailed,
              UploadUnrecognised, Record, Dequeue, vars
      <3>3. QED
        BY <3>2 DEF Boot, Load, AfterLoad, TypeOK
    <2>3. QED
      BY <2>1, <2>2
  <1>4. CASE UNCHANGED manifestFile /\ (manifest'[p] = EmptyManifest \/ (Load(p) /\ manifest'[p] = manifestFile))
    <2>1. CASE Load(p)
      BY <1>4, <2>1 DEF Load, AfterLoad, TypeOK
    <2>2. CASE ~Load(p)
      <3>1. CASE UNCHANGED manifest
        <4>1. QED
          BY <1>3, <1>4, <3>1
      <3>2. CASE manifest' # manifest
        <4>1. ~Environment /\ ~UNCHANGED vars
          BY <3>2 DEF Environment, Remount, Edit, vars
        <4>2. Crash(p) \/ EndRound(p) \/ Record(p) \/ \E x \in Paths : DropVanished(p, x)
          BY <1>1, <2>2, <3>2, <4>1 DEF Next, Boot, Rebuild, Step, BeginScan, Scan, SkipFile, UploadChanged,
                StartUpload, BeginRetry, RetryLoop, RetryVanished, RetryUnreadable, Retry, Upload,
                UploadAccepted, UploadFailed, UploadUnrecognised, Dequeue
        <4>3. CASE Crash(p)
          BY <4>3 DEF Crash, TypeOK
        <4>4. CASE EndRound(p)
          BY <3>2, <4>4 DEF EndRound, TypeOK
        <4>5. CASE Record(p)
          <5>1. job[p].path \in Paths /\ job[p].hash \in Hashes
            BY <4>5 DEF Record, TypeOK, Jobs
          <5>2. QED
            BY <4>5, <5>1, EntryWritten DEF Record
        <4>6. ASSUME NEW x \in Paths, DropVanished(p, x) PROVE manifest'[p] = manifestFile'
          BY <4>6, EntryWritten DEF DropVanished
        <4>7. QED
          BY <4>2, <4>3, <4>4, <4>5, <4>6
      <3>3. QED
        BY <3>1, <3>2
    <2>3. QED
      BY <2>1, <2>2
  <1>5. QED
    BY <1>2, <1>3, <1>4, StoreStep

\* If one process works on the folder and its stores can be read and
\* written, a scan uploads no content that is already recorded, also after
\* the process was killed and started again.
THEOREM RecordedStaysRecorded ==
  ASSUME OneProcess, Faults \cap {"persist", "load"} = {}
  PROVE  Spec => RecordedNotReuploaded
  <1> DEFINE NotAgain == \A p \in Procs :
                           phase[p] = "scan" /\ phase'[p] = "upload"
                               => manifestFile[job'[p].path] # job'[p].hash
  <1>1. Init => TypeOK /\ ManifestLoaded
    BY InitType DEF Init, ManifestLoaded
  <1>2. TypeOK /\ ManifestLoaded /\ [Next]_vars => NotAgain
    <2> SUFFICES ASSUME TypeOK, ManifestLoaded, [Next]_vars,
                        NEW p \in Procs, phase[p] = "scan", phase'[p] = "upload"
                 PROVE  manifestFile[job'[p].path] # job'[p].hash
      OBVIOUS
    <2>1. \A q \in Procs : q = p
      BY DEF OneProcess
    <2>2. PICK x \in Paths : UploadChanged(p, x)
      <3>1. phase' # phase
        OBVIOUS
      <3>2. ASSUME \/ Boot(p) \/ Rebuild(p) \/ Crash(p) \/ BeginScan(p) \/ BeginRetry(p) \/ EndRound(p)
                   \/ Upload(p) \/ Record(p) \/ Dequeue(p)
            PROVE  FALSE
        BY <3>2 DEF Boot, Rebuild, Crash, BeginScan, BeginRetry, EndRound, Upload, UploadAccepted,
                    UploadFailed, UploadUnrecognised, Record, Dequeue, TypeOK
      <3>3. ASSUME NEW x \in Paths,
                   \/ SkipFile(p, x) \/ DropVanished(p, x)
                   \/ RetryVanished(p, x) \/ RetryUnreadable(p, x) \/ Retry(p, x)
            PROVE  FALSE
        BY <3>1, <3>3 DEF SkipFile, DropVanished, RetryVanished, RetryUnreadable, Retry, Take
      <3>4. ~Environment /\ ~UNCHANGED vars
        BY <3>1 DEF Environment, Remount, Edit, vars
      <3>5. QED
        BY <2>1, <3>2, <3>3, <3>4 DEF Next, Step, Scan, RetryLoop
    <2>3. job'[p] = [path |-> x, hash |-> file[x], attempts |-> 0, from |-> phase[p]]
      BY <2>2 DEF UploadChanged, StartUpload, TypeOK
    <2>4. job'[p].path = x /\ job'[p].hash = file[x]
      BY <2>3
    <2>5. manifest[p][x] # file[x]
      BY <2>2 DEF UploadChanged
    <2>6. QED
      BY <2>4, <2>5 DEF ManifestLoaded
  <1>3. TypeOK /\ ManifestLoaded /\ [Next]_vars => [NotAgain]_vars
    BY <1>2
  <1>4. QED
    BY <1>1, <1>3, NextType, NextLoaded, PTL DEF Spec, RecordedNotReuploaded
-----------------------------------------------------------------------------
(* The store files of a process that is alone are durable maps.            *)

USE DEF Answered

\* A process that is up has in memory the queue that is on disk.
QueueLoaded == \A p \in Procs : phase[p] # "off" => queue[p] = queueFile

\* An item is removed from the queue after its upload is recorded on disk.
JobRecorded ==
    \A p \in Procs : phase[p] = "dequeue" => manifestFile[job[p].path] = job[p].hash

LedgerInv == TypeOK /\ ManifestLoaded /\ QueueLoaded /\ JobRecorded

\* Every step keeps the queue of a process that is up that of the file.
LEMMA NextQueueLoaded ==
  ASSUME OneProcess, Faults \cap {"persist", "load"} = {}
  PROVE  TypeOK /\ QueueLoaded /\ [Next]_vars => QueueLoaded'
  <1> SUFFICES ASSUME TypeOK, QueueLoaded, [Next]_vars, NEW p \in Procs, phase'[p] # "off"
               PROVE  queue'[p] = queueFile'
    BY DEF QueueLoaded
  <1>1. \A q \in Procs : q = p
    BY DEF OneProcess
  <1>2. CASE queueFile' = queue'[p]
    BY <1>2
  <1>3. CASE Boot(p) \/ Rebuild(p)
    BY <1>3 DEF Boot, Rebuild, Load, AfterLoad, TypeOK
  <1>4. CASE Crash(p) \/ EndRound(p)
    BY <1>4 DEF Crash, EndRound, TypeOK, QueueLoaded
  <1>5. CASE UNCHANGED <<queue, queueFile>> /\ phase[p] # "off"
    BY <1>5 DEF QueueLoaded
  <1>6. CASE Environment \/ UNCHANGED vars
    BY <1>5, <1>6 DEF Environment, Remount, Edit, vars
  <1>7. CASE BeginScan(p) \/ BeginRetry(p) \/ UploadAccepted(p) \/ UploadUnrecognised(p) \/ Record(p)
    BY <1>5, <1>7 DEF BeginScan, BeginRetry, UploadAccepted, UploadUnrecognised, Record
  <1>8. ASSUME NEW y \in Paths,
               \/ SkipFile(p, y) \/ DropVanished(p, y) \/ UploadChanged(p, y)
               \/ RetryUnreadable(p, y) \/ Retry(p, y)
        PROVE  queue'[p] = queueFile'
    BY <1>5, <1>8 DEF SkipFile, DropVanished, UploadChanged, RetryUnreadable, Retry, StartUpload, Take
  <1>9. ASSUME NEW y \in Paths, RetryVanished(p, y) PROVE queue'[p] = queueFile'
    BY <1>9 DEF RetryVanished, Enqueue, AfterPersist
  <1>10. CASE UploadFailed(p) \/ Dequeue(p)
    BY <1>10 DEF UploadFailed, Dequeue, Enqueue, AfterPersist
  <1>11. QED
    BY <1>1, <1>3, <1>4, <1>6, <1>7, <1>8, <1>9, <1>10 DEF Next, Step, Scan, RetryLoop, Upload

\* An upload comes to "dequeue" by its record, and no other step of a process
\* that is alone touches the manifest before it has left.
LEMMA NextJobRecorded ==
  ASSUME OneProcess, Faults \cap {"persist", "load"} = {}
  PROVE  TypeOK /\ JobRecorded /\ [Next]_vars => JobRecorded'
  <1> SUFFICES ASSUME TypeOK, JobRecorded, [Next]_vars, NEW p \in Procs, phase'[p] = "dequeue"
               PROVE  manifestFile'[job'[p].path] = job'[p].hash
    BY DEF JobRecorded
  <1>1. \A q \in Procs : q = p
    BY DEF OneProcess
  <1>2. CASE Record(p)
    <2>1. /\ SetEntry(p, job[p].path, job[p].hash) /\ UNCHANGED job
          /\ job[p].path \in Paths /\ job[p].hash \in Hashes
      BY <1>2 DEF Record, TypeOK, Jobs
    <2>2. QED
      BY <2>1, EntryWritten
  <1>3. CASE Environment \/ UNCHANGED vars
    BY <1>3 DEF Environment, Remount, Edit, vars, JobRecorded
  <1>4. CASE Boot(p) \/ Rebuild(p) \/ Crash(p) \/ BeginScan(p) \/ BeginRetry(p) \/ EndRound(p)
    BY <1>4 DEF Boot, Rebuild, Crash, BeginScan, BeginRetry, EndRound, TypeOK
  <1>5. ASSUME NEW y \in Paths,
               \/ SkipFile(p, y) \/ DropVanished(p, y) \/ UploadChanged(p, y)
               \/ RetryVanished(p, y) \/ RetryUnreadable(p, y) \/ Retry(p, y)
        PROVE  FALSE
    BY <1>5 DEF SkipFile, DropVanished, UploadChanged, RetryVanished, RetryUnreadable, Retry,
                StartUpload, Take, TypeOK
  <1>6. ASSUME UploadAccepted(p) \/ UploadFailed(p) \/ UploadUnrecognised(p) \/ Dequeue(p)
        PROVE  FALSE
    <2>1. CASE UploadAccepted(p)
      BY <2>1 DEF UploadAccepted, TypeOK
    <2>2. CASE UploadFailed(p) \/ UploadUnrecognised(p) \/ Dequeue(p)
      <3>1. Return(p) /\ job[p] \in Jobs
        BY <2>2 DEF UploadFailed, UploadUnrecognised, Dequeue, TypeOK
      <3>2. phase'[p] \in {"scan", "retry"}
        BY <3>1 DEF Return, Jobs, TypeOK
      <3>3. QED
        BY <3>2
    <2>3. QED
      BY <1>6, <2>1, <2>2
  <1>7. QED
    BY <1>1, <1>2, <1>3, <1>4, <1>5, <1>6 DEF Next, Step, Scan, RetryLoop, Upload

\* The state of the ledger that the engine's variables do not name as it does.
AcceptedPairs == {<<u.path, u.hash>> : u \in accepted}

AnsweredPairs == {<<job[p].path, job[p].hash>> : p \in Answered}

QueuedPaths == {x \in Paths : queueFile[x] > 0}

ledger == <<Present, AcceptedPairs, AnsweredPairs, manifestFile, QueuedPaths>>

\* One process has one answer to note at most.
LEMMA OneAnswer ==
  ASSUME OneProcess, NEW p \in Procs
  PROVE  AnsweredPairs = IF p \in Answered THEN {<<job[p].path, job[p].hash>>} ELSE {}
  BY DEF OneProcess, AnsweredPairs

\* So it has after a step.
LEMMA OneAnswerNext ==
  ASSUME OneProcess, NEW p \in Procs
  PROVE  AnsweredPairs' = IF p \in Answered' THEN {<<job'[p].path, job'[p].hash>>} ELSE {}
  BY DEF OneProcess, AnsweredPairs

\* An upload that is accepted adds its pair.
LEMMA PairAccepted ==
  ASSUME NEW p \in Procs, AcceptNow(p)
  PROVE  AcceptedPairs' = AcceptedPairs \cup {<<job[p].path, job[p].hash>>}
  <1> DEFINE v == [path |-> job[p].path, hash |-> job[p].hash, content |-> file[job[p].path]]
  <1>1. accepted' = accepted \cup {v}
    BY DEF AcceptNow
  <1>2. v.path = job[p].path /\ v.hash = job[p].hash
    OBVIOUS
  <1> HIDE DEF v
  <1>3. AcceptedPairs' = AcceptedPairs \cup {<<v.path, v.hash>>}
    BY <1>1, Zenon DEF AcceptedPairs
  <1>4. QED
    BY <1>2, <1>3

\* A step that neither starts nor ends the noting of an answer, and leaves
\* the disk and the server alone, is none of the ledger's.
LEMMA LedgerStutters ==
  ASSUME OneProcess, NEW p \in Procs, UNCHANGED <<folder, disk, accepted>>,
         p \notin Answered, p \notin Answered'
  PROVE  UNCHANGED ledger
  <1>1. AnsweredPairs = {} /\ AnsweredPairs' = {}
    BY OneAnswer, OneAnswerNext
  <1>2. QED
    BY <1>1 DEF ledger, Present, AcceptedPairs, QueuedPaths

\* The initial states map to initial states.
LEMMA LedgerInit == Init => Ledger!Init
  BY ConstantsAssumption DEF Init, Ledger!Init, Present, EmptyManifest, EmptyQueue

\* Every step maps to a step of the ledger, or to none.
LEMMA LedgerNext ==
  ASSUME OneProcess, Faults \cap {"persist", "load"} = {}
  PROVE  LedgerInv /\ [Next]_vars => [Ledger!Next]_ledger
  <1> SUFFICES ASSUME LedgerInv, [Next]_vars
               PROVE  Ledger!Next \/ UNCHANGED ledger
    OBVIOUS
  <1>1. TypeOK
    BY DEF LedgerInv
  <1>2. CASE UNCHANGED vars
    BY <1>2 DEF vars, ledger, Present, AcceptedPairs, AnsweredPairs, QueuedPaths
  <1>3. CASE Environment
    <2>1. UNCHANGED <<AcceptedPairs, AnsweredPairs, manifestFile, QueuedPaths>> /\ Present' \in SUBSET Paths
      BY <1>3 DEF Environment, Remount, Edit, AcceptedPairs, AnsweredPairs, QueuedPaths, Present
    <2>2. Ledger!Move
      BY <2>1 DEF Ledger!Move, AcceptedPairs, AnsweredPairs, QueuedPaths
    <2>3. QED
      BY <2>2 DEF Ledger!Next
  <1>4. ASSUME NEW p \in Procs,
               \/ Boot(p) \/ Rebuild(p) \/ Crash(p) \/ BeginScan(p) \/ BeginRetry(p) \/ EndRound(p)
               \/ \E x \in Paths : SkipFile(p, x) \/ UploadChanged(p, x) \/ RetryUnreadable(p, x) \/ Retry(p, x)
        PROVE  Ledger!Next \/ UNCHANGED ledger
    <2>1. UNCHANGED <<folder, disk, accepted>>
      BY <1>4 DEF Boot, Rebuild, Crash, BeginScan, BeginRetry, EndRound, SkipFile, UploadChanged,
                  RetryUnreadable, Retry, StartUpload
    <2>2. p \notin Answered'
      BY <1>1, <1>4 DEF Boot, Rebuild, Crash, BeginScan, BeginRetry, EndRound, SkipFile, UploadChanged,
                  RetryUnreadable, Retry, StartUpload, Take, TypeOK
    <2>3. CASE Crash(p)
      <3>1. AnsweredPairs' = {}
        BY <2>2, OneAnswerNext
      <3>2. UNCHANGED <<Present, AcceptedPairs, manifestFile, QueuedPaths>>
        BY <2>1 DEF Present, AcceptedPairs, QueuedPaths
      <3>3. Ledger!Forget
        BY <3>1, <3>2 DEF Ledger!Forget, AcceptedPairs, AnsweredPairs, QueuedPaths
      <3>4. QED
        BY <3>3 DEF Ledger!Next
    <2>4. CASE ~Crash(p)
      <3>1. p \notin Answered
        BY <1>4, <2>4 DEF Boot, Rebuild, BeginScan, BeginRetry, EndRound, SkipFile, UploadChanged,
                  RetryUnreadable, Retry, Take
      <3>2. QED
        BY <2>1, <2>2, <3>1, LedgerStutters
    <2>5. QED
      BY <2>3, <2>4
  <1>5. ASSUME NEW p \in Procs, NEW x \in Paths, DropVanished(p, x) PROVE Ledger!Next
    <2>1. /\ phase[p] = "scan" /\ x \notin Present /\ SetEntry(p, x, Nil)
          /\ UNCHANGED <<folder, queueFile, accepted, phase, job>>
      BY <1>5 DEF DropVanished, Take
    <2>2. manifestFile' = [manifestFile EXCEPT ![x] = Nil]
      BY <1>1, <2>1 DEF SetEntry, AfterPersist, LedgerInv, ManifestLoaded, TypeOK
    <2>3. UNCHANGED <<Present, AcceptedPairs, AnsweredPairs, QueuedPaths>>
      BY <2>1 DEF Present, AcceptedPairs, AnsweredPairs, QueuedPaths
    <2>4. Ledger!Clear(x)
      BY <2>1, <2>2, <2>3 DEF Ledger!Clear, AcceptedPairs, AnsweredPairs, QueuedPaths
    <2>5. QED
      BY <2>4 DEF Ledger!Next
  <1>6. ASSUME NEW p \in Procs, NEW x \in Paths, NEW n \in Attempts, phase[p] # "off", Enqueue(p, x, n)
        PROVE  QueuedPaths' = IF n > 0 THEN QueuedPaths \cup {x} ELSE QueuedPaths \ {x}
    <2>1. queueFile' = [queueFile EXCEPT ![x] = n] /\ queueFile \in [Paths -> Attempts]
      BY <1>1, <1>6 DEF Enqueue, AfterPersist, LedgerInv, QueueLoaded, TypeOK
    <2>2. QED
      BY <2>1 DEF QueuedPaths
  <1>7. ASSUME NEW p \in Procs, NEW x \in Paths, RetryVanished(p, x) PROVE Ledger!Next
    <2>1. /\ phase[p] = "retry" /\ x \notin Present /\ Enqueue(p, x, 0) /\ 0 \in Attempts
          /\ UNCHANGED <<folder, manifestFile, accepted, phase, job>>
      BY <1>7, ConstantsAssumption DEF RetryVanished, Take
    <2>2. QueuedPaths' = QueuedPaths \ {x}
      BY <1>6, <2>1
    <2>3. UNCHANGED <<Present, AcceptedPairs, AnsweredPairs, manifestFile>>
      BY <2>1 DEF Present, AcceptedPairs, AnsweredPairs
    <2>4. Ledger!Clear(x)
      BY <2>1, <2>2, <2>3 DEF Ledger!Clear, AcceptedPairs, AnsweredPairs, QueuedPaths
    <2>5. QED
      BY <2>4 DEF Ledger!Next
  <1>8. ASSUME NEW x \in Paths, NEW h \in Contents,
               Ledger!Fail(x, h) \/ Ledger!Accept(x, h) \/ Ledger!Record(x, h) \/ Ledger!Settle(x, h)
        PROVE  Ledger!Next
    BY <1>8 DEF Ledger!Next
  <1>9. ASSUME NEW p \in Procs, UploadAccepted(p) \/ UploadFailed(p) \/ UploadUnrecognised(p) \/ Record(p) \/ Dequeue(p)
        PROVE  Ledger!Next
    <2>1. phase[p] \in Busy /\ job[p] \in Jobs
      BY <1>1, <1>9 DEF UploadAccepted, UploadFailed, UploadUnrecognised, Record, Dequeue, TypeOK
    <2> PICK x \in Paths, h \in Contents : x = job[p].path /\ h = job[p].hash
      BY <2>1 DEF Jobs
    <2>2. UNCHANGED Present
      BY <1>9 DEF UploadAccepted, UploadFailed, UploadUnrecognised, Record, Dequeue, Present
    <2>3. Return(p) => AnsweredPairs' = {}
      <3>1. Return(p) => phase'[p] \in {"scan", "retry"}
        BY <1>1, <2>1 DEF Return, Jobs, TypeOK
      <3>2. QED
        BY <3>1, OneAnswerNext
    <2>4. CASE UploadAccepted(p)
      <3>1. AcceptedPairs' = AcceptedPairs \cup {<<x, h>>}
        BY <2>4, PairAccepted DEF UploadAccepted
      <3>2. phase[p] = "upload" /\ phase'[p] = "record" /\ UNCHANGED <<job, disk>>
        BY <1>1, <2>4 DEF UploadAccepted, TypeOK
      <3>3. AnsweredPairs' = AnsweredPairs \cup {<<x, h>>}
        BY <3>2, OneAnswer, OneAnswerNext
      <3>4. UNCHANGED <<manifestFile, QueuedPaths>>
        BY <3>2 DEF QueuedPaths
      <3>5. Ledger!Accept(x, h)
        BY <2>2, <3>1, <3>3, <3>4 DEF Ledger!Accept, AcceptedPairs, AnsweredPairs, QueuedPaths
      <3>6. QED
        BY <1>8, <2>1, <3>5
    <2>5. CASE UploadFailed(p) \/ UploadUnrecognised(p)
      <3>1. phase[p] = "upload" /\ Return(p) /\ UNCHANGED manifestFile
        BY <2>5 DEF UploadFailed, UploadUnrecognised
      <3>2. AnsweredPairs' = AnsweredPairs
        BY <2>3, <3>1, OneAnswer
      <3>3. AcceptedPairs' \in {AcceptedPairs, AcceptedPairs \cup {<<x, h>>}}
        <4>1. UNCHANGED accepted \/ AcceptNow(p)
          BY <2>5 DEF UploadFailed, UploadUnrecognised
        <4>2. UNCHANGED accepted => AcceptedPairs' = AcceptedPairs
          BY DEF AcceptedPairs
        <4>3. QED
          BY <4>1, <4>2, PairAccepted
      <3>4. QueuedPaths' \in {QueuedPaths, QueuedPaths \cup {x}}
        <4>1. CASE UploadFailed(p)
          <5>1. PICK n \in Attempts : n > 0 /\ Enqueue(p, x, n)
            BY <1>1, <4>1, FailureCounts
          <5>2. QED
            BY <1>6, <2>1, <3>1, <5>1
        <4>2. CASE UploadUnrecognised(p)
          BY <4>2 DEF UploadUnrecognised, QueuedPaths
        <4>3. QED
          BY <2>5, <4>1, <4>2
      <3>5. Ledger!Fail(x, h)
        BY <2>2, <3>1, <3>2, <3>3, <3>4 DEF Ledger!Fail, AcceptedPairs, AnsweredPairs, QueuedPaths
      <3>6. QED
        BY <1>8, <2>1, <3>5
    <2>6. CASE Record(p)
      <3>1. /\ phase[p] = "record" /\ phase'[p] = "dequeue" /\ SetEntry(p, x, h)
            /\ UNCHANGED <<job, accepted, queueFile>>
        BY <1>1, <2>6 DEF Record, TypeOK
      <3>2. manifestFile' = [manifestFile EXCEPT ![x] = h]
        BY <1>1, <3>1 DEF SetEntry, AfterPersist, LedgerInv, ManifestLoaded, TypeOK
      <3>3. AnsweredPairs = {<<x, h>>} /\ AnsweredPairs' = AnsweredPairs
        BY <3>1, OneAnswer, OneAnswerNext
      <3>4. UNCHANGED <<AcceptedPairs, QueuedPaths>>
        BY <3>1 DEF AcceptedPairs, QueuedPaths
      <3>5. Ledger!Record(x, h)
        BY <2>2, <3>2, <3>3, <3>4 DEF Ledger!Record, AcceptedPairs, AnsweredPairs, QueuedPaths
      <3>6. QED
        BY <1>8, <2>1, <3>5
    <2>7. CASE Dequeue(p)
      <3>1. /\ phase[p] = "dequeue" /\ Return(p) /\ Enqueue(p, x, 0) /\ 0 \in Attempts
            /\ UNCHANGED <<accepted, manifestFile>>
        BY <2>7, ConstantsAssumption DEF Dequeue
      <3>2. manifestFile[x] = h
        BY <3>1 DEF LedgerInv, JobRecorded
      <3>3. AnsweredPairs = {<<x, h>>} /\ AnsweredPairs' = {}
        BY <2>3, <3>1, OneAnswer
      <3>4. QueuedPaths' = QueuedPaths \ {x}
        BY <1>6, <2>1, <3>1
      <3>5. UNCHANGED AcceptedPairs
        BY <3>1 DEF AcceptedPairs
      <3>6. Ledger!Settle(x, h)
        BY <2>2, <3>1, <3>2, <3>3, <3>4, <3>5 DEF Ledger!Settle, AcceptedPairs, AnsweredPairs, QueuedPaths
      <3>7. QED
        BY <1>8, <2>1, <3>6
    <2>8. QED
      BY <1>9, <2>4, <2>5, <2>6, <2>7
  <1>10. QED
    BY <1>2, <1>3, <1>4, <1>5, <1>7, <1>9 DEF Next, Step, Scan, RetryLoop, Upload

\* If one process works on the folder and its stores can be read and written,
\* its two files are durable maps: whatever fails, whoever edits and whenever
\* the process is killed, no record and no queued item is lost.
THEOREM LedgerImplemented ==
  ASSUME OneProcess, Faults \cap {"persist", "load"} = {}
  PROVE  Spec => ImplementsLedger
  <1>1. Init => LedgerInv
    BY InitType DEF Init, LedgerInv, ManifestLoaded, QueueLoaded, JobRecorded
  <1>2. LedgerInv /\ [Next]_vars => LedgerInv'
    BY NextType, NextLoaded, NextQueueLoaded, NextJobRecorded DEF LedgerInv
  <1>3. LedgerInv /\ [Next]_vars
            => [Ledger!Next]_<<Present, {<<u.path, u.hash>> : u \in accepted},
                               {<<job[p].path, job[p].hash>> : p \in Answered},
                               manifestFile, {x \in Paths : queueFile[x] > 0}>>
    BY LedgerNext DEF ledger, AcceptedPairs, AnsweredPairs, QueuedPaths
  <1>4. QED
    BY <1>1, <1>2, <1>3, LedgerInit, PTL DEF Spec, ImplementsLedger, Ledger!Spec
=============================================================================
