----------------------------- MODULE SyncRounds -----------------------------
(***************************************************************************)
(* SyncEngine with a history variable: for each process, the files its     *)
(* round (SyncFullScan then ProcessRetryQueue) listed, may upload, could   *)
(* read and found unchanged throughout.                                    *)
(***************************************************************************)
EXTENDS SyncEngine

VARIABLE steady

roundVars == <<vars, steady>>

RoundInit == Init /\ steady = [p \in Procs |-> {}]

\* The round gives up on x, which is not queued: it cannot be read, or the
\* answer has a status attemptUpload has no case for.
GivesUp(p, x) ==
    /\ queue[p][x] = 0
    /\ \/ SkipFile(p, x) /\ manifest[p][x] # file[x]
       \/ UploadUnrecognised(p) /\ job[p].path = x

Untouched(x) == x \in Present /\ x \in Present' /\ file'[x] = file[x]

Watch ==
    steady' = [p \in Procs |->
        IF BeginScan(p)
        THEN {x \in batch'[p] \ ignored[p] : file[x] \notin Oversized}
        ELSE {x \in steady[p] : Untouched(x) /\ ~GivesUp(p, x)}]

RoundNext == Next /\ Watch

RoundSpec == RoundInit /\ [][RoundNext]_roundVars

FairRounds == RoundSpec /\ Fairness

\* When a round ends, the files on disk say of each of its steady files that
\* it is synced or that it awaits a retry: no failure drops a change.
RoundSettles ==
    \A p \in Procs :
        phase[p] = "retry" /\ batch[p] = {} =>
            \A x \in steady[p] : manifestFile[x] = file[x] \/ queueFile[x] > 0
=============================================================================
