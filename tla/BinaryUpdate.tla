---------------------------- MODULE BinaryUpdate ----------------------------
(***************************************************************************)
(* Replacing the program's own binary and undoing it: ApplyDaemonUpdate,   *)
(* run by the service when a check-in asks for it and by receptor update,  *)
(* the startup check that rolls a bad version back, the confirmation after *)
(* the first check-in, and the service manager that starts the process     *)
(* again.  Every version runs this code; versions differ in how they fail. *)
(*                                                                         *)
(* Each backup is a rename to <path>.previous.  os.Executable asks the     *)
(* kernel where the running file is: on Linux the answer follows that      *)
(* rename, on macOS it is the path the program was started from.  So files *)
(* are numbered: slot 0 is the binary, slot n + 1 is <slot n>.previous.    *)
(***************************************************************************)
EXTENDS Naturals

CONSTANTS
    Versions,          \* released versions
    Original,          \* the one installed and confirmed at first
    Worlds,            \* the machines and releases considered; see WorldType
    MaxUpdateAttempts, \* startups allowed before a rollback
    MaxUpdates,        \* bound on the number of updates begun
    Missing,           \* no file
    Corrupt            \* a marker that does not parse

FaultKinds ==
    { "shutdown", \* the machine or the user stops the service for a while
      "crash",    \* the service's process or receptor update is killed
      "rename",   \* a rename or a removal beside the binary is refused
      "save",     \* writing the marker fails, before or after truncating it
      "clear",    \* removing the marker is refused
      "restart" } \* the service manager cannot be asked to restart

UpdaterKinds == {"remote", "cli"}

\* What a behaviour never changes: who may update, which faults may happen,
\* whether os.Executable follows a rename (Linux), whether a service manager
\* runs the program, which versions die before Run, die in Run before their
\* first check-in, or run but never complete one, and how many updates
\* are begun at most.
WorldType ==
    [ updaters : SUBSET UpdaterKinds, faults : SUBSET FaultKinds,
      linux : BOOLEAN, service : BOOLEAN,
      early : SUBSET Versions, late : SUBSET Versions, mute : SUBSET Versions,
      updates : 0..MaxUpdates ]

ASSUME ConstantsAssumption ==
    /\ Original \in Versions
    /\ MaxUpdateAttempts \in Nat \ {0}
    /\ MaxUpdates \in Nat
    /\ Worlds \subseteq WorldType
    /\ \A w \in Worlds : Original \notin w.early \cup w.late \cup w.mute
    /\ Missing \notin Versions
    /\ {Missing, Corrupt} \cap [version : Versions, attempts : 0..(MaxUpdateAttempts + 1)] = {}

VARIABLES
    world,             \* the world of this behaviour
    bin,               \* slot -> version or Missing
    tmp,               \* slot -> what <slot>.update-tmp holds
    marker,            \* state/update_state.json
    pc, running,       \* where the service's process is, and its version
    confirmed,         \* updateConfirmed
    term,              \* SIGTERM sent, not yet taken
    exe, tracked,      \* slot os.Executable names; does it still follow the file?
    at,                \* slot each updater, and the startup check, resolved
    step, got,         \* where each updater is, and the version it downloaded
    updates,           \* updates begun
    proven,            \* history: versions with a check-in since swapped in
    starts             \* history: startups since the binary was replaced

path    == <<exe, tracked>>
files   == <<bin, tmp, marker>>
process == <<pc, running, confirmed, term, path>>
updater == <<step, got, at, updates>>
history == <<proven, starts>>
machine == <<files, process, updater, history>>
vars    == <<world, machine>>

Updaters          == world.updaters
Faults            == world.faults
PathFollowsRename == world.linux
ServiceInstalled  == world.service
DiesEarly         == world.early
DiesLate          == world.late
Mute              == world.mute

Slots     == 0..(MaxUpdates + 1)
binary    == bin[0]
previous  == bin[1]
Counts    == 0..(MaxUpdateAttempts + 1)  \* the last stands for "or more"
Pending   == [version : Versions, attempts : Counts]
OnDisk    == Versions \cup {Missing}
Places    == {"down", "boot", "rollback", "cleanup", "init", "loop", "updating", "confirm"}
Steps     == {"none", "write", "unback", "backup", "swap", "mark", "restart"}
Increment(n) == IF n > MaxUpdateAttempts THEN n ELSE n + 1

Init ==
    /\ world \in Worlds
    /\ bin = [s \in Slots |-> IF s = 0 THEN Original ELSE Missing]
    /\ tmp = [s \in Slots |-> Missing]
    /\ marker = Missing
    /\ pc = "down"
    /\ running = Original
    /\ confirmed = FALSE
    /\ term = FALSE
    /\ exe = 0
    /\ tracked = FALSE
    /\ at = [u \in UpdaterKinds \cup {"startup"} |-> 0]
    /\ step = [u \in UpdaterKinds |-> "none"]
    /\ got = [u \in UpdaterKinds |-> Original]
    /\ updates = 0
    /\ proven = {Original}
    /\ starts = 0
-----------------------------------------------------------------------------
(* Renames, as os.Executable of the service sees them.                     *)

\* What was in slot s is removed or replaced.
Gone(s) ==
    /\ tracked' = (tracked /\ exe # s)
    /\ UNCHANGED exe

Renamed(from, to) ==
    /\ bin' = [bin EXCEPT ![to] = bin[from], ![from] = Missing]
    /\ exe' = IF tracked /\ exe = from THEN to ELSE exe
    /\ tracked' = (tracked /\ exe # to)
-----------------------------------------------------------------------------
(* The process and its manager.                                            *)

\* The service manager, or a user running receptor run, starts the binary.
Launch ==
    /\ pc = "down"
    /\ binary \in Versions
    /\ pc' = "boot"
    /\ running' = binary
    /\ confirmed' = FALSE
    /\ term' = FALSE
    /\ exe' = 0
    /\ tracked' = PathFollowsRename
    /\ starts' = Increment(starts)
    /\ UNCHANGED <<files, updater, proven>>

\* The process ends, and with it an update it was making.
Die ==
    /\ pc' = "down"
    /\ confirmed' = FALSE
    /\ term' = FALSE
    /\ exe' = 0
    /\ tracked' = FALSE
    /\ step' = [u \in UpdaterKinds |-> IF u = "remote" THEN "none" ELSE step[u]]
    /\ UNCHANGED <<files, running, got, at, updates, history>>

DieEarly == pc = "boot" /\ running \in DiesEarly /\ Die

DieLate == pc \in {"init", "loop"} /\ running \in DiesLate /\ Die

Kill == "crash" \in Faults /\ pc # "down" /\ Die

Shutdown ==
    /\ "shutdown" \in Faults
    /\ pc # "down"
    /\ term' = TRUE
    /\ UNCHANGED <<files, pc, running, confirmed, path, updater, history>>

\* Until Run calls signal.Notify, SIGTERM kills the process.
TermKills == term /\ pc \in {"boot", "rollback", "cleanup", "init"} /\ Die

\* Run's select takes the signal; another ready case may come first.
TermTaken == term /\ pc = "loop" /\ Die
-----------------------------------------------------------------------------
(* The startup check.                                                      *)

\* os.WriteFile truncates, then writes: a failure leaves either trace.
AfterSave(new) == {new} \cup (IF "save" \in Faults THEN {marker, Corrupt} ELSE {})

AfterClear == {Missing} \cup (IF "clear" \in Faults THEN {marker} ELSE {})

\* loadUpdateState finds nothing, or nothing it can parse.
CheckNothingPending ==
    /\ pc = "boot" /\ running \notin DiesEarly
    /\ marker \notin Pending
    /\ pc' = "init"
    /\ UNCHANGED <<files, running, confirmed, term, path, updater, history>>

\* Mutant: one startup too few.
CheckPendingOffByOne ==
    /\ pc = "boot" /\ running \notin DiesEarly
    /\ marker \in Pending
    /\ at' = [at EXCEPT !["startup"] = exe]
    /\ marker' = [marker EXCEPT !.attempts = Increment(@)]
    /\ pc' = IF marker'.attempts >= MaxUpdateAttempts /\ bin[exe + 1] # Missing
             THEN "rollback" ELSE "init"
    /\ UNCHANGED <<bin, tmp, running, confirmed, term, path, step, got, updates, history>>

\* Mutant: the startup is counted in memory only.
CheckPendingUnsaved ==
    /\ pc = "boot" /\ running \notin DiesEarly
    /\ marker \in Pending
    /\ at' = [at EXCEPT !["startup"] = exe]
    /\ pc' = IF marker.attempts + 1 > MaxUpdateAttempts THEN "rollback" ELSE "init"
    /\ UNCHANGED <<files, running, confirmed, term, path, step, got, updates, history>>

\* The startup is counted first; a failed save ends the check.
CheckPending ==
    /\ pc = "boot" /\ running \notin DiesEarly
    /\ marker \in Pending
    /\ at' = [at EXCEPT !["startup"] = exe]
    /\ LET counted  == [marker EXCEPT !.attempts = Increment(@)]
           exceeded == counted.attempts > MaxUpdateAttempts /\ bin[exe + 1] # Missing
       IN  /\ marker' \in AfterSave(counted)
           /\ pc' = IF marker' = counted /\ exceeded THEN "rollback" ELSE "init"
    /\ UNCHANGED <<bin, tmp, running, confirmed, term, path, step, got, updates, history>>

\* Mutant: the names are swapped in the rename.
RollbackBackwards ==
    /\ pc = "rollback"
    /\ Renamed(at["startup"], at["startup"] + 1)
    /\ pc' = "cleanup"
    /\ UNCHANGED <<tmp, marker, running, confirmed, term, updater, history>>

\* Mutant: the backup is copied back and stays.
RollbackCopies ==
    /\ pc = "rollback"
    /\ LET s == at["startup"]
       IN  /\ bin[s + 1] # Missing
           /\ bin' = [bin EXCEPT ![s] = bin[s + 1]]
           /\ Gone(s)
           /\ starts' = IF s = 0 THEN 0 ELSE starts
    /\ pc' = "cleanup"
    /\ UNCHANGED <<tmp, marker, running, confirmed, term, updater, proven>>

\* rollbackToPreviousBinary: rename, which may fail, ...
RollbackRename ==
    /\ pc = "rollback"
    /\ LET s == at["startup"]
       IN  \/ /\ bin[s + 1] # Missing
              /\ Renamed(s + 1, s)
              /\ starts' = IF s = 0 THEN 0 ELSE starts
              /\ pc' = "cleanup"
           \/ /\ bin[s + 1] = Missing \/ "rename" \in Faults
              /\ pc' = "init"
              /\ UNCHANGED <<bin, path, starts>>
    /\ UNCHANGED <<tmp, marker, running, confirmed, term, updater, proven>>

\* ... then clearUpdateState; if that succeeds Run returns an error.
RollbackClear ==
    /\ pc = "cleanup"
    /\ marker' \in AfterClear
    /\ IF marker' = Missing
       THEN pc' = "down" /\ confirmed' = FALSE /\ term' = FALSE /\ exe' = 0 /\ tracked' = FALSE
       ELSE pc' = "init" /\ UNCHANGED <<confirmed, term, path>>
    /\ UNCHANGED <<bin, tmp, running, updater, history>>
-----------------------------------------------------------------------------
(* Run's loop, seen from the update machinery.                             *)

\* The initial sync ends; the signal handler is in place from here on.
EnterLoop ==
    /\ pc = "init"
    /\ ~term
    /\ pc' = "loop"
    /\ UNCHANGED <<files, running, confirmed, term, path, updater, history>>

\* A check-in succeeds.
CheckIn(next) ==
    /\ pc = "loop"
    /\ running \notin Mute \cup DiesLate
    /\ pc' = next
    /\ proven' = proven \cup {running}
    /\ UNCHANGED <<files, running, confirmed, term, path, starts>>

\* The server cannot be reached or refuses: logged, nothing changes.
CheckInFails == pc = "loop" /\ UNCHANGED vars

\* It asks for nothing, or the download fails.
CheckInPlain == CheckIn("confirm") /\ UNCHANGED updater

\* It asks for an update, which goes where the program now seems to be; the
\* release downloaded is whatever is latest.
\* Memory asks only a daemon that reported another version.
CheckInUpdate(v) ==
    /\ "remote" \in Updaters
    /\ v # running
    /\ updates < world.updates
    /\ CheckIn("updating")
    /\ step' = [step EXCEPT !["remote"] = "write"]
    /\ got' = [got EXCEPT !["remote"] = v]
    /\ at' = [at EXCEPT !["remote"] = exe]
    /\ updates' = updates + 1

\* Mutant: the test of updateConfirmed is inverted.
ConfirmInverted ==
    /\ pc = "confirm"
    /\ IF confirmed THEN marker' \in AfterClear ELSE UNCHANGED marker
    /\ confirmed' = TRUE
    /\ pc' = "loop"
    /\ UNCHANGED <<bin, tmp, running, term, path, updater, history>>

\* The first successful check-in of a run clears the marker.
Confirm ==
    /\ pc = "confirm"
    /\ IF confirmed THEN UNCHANGED marker ELSE marker' \in AfterClear
    /\ confirmed' = TRUE
    /\ pc' = "loop"
    /\ UNCHANGED <<bin, tmp, running, term, path, updater, history>>
-----------------------------------------------------------------------------
(* ApplyDaemonUpdate, after the download, by updater u.                    *)

\* receptor update, started from the binary on disk.
CliUpdate(v) ==
    /\ "cli" \in Updaters
    /\ step["cli"] = "none"
    /\ updates < world.updates
    /\ binary \in Versions \ (DiesEarly \cup {v})
    /\ step' = [step EXCEPT !["cli"] = "write"]
    /\ got' = [got EXCEPT !["cli"] = v]
    /\ at' = [at EXCEPT !["cli"] = 0]
    /\ updates' = updates + 1
    /\ UNCHANGED <<files, process, history>>

CliKill ==
    /\ "crash" \in Faults
    /\ "cli" \in Updaters
    /\ step["cli"] # "none"
    /\ step' = [step EXCEPT !["cli"] = "none"]
    /\ UNCHANGED <<files, process, got, at, updates, history>>

Goto(u, here, next) ==
    /\ step[u] = here
    /\ step' = [step EXCEPT ![u] = next]
    /\ UNCHANGED <<got, at, updates>>

\* Mutant: the service does not get back to its loop.
ReturnNowhere(u, here) == Goto(u, here, "none") /\ pc' = pc

\* ApplyDaemonUpdate returns; the service goes on to Run's confirmation.
Return(u, here) ==
    /\ Goto(u, here, "none")
    /\ pc' = IF u = "remote" THEN "confirm" ELSE pc

WriteTmp(u) ==
    /\ Goto(u, "write", "unback")
    /\ tmp' = [tmp EXCEPT ![at[u]] = got[u]]
    /\ UNCHANGED <<bin, marker, process, history>>

\* The error of the removal is ignored.
RemovePrevious(u) ==
    /\ Goto(u, "unback", "backup")
    /\ \/ bin' = [bin EXCEPT ![at[u] + 1] = Missing] /\ Gone(at[u] + 1)
       \/ "rename" \in Faults /\ UNCHANGED <<bin, path>>
    /\ UNCHANGED <<tmp, marker, pc, running, confirmed, term, history>>

\* A missing binary is tolerated.
Backup(u) ==
    /\ Goto(u, "backup", "swap")
    /\ IF bin[at[u]] = Missing THEN UNCHANGED <<bin, path>> ELSE Renamed(at[u], at[u] + 1)
    /\ UNCHANGED <<tmp, marker, pc, running, confirmed, term, history>>

BackupFails(u) ==
    /\ "rename" \in Faults
    /\ Return(u, "backup")
    /\ tmp' = [tmp EXCEPT ![at[u]] = Missing]
    /\ UNCHANGED <<bin, marker, running, confirmed, term, path, history>>

Swap(u) ==
    /\ Goto(u, "swap", "mark")
    /\ tmp[at[u]] # Missing
    /\ bin' = [bin EXCEPT ![at[u]] = tmp[at[u]]]
    /\ tmp' = [tmp EXCEPT ![at[u]] = Missing]
    /\ Gone(at[u])
    /\ IF at[u] = 0
       THEN proven' = proven \ {tmp[0]} /\ starts' = 0
       ELSE UNCHANGED history
    /\ UNCHANGED <<marker, pc, running, confirmed, term>>

\* Mutant: the failed update clears the backup away as well.
SwapFailsCleansUp(u) ==
    /\ "rename" \in Faults \/ tmp[at[u]] = Missing
    /\ Return(u, "swap")
    /\ tmp' = [tmp EXCEPT ![at[u]] = Missing]
    /\ bin' = [bin EXCEPT ![at[u] + 1] = Missing]
    /\ UNCHANGED <<marker, running, confirmed, term, path, history>>

\* The backup is not put back.
SwapFails(u) ==
    /\ "rename" \in Faults \/ tmp[at[u]] = Missing
    /\ Return(u, "swap")
    /\ tmp' = [tmp EXCEPT ![at[u]] = Missing]
    /\ UNCHANGED <<bin, marker, running, confirmed, term, path, history>>

Mark(u) ==
    /\ Goto(u, "mark", "restart")
    /\ marker' \in AfterSave([version |-> got[u], attempts |-> 0])
    /\ UNCHANGED <<bin, tmp, process, history>>

\* The manager's restart sends SIGTERM and starts the binary again.
Restart(u) ==
    /\ Return(u, "restart")
    /\ \/ ServiceInstalled /\ term' = (pc # "down")
       \/ (~ServiceInstalled \/ "restart" \in Faults) /\ UNCHANGED term
    /\ UNCHANGED <<files, running, confirmed, path, history>>
-----------------------------------------------------------------------------
Startup == CheckNothingPending \/ CheckPending \/ RollbackRename \/ RollbackClear \/ EnterLoop

End == DieEarly \/ DieLate \/ TermKills \/ TermTaken

Apply(u) ==
    \/ WriteTmp(u) \/ RemovePrevious(u) \/ Backup(u) \/ BackupFails(u)
    \/ Swap(u) \/ SwapFails(u) \/ Mark(u) \/ Restart(u)

Act ==
    \/ Launch \/ Startup \/ End \/ Kill \/ Shutdown
    \/ CheckInPlain \/ CheckInFails \/ Confirm
    \/ \E v \in Versions : CheckInUpdate(v) \/ CliUpdate(v)
    \/ \E u \in Updaters : Apply(u)
    \/ CliKill

Next == Act /\ UNCHANGED world

Spec == Init /\ [][Next]_vars

\* The manager restarts a process that ended, the process runs on, a version
\* that dies does die, and nobody stops the service for ever.
FairSpec ==
    /\ Spec
    /\ WF_machine(Launch) /\ WF_machine(Startup) /\ WF_machine(End)
    /\ <>[][~Shutdown]_machine
-----------------------------------------------------------------------------
(* Properties.                                                             *)

\* Every variable has its type; the service updates exactly when its
\* process says so.
TypeOK ==
    /\ bin \in [Slots -> OnDisk] /\ tmp \in [Slots -> OnDisk]
    /\ marker \in Pending \cup {Missing, Corrupt}
    /\ pc \in Places
    /\ running \in Versions
    /\ confirmed \in BOOLEAN /\ term \in BOOLEAN
    /\ exe \in 0..updates /\ tracked \in BOOLEAN
    /\ at \in [UpdaterKinds \cup {"startup"} -> 0..MaxUpdates]
    /\ step \in [UpdaterKinds -> Steps]
    /\ got \in [UpdaterKinds -> Versions]
    /\ updates \in 0..MaxUpdates
    /\ proven \subseteq Versions
    /\ starts \in Counts
    /\ (pc = "updating") <=> (step["remote"] # "none")

NoUpdateUnderway == \A u \in UpdaterKinds : step[u] = "none"

RollingBack == pc = "rollback" /\ pc' = "cleanup"

\* What a property assumes of the world: only the service updates, or only
\* receptor update does; and some faults do not happen.
OnlyRemote    == Updaters \subseteq {"remote"}
OneUpdater    == Updaters # UpdaterKinds
Never(faults) == Faults \cap faults = {}

\* With one updater that is neither killed nor refused a rename, there is a
\* binary to start whenever no update is being applied: the swap is atomic,
\* as ApplyDaemonUpdate's comment says.
NeverStranded ==
    OneUpdater /\ Never({"crash", "rename"}) /\ NoUpdateUnderway => binary # Missing

\* One updater never destroys the only copy of the program, whatever fails;
\* only the service needs its renames for that.
SomeCopyRemains ==
    OneUpdater /\ (Never({"rename"}) \/ ~OnlyRemote)
        => \E s \in Slots : bin[s] # Missing

\* An update that ends as it should has put its release where the program
\* is started from, as ApplyDaemonUpdate's comment says.
UpdateTakesEffect ==
    [][ \A u \in Updaters : Restart(u) /\ (\A w \in Updaters \ {u} : step[w] = "none")
            => binary = got[u] ]_vars

\* A version is rolled back only after it was started more often than
\* maxUpdateAttempts since it was swapped in, if its marker was written.
RollbackHasFullBudget ==
    [][OnlyRemote /\ Never({"crash", "save"}) /\ RollingBack => starts > MaxUpdateAttempts]_vars

\* A version that completed a check-in is never rolled back, if moreover its
\* marker could be removed.
NoRollbackOfProven ==
    [][OnlyRemote /\ Never({"crash", "clear"}) /\ RollingBack => binary \notin proven]_vars

\* Between backup and swap the version in use is the backup.
Register == INSTANCE VersionRegister WITH
    installed <- IF binary = Missing THEN previous ELSE binary,
    kept      <- IF binary = Missing THEN Missing ELSE previous,
    trusted   <- (IF binary = Missing THEN previous ELSE binary) \in proven

\* Where os.Executable keeps naming the path the program was started from,
\* remote updates that are not cut short implement the version register.
ImplementsRegister ==
    /\ Register!Init
    /\ [][ OnlyRemote /\ ~PathFollowsRename /\ Never({"crash", "rename", "clear"})
              => [Register!Next]_(Register!vars) ]_vars

\* Once the marker names the version on disk, the backup beside it is one
\* that has completed a check-in.
BackupIsProven ==
    NoUpdateUnderway /\ marker \in Pending /\ marker.version = binary
        => previous \in proven \cup {Missing}

\* A new version on disk that has not proven itself is guarded by a marker.
RollbackArmed ==
    /\ NoUpdateUnderway
    /\ binary \in Versions \ proven
    => marker \in Pending /\ marker.version = binary

Guarded(v) ==
    /\ pc # "down" /\ running = v /\ binary = v
    /\ marker \in Pending /\ marker.version = v
    /\ previous \in Versions \ {v}

\* A version that keeps dying in Run and started with its marker and backup
\* in place is replaced by the backup, if its startups can be counted.
CrashLoopEnds ==
    OnlyRemote /\ Never({"crash", "rename", "save"}) =>
        \A v \in Versions : (v \in DiesLate /\ Guarded(v)) ~> (binary \in Versions \ {v})

\* So is one that dies early in its startup, as Run's comment says.
EarlyCrashLoopEnds ==
    \A v \in Versions : (v \in DiesEarly /\ Guarded(v)) ~> (binary \in Versions \ {v})
=============================================================================
