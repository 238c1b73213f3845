# Verification of receptor-daemon

TLA+ models of the `receptor` daemon, the TLC runs that check them on small
instances, and the theorems TLAPS proves about them for every instance. Source
paths are relative to the repository.

## 1. The system

`receptor` is one binary that runs in two ways: as a long-lived *service*
(`receptor run`, started by systemd or launchd) and as short-lived *commands*
(`receptor sync`, `update`, `folders add/remove`, `init`, ...). Both work on the
same files and neither takes a lock. The service is a single goroutine that
selects between a sync ticker, a one-minute check-in ticker and signals, so
within one process nothing runs concurrently; all concurrency is between
processes, and with the user, the file system and the Memory server.

| Component | State | Operations |
|---|---|---|
| `core.SyncEngine` (one per folder) | ignore patterns, references to two stores | `SyncFullScan`, `syncOne`, `attemptUpload`, `ProcessRetryQueue`, `scheduleRetry` |
| `core.ManifestStore` | map path -> hash, in memory and in `manifests/<id>.json` | load, `Entry`, `SetEntry`, `RemoveEntry`, each with a write of the whole file |
| `core.RetryQueueStore` | map path -> attempts and due time, in memory and in `retry/<id>.json` | load, `Enqueue`, `Remove`, `DueItems`, `AllItems` |
| `core.MemoryClient` | server URL, API key | `Upload`, `CheckIn`, `LatestDaemonVersion`, `DownloadDaemonBinary`, `TestConnection` |
| `core.IsIgnored`, `SHA256File` | none | pure |
| `daemon.Run`, `SyncOnce` | engines, tickers, `cfg`, `updateConfirmed`, `lastUpdateError` | startup check, initial sync, loop, rebuild, shutdown |
| check-in (`daemon/checkin.go`) | changes `cfg`, the client's key, `config.json` | `checkIn`, `applyAPIKeyRotation`, `applyRemoteConfig`, `applyRemoteUpdate` |
| update and rollback (`daemon/update.go`, `rollback.go`) | binary, `.previous`, `.update-tmp`, `state/update_state.json` | `ApplyDaemonUpdate`, startup count, rollback, confirmation |
| `config` | `config.json` | `Load`, `Save`, `AddFolder`, `RemoveFolder` |
| `service` | unit or plist file, the manager's idea of it | `Install`, `Uninstall`, `Restart`, `Status`, `ResolveOptions` |
| command line (`cmd/receptor`) | none of its own | the commands and the setup wizard |
| activity log | entries in memory and in `activity.json` | load, `Append`, each with a write of the whole file |
| `sudoenv`, status report, `install.sh` | none | lookup, report, download |

How they interact: the commands and the service share the stores' files,
`config.json` and the binary. The service calls Memory, and the answer to a
check-in may bring a new key, new settings and an update request, applied in
that order. A restart by the service manager arrives at the process as SIGTERM,
which the loop takes only when it gets back to its `select`.

What is hard here:

- the hash of a file, the file that is uploaded and the entry that is recorded
  are read and written at three different moments;
- each process reads a store once and later writes back all of it;
- any step may be the last before a crash, and write errors are discarded on
  purpose, so memory and disk drift apart;
- an upload or a check-in may have taken effect although its answer is lost;
- the update renames the running program, then expects its successor (which may
  never get that far) to count its own startups;
- the process that installed an update lives on for a while and goes on
  confirming, checking in and updating;
- a configuration is changed in three places (memory, file, server) by three
  parties;
- installing the service is a series of calls to a manager, each of which may
  fail, be refused to this user, or return before it has taken effect; the file
  that says the service is there and the process that is the service are changed
  by different calls;
- a round may take longer than the tickers' periods, so that everything the loop
  waits for is ready at once;
- a walk over a folder prunes, fails and goes on, and must neither lose nor
  invent a file.

What makes each part correct: a manifest entry is never a lie; a scan loses no
change; a file left alone is synced in the end (sync). There is a binary to
start; an unproven version is guarded, a proven one kept; a crash loop ends
(update). The key on disk works; what is reported is what runs; an edit and a
rotation arrive (check-in). `start` starts, `stop` stops, a change takes effect,
and no process is orphaned (service). Check-ins and rounds go on, SIGTERM ends
them between two steps, the log keeps its order (loop). A scan offers exactly the
files it should (walk). `PROJECT.json` lists the hazards at their lines.

## 2. Modules

| Module | Models |
|---|---|
| `SyncLedger` | abstract specification: what the two store files of a folder promise |
| `SyncEngine` | one folder, its two stores, any number of processes working on it |
| `SyncRounds` | `SyncEngine` and, as history, which files a round must settle |
| `RetryBudget` | `SyncEngine` and, as history, failures in a row |
| `MCSyncEngine` | symmetry for TLC |
| `SyncEngineProofs`, `SyncRoundsProofs` | theorems about `SyncEngine` and `SyncRounds` |
| `FolderScan`, `FolderScanProofs` | the walk over a folder and the ignore rules, and theorems about them |
| `BinaryUpdate`, `BinaryUpdateProofs` | update, rollback, confirmation, restarts, and theorems about them |
| `VersionRegister` | abstract specification: what updating promises |
| `CheckIn`, `CheckInProofs` | check-in, rotation, configuration edits, the commands on `config.json`, and theorems about them |
| `ServiceManager`, `ServiceManagerProofs` | installing, removing and restarting the service, and theorems about it |
| `ServiceLoop`, `ServiceLoopProofs` | the loop over tickers and signals, the activity log, and theorems about them |
| `MCBinaryUpdate`, `MCServiceManager`, `MCServiceLoop`, `MCFolderScan` | the machines, fault combinations and folders for TLC |

How they compose: `FolderScan` says which files a scan offers, `SyncEngine` what
becomes of each; `ServiceLoop` says when a round or a check-in begins,
`SyncEngine` and `CheckIn` what they do; a check-in that asks for an update goes
on in `BinaryUpdate`, whose restart is one call of `ServiceManager`'s `Restart`.
Each module keeps of its neighbours only what it shares with them. Several
modules have a variable that never changes (`world`, `faults`, `tree`): it picks
the machine of a behaviour, so that one run covers Linux and macOS and many
combinations of faults, and a property can say in which of them it holds.

### SyncEngine

Engines of different folders share nothing, so one folder stands for all. State
is split as in the code: the user's files and the mount (`file`, `mounted`),
the two store files (`manifestFile`, `queueFile`), the copy each process has
(`manifest`, `queue`, `ignored`), and where the process is (`phase`, `batch`,
`job`). `accepted` is what the server took: path, the hash recorded for it, and
the content really sent. A content and its SHA-256 are one value; a queue item
is its number of attempts, with `MaxRetryAttempts` standing for "or more", which
is what parks it.

One action per step at which something else can happen: listing the tree
(`BeginScan`), one file of the scan (`SkipFile`, `DropVanished`,
`UploadChanged`), the upload (`UploadAccepted`, `UploadFailed`,
`UploadUnrecognised`), the record (`Record`), the removal from the queue
(`Dequeue`), the retry loop (`BeginRetry`, `RetryVanished`, `RetryUnreadable`,
`Retry`), the end of a round. Statting and hashing a file and looking it up in
the process's own manifest form one action; the upload reads the file again in a
later one, as `MemoryClient.Upload` does. Time is abstracted: any queued item
that is not parked may be due, which includes every backoff schedule.

Faults are a constant set, so that a run can say under which faults a property
holds: `crash`, `persist`, `load`, `hash`, `walk`, `unmount`, `race` (an edit
between hash and upload).

`SyncLedger` is the abstract view: the two store files are two durable maps, with
no process and no memory beside them. A record changes only to that of an upload
the server has answered for, a queued path goes only when that answer is
recorded, and either may go when there is no file at its path. `Answered` is what
`attemptUpload` has yet to note. The refinement holds for one process whose stores
can be read and written, through crashes at any step; section 3 lists what happens
without each of these.

`SyncRounds` keeps as history the files that were there throughout a round
(`steady`) and those the round gave up on: a file that cannot be hashed, or whose
upload got an answer the code has no case for, and that was not queued before.

### BinaryUpdate

Files are numbered slots: slot 0 is the binary, slot n + 1 the `.previous` of
slot n. This is needed because `ResolveOptions` asks `os.Executable` at every
call: on Linux (`PathFollowsRename`) the answer is `/proc/self/exe`, which
follows the rename of the running file to `.previous`; on macOS it stays the
path of the start. `exe` is the slot the answer names, `at` the slot an updater
or the startup check got. Both behaviours belong to the Go library and the
kernel and are marked external.

Each file operation of `ApplyDaemonUpdate` is an action with its failure branch
(`WriteTmp`, `RemovePrevious`, `Backup`, `Swap`, `Mark`, `Restart`), run by the
service (`remote`) or by `receptor update` (`cli`). The service's process goes
through boot, check, rollback, initial sync, loop and confirmation. SIGTERM
kills it until `signal.Notify` and is taken by the `select` afterwards, where
another ready case may be chosen first. All versions run the code of this
repository; they differ in how they fail: before `Run`, in `Run`, or by never
completing a check-in. `proven` (checked in since it was swapped in) and
`starts` (startups since then) are history variables.

Removing the old `.previous` may fail, which is ignored (`update.go:57`); the
rename after it replaces that file anyway, or is refused in turn.

A write of the marker is not atomic (`os.WriteFile`): a failure leaves the old
marker or one that does not parse. Writing the temporary file succeeds or ends
the update before anything happens, so its failure is the plain check-in.
`receptor update` resolves its path as it starts.

`world` says who may update (the service, `receptor update`, or both), which
faults may happen, the platform, how versions fail, and how many updates are
begun. `VersionRegister` is the abstract view: a version is installed, the one it
replaced is kept, and only a version that never checked in gives way to that one.
The refinement mapping takes the backup for the installed version while the
binary is between its two renames. It holds on macOS, for remote updates that are
not killed, whose renames are not refused and whose markers can be removed;
section 3 lists what happens without each of these.

### CheckIn

`file` is `config.json`, `cfg` the service's Config, `clientKey` the key of its
client, `running` what its engines and ticker use. A check-in is the request
and answer (`CheckInOk`, `CheckInLost`, `CheckInFails`), then `ApplyKey`,
`ApplyConfig`, `ApplyUpdate` and `Rebuild`, one action each, so that a crash or
a command can fall between any two. The server is external and modelled as the
README and the comments describe it: the old key stays valid until the first
check-in of the new one; an edit is delivered until it is reported back.
`config.Save` writes all or nothing. A command loads the file in one action and
writes it in another. A folder and its ignore patterns are one value, the order
of folders is ignored; a hand-edited `config.json` is not considered. A
command changes the folders, or is `init` or the wizard, which leave the key alone
or get one pasted in (`"key"`). Commands fall between any two steps of the service; with
`overlap` the service also goes on between a command's reading and its writing.

### ServiceManager

Per scope (the user's unit and the system-wide one): is the file there (`unit`),
does the manager know it (`registered`: enabled, or loaded), what does the process
do (`job`), and was the config or the binary replaced under it (`stale`). A
command is the sequence of calls it still has to make: `Install`, `Uninstall` and
`Restart` are the calls of the functions of those names, `Program` and
`AfterStatus` what `start`, `stop`, `init`, the wizard and `update` do with them.
Each call is an action with its outcomes: made (`CallWorks`), sent to the wrong
manager (`CallAstray`), failed (`CallFails`; only `disable` and `bootout` are
best effort). The managers are external: `enable --now` starts nothing twice,
`bootout` returns before the process is gone and `bootstrap` then starts nothing,
`restart` and `kickstart -k` start in any case. Their answer to a crash, to a
clean exit and to a restart of the machine comes from the unit and plist the code
writes (`Restart=on-failure`, `KeepAlive`, `RunAtLoad`).

Who gives the command matters: a user may not write the system's unit, even one
whom polkit lets call systemd's system manager; root
without `SUDO_USER` has no unit of its own; root through `sudo` resolves the
user's path (`sudoenv`) and, on macOS, the user's domain, but `systemctl --user`
reaches root's own manager. `Status` looks for the system-wide unit first. A
`start` without a config ends before it does anything and is left out.

### ServiceLoop

`due` is the set of channels with a value in them (`sync`, `checkin`, `signal`);
each holds one, more are dropped. `Select` takes any that is ready, `Boot`,
`EndRound` and `EndCheckIn` move between loading the log, a round and waiting;
`looping` says whether `signal.Notify` was called, so that SIGTERM before it ends
the process at once. The activity log is `copy` (the entries in memory of the
service and of `receptor sync`) and `logFile`; a write truncates (`LogEvent`) and
then writes (`WriteLog`), possibly over another process's bytes. Entries are
numbered in the order of the events.

### FolderScan

A path is the sequence of its components; names are numbers in lexical order, of
which some begin with a dot and some with `~$`. `tree` maps a path to what is
there; a folder is a finite tree, so a directory has a listing (`Listing`) in
lexical order. `Stat`, `Visit`, `Listed`, `SyncOne` and `Done` are the steps of
`SyncFullScan`: `filepath.WalkDir` with its callback, one entry at a time, and
`syncOne` up to the hash. `Listed` sorts what the walk has listed; the order of
two paths as strings depends on characters the model leaves out, so any order may
come out. A pattern is a sequence of sets of names, which is what
a glob without slashes in its wildcards is; one that cannot be parsed matches
nothing.

## 3. Runs

Passing runs, with what they show:

| Run | Instance | Properties |
|---|---|---|
| `sync_two` | service and `receptor sync`, 1 file, 2 contents and an oversized one; every fault but `race` | `TypeOK`, `ManifestBacked`, `NoMissedChange` |
| `sync_rounds` | 1 service, 2 files, 2 contents; crash, unmount; fair | `ImplementsLedger` (refinement), `RoundSettles`, `RecordedNotReuploaded`, `EventuallySynced` |
| `folder_scan` | chains of up to 3 entries of 4 names, each with a file beside it; every set of unreadable directories, 5 pattern sets | `TypeOK`, `ScanFindsAll`, `ErrorsReported`, `IgnoredSubtree` |
| `update_all` | 3 versions, 2 to 4 updates; Linux and macOS; the service, `receptor update` or both; with and without an installed service; every fault in some world; fair | `TypeOK`, `NeverStranded`, `SomeCopyRemains`, `RollbackHasFullBudget`, `NoRollbackOfProven`, `ImplementsRegister` (refinement), `CrashLoopEnds` |
| `checkin_safe` | 3 keys; folders command and `init`, one at a time; crash, failed saves, lost answers | `TypeOK`, `KeyOnDiskValid`, `RootNotWatched`, `NoFailureForgotten` |
| `checkin_live` | 2 keys; folders command at any moment; lost answers; fair | `ReportsRunningConfig`, `EditApplied`, `RotationCompletes` |
| `service` | 2 terminals, both scopes, Linux and macOS; user, user with polkit, sudo, root; kill, crash, reboot, SIGTERM, failing calls, overlapping commands | `TypeOK`, `RunningIsInstalled`, `StatusTellsTruth`, `StartRuns`, `StopStops`, `ChangeTakesEffect`, `InitKeepsService` |
| `service_loop` | cap 2, 4 events; the service and `receptor sync`; kill, SIGTERM, disk errors, hanging requests, an interval of 0; fair | `TypeOK`, `LogNewestFirst`, `LogComplete`, `TermIsGraceful`, `TermEnds`, `CheckInsGoOn`, `RoundsGoOn` |

A property of `update_all`, `service` or `service_loop` says which worlds it is
about (`OnlyRemote`, `Never(...)`, `~SplitRights`). For each such condition the run
has worlds in which it holds, so that the property is really evaluated, and worlds
in which it does not; the disagreements below show why it is needed. What each
side needs is there: `update_all` has worlds with both updaters and worlds without
an installed service, `service_loop` one in which SIGTERM is the only fault, which
is where `TermIsGraceful` speaks of the log.

Runs that end in a counterexample, each a disagreement between the code and
what its comments or README say (the lines are quoted in `PROJECT.json`):

| Run | What the trace shows |
|---|---|
| `missed_change` | an edit between hash and upload is recorded under the wrong hash; when the file returns to the first content it is never uploaded |
| `retry_budget` | with a limit of 2: a file fails in the scan and in the retry and is parked; the next scan uploads it again, counting from one. With the code's limit of 8, the scan of every round restarts the count of a file that goes on failing before it can reach the limit |
| `update_disarmed` | the old process removes the marker of the update it has just installed |
| `checkin_key` | a command writes a revoked key back |

Every property of a passing run has a mutant: an operator beside the original
definition that changes it as a plausible bug would, and under which the run
fails.

The same modules show more disagreements on other instances. They are not kept
as runs. "Without X" means that the condition X is taken out of the property as it
stands in the module; the instance is the named run, with the constants or the
world given. `W(u, f, s, e, l, n)` is a Linux world with updaters u, faults f, a
service or not, versions e that die early and l that die late, and n updates. TLC
prints the trace.

| Property | Instance | Trace, and what the repository says |
|---|---|---|
| `ImplementsLedger`, `RecordedNotReuploaded`, `RoundSettles` | `sync_rounds` with `Procs = {d, c}`, no fault | each process goes on with the stores it read at its start and writes back all of them: one uploads again, or overwrites, what the other recorded (`manifeststore.go:21`: "Safe for concurrent use — both the periodic full-rescan and a manual sync can touch it") |
| `ImplementsLedger` | `sync_rounds` with `persist`, or with `load`, among the faults | a discarded error of a write leaves a file behind its map (`syncengine.go:190`), and a store that cannot be read counts as empty and is overwritten (`retryqueuestore.go:45`): records and queued items are lost |
| `IgnoredNotUploaded` | `missed_change` with `IgnoreChoices = {{}, {x}}`, no fault | `ProcessRetryQueue` uploads a queued file that the patterns ignore by now (`syncengine.go:239`: "`IsIgnored` is still the source of truth") |
| `StaleEntryDropped` | `missed_change`, fair, no fault | a file deleted between two scans keeps its entry (`syncengine.go:137`: "just drop the manifest entry") |
| `LinkedFolderScanned` | `folder_scan` | a watched folder that is a link to a directory passes `os.Stat` and is listed as one non-directory: nothing is synced, nothing reported (`syncengine.go:85`: "walks the whole tree and syncs anything new/changed") |
| `NeverStranded` without its conditions | `W({remote}, {crash}, TRUE, {}, {}, 1)` | a crash between backup and swap leaves no binary (`update.go:24`: "atomically swaps it in") |
| `NeverStranded`, `SomeCopyRemains`, `RollbackHasFullBudget` without their conditions | `W({remote, cli}, {}, TRUE, {}, {v3}, 2)`, three updates for `SomeCopyRemains` | `.update-tmp`, `.previous` and the marker are shared without a lock |
| `SomeCopyRemains` without its condition | `W({remote}, {rename}, TRUE, {}, {}, 3)` on macOS | a refused swap leaves only `.previous`, which the next update removes |
| `RollbackHasFullBudget` without its conditions | `W({remote}, {crash}, TRUE, {}, {v3}, 3)`, or with `{save, clear}` for `{crash}` | the new marker is not written and the old one stays with its attempts (`rollback.go:27`) |
| `NoRollbackOfProven` without its conditions | `W({remote}, {clear, shutdown}, TRUE, {}, {}, 3)` | a marker that could not be removed goes on counting startups of a proven version |
| `BackupIsProven` | `W({remote}, {}, FALSE, {}, {v2, v3}, 2)` | the second update replaces the proven backup (`update.go:57`: "any stale backup from an already-confirmed earlier update") |
| `UpdateTakesEffect`; `ImplementsRegister` without `~PathFollowsRename` | the same | on Linux the second update of a process replaces `.previous`, not the binary |
| `EarlyCrashLoopEnds` | `W({remote}, {}, TRUE, {v2}, {}, 1)`, fair | a version that dies before `Run` is never counted (README, lines 324-325: "before doing anything else (so a new binary that panics early in its own init still gets caught)") |
| `RotationOnlyReplacesKey` | `checkin_key` | a rotation saves the Config in memory and undoes a command's edit (`checkin.go:98`: "rotation only ever replaces the key") |
| `ReportsRunningConfig` | `checkin_safe` | after a failed save the report differs from what runs (README, lines 218-220) |
| `CheckInNotFatal` | `checkin_key` with `Intervals = {0, 15}` | a pushed interval of 0 ends the service in `time.NewTicker` (`checkin.go:112`: "never fatal to the daemon") |
| `InitKeepsService` without `"manager"` in its `Never` | `service` | a call of the manager fails after the unit was removed and `init` ends without a service; its warning says only that the change does not take effect yet (`main.go:479`) |
| `InitKeepsService` without `"term"` in its `Never` | `service`, in a Linux world whose only fault is `term` | on Linux a service that ended on SIGTERM stays down, and a user who is not root and runs `init` cannot set the system-wide one up again; status calls it running (`main.go:711`) |
| `ChangeTakesEffect` without `Linux => Never({"manager"})` | `service` | `disable --now` fails, which is ignored; the unit is replaced, `enable --now` starts nothing, and "restarted the running service to pick up the change" is printed (`main.go:482`) while the old configuration runs |
| `WizardTakesEffect` | `service` | on Linux the wizard's `enable --now` leaves a running service alone: "started the receptor service", with the old configuration (`main.go:381-383`: "it's restarted so the change actually takes effect") |
| `InitKeepsService`, `StatusTellsTruth` without `~SplitRights` | `service`, in a Linux world without faults whose callers are `root` and `polkit` | an ordinary user whom polkit lets stop and disable the system-wide service may not remove its unit (`systemd.go:194`): `init` ends there, the service is stopped, and `status` says it runs (`main.go:711`) |
| `StopStops` without `~SplitRights` | `service` | `sudo receptor stop` for a per-user service on Linux removes the unit; the process goes on (`options.go:41`: "a genuine sudo invocation is allowed through") |
| `SudoUpdateRestarts` | `service` | `sudo receptor update` finds the user's unit, but its `systemctl --user restart` does not reach the user's manager (`systemd.go:21-23` gives as the aim that the service just updated is restarted) |
| `StatusTellsTruth` without `"kill"` and `"term"` in its `Never` | `service` | systemd does not restart a service that ended on SIGTERM; the unit is there, so `status` says "running" (`main.go:711`) |
| `TermEnds` without `Never({"hang"})` | `service_loop` | a request that is never answered keeps the loop from its `select`: no SIGTERM is taken (`run.go:97`: "until SIGINT/SIGTERM") |
| `LogComplete` without `"overlap"`, or without `"kill"` and `"term"` | `service_loop` | `receptor sync` and the service overwrite each other's entries; a kill between truncating and writing loses the log (`activitylog.go:24`: "persists the last N sync events") |

Bounds. Two processes are enough because processes meet only through files,
whose last writer and last reader are two processes. Two ordinary contents are
enough to return to an earlier one, a third would only rename them; they are
symmetric in `MCSyncEngine`. Two files are needed for
`RecordedNotReuploaded` and `ImplementsLedger`, where persisting one entry must not
disturb another. `MaxRetryAttempts` is 2 in place of 8: below, at and beyond the limit all
occur. `MaxUpdateAttempts` keeps its value 3, and counters stop one past it.
`MaxUpdates` allows an update on top of an unfinished one on top of another
(three versions); it is the only bound on that module's behaviours, and a guard of
the actions that begin an update. Three keys allow a rotation after a rotation;
two are enough for `checkin_live`, where every rotation has to complete. Two
terminals let commands overlap; commands of one after the other need one. The log's
cap is 2 in place of 200: below it, at it and beyond it all occur with `MaxEvents`
4 (a guard of `LogEvent`), and two processes can have logged two events each. A
chain of three entries has a directory that is neither the root nor the last; one
file beside each entry is what pruning or an error could lose; the four names are
ordered so that a hidden name comes first and a lock file last. Other shapes of
tree repeat these neighbourhoods.

Deadlock checking is off only where the program really may stop: in `update_all`
a refused or interrupted rename may leave no binary to start, and `folder_scan`
ends with its scan.

## 4. Fairness

- `SyncEngine`: weak fairness of the service's steps and of its start. The loop
  is one goroutine, its tickers fire, the manager starts it. It assumes that a
  call to the server returns, which the code does not enforce
  (`http.DefaultClient` has no timeout); a call that hangs is listed as a hazard.
  Strong fairness of an accepted upload of each file says that a server asked
  again and again accepts it some time. Processes are not killed for ever: a
  service that dies between every answer and its record makes no progress.
  Nothing is assumed of the user or of `receptor sync`.
- `BinaryUpdate`: weak fairness of starting, of startup and of a doomed version's
  death, and nobody stops the service for ever (a service that is stopped before
  each startup check counts nothing). `CrashLoopEnds` is about versions that exit
  with an error, which `Restart=on-failure` and `KeepAlive` start again.
- `CheckIn`: weak fairness of booting and of the steps of a check-in, strong
  fairness of an answered check-in and of a rotation that is saved, so that
  answers are not lost for ever. The admin is not fair.
- `ServiceLoop`: strong fairness of starting the service (the manager starts it
  again) and of each case of the `select`, which chooses among the ready ones at
  random; weak fairness of the tickers and of rounds and check-ins, which end
  unless they hang. Nothing is assumed of `receptor sync`, of signals or of faults.
  `CheckInsGoOn` and `RoundsGoOn` excuse a service that somebody killed or stopped.
- `ServiceManager` and `FolderScan` claim no liveness about the environment; a scan
  is a loop that goes on.

## 5. Theorems

Every safety property of a passing run is a theorem, for every value of the
constants: any number of processes, files, contents, versions, terminals, keys,
worlds and fault sets, and any bound where a module has one. Each proof is an
inductive invariant: it holds initially, each action keeps it (one step of the
proof per action), and it implies the property. The invariants were checked by
TLC on the runs' instances before they were proved. What a theorem assumes
beyond the assumptions on the constants is named below; conditions such as
`Never(...)` or `OneUpdater` are part of the properties themselves, and section 3
lists what happens without them.

`SyncEngineProofs`:

- `TypeCorrect`: `Spec => []TypeOK`, from one lemma for each operation on a store.
- `ManifestIsBacked`: `Spec => []ManifestBacked`. Not inductive alone: between
  the answer and the record the claim is still a job. `BackedInv` adds
  `JobBacked`: a job that is to be recorded has been accepted under its hash.
  Every write of a store file is a copy of some process's memory or of the file
  itself, so entries only move between places already covered.
- `NoChangeIsMissed`: `Spec => []NoMissedChange` assuming `"race"` is not among
  the faults. `HeldInv` adds that an upload under way has the file's present
  content as its hash if the file can be read at all, which is what `race`
  breaks; run `missed_change` is the counterexample without the assumption.

`SyncRoundsProofs`, assuming that one process works on the folder (`OneProcess`)
and that its stores can be written (`"persist"` is not among the faults); two
processes overwrite each other's stores, see section 3. Requests, hashes and
walks may fail, files may be edited, the folder may be unmounted and the process
killed at any step:

- `RoundIsSettled`: `RoundSettles` for `RoundSpec`. `RoundInv` adds that what the
  process knows to be recorded or queued is on disk (`MemoryWritten`) and, for
  each file that was there throughout, that at each place in the round it is
  still to come, in the job, given up on, recorded or queued (`SteadyInv`).
- `RecordedStaysRecorded`: `RecordedNotReuploaded`, also if the process is killed,
  assuming that its stores can be read (`"load"` is not among the faults): then
  the manifest in memory is the file (`ManifestLoaded`).
- `LedgerImplemented`: `ImplementsLedger` for `Spec`, assuming one process and
  neither `"persist"` nor `"load"`. `LedgerInv` is `ManifestLoaded`, the same of the
  queue (`QueueLoaded`), and that the manifest has the record of a job whose path is
  to leave the queue (`JobRecorded`). Each action is one of the ledger's or a
  stutter: `UploadAccepted` is `Accept`, `Record` and `Dequeue` are `Record` and
  `Settle`, a failed or unrecognised upload is `Fail`, `DropVanished` and
  `RetryVanished` are `Clear`, a crash is `Forget`.

`FolderScanProofs`, for any finite folder, any set of directories that cannot be
listed and any patterns:

- `ScanTypeCorrect`: `TypeOK`, which says that no entry is visited or listed
  twice. `ApartInv` is what makes that inductive: of the entries to visit and
  those listed, none leads through another, so that replacing a directory by its
  entries adds nothing that is there already.
- `ScanIsExact`: `ScanFindsAll`. `OnlyInv` says that the walk comes to no entry but
  through open directories; `AllInv` that every file wanted is offered, listed, or
  that it or a directory it is in is still to be visited.
- `MissedIsReported`: `ErrorsReported`. `ToldInv` says the same of a directory that
  cannot be listed: it is reported or still ahead.
- `SubtreeIsIgnored`: `IgnoredSubtree`, from the definition of the rules alone.

The lemma they rest on (`ListingFacts`) shows that a directory has a listing: the
rank of an entry by its name is a bijection onto 1 to their number.

`BinaryUpdateProofs`, for any versions, worlds, limits and number of updates:

- `UpdateTypeCorrect`: `TypeOK`. `TypeInv` adds that an update under way moves the
  program by one slot, so that the slots do not run out.
- `BinaryIsNeverStranded`: `NeverStranded`. `SwapInv`: what `Swap` puts in place was
  downloaded, and only between backup and swap is there no binary.
- `ProgramIsNeverLost`: `SomeCopyRemains`. `CopyInv`: the service's own program is
  where the service thinks it is, or one slot on between backup and swap, and
  `receptor update` removes only what is beside a binary.
- `NoEarlyRollback`: `RollbackHasFullBudget`. `BudgetInv`: the marker counts no more
  startups than there were, unless there is no binary or nothing to go back to.
- `ProvenIsKept`: `NoRollbackOfProven`. `ProvenInv`: a marker beside a proven version
  lasts no longer than the check-in that proved it.
- `RegisterImplemented`: `ImplementsRegister`, step by step from `RegisterInv`: on
  macOS there is one slot in use, which is empty only between backup and swap.

`CheckInProofs`, for any keys, folders, intervals, commands and faults:

- `CheckInTypeCorrect`: `Spec => []TypeOK`.
- `RootIsNeverWatched`: `Spec => []RootNotWatched`. `RootInv` says it of every
  copy of a folder list: file, memory, engines and the Config a command has read.
- `KeyOnDiskStaysValid`: `Spec => []KeyOnDiskValid` assuming that commands do not
  overlap other steps (`"overlap"` is not among the faults) and none pastes a key (who pastes the old one during a rotation has it revoked).
  `KeyInv` adds that the key in memory and the one the client sends are accepted
  too, that a pending answer carries the key of the present rotation or none, and
  that a client that sends the new key has it on disk, which is why the
  revocation of the others does no harm. Run `checkin_key` is the counterexample
  with a command that overlaps a rotation.
- `FailureIsReported`: `NoFailureForgotten`. `ToldInv`: after an answer, while its
  effects are applied, Memory knows of the failure that is still kept.
- `RunningIsReported`: `ReportsRunningConfig` assuming that `config.json` can be
  written (`"save"` is not among the faults; section 3 has the counterexample).
  `RunInv`: an edit of the Config in memory is remembered until `Run` has rebuilt
  what runs from it.

`ServiceManagerProofs`, for any terminals and worlds:

- `ServiceTypeCorrect`: `TypeOK`. `TypeInv` adds that the calls a command still has
  to make are an end of its program (`Remains`), which is what every later proof
  reads off a command's position.
- `NoOrphans`: `RunningIsInstalled`. Not inductive alone, because `Uninstall` and
  `Install` go through states in which the parts disagree. `AloneInv` says that
  one command at most is under way and what it has changed; `InstalledInv` relates
  unit, registration and process up to that command's window.
- `StatusIsTrue`: `StatusTellsTruth`; `TruthInv` adds the processes to this.
- `StartedMeansRunning`, `StoppedMeansGone`, `ChangesAreInEffect`,
  `InitLeavesService`: what `start` and the wizard, `stop`, `init` and `update`, and
  `init` again promise on their last step, each from the invariants its worlds
  allow. `StartedMeansRunning` needs only the types: its last call starts the
  service or fails.

`ServiceLoopProofs`, for any cap, number of events and fault sets:

- `LoopTypeCorrect`: `TypeOK`, with the cap of the log.
- `LogIsNewestFirst`: `LogNewestFirst`. `OrderInv` says it of every copy of the log,
  in memory and in the file, since each may become another.
- `TermInterruptsNothing`: `TermIsGraceful`. `SoloInv`: where processes do not
  overlap, one at most is up and its copy is the file's but while it writes.
- `LogNamesTheLatest`: `LogComplete`. `CompleteInv` says which events each copy
  holds.

The assumptions on constants are named `ConstantsAssumption` (`WorldsAssumption`)
in each module and evaluated by the runs. They say what kind of thing a constant
is; `ServiceLoop`'s also says that the file that cannot be read (`Unreadable`) is
not itself a log, and `FolderScan`'s that folders are finite trees.

Model-checked only: liveness (`EventuallySynced`, `CrashLoopEnds`, `EditApplied`,
`RotationCompletes`, `TermEnds`, `CheckInsGoOn`, `RoundsGoOn`), because TLAPS does
not reason about `ENABLED` and so not about fairness; and the runs that end in a
counterexample. No proof uses induction over data and no module uses
`RECURSIVE`, which the provers cannot handle.

## 6. Not modelled

- How long an item waits: any queued item that is not parked may be due, which
  includes every backoff schedule. The one-hour cap of the formula is never
  reached, because an item is parked at its eighth attempt.
- Times, error texts, prompts, multipart encoding, content types and URLs: no
  property is about them.
- The character-level meaning of a glob: a pattern is the set of names it matches,
  given by the instance.
- The text of the status report and its connection test; what it says of the
  service is `StatusTellsTruth`, what it shows of the log `LogComplete`.
- Paths and wording of units and plists, and lingering: a user who logs in after a
  restart of the machine stands for both.
- `install.sh`, a sequential shell script of downloads and copies.
- A power failure that loses a completed rename; the writing of one temporary file
  by two updaters at once, which is atomic in the model; a check-in that asks for
  the version that is running already (Memory is taken to ask for another one); a tree that changes while
  it is walked, except for entries that are gone or dangle when they are read.

A remark that is not a run, since nothing in the model depends on it: README lines
228-230 of the repository say that a manually started `receptor run` does not check
in; `Run` does so in any case.

## 7. Plan

Every safety property that a run checks is proved. What is left:

1. Weaker conditions: what `RoundSettles` and `RecordedNotReuploaded` leave to each
   process's own memory when two processes share the stores, or when a store
   cannot be written.
2. The safety half of liveness: what a fair run needs at each step (a queued file
   stays queued until it is recorded, given up on or parked; a pending edit stays
   pending until it is applied), so that only the fairness argument itself is
   left to TLC.
3. Shorter proofs: the lemmas of `ServiceManagerProofs` about single calls repeat
   one pattern for each manager.
