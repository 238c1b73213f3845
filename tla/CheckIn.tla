------------------------------ MODULE CheckIn -------------------------------
(***************************************************************************)
(* The check-in of the service with Memory: what it reports, and the key   *)
(* rotation, the configuration edit and the update request it may bring    *)
(* back, against the commands that edit config.json meanwhile.  Update     *)
(* itself is BinaryUpdate; here it succeeds or fails.                      *)
(***************************************************************************)
EXTENDS Naturals, FiniteSets

CONSTANTS
    Keys,            \* API keys Memory may mint
    FirstKey,        \* the one configured at first
    Folders,         \* folders a user or an admin may name
    Root,            \* the filesystem root, one of them
    Intervals,       \* sync intervals an admin may set, 0 if the field is absent
    DefaultInterval, \* used when the file has none
    Commands,        \* what users run; see CommandKinds
    Faults,          \* what the environment may do; see FaultKinds
    None

FaultKinds ==
    { "crash",     \* the service's process is killed
      "save",      \* config.json cannot be written
      "lost",      \* Memory's answer to a check-in is lost
      "overlap" }  \* others act while a command works on the config it read

CommandKinds ==
    { "folders",  \* folders add and remove
      "init",     \* init or the wizard, with the key left alone
      "key" }     \* init or the wizard, with a key pasted in

ASSUME ConstantsAssumption ==
    /\ FirstKey \in Keys
    /\ None \notin Keys
    /\ Root \in Folders
    /\ Intervals \subseteq Nat
    /\ DefaultInterval \in Nat \ {0}
    /\ Commands \subseteq CommandKinds
    /\ Faults \subseteq FaultKinds

VARIABLES
    file,       \* config.json
    phase,      \* where the service is in its check-in
    cfg,        \* its Config in memory
    clientKey,  \* the key its MemoryClient sends
    running,    \* folders of its engines, interval of its ticker
    changed,    \* which of the two the check-in found changed
    response,   \* what the check-in brought
    lastError,  \* did the last remote update fail, as Run knows it?
    cli,        \* the command in progress and the Config it has read
    valid,      \* Memory: keys it accepts
    minted,     \* Memory: the key a rotation is switching to, or None
    issued,     \* Memory: every key ever minted
    wanted,     \* Memory: the settings the admin last asked for, or None
    told        \* history: was the failure in lastError reported?

server == <<valid, minted, issued, wanted, told>>
memory == <<cfg, clientKey, running, changed, response, lastError>>
vars   == <<file, phase, memory, cli, server>>

AllIntervals == Intervals \cup {DefaultInterval}
Settings     == [folders : SUBSET Folders, interval : AllIntervals]
Configs      == [key : Keys, folders : SUBSET Folders, interval : AllIntervals]
Responses    == [rotate : Keys \cup {None}, config : Settings \cup {None}, update : BOOLEAN]
NoResponse   == [rotate |-> None, config |-> None, update |-> FALSE]
NoCommand    == [kind |-> "none"]
NoChange     == [folders |-> FALSE, interval |-> FALSE]

SettingsOf(c) == [folders |-> c.folders, interval |-> c.interval]

\* config.Load: a missing or absurd interval becomes the default.
Loaded == [file EXCEPT !.interval = IF @ = 0 THEN DefaultInterval ELSE @]

\* config.Save writes all of the file or, if it fails, none of it.
SaveFails == "save" \in Faults /\ UNCHANGED file

Init ==
    /\ \E fs \in SUBSET (Folders \ {Root}) :
         file = [key |-> FirstKey, folders |-> fs, interval |-> DefaultInterval]
    /\ phase = "down"
    /\ cfg = file
    /\ clientKey = FirstKey
    /\ running = SettingsOf(file)
    /\ changed = NoChange
    /\ response = NoResponse
    /\ lastError = FALSE
    /\ cli = NoCommand
    /\ valid = {FirstKey}
    /\ minted = None
    /\ issued = {FirstKey}
    /\ wanted = None
    /\ told = FALSE
-----------------------------------------------------------------------------
(* The admin, in Memory's web UI.                                          *)

\* "Rotate API key": the old key stays valid for now.
MintKey(k) ==
    /\ minted = None
    /\ k \in Keys \ issued
    /\ minted' = k
    /\ issued' = issued \cup {k}
    /\ valid' = valid \cup {k}
    /\ UNCHANGED <<file, phase, memory, cli, wanted, told>>

EditSettings(s) ==
    /\ wanted # s
    /\ wanted' = s
    /\ UNCHANGED <<file, phase, memory, cli, valid, minted, issued, told>>
-----------------------------------------------------------------------------
(* The service.                                                            *)

Boot ==
    /\ phase = "down"
    /\ phase' = "idle"
    /\ cfg' = Loaded
    /\ clientKey' = file.key
    /\ running' = SettingsOf(Loaded)
    /\ changed' = NoChange
    /\ response' = NoResponse
    /\ lastError' = FALSE
    /\ UNCHANGED <<file, cli, server>>

Stop ==
    /\ phase' = "down"
    /\ UNCHANGED <<file, memory, server>>

Crash == "crash" \in Faults /\ phase # "down" /\ Stop /\ UNCHANGED cli

\* What Memory answers to a valid key; the first check-in of the new key
\* ends the rotation.  An edit is delivered until it is reported back.
Answer(update) ==
    [ rotate |-> IF clientKey = minted THEN None ELSE minted,
      config |-> IF wanted = SettingsOf(cfg) THEN None ELSE wanted,
      update |-> update ]

MemoryTakes ==
    /\ phase = "idle"
    /\ clientKey \in valid
    /\ valid' = IF clientKey = minted THEN {minted} ELSE valid
    /\ minted' = IF clientKey = minted THEN None ELSE minted
    /\ wanted' = IF wanted = SettingsOf(cfg) THEN None ELSE wanted
    /\ told' = lastError

\* The check-in succeeds.
CheckInOk(update) ==
    /\ MemoryTakes
    /\ response' = Answer(update)
    /\ changed' = NoChange
    /\ phase' = "rotate"
    /\ UNCHANGED <<file, cfg, clientKey, running, lastError, cli, issued>>

\* Memory took it, but the answer is lost: the next one tries again.
CheckInLost ==
    /\ "lost" \in Faults
    /\ MemoryTakes
    /\ UNCHANGED <<file, phase, memory, cli, issued>>

\* Mutant: the error of the last update is not carried over.
CheckInForgets ==
    /\ phase = "idle"
    /\ lastError' = FALSE
    /\ UNCHANGED <<file, phase, cfg, clientKey, running, changed, response, cli, server>>

\* Memory refuses the key or cannot be reached: logged, nothing changes.
CheckInFails == phase = "idle" /\ UNCHANGED vars

\* Mutant: a response without a key is not told from one with a key.
ApplyKeyUnasked ==
    /\ phase = "rotate"
    /\ phase' = "config"
    /\ cfg' = [cfg EXCEPT !.key = response.rotate]
    /\ file' = cfg'
    /\ clientKey' = response.rotate
    /\ UNCHANGED <<running, changed, response, lastError, cli, server>>

\* Mutant: the client switches even if the key could not be saved.
ApplyKeyUnsaved ==
    /\ phase = "rotate"
    /\ phase' = "config"
    /\ IF response.rotate = None
       THEN UNCHANGED <<file, cfg, clientKey>>
       ELSE /\ cfg' = [cfg EXCEPT !.key = response.rotate]
            /\ file' = cfg' \/ SaveFails
            /\ clientKey' = response.rotate
    /\ UNCHANGED <<running, changed, response, lastError, cli, server>>

\* Mutant: the client keeps sending the old key.
ApplyKeyToFile ==
    /\ phase = "rotate"
    /\ phase' = "config"
    /\ IF response.rotate = None
       THEN UNCHANGED <<file, cfg>>
       ELSE cfg' = [cfg EXCEPT !.key = response.rotate] /\ (file' = cfg' \/ SaveFails)
    /\ UNCHANGED <<clientKey, running, changed, response, lastError, cli, server>>

\* applyAPIKeyRotation: the client switches after the key is saved.
ApplyKey ==
    /\ phase = "rotate"
    /\ phase' = "config"
    /\ IF response.rotate = None
       THEN UNCHANGED <<file, cfg, clientKey>>
       ELSE /\ cfg' = [cfg EXCEPT !.key = response.rotate]
            /\ \/ file' = cfg' /\ clientKey' = response.rotate
               \/ SaveFails /\ UNCHANGED clientKey
    /\ UNCHANGED <<running, changed, response, lastError, cli, server>>

\* Mutant: what Memory pushes is taken as it is.
ApplyConfigUnfiltered ==
    /\ phase = "config"
    /\ phase' = "update"
    /\ IF response.config = None
       THEN UNCHANGED <<file, cfg, changed>>
       ELSE /\ cfg' = [cfg EXCEPT !.folders = response.config.folders,
                                  !.interval = response.config.interval]
            /\ file' = cfg'
            /\ changed' = [folders |-> TRUE, interval |-> TRUE]
    /\ UNCHANGED <<clientKey, running, response, lastError, cli, server>>

\* Mutant: what changed is computed after the assignment: nothing.
ApplyConfigComparedLate ==
    /\ phase = "config"
    /\ phase' = "update"
    /\ IF response.config = None
       THEN UNCHANGED <<file, cfg>>
       ELSE /\ cfg' = [cfg EXCEPT !.folders = response.config.folders \ {Root},
                                  !.interval = response.config.interval]
            /\ file' = cfg'
    /\ UNCHANGED <<clientKey, running, changed, response, lastError, cli, server>>

\* applyRemoteConfig: memory is changed before the save is known to work,
\* and a failed save hides the change from Run.
ApplyConfig ==
    /\ phase = "config"
    /\ phase' = "update"
    /\ IF response.config = None
       THEN UNCHANGED <<file, cfg, changed>>
       ELSE LET folders == response.config.folders \ {Root}
                new     == [cfg EXCEPT !.folders = folders, !.interval = response.config.interval]
                diff    == [folders |-> cfg.folders # folders,
                            interval |-> cfg.interval # response.config.interval]
            IN  /\ cfg' = new
                /\ \/ file' = new /\ changed' = diff
                   \/ SaveFails /\ UNCHANGED changed
    /\ UNCHANGED <<clientKey, running, response, lastError, cli, server>>

\* applyRemoteUpdate, after both saves; Run keeps its error.
ApplyUpdate(failed) ==
    /\ phase = "update"
    /\ failed => response.update
    /\ lastError' = failed
    /\ told' = FALSE
    /\ phase' = "rebuild"
    /\ UNCHANGED <<file, cfg, clientKey, running, changed, response, cli,
                   valid, minted, issued, wanted>>

\* Mutant: the ticker keeps its old interval.
RebuildEngines ==
    /\ phase = "rebuild"
    /\ phase' = "idle"
    /\ running' = [running EXCEPT !.folders = IF changed.folders THEN cfg.folders ELSE @]
    /\ changed' = NoChange
    /\ response' = NoResponse
    /\ UNCHANGED <<file, cfg, clientKey, lastError, cli, server>>

\* Run rebuilds its engines and its ticker; time.NewTicker panics on 0.
Rebuild ==
    /\ phase = "rebuild"
    /\ LET panics == changed.interval /\ cfg.interval = 0
       IN  phase' = IF panics THEN "down" ELSE "idle"
    /\ running' = [folders  |-> IF changed.folders THEN cfg.folders ELSE running.folders,
                   interval |-> IF changed.interval THEN cfg.interval ELSE running.interval]
    /\ changed' = NoChange
    /\ response' = NoResponse
    /\ UNCHANGED <<file, cfg, clientKey, lastError, cli, server>>
-----------------------------------------------------------------------------
(* The commands.                                                           *)

\* config.Load at the start; the wizard's prompts may keep it for minutes.
CliLoad(kind) ==
    /\ cli = NoCommand
    /\ kind \in Commands
    /\ cli' = [kind |-> kind, config |-> Loaded]
    /\ UNCHANGED <<file, phase, memory, server>>

\* folders add or remove, without telling the service.
CliFolders(f) ==
    /\ cli.kind = "folders"
    /\ f \in Folders \ {Root}
    /\ file' = [cli.config EXCEPT !.folders = IF f \in @ THEN @ \ {f} ELSE @ \cup {f}]
    /\ cli' = NoCommand
    /\ UNCHANGED <<phase, memory, server>>

KeyGiven == IF cli.kind = "key" THEN valid ELSE {cli.config.key}

\* init with flags: an interval, a working key; then the service is
\* restarted, if it runs and that works.
CliInit ==
    /\ cli.kind \in {"init", "key"}
    /\ \E i \in AllIntervals \ {0}, k \in KeyGiven :
         file' = [cli.config EXCEPT !.key = k, !.interval = i]
    /\ cli' = NoCommand
    /\ phase' \in {phase, "down"}
    /\ UNCHANGED <<memory, server>>

\* The wizard: the same and more folders, at least one in all; the service
\* is (re)started if the user says so.
CliWizard ==
    /\ cli.kind \in {"init", "key"}
    /\ \E i \in AllIntervals \ {0}, k \in KeyGiven, added \in SUBSET (Folders \ {Root}) :
         /\ cli.config.folders \cup added # {}
         /\ file' = [key |-> k, folders |-> cli.config.folders \cup added, interval |-> i]
    /\ cli' = NoCommand
    /\ phase' \in {phase, "down"}
    /\ UNCHANGED <<memory, server>>

\* Nothing to add or remove, no answer to a prompt, or a failed save.
CliGivesUp ==
    /\ cli # NoCommand
    /\ cli' = NoCommand
    /\ UNCHANGED <<file, phase, memory, server>>
-----------------------------------------------------------------------------
Check ==
    \/ \E b \in BOOLEAN : CheckInOk(b) \/ ApplyUpdate(b)
    \/ ApplyKey \/ ApplyConfig \/ Rebuild

Command ==
    \/ \E kind \in Commands : CliLoad(kind)
    \/ \E f \in Folders : CliFolders(f)
    \/ CliInit \/ CliWizard \/ CliGivesUp

\* Nothing locks config.json; that nobody acts between a command's reading
\* and writing it is an assumption some properties need.
Next ==
    \/ /\ cli = NoCommand \/ "overlap" \in Faults
       /\ \/ \E k \in Keys : MintKey(k)
          \/ \E s \in Settings : EditSettings(s)
          \/ Boot \/ Crash \/ Check \/ CheckInLost \/ CheckInFails
    \/ Command

Spec == Init /\ [][Next]_vars

\* The ticker fires, the service restarts, and answers and saves that fail
\* again and again work in the end.
FairSpec ==
    /\ Spec
    /\ WF_vars(Boot)
    /\ WF_vars(Check)
    /\ SF_vars(\E b \in BOOLEAN : CheckInOk(b))
    /\ SF_vars(ApplyKey /\ file' = cfg' /\ clientKey' = cfg'.key)
-----------------------------------------------------------------------------
(* Properties.                                                             *)

\* Every variable has its type.
TypeOK ==
    /\ file \in Configs /\ cfg \in Configs
    /\ phase \in {"down", "idle", "rotate", "config", "update", "rebuild"}
    /\ clientKey \in Keys
    /\ running \in Settings
    /\ changed \in [folders : BOOLEAN, interval : BOOLEAN]
    /\ response \in Responses
    /\ lastError \in BOOLEAN /\ told \in BOOLEAN
    /\ cli \in {NoCommand} \cup [kind : CommandKinds, config : Configs]
    /\ valid \subseteq Keys /\ issued \subseteq Keys
    /\ minted \in Keys \cup {None}
    /\ wanted \in Settings \cup {None}

\* Memory never revokes the key config.json holds: whenever the service is
\* restarted, it can check in (a key is saved before it is first used).
KeyOnDiskValid == file.key \in valid

\* A service that is waiting runs with the folders and the interval it will
\* report at its next check-in.
ReportsRunningConfig == phase = "idle" => running = SettingsOf(cfg)

\* Switching to a new key changes nothing else in config.json.
RotationOnlyReplacesKey ==
    [][phase = "rotate" /\ phase' = "config" => SettingsOf(file') = SettingsOf(file)]_vars

\* Nothing a check-in brings ends the service.
CheckInNotFatal == [][phase # "down" => phase' # "down"]_vars

\* The service never watches the filesystem root, whatever Memory pushes.
RootNotWatched == Root \notin running.folders /\ Root \notin file.folders

\* The failure of a remote update is kept until Memory was told of it.
NoFailureForgotten ==
    [][phase # "down" /\ lastError /\ ~lastError' => told]_vars

Allowed(s) == [s EXCEPT !.folders = @ \ {Root}]
Asked(s)   == wanted # None /\ Allowed(wanted) = s

\* An edit that is not replaced is running in the end, without the root.
EditApplied ==
    \A s \in [folders : SUBSET (Folders \ {Root}), interval : AllIntervals] :
        Asked(s) ~> \/ wanted # None /\ ~Asked(s)
                    \/ running = s

\* A rotation ends, with the new key the only valid one and in use.
RotationCompletes ==
    \A k \in Keys : minted = k ~> (valid = {k} /\ clientKey = k)
=============================================================================
