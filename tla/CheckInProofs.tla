--------------------------- MODULE CheckInProofs ----------------------------
(* Theorems about CheckIn, for every set of keys, folders and intervals.   *)
EXTENDS CheckIn, TLAPS

\* What config.Load returns has the key and the folders of the file.
LEMMA LoadedType == ASSUME file \in Configs PROVE
        /\ Loaded \in Configs
        /\ Loaded.key = file.key
        /\ Loaded.folders = file.folders
  BY ConstantsAssumption DEF Loaded, Configs, AllIntervals

\* The initial states are of the type.
LEMMA InitType == Init => TypeOK
<1> SUFFICES ASSUME Init PROVE TypeOK
  OBVIOUS
<1>1. PICK fs \in SUBSET (Folders \ {Root}) :
        file = [key |-> FirstKey, folders |-> fs, interval |-> DefaultInterval]
  BY DEF Init
<1>2. file \in Configs /\ file.folders = fs /\ file.interval = DefaultInterval
  BY <1>1, ConstantsAssumption DEF Configs, AllIntervals
<1>3. running \in Settings
  BY <1>2 DEF Init, Settings, SettingsOf, AllIntervals
<1>4. response \in Responses /\ changed \in [folders : BOOLEAN, interval : BOOLEAN]
  BY DEF Init, NoResponse, Responses, NoChange
<1> QED
  BY <1>2, <1>3, <1>4, ConstantsAssumption DEF Init, TypeOK

\* Every step keeps the type.
LEMMA NextType == TypeOK /\ [Next]_vars => TypeOK'
<1> SUFFICES ASSUME TypeOK, [Next]_vars PROVE TypeOK'
  OBVIOUS
<1> USE ConstantsAssumption DEF TypeOK
<1>1. ASSUME NEW k \in Keys, MintKey(k) PROVE TypeOK'
  BY <1>1 DEF MintKey, memory
<1>2. ASSUME NEW s \in Settings, EditSettings(s) PROVE TypeOK'
  BY <1>2 DEF EditSettings, memory
<1>3. CASE Boot
  <2>1. cfg' \in Configs /\ clientKey' \in Keys /\ running' \in Settings
    BY <1>3, LoadedType DEF Boot, Configs, Settings, SettingsOf
  <2> QED BY <1>3, <2>1 DEF Boot, server, NoChange, NoResponse, Responses
<1>4. CASE Crash
  BY <1>4 DEF Crash, Stop, memory, server
<1>5. ASSUME NEW b \in BOOLEAN, CheckInOk(b) PROVE TypeOK'
  <2>1. Answer(b) \in Responses
    BY DEF Answer, Responses
  <2> QED BY <1>5, <2>1 DEF CheckInOk, MemoryTakes, NoChange
<1>6. ASSUME NEW b \in BOOLEAN, ApplyUpdate(b) PROVE TypeOK'
  BY <1>6 DEF ApplyUpdate
<1>7. CASE ApplyKey
  <2>1. response.rotate \in Keys \cup {None}
    BY DEF Responses
  <2>2. CASE response.rotate = None
    BY <1>7, <2>2 DEF ApplyKey, server
  <2>3. CASE response.rotate # None
    <3>1. cfg' \in Configs
      BY <1>7, <2>1, <2>3 DEF ApplyKey, Configs
    <3> QED BY <1>7, <2>1, <2>3, <3>1 DEF ApplyKey, SaveFails, server
  <2> QED BY <2>2, <2>3
<1>8. CASE ApplyConfig
  <2>1. response.config \in Settings \cup {None}
    BY DEF Responses
  <2>2. CASE response.config = None
    BY <1>8, <2>2 DEF ApplyConfig, server
  <2>3. CASE response.config # None
    <3> DEFINE folders == response.config.folders \ {Root}
               new     == [cfg EXCEPT !.folders = folders,
                                      !.interval = response.config.interval]
               diff    == [folders |-> cfg.folders # folders,
                           interval |-> cfg.interval # response.config.interval]
    <3>1. /\ cfg' = new
          /\ \/ file' = new /\ changed' = diff
             \/ file' = file /\ changed' = changed
          /\ phase' = "update"
          /\ UNCHANGED <<clientKey, running, response, lastError, cli, server>>
      BY <1>8, <2>3 DEF ApplyConfig, SaveFails
    <3>2. new \in Configs
      BY <2>1, <2>3 DEF Configs, Settings
    <3>3. diff \in [folders : BOOLEAN, interval : BOOLEAN]
      OBVIOUS
    <3> HIDE DEF new, diff
    <3> QED BY <3>1, <3>2, <3>3 DEF server
  <2> QED BY <2>2, <2>3
<1>9. CASE Rebuild
  <2>1. running' \in Settings
    BY <1>9 DEF Rebuild, Settings, Configs
  <2> QED BY <1>9, <2>1 DEF Rebuild, server, NoChange, NoResponse, Responses
<1>10. CASE CheckInLost
  BY <1>10 DEF CheckInLost, MemoryTakes, memory
<1>11. CASE CheckInFails
  BY <1>11 DEF CheckInFails, vars, memory, server
<1>12. ASSUME NEW kind \in Commands, CliLoad(kind) PROVE TypeOK'
  BY <1>12, LoadedType DEF CliLoad, memory, server
<1>13. ASSUME NEW f \in Folders, CliFolders(f) PROVE TypeOK'
  <2>1. cli.config \in Configs
    BY <1>13 DEF CliFolders, NoCommand
  <2>2. file' \in Configs
    BY <1>13, <2>1 DEF CliFolders, Configs
  <2> QED BY <1>13, <2>2 DEF CliFolders, memory, server
<1>14. ASSUME CliInit \/ CliWizard PROVE TypeOK'
  <2>0. cli.kind \in {"init", "key"}
    BY <1>14 DEF CliInit, CliWizard
  <2>1. cli.config \in Configs
    BY <2>0 DEF NoCommand
  <2>5. KeyGiven \subseteq Keys
    BY <2>1 DEF KeyGiven, Configs
  <2>2. PICK i \in AllIntervals, k \in Keys, fs \in SUBSET Folders :
           file' = [key |-> k, folders |-> fs, interval |-> i]
    <3>1. CASE CliInit
      <4>1. PICK i \in AllIntervals, k \in Keys :
              file' = [cli.config EXCEPT !.key = k, !.interval = i]
        BY <2>5, <3>1 DEF CliInit
      <4> QED BY <2>1, <4>1 DEF Configs
    <3>2. CASE CliWizard
      <4>1. PICK i \in AllIntervals \ {0}, k \in KeyGiven, added \in SUBSET (Folders \ {Root}) :
              file' = [key |-> k, folders |-> cli.config.folders \cup added, interval |-> i]
        BY <3>2 DEF CliWizard
      <4>2. k \in Keys /\ cli.config.folders \cup added \in SUBSET Folders
        BY <2>1, <2>5 DEF Configs
      <4> QED BY <4>1, <4>2
    <3> QED BY <1>14, <3>1, <3>2
  <2>3. file' \in Configs
    BY <2>2 DEF Configs
  <2>4. /\ phase' \in {phase, "down"}
        /\ cli' = NoCommand
        /\ UNCHANGED <<memory, server>>
    BY <1>14 DEF CliInit, CliWizard
  <2> QED BY <2>3, <2>4 DEF memory, server
<1>15. CASE CliGivesUp
  BY <1>15 DEF CliGivesUp, memory, server
<1>16. CASE UNCHANGED vars
  BY <1>16 DEF vars, memory, server
<1> QED
  BY <1>1, <1>2, <1>3, <1>4, <1>5, <1>6, <1>7, <1>8, <1>9, <1>10, <1>11,
     <1>12, <1>13, <1>14, <1>15, <1>16 DEF Next, Check, Command

\* Every variable keeps its type, whatever the answers, commands and faults.
THEOREM CheckInTypeCorrect == Spec => []TypeOK
  BY InitType, NextType, PTL DEF Spec
-----------------------------------------------------------------------------
(* The filesystem root is in no list of folders: not in config.json, in    *)
(* the service's memory, in its engines, nor in the Config a command read. *)

RootInv ==
    /\ TypeOK
    /\ Root \notin file.folders
    /\ Root \notin cfg.folders
    /\ Root \notin running.folders
    /\ cli # NoCommand => Root \notin cli.config.folders

\* No configured folder is the root at first.
LEMMA InitRoot == Init => RootInv
  BY InitType DEF Init, RootInv, SettingsOf

\* No step lets the root in: what Memory pushes is filtered, commands
\* refuse it.
LEMMA NextRoot == RootInv /\ [Next]_vars => RootInv'
<1> SUFFICES ASSUME RootInv, [Next]_vars PROVE RootInv'
  OBVIOUS
<1>0. TypeOK /\ TypeOK'
  BY NextType DEF RootInv
<1> DEFINE Kept == /\ Root \notin file'.folders
                   /\ Root \notin cfg'.folders
                   /\ Root \notin running'.folders
                   /\ cli' # NoCommand => Root \notin cli'.config.folders
<1> SUFFICES Kept
  BY <1>0 DEF RootInv
<1> USE DEF RootInv
<1>1. ASSUME NEW k \in Keys, MintKey(k) PROVE Kept
  BY <1>1 DEF MintKey, memory
<1>2. ASSUME NEW s \in Settings, EditSettings(s) PROVE Kept
  BY <1>2 DEF EditSettings, memory
<1>3. CASE Boot
  BY <1>0, <1>3, LoadedType DEF Boot, SettingsOf, TypeOK
<1>4. CASE Crash
  BY <1>4 DEF Crash, Stop, memory
<1>5. ASSUME NEW b \in BOOLEAN, CheckInOk(b) PROVE Kept
  BY <1>5 DEF CheckInOk
<1>6. ASSUME NEW b \in BOOLEAN, ApplyUpdate(b) PROVE Kept
  BY <1>6 DEF ApplyUpdate
<1>7. CASE ApplyKey
  <2>1. cfg'.folders = cfg.folders
    BY <1>0, <1>7 DEF ApplyKey, TypeOK, Configs
  <2> QED BY <1>7, <2>1 DEF ApplyKey, SaveFails
<1>8. CASE ApplyConfig
  <2>1. CASE response.config = None
    BY <1>8, <2>1 DEF ApplyConfig
  <2>2. CASE response.config # None
    <3>1. cfg'.folders = response.config.folders \ {Root}
      BY <1>0, <1>8, <2>2 DEF ApplyConfig, TypeOK, Configs
    <3>2. file' \in {cfg', file}
      BY <1>8, <2>2 DEF ApplyConfig, SaveFails
    <3> QED BY <1>8, <3>1, <3>2 DEF ApplyConfig
  <2> QED BY <2>1, <2>2
<1>9. CASE Rebuild
  BY <1>9 DEF Rebuild
<1>10. CASE CheckInLost
  BY <1>10 DEF CheckInLost, memory
<1>11. CASE CheckInFails
  BY <1>11 DEF CheckInFails, vars, memory
<1>12. ASSUME NEW kind \in Commands, CliLoad(kind) PROVE Kept
  BY <1>0, <1>12, LoadedType DEF CliLoad, memory, TypeOK
<1>13. ASSUME NEW f \in Folders, CliFolders(f) PROVE Kept
  <2>1. cli # NoCommand /\ cli.config \in Configs
    BY <1>0, <1>13 DEF CliFolders, NoCommand, TypeOK
  <2>2. file'.folders \subseteq cli.config.folders \cup {f}
    BY <1>13, <2>1 DEF CliFolders, Configs
  <2> QED BY <1>13, <2>1, <2>2 DEF CliFolders, memory
<1>14. CASE CliInit \/ CliWizard
  <2>0. cli.kind \in {"init", "key"}
    BY <1>14 DEF CliInit, CliWizard
  <2>1. cli # NoCommand /\ cli.config \in Configs
    BY <1>0, <2>0 DEF NoCommand, TypeOK
  <2>2. ASSUME CliInit PROVE file'.folders = cli.config.folders
    BY <2>1, <2>2 DEF CliInit, Configs
  <2>3. ASSUME CliWizard PROVE Root \notin file'.folders
    <3>1. PICK added \in SUBSET (Folders \ {Root}) :
            file'.folders = cli.config.folders \cup added
      BY <2>3 DEF CliWizard
    <3> QED BY <2>1, <3>1
  <2>4. cli' = NoCommand /\ cfg' = cfg /\ running' = running
    BY <1>14 DEF CliInit, CliWizard, memory
  <2>5. Root \notin file'.folders
    BY <1>14, <2>1, <2>2, <2>3
  <2> QED BY <2>4, <2>5
<1>15. CASE CliGivesUp
  BY <1>15 DEF CliGivesUp, memory
<1>16. CASE UNCHANGED vars
  BY <1>16 DEF vars, memory
<1> QED
  BY <1>1, <1>2, <1>3, <1>4, <1>5, <1>6, <1>7, <1>8, <1>9, <1>10, <1>11,
     <1>12, <1>13, <1>14, <1>15, <1>16 DEF Next, Check, Command

\* The service never watches the filesystem root, whatever Memory pushes,
\* users type, crashes or fails to be saved.
THEOREM RootIsNeverWatched == Spec => []RootNotWatched
<1>1. RootInv => RootNotWatched
  BY DEF RootInv, RootNotWatched
<1> QED
  BY InitRoot, NextRoot, <1>1, PTL DEF Spec
-----------------------------------------------------------------------------
(* The key in config.json, when no command overlaps with others or brings  *)
(* a key of its own: a command writes back the key that is still there, and *)
(* the key the service sends is the one being switched to only after that  *)
(* one was saved.                                                          *)

KeyInv ==
    /\ TypeOK
    /\ cli # NoCommand => cli.kind # "key" /\ cli.config.key = file.key
    /\ {file.key, cfg.key, clientKey} \subseteq valid
    /\ valid \subseteq issued
    /\ minted # None => minted \in valid
    /\ clientKey = minted => file.key = minted /\ cfg.key = minted
    /\ response.rotate \in {None, minted}
    /\ phase = "idle" => response.rotate = None

\* One key at first, and no rotation.
LEMMA InitKey == Init => KeyInv
  BY InitType, ConstantsAssumption DEF Init, KeyInv, NoResponse

\* What a check-in does to the keys Memory accepts.
LEMMA TakesKeepsKeys ==
  ASSUME KeyInv, MemoryTakes, UNCHANGED <<file, cfg, clientKey, cli, issued>>
  PROVE  /\ {file.key, cfg.key, clientKey}' \subseteq valid'
         /\ valid' \subseteq issued'
         /\ minted' # None => minted' \in valid'
         /\ clientKey' # minted'
         /\ minted' = IF clientKey = minted THEN None ELSE minted
  BY ConstantsAssumption DEF KeyInv, MemoryTakes, TypeOK

\* Without overlap and pasted keys no step leaves a revoked key in config.json.
LEMMA NextKey ==
  ASSUME "overlap" \notin Faults, "key" \notin Commands
  PROVE  KeyInv /\ [Next]_vars => KeyInv'
<1> SUFFICES ASSUME KeyInv, [Next]_vars PROVE KeyInv'
  OBVIOUS
<1>0. TypeOK /\ TypeOK'
  BY NextType DEF KeyInv
<1> DEFINE Kept == /\ cli' # NoCommand => cli'.kind # "key" /\ cli'.config.key = file'.key
                   /\ {file'.key, cfg'.key, clientKey'} \subseteq valid'
                   /\ valid' \subseteq issued'
                   /\ minted' # None => minted' \in valid'
                   /\ clientKey' = minted' => file'.key = minted' /\ cfg'.key = minted'
                   /\ response'.rotate \in {None, minted'}
                   /\ phase' = "idle" => response'.rotate = None
<1> SUFFICES Kept
  BY <1>0 DEF KeyInv
<1>1. ASSUME NEW k \in Keys, MintKey(k), cli = NoCommand PROVE Kept
  BY <1>1, ConstantsAssumption DEF MintKey, memory, KeyInv
<1>2. ASSUME NEW s \in Settings, EditSettings(s), cli = NoCommand PROVE Kept
  BY <1>2 DEF EditSettings, memory, KeyInv
<1>3. ASSUME Boot, cli = NoCommand PROVE Kept
  <2>1. cfg'.key = file.key /\ clientKey' = file.key
    BY <1>0, <1>3, LoadedType DEF Boot, TypeOK
  <2> QED BY <1>3, <2>1 DEF Boot, server, NoResponse, KeyInv
<1>4. ASSUME Crash, cli = NoCommand PROVE Kept
  BY <1>4 DEF Crash, Stop, memory, server, KeyInv
<1>5. ASSUME NEW b \in BOOLEAN, CheckInOk(b), cli = NoCommand PROVE Kept
  <2>1. response'.rotate = minted'
    BY <1>5, TakesKeepsKeys DEF CheckInOk, Answer
  <2> QED BY <1>5, <2>1, TakesKeepsKeys DEF CheckInOk, KeyInv
<1>6. ASSUME NEW b \in BOOLEAN, ApplyUpdate(b), cli = NoCommand PROVE Kept
  BY <1>6 DEF ApplyUpdate, KeyInv
<1>7. ASSUME ApplyKey, cli = NoCommand PROVE Kept
  <2>1. CASE response.rotate = None
    BY <1>7, <2>1 DEF ApplyKey, server, KeyInv
  <2>2. CASE response.rotate # None
    <3>1. response.rotate = minted /\ minted \in valid
      BY <2>2 DEF KeyInv
    <3>2. cfg'.key = minted
      BY <1>0, <1>7, <2>2, <3>1 DEF ApplyKey, TypeOK, Configs
    <3>3. CASE file' = cfg'
      BY <1>7, <2>2, <3>1, <3>2, <3>3 DEF ApplyKey, server, KeyInv
    <3>4. CASE file' = file /\ clientKey' = clientKey
      BY <1>7, <3>1, <3>2, <3>4 DEF ApplyKey, server, KeyInv
    <3> QED BY <1>7, <2>2, <3>3, <3>4 DEF ApplyKey, SaveFails
  <2> QED BY <2>1, <2>2
<1>8. ASSUME ApplyConfig, cli = NoCommand PROVE Kept
  <2>1. CASE response.config = None
    BY <1>8, <2>1 DEF ApplyConfig, server, KeyInv
  <2>2. CASE response.config # None
    <3>1. cfg'.key = cfg.key
      BY <1>0, <1>8, <2>2 DEF ApplyConfig, TypeOK, Configs
    <3>2. file' \in {cfg', file}
      BY <1>8, <2>2 DEF ApplyConfig, SaveFails
    <3> QED BY <1>8, <3>1, <3>2 DEF ApplyConfig, server, KeyInv
  <2> QED BY <2>1, <2>2
<1>9. ASSUME Rebuild, cli = NoCommand PROVE Kept
  BY <1>9 DEF Rebuild, server, NoResponse, KeyInv
<1>10. ASSUME CheckInLost, cli = NoCommand PROVE Kept
  <2>1. response.rotate = None
    BY <1>10 DEF CheckInLost, MemoryTakes, KeyInv
  <2> QED BY <1>10, <2>1, TakesKeepsKeys DEF CheckInLost, memory, KeyInv
<1>11. ASSUME CheckInFails, cli = NoCommand PROVE Kept
  BY <1>11 DEF CheckInFails, vars, memory, server, KeyInv
<1>12. ASSUME NEW kind \in Commands, CliLoad(kind) PROVE Kept
  <2>1. Loaded.key = file.key
    BY <1>0, LoadedType DEF TypeOK
  <2> QED BY <1>12, <2>1 DEF CliLoad, memory, server, KeyInv
<1>13. ASSUME NEW f \in Folders, CliFolders(f) PROVE Kept
  <2>1. cli # NoCommand
    BY <1>13 DEF CliFolders, NoCommand
  <2>2. cli.config \in Configs /\ cli.config.key = file.key
    BY <1>0, <2>1 DEF KeyInv, TypeOK
  <2>3. file'.key = file.key
    BY <1>13, <2>2 DEF CliFolders, Configs
  <2>4. UNCHANGED <<cfg, clientKey, valid, issued, minted, response, phase>> /\ cli' = NoCommand
    BY <1>13 DEF CliFolders, memory, server
  <2> QED BY <2>1, <2>3, <2>4 DEF KeyInv
<1>14. CASE CliInit \/ CliWizard
  <2>0. cli.kind \in {"init", "key"}
    BY <1>14 DEF CliInit, CliWizard
  <2>1. cli # NoCommand
    BY <2>0 DEF NoCommand
  <2>2. cli.kind = "init" /\ cli.config \in Configs /\ cli.config.key = file.key
    BY <1>0, <2>0, <2>1 DEF KeyInv, TypeOK
  <2>3. KeyGiven = {file.key}
    BY <2>2 DEF KeyGiven
  <2>4. file'.key = file.key
    <3>1. CASE CliInit
      BY <2>2, <2>3, <3>1 DEF CliInit, Configs
    <3>2. CASE CliWizard
      BY <2>3, <3>2 DEF CliWizard
    <3> QED BY <1>14, <3>1, <3>2
  <2>5. /\ UNCHANGED <<cfg, clientKey, valid, issued, minted, response>>
        /\ cli' = NoCommand
        /\ phase' \in {phase, "down"}
    BY <1>14 DEF CliInit, CliWizard, memory, server
  <2> QED BY <2>4, <2>5 DEF KeyInv
<1>15. CASE CliGivesUp
  BY <1>15 DEF CliGivesUp, memory, server, KeyInv
<1>16. CASE UNCHANGED vars
  BY <1>16 DEF vars, memory, server, KeyInv
<1> QED
  BY <1>1, <1>2, <1>3, <1>4, <1>5, <1>6, <1>7, <1>8, <1>9, <1>10, <1>11,
     <1>12, <1>13, <1>14, <1>15, <1>16 DEF Next, Check, Command

\* If commands neither overlap with others' work on config.json nor bring a
\* key of their own, the key in it is always one Memory accepts, through
\* crashes, failed saves and lost answers.
THEOREM KeyOnDiskStaysValid ==
  ASSUME "overlap" \notin Faults, "key" \notin Commands
  PROVE  Spec => []KeyOnDiskValid
<1>1. KeyInv => KeyOnDiskValid
  BY DEF KeyInv, KeyOnDiskValid
<1> QED
  BY InitKey, NextKey, <1>1, PTL DEF Spec
-----------------------------------------------------------------------------
(* The failure of an update.  NoFailureForgotten is about the step that    *)
(* overwrites lastError; that Memory knew of it by then follows from the   *)
(* order of the handler: what is applied was brought by an answer, and the *)
(* request it answered carried the failure.                                *)

\* Between an answer and the update it asks for, Memory knows the failure.
ToldInv == phase \in {"rotate", "config", "update"} /\ lastError => told

\* Every step keeps it so.
LEMMA NextTold == ToldInv /\ [Next]_vars => ToldInv'
<1> SUFFICES ASSUME ToldInv, [Next]_vars PROVE ToldInv'
  OBVIOUS
<1> USE DEF ToldInv
<1>1. ASSUME NEW k \in Keys, MintKey(k) PROVE ToldInv'
  BY <1>1 DEF MintKey, memory
<1>2. ASSUME NEW s \in Settings, EditSettings(s) PROVE ToldInv'
  BY <1>2 DEF EditSettings, memory
<1>3. CASE Boot \/ Crash
  BY <1>3 DEF Boot, Crash, Stop
<1>4. ASSUME NEW b \in BOOLEAN, CheckInOk(b) PROVE ToldInv'
  BY <1>4 DEF CheckInOk, MemoryTakes
<1>5. ASSUME NEW b \in BOOLEAN, ApplyUpdate(b) PROVE ToldInv'
  BY <1>5 DEF ApplyUpdate
<1>6. CASE ApplyKey \/ ApplyConfig
  BY <1>6 DEF ApplyKey, ApplyConfig, server
<1>7. CASE Rebuild
  BY <1>7 DEF Rebuild
<1>8. CASE CheckInLost
  BY <1>8 DEF CheckInLost, MemoryTakes
<1>9. CASE CheckInFails \/ UNCHANGED vars
  BY <1>9 DEF CheckInFails, vars, memory, server
<1>10. CASE Command
  BY <1>10 DEF Command, CliLoad, CliFolders, CliInit, CliWizard, CliGivesUp, memory, server
<1> QED
  BY <1>1, <1>2, <1>3, <1>4, <1>5, <1>6, <1>7, <1>8, <1>9, <1>10 DEF Next, Check

\* A running service overwrites the failure of a remote update only when
\* Memory has been told of it, whatever answers are lost meanwhile.
THEOREM FailureIsReported == Spec => NoFailureForgotten
<1> DEFINE Kept == phase # "down" /\ lastError /\ ~lastError' => told
<1>1. Init => ToldInv
  BY DEF Init, ToldInv
<1>2. ToldInv /\ [Next]_vars => [Kept]_vars
  <2> SUFFICES ASSUME ToldInv, Next, phase # "down", lastError, ~lastError' PROVE told
    OBVIOUS
  <2>1. UNCHANGED lastError \/ Boot \/ \E b \in BOOLEAN : ApplyUpdate(b)
    BY DEF Next, Check, Command, MintKey, EditSettings, Crash, Stop, CheckInOk, ApplyKey,
           ApplyConfig, Rebuild, CheckInLost, CheckInFails, CliLoad, CliFolders, CliInit,
           CliWizard, CliGivesUp, memory, vars
  <2>2. \E b \in BOOLEAN : ApplyUpdate(b)
    BY <2>1 DEF Boot
  <2> QED BY <2>2 DEF ApplyUpdate, ToldInv
<1> QED
  BY <1>1, <1>2, NextTold, PTL DEF Spec, NoFailureForgotten
-----------------------------------------------------------------------------
(* What the service runs with.  If saves work, a check-in's edit of the    *)
(* Config in memory is remembered in "changed" until Run has rebuilt its   *)
(* engines and its ticker from it.                                         *)

\* The service runs with what its Config says, or knows what to rebuild.
RunInv ==
    /\ TypeOK
    /\ phase \in {"idle", "rotate", "config"} =>
         changed = NoChange /\ running = SettingsOf(cfg)
    /\ phase \in {"update", "rebuild"} =>
         /\ changed.folders \/ running.folders = cfg.folders
         /\ changed.interval \/ running.interval = cfg.interval

\* Two settings are the same if their fields are.
LEMMA SameSettings ==
  ASSUME NEW s \in Settings, NEW c \in Configs, s.folders = c.folders, s.interval = c.interval
  PROVE  s = SettingsOf(c)
  BY DEF Settings, Configs, SettingsOf

\* Every step keeps running and Config in line, if saves work.
LEMMA NextRun ==
  ASSUME "save" \notin Faults
  PROVE  RunInv /\ [Next]_vars => RunInv'
<1> SUFFICES ASSUME RunInv, [Next]_vars PROVE RunInv'
  OBVIOUS
<1>0. TypeOK /\ TypeOK'
  BY NextType DEF RunInv
<1> DEFINE Kept ==
    /\ phase' \in {"idle", "rotate", "config"} =>
         changed' = NoChange /\ running' = SettingsOf(cfg')
    /\ phase' \in {"update", "rebuild"} =>
         /\ changed'.folders \/ running'.folders = cfg'.folders
         /\ changed'.interval \/ running'.interval = cfg'.interval
<1> SUFFICES Kept
  BY <1>0 DEF RunInv, SettingsOf
<1>1. ASSUME UNCHANGED memory, phase' \in {phase, "down"} PROVE Kept
  BY <1>1 DEF memory, RunInv
<1>2. CASE Boot
  BY <1>2 DEF Boot
<1>3. ASSUME NEW b \in BOOLEAN, CheckInOk(b) PROVE Kept
  BY <1>3 DEF CheckInOk, MemoryTakes, RunInv
<1>4. ASSUME NEW b \in BOOLEAN, ApplyUpdate(b) PROVE Kept
  BY <1>4 DEF ApplyUpdate, RunInv
<1>5. CASE ApplyKey
  <2>1. phase = "rotate" /\ phase' = "config" /\ UNCHANGED <<running, changed>>
    BY <1>5 DEF ApplyKey
  <2>2. cfg'.folders = cfg.folders /\ cfg'.interval = cfg.interval
    BY <1>0, <1>5 DEF ApplyKey, TypeOK, Configs
  <2> QED BY <2>1, <2>2 DEF RunInv, SettingsOf
<1>6. CASE ApplyConfig
  <2>1. phase = "config" /\ phase' = "update" /\ UNCHANGED running
    BY <1>6 DEF ApplyConfig
  <2>2. running = SettingsOf(cfg)
    BY <2>1 DEF RunInv
  <2>3. running.folders = cfg.folders /\ running.interval = cfg.interval
    BY <2>2 DEF SettingsOf
  <2>4. CASE response.config = None
    BY <1>6, <2>1, <2>3, <2>4 DEF ApplyConfig
  <2>5. CASE response.config # None
    <3>1. /\ cfg'.folders = response.config.folders \ {Root}
          /\ cfg'.interval = response.config.interval
      BY <1>0, <1>6, <2>5 DEF ApplyConfig, TypeOK, Configs
    <3>2. changed' = [folders |-> cfg.folders # response.config.folders \ {Root},
                      interval |-> cfg.interval # response.config.interval]
      BY <1>6, <2>5 DEF ApplyConfig, SaveFails
    <3>3. /\ changed'.folders <=> cfg.folders # cfg'.folders
          /\ changed'.interval <=> cfg.interval # cfg'.interval
      BY <3>1, <3>2
    <3> QED BY <2>1, <2>3, <3>3
  <2> QED BY <2>4, <2>5
<1>7. CASE Rebuild
  <2>1. phase = "rebuild" /\ changed' = NoChange /\ cfg' = cfg /\ phase' \in {"idle", "down"}
    BY <1>7 DEF Rebuild
  <2>2. /\ running'.folders = IF changed.folders THEN cfg.folders ELSE running.folders
        /\ running'.interval = IF changed.interval THEN cfg.interval ELSE running.interval
    BY <1>7 DEF Rebuild
  <2>3. running'.folders = cfg.folders /\ running'.interval = cfg.interval
    BY <2>1, <2>2 DEF RunInv
  <2>4. running' \in Settings /\ cfg \in Configs
    BY <1>0 DEF TypeOK
  <2>5. running' = SettingsOf(cfg)
    BY <2>3, <2>4, SameSettings
  <2> QED BY <2>1, <2>5
<1>8. CASE Command
  BY <1>1, <1>8 DEF Command, CliLoad, CliFolders, CliInit, CliWizard, CliGivesUp
<1>9. CASE Crash \/ CheckInLost \/ CheckInFails
  BY <1>1, <1>9 DEF Crash, Stop, CheckInLost, CheckInFails, vars
<1>10. ASSUME \/ \E k \in Keys : MintKey(k)
              \/ \E s \in Settings : EditSettings(s)
       PROVE  Kept
  BY <1>1, <1>10 DEF MintKey, EditSettings
<1>11. CASE UNCHANGED vars
  BY <1>1, <1>11 DEF vars
<1> QED
  BY <1>2, <1>3, <1>4, <1>5, <1>6, <1>7, <1>8, <1>9, <1>10, <1>11 DEF Next, Check

\* If config.json can be written, a service that waits for its next check-in
\* runs with the folders and the interval it is going to report.
THEOREM RunningIsReported ==
  ASSUME "save" \notin Faults
  PROVE  Spec => []ReportsRunningConfig
<1>1. Init => RunInv
  BY InitType DEF Init, RunInv
<1>2. RunInv => ReportsRunningConfig
  BY DEF RunInv, ReportsRunningConfig
<1> QED
  BY <1>1, <1>2, NextRun, PTL DEF Spec
=============================================================================
