------------------------- MODULE BinaryUpdateProofs -------------------------
(***************************************************************************)
(* What holds of BinaryUpdate for every set of versions and worlds and any *)
(* number of updates: the types, that the program is never lost, that a    *)
(* rollback comes neither too early nor to a version that works, and that  *)
(* updating implements the version register.                               *)
(***************************************************************************)
EXTENDS BinaryUpdate, TLAPS

USE ConstantsAssumption DEF path, files, process, updater, history, machine, vars,
    Updaters, Faults, PathFollowsRename, ServiceInstalled, DiesEarly, DiesLate, Mute,
    UpdaterKinds
-----------------------------------------------------------------------------
(* Types.                                                                  *)

\* An update under way belongs to an updater this world has, and began at a
\* slot below the number of updates begun: each moves the program by one.
TypeInv ==
    /\ TypeOK
    /\ world \in Worlds
    /\ \A u \in UpdaterKinds : step[u] # "none" => u \in Updaters /\ at[u] < updates

\* The world's components have their types.
LEMMA WorldParts ==
    ASSUME NEW w \in Worlds
    PROVE  /\ w.updaters \subseteq UpdaterKinds
           /\ w.updates \in 0..MaxUpdates
           /\ w.linux \in BOOLEAN
  BY DEF WorldType

\* A saturating counter stays in its range and is monotonic.
LEMMA IncrementBounds ==
    ASSUME NEW m \in Counts, NEW n \in Counts
    PROVE  /\ Increment(n) \in Counts
           /\ n <= Increment(n)
           /\ m <= n => Increment(m) <= Increment(n)
  BY DEF Counts, Increment

\* The first state has its types.
LEMMA InitType == Init => TypeInv
<1> SUFFICES ASSUME Init PROVE TypeInv
  OBVIOUS
<1>1. /\ bin \in [Slots -> OnDisk] /\ tmp \in [Slots -> OnDisk]
      /\ at \in [UpdaterKinds \cup {"startup"} -> 0..MaxUpdates]
      /\ step \in [UpdaterKinds -> Steps]
      /\ got \in [UpdaterKinds -> Versions]
  BY DEF Init, Slots, OnDisk, Steps
<1>2. starts \in Counts /\ exe \in 0..updates /\ updates \in 0..MaxUpdates
  BY DEF Init, Counts
<1>3. TypeOK
  BY <1>1, <1>2 DEF Init, TypeOK, Places
<1>4. QED
  BY <1>3 DEF Init, TypeInv

\* A rename within the slots keeps their types and the range of exe.
LEMMA RenamedType ==
    ASSUME TypeInv, NEW from \in Slots, NEW to \in 0..updates, to \in Slots,
           Renamed(from, to)
    PROVE  /\ bin' \in [Slots -> OnDisk]
           /\ exe' \in 0..updates
           /\ tracked' \in BOOLEAN
<1>1. bin' \in [Slots -> OnDisk]
  BY DEF TypeInv, TypeOK, Renamed, OnDisk
<1>2. exe' \in 0..updates
  BY DEF TypeInv, TypeOK, Renamed
<1>3. tracked' \in BOOLEAN
  BY DEF TypeInv, TypeOK, Renamed
<1>4. QED BY <1>1, <1>2, <1>3

\* Every step of the process and of its manager keeps the types.
LEMMA ProcessType ==
    ASSUME TypeInv, UNCHANGED world,
           Launch \/ End \/ Kill \/ Shutdown \/ CheckInPlain \/ CheckInFails \/ Confirm
    PROVE  TypeInv'
<1>1. CASE Launch
  <2>1. starts' \in Counts
    BY <1>1, IncrementBounds DEF Launch, TypeInv, TypeOK
  <2>2. binary \in Versions /\ running' = binary /\ confirmed' = FALSE /\ term' = FALSE
        /\ exe' = 0 /\ tracked' = PathFollowsRename /\ pc = "down" /\ pc' = "boot"
    BY <1>1 DEF Launch
  <2>3. UNCHANGED <<files, updater, proven>>
    BY <1>1 DEF Launch
  <2>4. tracked' \in BOOLEAN /\ exe' \in 0..updates
    BY <2>2, WorldParts DEF TypeInv, TypeOK
  <2>5. QED BY <2>1, <2>2, <2>3, <2>4 DEF TypeInv, TypeOK, Places
<1>2. CASE End \/ Kill
  <2>1. Die BY <1>2 DEF End, DieEarly, DieLate, TermKills, TermTaken, Kill
  <2>2. step' \in [UpdaterKinds -> Steps] /\ \A u \in UpdaterKinds : step'[u] # "none" => step[u] # "none"
    BY <2>1 DEF Die, TypeInv, TypeOK, Steps
  <2>3. step'["remote"] = "none" BY <2>1 DEF Die
  <2>4. tracked' \in BOOLEAN /\ confirmed' \in BOOLEAN /\ term' \in BOOLEAN
    BY <2>1, Zenon DEF Die
  <2>5. exe' \in 0..updates
    BY <2>1 DEF Die, TypeInv, TypeOK
  <2>6. TypeOK'
    BY <2>1, <2>2, <2>3, <2>4, <2>5 DEF Die, TypeInv, TypeOK, Places
  <2>7. QED BY <2>1, <2>2, <2>6 DEF Die, TypeInv
<1>3. CASE Shutdown
  BY <1>3 DEF Shutdown, TypeInv, TypeOK
<1>4. CASE CheckInPlain
  BY <1>4 DEF CheckInPlain, CheckIn, TypeInv, TypeOK, Places
<1>5. CASE CheckInFails
  BY <1>5 DEF CheckInFails, TypeInv, TypeOK
<1>6. CASE Confirm
  BY <1>6 DEF Confirm, AfterClear, TypeInv, TypeOK, Places
<1>7. QED BY <1>1, <1>2, <1>3, <1>4, <1>5, <1>6

\* So does every step of the startup check.
LEMMA StartupType ==
    ASSUME TypeInv, UNCHANGED world, Startup
    PROVE  TypeInv'
<1>1. CASE CheckNothingPending
  BY <1>1 DEF CheckNothingPending, TypeInv, TypeOK, Places
<1>2. CASE CheckPending
  <2>1. [marker EXCEPT !.attempts = Increment(@)] \in Pending
    BY <1>2, IncrementBounds DEF CheckPending, Pending
  <2>2. marker' \in Pending \cup {Missing, Corrupt}
    BY <1>2, <2>1 DEF CheckPending, AfterSave, TypeInv, TypeOK
  <2>3. exe \in 0..MaxUpdates
    BY DEF TypeInv, TypeOK
  <2>4. at' \in [UpdaterKinds \cup {"startup"} -> 0..MaxUpdates] /\ \A u \in UpdaterKinds : at'[u] = at[u]
    BY <1>2, <2>3 DEF CheckPending, TypeInv, TypeOK
  <2>5. pc = "boot" /\ pc' \in {"rollback", "init"} /\ UNCHANGED <<step, updates, world>>
    BY <1>2 DEF CheckPending
  <2>6. UNCHANGED <<bin, tmp, running, confirmed, term, exe, tracked, got, proven, starts>>
    BY <1>2 DEF CheckPending
  <2>7. QED BY <2>2, <2>4, <2>5, <2>6 DEF TypeInv, TypeOK, Places
<1>3. CASE RollbackRename
  <2> DEFINE s == at["startup"]
  <2>1. s \in 0..MaxUpdates /\ s \in Slots /\ s + 1 \in Slots
    BY DEF TypeInv, TypeOK, Slots
  <2>2. /\ bin' \in [Slots -> OnDisk] /\ exe' \in 0..updates /\ tracked' \in BOOLEAN
        /\ starts' \in Counts
        /\ pc' \in {"cleanup", "init"}
    <3>1. CASE bin[s + 1] # Missing /\ Renamed(s + 1, s) /\ starts' = (IF s = 0 THEN 0 ELSE starts) /\ pc' = "cleanup"
      <4>1. bin' \in [Slots -> OnDisk]
        BY <3>1, <2>1 DEF TypeInv, TypeOK, Renamed, OnDisk
      <4>2. exe' \in 0..updates
        BY <3>1, <2>1 DEF TypeInv, TypeOK, Renamed
      <4>3. tracked' \in BOOLEAN
        BY <3>1 DEF TypeInv, TypeOK, Renamed
      <4>4. starts' \in Counts
        BY <3>1 DEF TypeInv, TypeOK, Counts
      <4>5. QED BY <3>1, <4>1, <4>2, <4>3, <4>4
    <3>2. CASE pc' = "init" /\ UNCHANGED <<bin, path, starts>>
      BY <3>2 DEF TypeInv, TypeOK
    <3>3. QED BY <1>3, <3>1, <3>2 DEF RollbackRename
  <2>3. pc = "rollback" /\ UNCHANGED <<tmp, marker, running, confirmed, term, updater, proven, world>>
    BY <1>3 DEF RollbackRename
  <2>4. QED BY <2>2, <2>3 DEF TypeInv, TypeOK, Places
<1>4. CASE RollbackClear
  <2>1. tracked' \in BOOLEAN /\ confirmed' \in BOOLEAN /\ term' \in BOOLEAN
    BY <1>4, Zenon DEF RollbackClear, TypeInv, TypeOK
  <2>2. exe' \in 0..updates
    BY <1>4 DEF RollbackClear, TypeInv, TypeOK
  <2>3. marker' \in Pending \cup {Missing, Corrupt} /\ pc' \in {"down", "init"}
    BY <1>4 DEF RollbackClear, AfterClear, TypeInv, TypeOK
  <2>4. QED BY <1>4, <2>1, <2>2, <2>3 DEF RollbackClear, TypeInv, TypeOK, Places
<1>5. CASE EnterLoop
  BY <1>5 DEF EnterLoop, TypeInv, TypeOK, Places
<1>6. QED BY <1>1, <1>2, <1>3, <1>4, <1>5 DEF Startup

\* So do the steps that begin or cut short an update.
LEMMA BeginType ==
    ASSUME TypeInv, UNCHANGED world,
           CliKill \/ \E v \in Versions : CheckInUpdate(v) \/ CliUpdate(v)
    PROVE  TypeInv'
<1>1. world.updates \in 0..MaxUpdates
  BY WorldParts DEF TypeInv
<1>2. ASSUME NEW v \in Versions, CheckInUpdate(v) PROVE TypeInv'
  <2>1. updates' = updates + 1 /\ updates' \in 0..MaxUpdates /\ exe \in 0..MaxUpdates
    BY <1>1, <1>2 DEF CheckInUpdate, TypeInv, TypeOK
  <2>2. /\ step' \in [UpdaterKinds -> Steps]
        /\ got' \in [UpdaterKinds -> Versions]
        /\ at' \in [UpdaterKinds \cup {"startup"} -> 0..MaxUpdates]
        /\ step'["remote"] = "write" /\ at'["remote"] = exe
        /\ step'["cli"] = step["cli"] /\ at'["cli"] = at["cli"]
    BY <1>2, <2>1 DEF CheckInUpdate, TypeInv, TypeOK, Steps
  <2>3. exe \in 0..updates'
    BY <2>1 DEF TypeInv, TypeOK
  <2>4. \A u \in UpdaterKinds : step'[u] # "none" => u \in Updaters /\ at'[u] < updates'
    BY <1>2, <2>1, <2>2 DEF CheckInUpdate, TypeInv, TypeOK
  <2>5. pc' = "updating" /\ proven' \subseteq Versions
    BY <1>2 DEF CheckInUpdate, CheckIn, TypeInv, TypeOK
  <2>6. UNCHANGED <<files, running, confirmed, term, path, starts>>
    BY <1>2 DEF CheckInUpdate, CheckIn
  <2>7. QED BY <2>1, <2>2, <2>3, <2>4, <2>5, <2>6 DEF TypeInv, TypeOK, Places
<1>3. ASSUME NEW v \in Versions, CliUpdate(v) PROVE TypeInv'
  <2>1. updates' = updates + 1 /\ updates' \in 0..MaxUpdates
    BY <1>1, <1>3 DEF CliUpdate, TypeInv, TypeOK
  <2>2. /\ step' \in [UpdaterKinds -> Steps]
        /\ got' \in [UpdaterKinds -> Versions]
        /\ at' \in [UpdaterKinds \cup {"startup"} -> 0..MaxUpdates]
        /\ step'["cli"] = "write" /\ at'["cli"] = 0
        /\ step'["remote"] = step["remote"] /\ at'["remote"] = at["remote"]
    BY <1>3 DEF CliUpdate, TypeInv, TypeOK, Steps
  <2>3. exe \in 0..updates'
    BY <2>1 DEF TypeInv, TypeOK
  <2>4. \A u \in UpdaterKinds : step'[u] # "none" => u \in Updaters /\ at'[u] < updates'
    BY <1>3, <2>1, <2>2 DEF CliUpdate, TypeInv, TypeOK
  <2>5. UNCHANGED <<files, pc, running, confirmed, term, exe, tracked, history>>
    BY <1>3 DEF CliUpdate
  <2>6. QED BY <2>1, <2>2, <2>3, <2>4, <2>5 DEF TypeInv, TypeOK
<1>4. CASE CliKill
  BY <1>4 DEF CliKill, TypeInv, TypeOK, Steps
<1>5. QED BY <1>2, <1>3, <1>4

\* So does every step of an update.
LEMMA ApplyType ==
    ASSUME TypeInv, UNCHANGED world, NEW u \in Updaters, Apply(u)
    PROVE  TypeInv'
<1>1. u \in UpdaterKinds
  BY WorldParts DEF TypeInv
<1>2. at[u] \in 0..MaxUpdates /\ at[u] \in Slots /\ at[u] + 1 \in Slots
  BY <1>1 DEF TypeInv, TypeOK, Slots
\* What a step of u does to its counter, and to the process's.
<1>3. ASSUME NEW next \in Steps \ {"none"}, step[u] # "none", step' = [step EXCEPT ![u] = next],
             UNCHANGED <<got, at, updates, pc>>
      PROVE  /\ step' \in [UpdaterKinds -> Steps]
             /\ (pc' = "updating") <=> (step'["remote"] # "none")
             /\ \A w \in UpdaterKinds : step'[w] # "none" => w \in Updaters /\ at'[w] < updates'
  BY <1>1, <1>3 DEF TypeInv, TypeOK
<1>4. ASSUME NEW here \in Steps \ {"none"}, Return(u, here)
      PROVE  /\ step' \in [UpdaterKinds -> Steps]
             /\ pc' \in Places
             /\ (pc' = "updating") <=> (step'["remote"] # "none")
             /\ \A w \in UpdaterKinds : step'[w] # "none" => w \in Updaters /\ at'[w] < updates'
             /\ UNCHANGED <<got, at, updates>>
  BY <1>1, <1>4 DEF Return, Goto, TypeInv, TypeOK, Steps, Places
<1>5. CASE WriteTmp(u)
  BY <1>1, <1>2, <1>3, <1>5 DEF WriteTmp, Goto, TypeInv, TypeOK, Steps, OnDisk
<1>6. CASE RemovePrevious(u)
  <2>1. bin' \in [Slots -> OnDisk]
    BY <1>2, <1>6 DEF RemovePrevious, TypeInv, TypeOK, OnDisk
  <2>2. tracked' \in BOOLEAN
    <3>1. CASE Gone(at[u] + 1)
      BY <3>1, Zenon DEF Gone
    <3>2. CASE UNCHANGED path
      BY <3>2 DEF path, TypeInv, TypeOK
    <3>3. QED BY <1>6, <3>1, <3>2 DEF RemovePrevious
  <2>3. QED BY <1>3, <1>6, <2>1, <2>2 DEF RemovePrevious, Goto, Gone, path, TypeInv, TypeOK, Steps
<1>7. CASE Backup(u)
  <2>1. at[u] + 1 \in 0..updates
    BY <1>1, <1>7 DEF Backup, Goto, TypeInv, TypeOK
  <2>2. bin' \in [Slots -> OnDisk] /\ exe' \in 0..updates /\ tracked' \in BOOLEAN
    <3>1. CASE bin[at[u]] = Missing
      BY <1>7, <3>1 DEF Backup, TypeInv, TypeOK
    <3>2. CASE bin[at[u]] # Missing
      BY <1>2, <1>7, <2>1, <3>2, RenamedType DEF Backup
    <3>3. QED BY <3>1, <3>2
  <2>3. QED BY <1>3, <1>7, <2>2 DEF Backup, Goto, TypeInv, TypeOK, Steps
<1>8. CASE BackupFails(u)
  BY <1>2, <1>4, <1>8 DEF BackupFails, TypeInv, TypeOK, Steps, OnDisk
<1>9. CASE Swap(u)
  <2>1. bin' \in [Slots -> OnDisk] /\ tmp' \in [Slots -> OnDisk]
    BY <1>2, <1>9 DEF Swap, TypeInv, TypeOK, OnDisk
  <2>2. tracked' \in BOOLEAN
    BY <1>9, Zenon DEF Swap, Gone
  <2>3. proven' \subseteq Versions /\ starts' \in Counts
    BY <1>9 DEF Swap, TypeInv, TypeOK, Counts
  <2>4. QED BY <1>3, <1>9, <2>1, <2>2, <2>3 DEF Swap, Goto, Gone, TypeInv, TypeOK, Steps
<1>10. CASE SwapFails(u)
  BY <1>2, <1>4, <1>10 DEF SwapFails, TypeInv, TypeOK, Steps, OnDisk
<1>11. CASE Mark(u)
  <2>1. marker' \in Pending \cup {Missing, Corrupt}
    BY <1>1, <1>11 DEF Mark, AfterSave, Pending, Counts, TypeInv, TypeOK
  <2>2. QED BY <1>3, <1>11, <2>1 DEF Mark, Goto, TypeInv, TypeOK, Steps
<1>12. CASE Restart(u)
  <2>1. term' \in BOOLEAN
    BY <1>12, Zenon DEF Restart, TypeInv, TypeOK
  <2>2. QED BY <1>4, <1>12, <2>1 DEF Restart, TypeInv, TypeOK, Steps
<1>13. QED BY <1>5, <1>6, <1>7, <1>8, <1>9, <1>10, <1>11, <1>12 DEF Apply

\* Every step keeps the types.
LEMMA NextType == TypeInv /\ [Next]_vars => TypeInv'
<1> SUFFICES ASSUME TypeInv, [Next]_vars PROVE TypeInv'
  OBVIOUS
<1>1. CASE Next
  BY <1>1, ProcessType, StartupType, BeginType, ApplyType, Zenon DEF Next, Act
<1>2. CASE UNCHANGED vars
  BY <1>2 DEF TypeInv, TypeOK
<1>3. QED BY <1>1, <1>2

\* Every variable keeps its type, and the service's process is at
\* "updating" exactly while ApplyDaemonUpdate runs in it.
THEOREM UpdateTypeCorrect == Spec => []TypeOK
<1>1. TypeInv => TypeOK BY DEF TypeInv
<1>2. QED BY <1>1, InitType, NextType, PTL DEF Spec

\* A process that ends otherwise than by being killed was not updating.
LEMMA EndIsStill ==
    ASSUME TypeInv, End
    PROVE  /\ Die /\ pc \in {"boot", "rollback", "cleanup", "init", "loop"}
           /\ step["remote"] = "none" /\ step' = step
<1>1. Die /\ pc \in {"boot", "rollback", "cleanup", "init", "loop"}
  BY DEF End, DieEarly, DieLate, TermKills, TermTaken
<1>2. QED
  BY <1>1 DEF Die, TypeInv, TypeOK

\* With one updater, the one that acts is the only one that has a step.
LEMMA OnlyOneSteps ==
    ASSUME TypeInv, OneUpdater, NEW u \in Updaters, NEW w \in UpdaterKinds, step[w] # "none"
    PROVE  w = u
  BY WorldParts DEF TypeInv, OneUpdater

\* The slots an updater works on.
LEMMA AtSlots ==
    ASSUME TypeInv, NEW u \in UpdaterKinds \cup {"startup"}
    PROVE  at[u] \in Nat /\ at[u] \in Slots /\ at[u] + 1 \in Slots /\ at[u] + 1 # at[u]
  BY DEF TypeInv, TypeOK, Slots
-----------------------------------------------------------------------------
(* The swap.                                                               *)

\* What Swap puts in place is what was downloaded.
TmpReady ==
    OneUpdater =>
        \A u \in UpdaterKinds : step[u] \in {"unback", "backup", "swap"} => tmp[at[u]] = got[u]

\* Only between backup and swap is there no binary.
SwapPuts ==
    OneUpdater /\ Never({"crash", "rename"}) =>
        (binary = Missing => \E u \in UpdaterKinds : step[u] = "swap" /\ at[u] = 0)

SwapInv == TypeInv /\ TmpReady /\ SwapPuts

\* At first the binary is there and nothing is under way.
LEMMA InitSwap == Init => SwapInv
<1>1. Init => binary # Missing
  BY DEF Init, binary, Slots
<1>2. Init => TmpReady /\ SwapPuts
  BY <1>1 DEF Init, TmpReady, SwapPuts
<1>3. QED BY <1>2, InitType DEF SwapInv

\* The downloaded release stays in the temporary file until the swap.
LEMMA NextTmpReady == TypeInv /\ TmpReady /\ Next => TmpReady'
<1> SUFFICES ASSUME TypeInv, TmpReady, Next, OneUpdater',
                    NEW w \in UpdaterKinds, step'[w] \in {"unback", "backup", "swap"}
             PROVE  (tmp[at[w]] = got[w])'
  BY DEF TmpReady
<1> OneUpdater /\ UNCHANGED world
  BY DEF OneUpdater, Next
<1>1. CASE Launch \/ Shutdown \/ CheckInPlain \/ CheckInFails \/ Confirm \/ Startup
  <2>1. UNCHANGED <<tmp, got, step>> /\ at'[w] = at[w]
    BY <1>1 DEF Launch, Shutdown, CheckInPlain, CheckIn, CheckInFails, Confirm, Startup, CheckNothingPending,
       CheckPending, RollbackRename, RollbackClear, EnterLoop, TypeInv, TypeOK
  <2>2. QED BY <2>1 DEF TmpReady
<1>2. CASE End \/ Kill
  <2>1. UNCHANGED <<tmp, got, at>> /\ (step'[w] = step[w] \/ step'[w] = "none")
    BY <1>2, EndIsStill DEF Kill, Die
  <2>2. QED BY <2>1 DEF TmpReady
<1>3. ASSUME NEW v \in Versions, CheckInUpdate(v) \/ CliUpdate(v) PROVE (tmp[at[w]] = got[w])'
  <2>1. PICK u \in UpdaterKinds :
           /\ step' = [step EXCEPT ![u] = "write"] /\ got' = [got EXCEPT ![u] = v]
           /\ (at' = [at EXCEPT ![u] = exe] \/ at' = [at EXCEPT ![u] = 0])
           /\ UNCHANGED tmp
    BY <1>3 DEF CheckInUpdate, CheckIn, CliUpdate
  <2>2. w # u
    BY <2>1 DEF TypeInv, TypeOK
  <2>3. QED BY <2>1, <2>2 DEF TmpReady, TypeInv, TypeOK
<1>4. CASE CliKill
  BY <1>4 DEF CliKill, TmpReady, TypeInv, TypeOK
<1>5. ASSUME NEW u \in Updaters, Apply(u) PROVE (tmp[at[w]] = got[w])'
  <2>1. u \in UpdaterKinds
    BY WorldParts DEF TypeInv
  <2>2. w = u
    <3>1. ASSUME w # u PROVE step[w] # "none"
      BY <1>5, <2>1, <3>1 DEF Apply, WriteTmp, RemovePrevious, Backup, BackupFails, Swap, SwapFails, Mark, Restart,
         Return, Goto, TypeInv, TypeOK
    <3>2. QED BY <3>1, OnlyOneSteps
  <2>3. step'[u] # "none" /\ step'[u] # "mark" /\ step'[u] # "restart"
    BY <2>2
  <2>4. WriteTmp(u) \/ RemovePrevious(u) \/ Backup(u)
    BY <1>5, <2>1, <2>3 DEF Apply, BackupFails, Swap, SwapFails, Mark, Restart, Return, Goto, TypeInv, TypeOK
  <2>5. CASE WriteTmp(u)
    BY <2>1, <2>2, <2>5, AtSlots DEF WriteTmp, Goto, TypeInv, TypeOK
  <2>6. CASE RemovePrevious(u) \/ Backup(u)
    BY <2>1, <2>2, <2>6 DEF RemovePrevious, Backup, Goto, TmpReady, TypeInv, TypeOK
  <2>7. QED BY <2>4, <2>5, <2>6
<1>6. QED BY <1>1, <1>2, <1>3, <1>4, <1>5, Zenon DEF Next, Act
\* The binary is missing only between backup and swap.
LEMMA NextSwapPuts == SwapInv /\ Next => SwapPuts'
<1> SUFFICES ASSUME SwapInv, Next, OneUpdater', Never({"crash", "rename"})', (binary = Missing)'
             PROVE  \E w \in UpdaterKinds : step'[w] = "swap" /\ at'[w] = 0
  BY DEF SwapPuts
<1> OneUpdater /\ Never({"crash", "rename"}) /\ UNCHANGED world /\ TypeInv
  BY DEF OneUpdater, Never, Next, SwapInv
<1> "crash" \notin Faults /\ "rename" \notin Faults
  BY DEF Never
\* If it was missing before, the updater that has to put it back is ...
<1> DEFINE Putting(w) == w \in UpdaterKinds /\ step[w] = "swap" /\ at[w] = 0
<1>0. binary = Missing => \E w : Putting(w)
  BY DEF SwapInv, SwapPuts
<1>1. CASE Launch \/ Shutdown \/ CheckInPlain \/ CheckInFails \/ Confirm \/ CheckNothingPending
           \/ CheckPending \/ RollbackClear \/ EnterLoop
  <2>1. UNCHANGED <<bin, step>> /\ \A w \in UpdaterKinds : at'[w] = at[w]
    BY <1>1 DEF Launch, Shutdown, CheckInPlain, CheckIn, CheckInFails, Confirm, CheckNothingPending,
       CheckPending, RollbackClear, EnterLoop, TypeInv, TypeOK
  <2>2. QED BY <1>0, <2>1 DEF binary
<1>2. CASE End
  BY <1>0, <1>2, EndIsStill DEF Die, binary
<1>3. CASE RollbackRename
  <2> DEFINE s == at["startup"]
  <2>1. s \in Nat /\ s \in Slots /\ s + 1 \in Slots /\ s + 1 # s /\ 0 \in Slots
    BY AtSlots DEF Slots
  <2>2. UNCHANGED <<step, at>>
    BY <1>3 DEF RollbackRename
  <2>3. binary = Missing
    <3>1. CASE bin[s + 1] # Missing /\ Renamed(s + 1, s)
      BY <2>1, <3>1 DEF Renamed, TypeInv, TypeOK, binary
    <3>2. CASE UNCHANGED bin
      BY <3>2 DEF binary
    <3>3. QED BY <1>3, <3>1, <3>2 DEF RollbackRename
  <2>4. QED BY <1>0, <2>2, <2>3
<1>4. ASSUME NEW v \in Versions, CheckInUpdate(v) \/ CliUpdate(v)
      PROVE  \E w \in UpdaterKinds : step'[w] = "swap" /\ at'[w] = 0
  <2>1. PICK u \in Updaters :
           /\ step[u] = "none" /\ step' = [step EXCEPT ![u] = "write"]
           /\ (at' = [at EXCEPT ![u] = exe] \/ at' = [at EXCEPT ![u] = 0])
           /\ UNCHANGED bin
    BY <1>4 DEF CheckInUpdate, CheckIn, CliUpdate, TypeInv, TypeOK
  <2>2. binary = Missing
    BY <2>1 DEF binary
  <2>3. PICK w : Putting(w)
    BY <1>0, <2>2
  <2>4. QED BY <2>1, <2>3, OnlyOneSteps
<1>5. ASSUME NEW u \in Updaters, Apply(u)
      PROVE  \E w \in UpdaterKinds : step'[w] = "swap" /\ at'[w] = 0
  <2>1. u \in UpdaterKinds /\ at[u] \in Nat /\ at[u] \in Slots /\ at[u] + 1 \in Slots /\ 0 \in Slots
    BY AtSlots, WorldParts DEF TypeInv, Slots
  <2>2. ASSUME binary = Missing PROVE step[u] = "swap" /\ at[u] = 0
    BY <1>0, <2>2, OnlyOneSteps
  <2>3. CASE WriteTmp(u) \/ Mark(u) \/ Restart(u) \/ BackupFails(u) \/ SwapFails(u)
    <3>1. binary = Missing
      BY <2>3 DEF WriteTmp, Mark, Restart, BackupFails, SwapFails, binary
    <3>2. SwapFails(u)
      BY <2>2, <2>3, <3>1 DEF WriteTmp, Mark, Restart, BackupFails, Return, Goto
    <3>3. tmp[at[u]] = Missing
      BY <3>2 DEF SwapFails
    <3>4. tmp[at[u]] \in Versions
      BY <2>1, <2>2, <3>1 DEF SwapInv, TmpReady, TypeInv, TypeOK
    <3>5. QED BY <3>3, <3>4
  <2>4. CASE RemovePrevious(u)
    <3>1. binary = Missing
      BY <2>1, <2>4 DEF RemovePrevious, TypeInv, TypeOK, binary
    <3>2. QED BY <2>2, <2>4, <3>1 DEF RemovePrevious, Goto
  <2>5. CASE Backup(u)
    <3>1. step[u] = "backup" /\ step'[u] = "swap" /\ UNCHANGED at
      BY <2>1, <2>5 DEF Backup, Goto, TypeInv, TypeOK
    <3>2. at[u] = 0
      BY <2>1, <2>2, <2>5, <3>1 DEF Backup, Renamed, TypeInv, TypeOK, binary
    <3>3. QED BY <2>1, <3>1, <3>2
  <2>6. CASE Swap(u)
    <3>1. binary = Missing /\ at[u] # 0
      BY <2>1, <2>2, <2>6 DEF Swap, TypeInv, TypeOK, binary
    <3>2. QED BY <2>2, <3>1
  <2>7. QED BY <1>5, <2>3, <2>4, <2>5, <2>6 DEF Apply
<1>6. CASE CliKill \/ Kill
  BY <1>6 DEF CliKill, Kill
<1>7. QED BY <1>1, <1>2, <1>3, <1>4, <1>5, <1>6, Zenon DEF Next, Act, Startup

\* Every step keeps SwapInv.
LEMMA NextSwap == SwapInv /\ [Next]_vars => SwapInv'
<1>1. SwapInv /\ Next => SwapInv'
  BY NextType, NextTmpReady, NextSwapPuts DEF SwapInv
<1>2. SwapInv /\ UNCHANGED vars => SwapInv'
  <2> SUFFICES ASSUME SwapInv, UNCHANGED vars PROVE SwapInv'
    OBVIOUS
  <2>1. TypeInv' BY NextType DEF SwapInv
  <2>2. TmpReady' /\ SwapPuts'
    BY DEF SwapInv, TmpReady, SwapPuts, OneUpdater, Never, binary
  <2>3. QED BY <2>1, <2>2 DEF SwapInv
<1>3. QED BY <1>1, <1>2

\* With one updater that is neither killed nor refused a rename, there is a
\* binary to start whenever no update is being applied.
THEOREM BinaryIsNeverStranded == Spec => []NeverStranded
<1>1. SwapInv => NeverStranded
  BY DEF SwapInv, SwapPuts, NeverStranded, NoUpdateUnderway
<1>2. QED BY <1>1, InitSwap, NextSwap, PTL DEF Spec
-----------------------------------------------------------------------------
(* The startup check of a service that updates alone.                      *)

\* It acts on the binary the process was started from, and a rollback moves
\* the backup away.
CheckedBinary ==
    OnlyRemote =>
        /\ pc \in {"boot", "rollback", "cleanup"} => exe = 0
        /\ pc = "boot" => binary # Missing
        /\ pc = "rollback" => at["startup"] = 0 /\ marker \in Pending
        /\ pc = "cleanup" => previous = Missing

StartupInv == TypeInv /\ CheckedBinary

\* At first nothing runs.
LEMMA InitStartup == Init => StartupInv
  BY InitType DEF Init, StartupInv, CheckedBinary

\* An update moves the service's slot, and the binary, only while it is made.
LEMMA NextCheckedBinary == StartupInv /\ Next => CheckedBinary'
<1> SUFFICES ASSUME StartupInv, Next, OnlyRemote' PROVE
        (/\ pc \in {"boot", "rollback", "cleanup"} => exe = 0
         /\ pc = "boot" => binary # Missing
         /\ pc = "rollback" => at["startup"] = 0 /\ marker \in Pending
         /\ pc = "cleanup" => previous = Missing)'
  BY DEF CheckedBinary
<1> OnlyRemote /\ UNCHANGED world /\ TypeInv
  BY DEF OnlyRemote, Next, StartupInv
<1> USE DEF StartupInv, CheckedBinary
<1>1. CASE Launch
  BY <1>1 DEF Launch, TypeInv, TypeOK, binary
<1>2. CASE Shutdown
  BY <1>2 DEF Shutdown, binary, previous
<1>3. CASE End \/ Kill
  BY <1>3, EndIsStill DEF Kill, Die
<1>4. CASE CheckInPlain \/ CheckInFails \/ Confirm \/ EnterLoop \/ CheckNothingPending
  BY <1>4 DEF CheckInPlain, CheckInFails, CheckIn, Confirm, EnterLoop, CheckNothingPending, binary, previous
<1>5. CASE CheckPending
  <2>1. pc = "boot" /\ pc' \in {"rollback", "init"} /\ UNCHANGED <<bin, exe>> /\ at'["startup"] = exe
    BY <1>5 DEF CheckPending, TypeInv, TypeOK
  <2>2. [marker EXCEPT !.attempts = Increment(@)] \in Pending
    BY <1>5, IncrementBounds DEF CheckPending, Pending
  <2>3. pc' = "rollback" => marker' \in Pending
    BY <1>5, <2>2 DEF CheckPending
  <2>4. QED BY <2>1, <2>3
<1>6. CASE RollbackRename
  <2>1. pc = "rollback" /\ pc' \in {"cleanup", "init"} /\ at["startup"] = 0
    BY <1>6 DEF RollbackRename
  <2>2. ASSUME pc' = "cleanup" PROVE exe' = 0 /\ previous' = Missing
    <3>1. Renamed(1, 0)
      BY <1>6, <2>1, <2>2 DEF RollbackRename
    <3>2. QED BY <2>1, <3>1 DEF Renamed, TypeInv, TypeOK, Slots, previous
  <2>3. QED BY <2>1, <2>2
<1>7. CASE RollbackClear
  BY <1>7 DEF RollbackClear
<1>8. ASSUME NEW v \in Versions, CheckInUpdate(v) PROVE pc' = "updating"
  BY <1>8 DEF CheckInUpdate, CheckIn
<1>9. ASSUME NEW u \in Updaters, Apply(u) PROVE pc' \in {"updating", "confirm"}
  <2>1. u = "remote" /\ pc = "updating"
    BY <1>9 DEF OnlyRemote, Apply, WriteTmp, RemovePrevious, Backup, BackupFails, Swap, SwapFails, Mark, Restart,
       Return, Goto, TypeInv, TypeOK
  <2>2. QED BY <1>9, <2>1 DEF Apply, WriteTmp, RemovePrevious, Backup, BackupFails, Swap, SwapFails, Mark, Restart,
       Return
<1>10. ASSUME NEW v \in Versions, CliUpdate(v) PROVE FALSE
  BY <1>10 DEF CliUpdate, OnlyRemote
<1>11. CliKill => FALSE
  BY DEF CliKill, OnlyRemote
<1>12. QED BY <1>1, <1>2, <1>3, <1>4, <1>5, <1>6, <1>7, <1>8, <1>9, <1>10, <1>11 DEF Next, Act, Startup

\* Every step keeps StartupInv.
LEMMA NextStartup == StartupInv /\ [Next]_vars => StartupInv'
<1>1. StartupInv /\ Next => StartupInv'
  BY NextType, NextCheckedBinary DEF StartupInv
<1>2. StartupInv /\ UNCHANGED vars => StartupInv'
  BY NextType DEF StartupInv, CheckedBinary, OnlyRemote, binary, previous
<1>3. QED BY <1>1, <1>2
-----------------------------------------------------------------------------
(* Copies of the program.                                                  *)

\* receptor update starts from a binary and removes nothing else than what
\* is beside it.
CliKeepsBinary ==
    "remote" \notin Updaters => (step["cli"] \in {"write", "unback"} => binary # Missing)

\* The service's program is where it thinks it is, except between backup and
\* swap, when it is beside that.
ServiceKeepsItself ==
    OnlyRemote /\ Never({"rename"}) =>
        /\ pc # "down" /\ step["remote"] # "swap" => bin[exe] # Missing
        /\ step["remote"] \in {"write", "unback", "backup"} => exe = at["remote"]
        /\ step["remote"] = "swap" =>
              /\ bin[at["remote"] + 1] # Missing
              /\ exe \in {at["remote"], at["remote"] + 1}

CopyInv == SwapInv /\ StartupInv /\ CliKeepsBinary /\ ServiceKeepsItself /\ SomeCopyRemains

\* At first slot 0 holds the program, and nothing runs.
LEMMA InitCopy == Init => CopyInv
<1> SUFFICES ASSUME Init PROVE CopyInv
  OBVIOUS
<1>1. bin[0] = Original /\ 0 \in Slots
  BY DEF Init, Slots
<1>2. SomeCopyRemains
  BY <1>1 DEF SomeCopyRemains
<1>3. CliKeepsBinary /\ ServiceKeepsItself
  BY DEF Init, CliKeepsBinary, ServiceKeepsItself
<1>4. QED BY <1>2, <1>3, InitSwap, InitStartup DEF CopyInv

\* A rename of a file that is there leaves it there under its new name.
LEMMA RenameKeepsCopy ==
    ASSUME TypeInv, NEW from \in Slots, NEW to \in Slots, from # to,
           bin[from] # Missing, Renamed(from, to)
    PROVE  /\ bin'[to] # Missing /\ bin'[from] = Missing
           /\ \A s \in Slots \ {from, to} : bin'[s] = bin[s]
  BY DEF Renamed, TypeInv, TypeOK

\* receptor update removes nothing before it has a binary beside it.
LEMMA NextCliKeepsBinary == CopyInv /\ Next => CliKeepsBinary'
<1> SUFFICES ASSUME CopyInv, Next, "remote" \notin Updaters', step'["cli"] \in {"write", "unback"}
             PROVE  (binary # Missing)'
  BY DEF CliKeepsBinary
<1> UNCHANGED world /\ TypeInv /\ "remote" \notin Updaters
  BY DEF Next, CopyInv, SwapInv
<1> USE DEF binary
<1>1. step["cli"] \in {"write", "unback"} => binary # Missing
  BY DEF CopyInv, CliKeepsBinary
<1>2. CASE Launch \/ Shutdown \/ CheckInPlain \/ CheckInFails \/ Confirm \/ CheckNothingPending
           \/ CheckPending \/ RollbackClear \/ EnterLoop
  BY <1>1, <1>2 DEF Launch, Shutdown, CheckInPlain, CheckIn, CheckInFails, Confirm, CheckNothingPending,
       CheckPending, RollbackClear, EnterLoop
<1>3. CASE End \/ Kill
  BY <1>1, <1>3, EndIsStill DEF Kill, Die, TypeInv, TypeOK
<1>4. CASE RollbackRename
  <2> DEFINE s == at["startup"]
  <2>1. s \in Nat /\ s \in Slots /\ s + 1 \in Slots /\ s + 1 # s /\ 0 \in Slots
    BY AtSlots DEF Slots
  <2>2. bin[0] # Missing
    BY <1>1, <1>4 DEF RollbackRename
  <2>3. CASE bin[s + 1] # Missing /\ Renamed(s + 1, s)
    BY <2>1, <2>2, <2>3, RenameKeepsCopy
  <2>4. CASE UNCHANGED bin
    BY <2>2, <2>4
  <2>5. QED BY <1>4, <2>3, <2>4 DEF RollbackRename
<1>5. ASSUME NEW v \in Versions, CheckInUpdate(v) PROVE FALSE
  BY <1>5 DEF CheckInUpdate
<1>6. ASSUME NEW v \in Versions, CliUpdate(v) PROVE (binary # Missing)'
  BY <1>6 DEF CliUpdate
<1>7. CASE CliKill
  BY <1>7 DEF CliKill, TypeInv, TypeOK
<1>8. ASSUME NEW u \in Updaters, Apply(u) PROVE (binary # Missing)'
  <2>1. u = "cli" /\ at[u] \in Nat
    BY AtSlots, WorldParts DEF TypeInv
  <2>2. WriteTmp(u)
    BY <1>8, <2>1 DEF Apply, RemovePrevious, Backup, BackupFails, Swap, SwapFails, Mark, Restart, Return, Goto,
       TypeInv, TypeOK
  <2>3. QED BY <1>1, <2>1, <2>2 DEF WriteTmp, Goto
<1>9. QED BY <1>2, <1>3, <1>4, <1>5, <1>6, <1>7, <1>8, Zenon DEF Next, Act, Startup

\* What the service needs of a swap: the download is there, so that without a
\* refused rename the swap cannot fail.
LEMMA SwapWorks ==
    ASSUME SwapInv, OneUpdater, Never({"rename"}), NEW u \in Updaters
    PROVE  ~SwapFails(u) /\ ~BackupFails(u)
<1>1. u \in UpdaterKinds /\ TypeInv /\ "rename" \notin Faults
  BY WorldParts DEF SwapInv, TypeInv, Never
<1>2. step[u] = "swap" => tmp[at[u]] \in Versions
  BY <1>1 DEF SwapInv, TmpReady, TypeInv, TypeOK
<1>3. QED BY <1>1, <1>2 DEF SwapFails, BackupFails, Return, Goto

\* The service follows its program from slot to slot, or finds the new one
\* where it was.
LEMMA NextServiceKeepsItself == CopyInv /\ Next => ServiceKeepsItself'
<1> DEFINE Keeps == /\ pc # "down" /\ step["remote"] # "swap" => bin[exe] # Missing
                    /\ step["remote"] \in {"write", "unback", "backup"} => exe = at["remote"]
                    /\ step["remote"] = "swap" => /\ bin[at["remote"] + 1] # Missing
                                                  /\ exe \in {at["remote"], at["remote"] + 1}
<1> SUFFICES ASSUME CopyInv, Next, OnlyRemote', Never({"rename"})' PROVE Keeps'
  BY DEF ServiceKeepsItself
<1> UNCHANGED world /\ TypeInv /\ OnlyRemote /\ Never({"rename"}) /\ "rename" \notin Faults
  BY DEF Next, CopyInv, SwapInv, OnlyRemote, Never
<1> OneUpdater
  BY DEF OnlyRemote, OneUpdater
<1>0. Keeps
  BY DEF CopyInv, ServiceKeepsItself
<1>1. CASE Launch
  <2>1. bin'[exe'] # Missing
    BY <1>1 DEF Launch, TypeInv, TypeOK, binary
  <2>2. step'["remote"] = "none"
    BY <1>1 DEF Launch, TypeInv, TypeOK
  <2>3. QED BY <2>1, <2>2
<1>2. CASE Shutdown \/ CheckInPlain \/ CheckInFails \/ Confirm \/ CheckNothingPending \/ CheckPending \/ EnterLoop
  <2>1. pc # "down" /\ UNCHANGED <<bin, step, exe>> /\ at'["remote"] = at["remote"]
    BY <1>2 DEF Shutdown, CheckInPlain, CheckIn, CheckInFails, Confirm, CheckNothingPending,
       CheckPending, EnterLoop, TypeInv, TypeOK
  <2>2. QED BY <1>0, <2>1
<1>3. CASE End \/ Kill
  <2>1. pc' = "down" /\ step'["remote"] = "none"
    BY <1>3, EndIsStill DEF Kill, Die
  <2>2. QED BY <2>1
<1>4. CASE RollbackRename
  <2>1. at["startup"] = 0 /\ exe = 0 /\ pc = "rollback" /\ step["remote"] = "none" /\ step' = step
    BY <1>4 DEF RollbackRename, CopyInv, StartupInv, CheckedBinary, TypeInv, TypeOK
  <2>2. 0 \in Slots /\ 1 \in Slots
    BY DEF Slots
  <2>3. bin'[exe'] # Missing
    <3>1. CASE bin[1] # Missing /\ Renamed(1, 0)
      <4>1. exe' = 0
        BY <2>1, <3>1 DEF Renamed
      <4>2. bin'[0] # Missing
        BY <2>2, <3>1, RenameKeepsCopy
      <4>3. QED BY <4>1, <4>2
    <3>2. CASE UNCHANGED <<bin, path>>
      BY <1>0, <2>1, <3>2
    <3>3. QED BY <1>4, <2>1, <3>1, <3>2 DEF RollbackRename
  <2>4. QED BY <2>1, <2>3
<1>5. CASE RollbackClear
  <2>1. step["remote"] = "none" /\ step' = step /\ UNCHANGED bin
    BY <1>5 DEF RollbackClear, TypeInv, TypeOK
  <2>2. pc' = "down" \/ UNCHANGED exe
    BY <1>5 DEF RollbackClear
  <2>3. pc # "down"
    BY <1>5 DEF RollbackClear
  <2>4. QED BY <1>0, <2>1, <2>2, <2>3
<1>6. ASSUME NEW v \in Versions, CheckInUpdate(v) PROVE Keeps'
  BY <1>0, <1>6 DEF CheckInUpdate, CheckIn, TypeInv, TypeOK
<1>7. ASSUME NEW v \in Versions, CliUpdate(v) \/ CliKill PROVE FALSE
  BY <1>7 DEF CliUpdate, CliKill, OnlyRemote
<1>8. ASSUME NEW u \in Updaters, Apply(u) PROVE Keeps'
  <2> DEFINE s == at["remote"]
  <2>1. u = "remote"
    BY DEF OnlyRemote
  <2>2. s \in Nat /\ s \in Slots /\ s + 1 \in Slots /\ s + 1 # s /\ exe \in Slots
    BY AtSlots DEF TypeInv, TypeOK, Slots
  <2>3. CASE WriteTmp(u) \/ Mark(u) \/ Restart(u)
    <3>1. UNCHANGED <<bin, exe, at>> /\ step["remote"] # "none" /\ step["remote"] # "swap"
      BY <2>1, <2>3 DEF WriteTmp, Mark, Restart, Return, Goto
    <3>2. (step'["remote"] = "unback" /\ step["remote"] = "write") \/ step'["remote"] \in {"restart", "none"}
      BY <2>1, <2>3 DEF WriteTmp, Mark, Restart, Return, Goto, TypeInv, TypeOK
    <3>3. pc # "down"
      BY <3>1 DEF TypeInv, TypeOK
    <3>4. QED BY <1>0, <3>1, <3>2, <3>3
  <2>4. CASE RemovePrevious(u)
    <3>1. step["remote"] = "unback" /\ step'["remote"] = "backup" /\ UNCHANGED <<exe, at>> /\ exe = s /\ pc # "down"
      BY <1>0, <2>1, <2>4 DEF RemovePrevious, Goto, Gone, TypeInv, TypeOK
    <3>2. bin'[s] = bin[s]
      BY <2>1, <2>2, <2>4 DEF RemovePrevious, TypeInv, TypeOK
    <3>3. QED BY <1>0, <3>1, <3>2
  <2>5. CASE Backup(u)
    <3>1. step["remote"] = "backup" /\ step'["remote"] = "swap" /\ UNCHANGED at /\ exe = s /\ pc # "down"
      BY <1>0, <2>1, <2>5 DEF Backup, Goto, TypeInv, TypeOK
    <3>2. bin[s] # Missing /\ Renamed(s, s + 1)
      BY <1>0, <2>1, <2>5, <3>1 DEF Backup
    <3>3. bin'[s + 1] # Missing
      BY <2>2, <3>2, RenameKeepsCopy
    <3>4. exe' \in {s, s + 1}
      BY <3>1, <3>2 DEF Renamed
    <3>5. QED BY <3>1, <3>3, <3>4
  <2>6. CASE Swap(u)
    <3>1. step["remote"] = "swap" /\ step'["remote"] = "mark" /\ UNCHANGED <<at, exe>>
      BY <2>1, <2>6 DEF Swap, Goto, Gone, TypeInv, TypeOK
    <3>2. bin'[s] # Missing /\ bin'[s + 1] = bin[s + 1]
      BY <2>1, <2>2, <2>6 DEF Swap, TypeInv, TypeOK
    <3>3. QED BY <1>0, <3>1, <3>2
  <2>7. QED BY <1>8, <2>3, <2>4, <2>5, <2>6, SwapWorks DEF Apply, CopyInv
<1>9. QED BY <1>1, <1>2, <1>3, <1>4, <1>5, <1>6, <1>7, <1>8, Zenon DEF Next, Act, Startup

\* Only removing the backup of an earlier update loses a copy, and then the
\* program in use is beside it.
LEMMA NextSomeCopyRemains == CopyInv /\ Next => SomeCopyRemains'
<1> SUFFICES ASSUME CopyInv, Next, OneUpdater', (Never({"rename"}) \/ ~OnlyRemote)'
             PROVE  \E s \in Slots : bin'[s] # Missing
  BY DEF SomeCopyRemains
<1> UNCHANGED world /\ TypeInv /\ OneUpdater /\ (Never({"rename"}) \/ ~OnlyRemote)
  BY DEF Next, CopyInv, SwapInv, OneUpdater, OnlyRemote, Never
<1>0. PICK c \in Slots : bin[c] # Missing
  BY DEF CopyInv, SomeCopyRemains
<1>1. ASSUME NEW u \in Updaters, RemovePrevious(u) PROVE \E s \in Slots : bin'[s] # Missing
  <2>1. u \in UpdaterKinds
    BY WorldParts DEF TypeInv
  <2>2. at[u] \in Nat /\ at[u] \in Slots /\ at[u] + 1 \in Slots /\ at[u] + 1 # at[u] /\ 0 \in Slots /\ at[u] + 1 # 0
    BY <2>1, AtSlots DEF Slots
  <2>3. step[u] = "unback"
    BY <1>1 DEF RemovePrevious, Goto
  <2>4. \A s \in Slots : s # at[u] + 1 => bin'[s] = bin[s]
    BY <1>1, <2>2 DEF RemovePrevious, TypeInv, TypeOK
  <2>5. CASE u = "cli"
    <3>1. "remote" \notin Updaters
      BY <2>5, WorldParts DEF TypeInv, OneUpdater
    <3>2. bin[0] # Missing
      BY <2>3, <2>5, <3>1 DEF CopyInv, CliKeepsBinary, binary
    <3>3. QED BY <2>2, <2>4, <3>2
  <2>6. CASE u = "remote"
    <3>1. OnlyRemote /\ Never({"rename"})
      BY <2>6, WorldParts DEF TypeInv, OnlyRemote, OneUpdater
    <3>2. pc # "down" /\ bin[at[u]] # Missing
      BY <2>3, <2>6, <3>1 DEF CopyInv, ServiceKeepsItself, TypeInv, TypeOK
    <3>3. QED BY <2>2, <2>4, <3>2
  <2>7. QED BY <2>1, <2>5, <2>6
<1>2. ASSUME NEW from \in Slots, NEW to \in Slots, from # to, bin[from] # Missing, Renamed(from, to)
      PROVE  \E s \in Slots : bin'[s] # Missing
  BY <1>2, RenameKeepsCopy
<1>3. ASSUME NEW u \in Updaters, Backup(u) PROVE \E s \in Slots : bin'[s] # Missing
  <2>1. at[u] \in Slots /\ at[u] + 1 \in Slots /\ at[u] + 1 # at[u]
    BY AtSlots, WorldParts DEF TypeInv
  <2>2. QED BY <1>0, <1>2, <1>3, <2>1 DEF Backup
<1>4. ASSUME NEW u \in Updaters, Swap(u) PROVE \E s \in Slots : bin'[s] # Missing
  <2>1. at[u] \in Slots
    BY AtSlots, WorldParts DEF TypeInv
  <2>2. QED BY <1>4, <2>1 DEF Swap, TypeInv, TypeOK
<1>5. CASE RollbackRename
  <2>1. at["startup"] \in Slots /\ at["startup"] + 1 \in Slots /\ at["startup"] + 1 # at["startup"]
    BY AtSlots
  <2>2. QED BY <1>0, <1>2, <1>5, <2>1 DEF RollbackRename
<1>6. CASE UNCHANGED bin
  BY <1>0, <1>6
<1>7. End \/ Kill => UNCHANGED bin
  BY EndIsStill DEF Kill, Die
<1>8. ASSUME NEW v \in Versions, CheckInUpdate(v) \/ CliUpdate(v) PROVE UNCHANGED bin
  BY <1>8 DEF CheckInUpdate, CheckIn, CliUpdate
<1>9. ASSUME NEW u \in Updaters, Apply(u)
      PROVE  RemovePrevious(u) \/ Backup(u) \/ Swap(u) \/ UNCHANGED bin
  BY <1>9 DEF Apply, WriteTmp, BackupFails, SwapFails, Mark, Restart
<1>10. Launch \/ Shutdown \/ CheckInPlain \/ CheckInFails \/ Confirm \/ CheckNothingPending
           \/ CheckPending \/ RollbackClear \/ EnterLoop \/ CliKill => UNCHANGED bin
  BY DEF Launch, Shutdown, CheckInPlain, CheckIn, CheckInFails, Confirm, CheckNothingPending,
       CheckPending, RollbackClear, EnterLoop, CliKill
<1>11. QED
  BY <1>1, <1>3, <1>4, <1>5, <1>6, <1>7, <1>8, <1>9, <1>10, Zenon DEF Next, Act, Startup

\* Every step keeps CopyInv.
LEMMA NextCopy == CopyInv /\ [Next]_vars => CopyInv'
<1>1. CopyInv /\ Next => CopyInv'
  BY NextSwap, NextStartup, NextCliKeepsBinary, NextServiceKeepsItself, NextSomeCopyRemains DEF CopyInv
<1>2. CopyInv /\ UNCHANGED vars => CopyInv'
  <2> SUFFICES ASSUME CopyInv, UNCHANGED vars PROVE CopyInv'
    OBVIOUS
  <2>1. SwapInv' /\ StartupInv'
    BY NextSwap, NextStartup DEF CopyInv
  <2>2. CliKeepsBinary' /\ ServiceKeepsItself' /\ SomeCopyRemains'
    BY DEF CopyInv, CliKeepsBinary, ServiceKeepsItself, SomeCopyRemains, OneUpdater, OnlyRemote, Never, binary
  <2>3. QED BY <2>1, <2>2 DEF CopyInv
<1>3. QED BY <1>1, <1>2

\* One updater never destroys the only copy of the program, whatever is
\* killed or fails; only the service needs its renames for that.
THEOREM ProgramIsNeverLost == Spec => []SomeCopyRemains
<1>1. CopyInv => SomeCopyRemains
  BY DEF CopyInv
<1>2. QED BY <1>1, InitCopy, NextCopy, PTL DEF Spec
-----------------------------------------------------------------------------
(* The budget of startups.                                                 *)

Counted == IF pc = "boot" THEN Increment(marker.attempts) ELSE marker.attempts

\* The marker never counts more startups than there were, unless there is
\* nothing to start or nothing to go back to; an update that changes this
\* writes a new marker before it lets the process go on.
CountIsHonest ==
    OnlyRemote /\ Never({"crash", "save"}) =>
        /\ pc = "rollback" => starts > MaxUpdateAttempts
        /\ marker \in Pending /\ pc # "cleanup" /\ step["remote"] # "mark" =>
              Counted <= starts \/ binary = Missing \/ previous = Missing

BudgetInv == StartupInv /\ CountIsHonest

\* At first there is no marker.
LEMMA InitBudget == Init => BudgetInv
<1>1. Init => marker \notin Pending /\ pc # "rollback"
  BY DEF Init, Pending, Counts
<1>2. QED BY <1>1, InitStartup DEF BudgetInv, CountIsHonest

\* Every step counts honestly.
LEMMA NextCountIsHonest == BudgetInv /\ Next => CountIsHonest'
<1> DEFINE Dormant == binary = Missing \/ previous = Missing
           Honest  == /\ pc = "rollback" => starts > MaxUpdateAttempts
                      /\ marker \in Pending /\ pc # "cleanup" /\ step["remote"] # "mark" =>
                            Counted <= starts \/ Dormant
<1> SUFFICES ASSUME BudgetInv, Next, OnlyRemote', Never({"crash", "save"})' PROVE Honest'
  BY DEF CountIsHonest
<1> UNCHANGED world /\ TypeInv /\ OnlyRemote /\ Never({"crash", "save"})
  BY DEF Next, BudgetInv, StartupInv, OnlyRemote, Never
<1> "crash" \notin Faults /\ "save" \notin Faults
  BY DEF Never
<1>0. Honest
  BY DEF BudgetInv, CountIsHonest
<1>1. starts \in Counts /\ (marker \in Pending => marker.attempts \in Counts)
  BY DEF TypeInv, TypeOK, Pending
<1>2. \A n \in Counts : n \in Nat /\ Increment(n) \in Nat /\ n <= Increment(n)
  BY IncrementBounds DEF Counts
<1>3. CASE Launch
  <2>1. /\ pc = "down" /\ pc' = "boot" /\ UNCHANGED <<marker, bin, step>> /\ starts' = Increment(starts)
        /\ step["remote"] = "none"
    BY <1>3 DEF Launch, TypeInv, TypeOK
  <2>2. marker \in Pending /\ marker.attempts <= starts => Increment(marker.attempts) <= Increment(starts)
    BY <1>1, IncrementBounds
  <2>3. QED BY <1>0, <2>1, <2>2 DEF Counted, binary, previous
<1>4. CASE Shutdown \/ CheckInFails
  BY <1>0, <1>4 DEF Shutdown, CheckInFails, Counted, binary, previous
<1>5. CASE CheckInPlain \/ Confirm \/ EnterLoop
  <2>1. /\ pc \notin {"boot", "cleanup"} /\ pc' \notin {"boot", "rollback"}
        /\ UNCHANGED <<bin, starts, step>> /\ (marker' = marker \/ marker' = Missing)
    BY <1>5 DEF CheckInPlain, CheckIn, Confirm, AfterClear, EnterLoop
  <2>2. Missing \notin Pending
    BY DEF Pending, Counts
  <2>3. QED BY <1>0, <2>1, <2>2 DEF Counted, binary, previous
<1>6. CASE CheckNothingPending
  BY <1>6 DEF CheckNothingPending
<1>7. CASE CheckPending
  <2> DEFINE counted == [marker EXCEPT !.attempts = Increment(@)]
  <2>1. marker \in Pending /\ marker' = counted /\ pc = "boot" /\ UNCHANGED <<bin, starts, step>>
    BY <1>7 DEF CheckPending, AfterSave
  <2>2. counted.attempts = Increment(marker.attempts) /\ step["remote"] = "none"
    BY <2>1 DEF Pending, TypeInv, TypeOK
  <2>3. Counted <= starts \/ Dormant
    BY <1>0, <2>1, <2>2
  <2>4. ASSUME pc' = "rollback" PROVE starts' > MaxUpdateAttempts
    <3>1. counted.attempts > MaxUpdateAttempts /\ bin[exe + 1] # Missing
      BY <1>7, <2>1, <2>4 DEF CheckPending
    <3>2. exe = 0 /\ binary # Missing
      BY <2>1 DEF BudgetInv, StartupInv, CheckedBinary
    <3>3. Counted <= starts
      BY <2>3, <3>1, <3>2 DEF previous
    <3>4. QED BY <1>1, <1>2, <2>1, <2>2, <3>1, <3>3 DEF Counted, Counts
  <2>5. pc' \in {"rollback", "init"}
    BY <1>7 DEF CheckPending
  <2>6. QED BY <2>1, <2>2, <2>3, <2>4, <2>5 DEF Counted, binary, previous
<1>8. CASE RollbackRename
  <2>1. pc' = "cleanup" \/ (pc' = "init" /\ UNCHANGED <<bin, starts>>)
    BY <1>8 DEF RollbackRename
  <2>2. pc = "rollback" /\ UNCHANGED <<marker, step>>
    BY <1>8 DEF RollbackRename
  <2>3. QED BY <1>0, <2>1, <2>2 DEF Counted, binary, previous
<1>9. CASE RollbackClear
  <2>1. previous = Missing /\ UNCHANGED bin /\ pc' # "rollback"
    BY <1>9 DEF RollbackClear, BudgetInv, StartupInv, CheckedBinary
  <2>2. QED BY <2>1 DEF previous
<1>10. CASE End
  <2>1. pc' = "down" /\ UNCHANGED <<marker, bin, starts, step>> /\ step["remote"] = "none"
    BY <1>10, EndIsStill DEF Die
  <2>2. marker \in Pending /\ Counted <= starts => marker.attempts <= starts
    BY <1>1, <1>2 DEF Counted, Counts
  <2>3. pc # "cleanup" \/ previous = Missing
    BY DEF BudgetInv, StartupInv, CheckedBinary
  <2>4. QED BY <1>0, <2>1, <2>2, <2>3 DEF Counted, binary, previous
<1>11. ASSUME NEW v \in Versions, CheckInUpdate(v) PROVE Honest'
  <2>1. /\ pc = "loop" /\ pc' = "updating" /\ UNCHANGED <<marker, bin, starts>>
        /\ step["remote"] = "none"
    BY <1>11 DEF CheckInUpdate, CheckIn, TypeInv, TypeOK
  <2>2. QED BY <1>0, <2>1 DEF Counted, binary, previous
<1>12. ASSUME NEW v \in Versions, CliUpdate(v) \/ CliKill \/ Kill PROVE FALSE
  BY <1>12 DEF CliUpdate, CliKill, Kill, OnlyRemote
<1>13. ASSUME NEW u \in Updaters, Apply(u) PROVE Honest'
  <2> DEFINE s == at["remote"]
  <2>1. u = "remote"
    BY DEF OnlyRemote
  <2>2. s \in Nat /\ s \in Slots /\ s + 1 \in Slots /\ s + 1 # 0
    BY AtSlots DEF Slots
  <2>3. pc = "updating" /\ pc' \in {"updating", "confirm"}
    BY <1>13, <2>1 DEF Apply, WriteTmp, RemovePrevious, Backup, BackupFails, Swap, SwapFails, Mark, Restart,
       Return, Goto, TypeInv, TypeOK
  <2>4. CASE WriteTmp(u) \/ BackupFails(u) \/ SwapFails(u) \/ Restart(u)
    <3>1. UNCHANGED <<marker, bin, starts>> /\ step["remote"] # "mark"
      BY <2>1, <2>4 DEF WriteTmp, BackupFails, SwapFails, Restart, Return, Goto
    <3>2. QED BY <1>0, <2>3, <3>1 DEF Counted, binary, previous
  <2>5. CASE RemovePrevious(u) \/ Backup(u)
    <3>1. UNCHANGED <<marker, starts>> /\ step["remote"] # "mark"
      BY <2>1, <2>5 DEF RemovePrevious, Backup, Goto
    <3>2. Dormant => Dormant'
      <4>1. CASE RemovePrevious(u)
        <5>1. CASE bin' = [bin EXCEPT ![s + 1] = Missing]
          BY <2>2, <5>1 DEF TypeInv, TypeOK, binary, previous
        <5>2. CASE UNCHANGED bin
          BY <5>2 DEF binary, previous
        <5>3. QED BY <2>1, <4>1, <5>1, <5>2 DEF RemovePrevious
      <4>2. CASE Backup(u) /\ bin[s] # Missing
        <5>1. bin'[s] = Missing /\ \A t \in Slots \ {s, s + 1} : bin'[t] = bin[t]
          BY <2>1, <2>2, <4>2, RenameKeepsCopy DEF Backup
        <5>2. 0 \in Slots /\ 1 \in Slots
          BY DEF Slots
        <5>3. CASE s \in {0, 1}
          BY <5>1, <5>3 DEF binary, previous
        <5>4. CASE s \notin {0, 1}
          BY <2>2, <5>1, <5>2, <5>4 DEF binary, previous
        <5>5. QED BY <5>3, <5>4
      <4>3. CASE Backup(u) /\ bin[s] = Missing
        BY <2>1, <4>3 DEF Backup, binary, previous
      <4>4. QED BY <2>5, <4>1, <4>2, <4>3
    <3>3. QED BY <1>0, <2>3, <3>1, <3>2 DEF Counted
  <2>6. CASE Swap(u)
    BY <2>1, <2>3, <2>6 DEF Swap, Goto, TypeInv, TypeOK
  <2>7. CASE Mark(u)
    <3>1. marker' = [version |-> got[u], attempts |-> 0]
      BY <2>7 DEF Mark, AfterSave
    <3>2. starts' = starts /\ starts >= 0
      BY <1>1, <2>7 DEF Mark, Counts
    <3>3. QED BY <2>3, <3>1, <3>2 DEF Counted
  <2>8. QED BY <1>13, <2>4, <2>5, <2>6, <2>7 DEF Apply
<1>14. CliKill \/ Kill => FALSE
  BY DEF CliKill, Kill, OnlyRemote
<1>15. QED
  BY <1>3, <1>4, <1>5, <1>6, <1>7, <1>8, <1>9, <1>10, <1>11, <1>12, <1>13, <1>14, Zenon DEF Next, Act, Startup

\* Every step keeps BudgetInv.
LEMMA NextBudget == BudgetInv /\ [Next]_vars => BudgetInv'
<1>1. BudgetInv /\ Next => BudgetInv'
  BY NextStartup, NextCountIsHonest DEF BudgetInv
<1>2. BudgetInv /\ UNCHANGED vars => BudgetInv'
  <2> SUFFICES ASSUME BudgetInv, UNCHANGED vars PROVE BudgetInv'
    OBVIOUS
  <2>1. StartupInv'
    BY NextStartup DEF BudgetInv
  <2>2. CountIsHonest'
    BY DEF BudgetInv, CountIsHonest, OnlyRemote, Never, Counted, binary, previous
  <2>3. QED BY <2>1, <2>2 DEF BudgetInv
<1>3. QED BY <1>1, <1>2

\* A version is rolled back only after it was started more often than
\* maxUpdateAttempts since it was swapped in: the marker never runs ahead of
\* the startups there were.
THEOREM NoEarlyRollback == Spec => RollbackHasFullBudget
<1>1. BudgetInv => (OnlyRemote /\ Never({"crash", "save"}) /\ RollingBack => starts > MaxUpdateAttempts)
  BY DEF BudgetInv, CountIsHonest, RollingBack
<1>2. QED BY <1>1, InitBudget, NextBudget, PTL DEF Spec, RollbackHasFullBudget
-----------------------------------------------------------------------------
(* Proven versions.                                                        *)

\* What stands where the service's own program stood has not run since.
Unproven == binary \notin proven \cup {running}

\* A marker beside a proven version lasts no longer than the check-in that
\* proved it, or has no backup beside it; and a process that has confirmed
\* itself is not the version a marker is about.
MarkerMeansUnproven ==
    OnlyRemote /\ Never({"crash", "clear"}) =>
        /\ pc \in {"boot", "rollback", "cleanup", "init"} => ~confirmed
        /\ step["remote"] # "none" =>
              got["remote"] # running /\ (at["remote"] # 0 => exe # 0)
        /\ pc # "down" /\ exe # 0 => Unproven
        /\ step["remote"] \in {"mark", "restart"} => Unproven
        /\ marker \in Pending =>
              /\ pc # "down" /\ confirmed => binary # running
              /\ pc \in {"down", "boot", "rollback", "init", "loop"} =>
                    binary \notin proven \/ previous = Missing
              /\ pc \in {"confirm", "updating"} =>
                    binary \notin proven \/ binary = running \/ previous = Missing

ProvenInv == SwapInv /\ StartupInv /\ MarkerMeansUnproven

\* At first there is no marker, and nothing runs.
LEMMA InitProven == Init => ProvenInv
<1> SUFFICES ASSUME Init PROVE ProvenInv
  OBVIOUS
<1>1. marker \notin Pending
  BY DEF Init, Pending, Counts
<1>2. MarkerMeansUnproven
  BY <1>1 DEF Init, MarkerMeansUnproven
<1>3. QED BY <1>2, InitSwap, InitStartup DEF ProvenInv

\* While the service updates, it leaves its binary and the marker alone, or
\* puts a version there that has not run.
LEMMA ApplyKeepsUnproven ==
    ASSUME ProvenInv, MarkerMeansUnproven, OnlyRemote, Never({"crash", "clear"}), UNCHANGED world,
           "remote" \in Updaters, Apply("remote")
    PROVE  /\ UNCHANGED <<running, got, at, confirmed>>
           /\ pc = "updating" /\ pc' \in {"updating", "confirm"} /\ step["remote"] # "none"
           /\ exe # 0 => exe' # 0
           /\ \/ Unproven'
              \/ /\ step'["remote"] \notin {"mark", "restart"}
                 /\ UNCHANGED <<binary, proven, exe, marker>>
                 /\ previous' \in {previous, Missing}
<1> DEFINE s == at["remote"]
<1> USE DEF binary, previous
<1>1. TypeInv /\ OneUpdater
  BY DEF ProvenInv, StartupInv, OnlyRemote, OneUpdater
<1>2. s \in Nat /\ s \in Slots /\ s + 1 \in Slots /\ s + 1 # 0 /\ s + 1 # s /\ 0 \in Slots /\ 1 \in Slots
  BY <1>1, AtSlots DEF Slots
<1>3. /\ UNCHANGED <<running, got, at, confirmed>> /\ step["remote"] # "none"
      /\ pc = "updating" /\ pc' \in {"updating", "confirm"}
  BY <1>1 DEF Apply, WriteTmp, RemovePrevious, Backup, BackupFails, Swap, SwapFails, Mark, Restart,
     Return, Goto, Gone, TypeInv, TypeOK
<1>4. /\ got["remote"] # running
      /\ s # 0 => exe # 0
      /\ exe # 0 => Unproven
      /\ step["remote"] \in {"mark", "restart"} => Unproven
  BY <1>3 DEF MarkerMeansUnproven
<1>5. Missing \notin proven \cup {running} /\ exe \in Nat
  BY <1>1 DEF TypeInv, TypeOK
<1>6. CASE WriteTmp("remote") \/ BackupFails("remote") \/ SwapFails("remote") \/ Restart("remote")
  BY <1>1, <1>3, <1>6 DEF WriteTmp, BackupFails, SwapFails, Restart, Return, Goto, TypeInv, TypeOK
<1>7. CASE RemovePrevious("remote")
  <2>1. bin'[0] = bin[0] /\ bin'[1] \in {bin[1], Missing} /\ UNCHANGED <<proven, exe, marker>>
    BY <1>1, <1>2, <1>7 DEF RemovePrevious, Gone, TypeInv, TypeOK
  <2>2. step'["remote"] = "backup"
    BY <1>1, <1>7 DEF RemovePrevious, Goto, TypeInv, TypeOK
  <2>3. QED BY <1>3, <2>1, <2>2
<1>8. CASE Backup("remote")
  <2>1. step'["remote"] = "swap" /\ UNCHANGED <<proven, marker>>
    BY <1>1, <1>8 DEF Backup, Goto, TypeInv, TypeOK
  <2>2. CASE bin[s] = Missing
    BY <1>3, <1>8, <2>1, <2>2 DEF Backup
  <2>3. CASE bin[s] # Missing
    <3>1. Renamed(s, s + 1)
      BY <1>8, <2>3 DEF Backup
    <3>2. exe' = exe \/ exe' = s + 1
      BY <3>1 DEF Renamed
    <3>3. CASE s = 0
      <4>1. binary' = Missing
        BY <1>1, <1>2, <2>3, <3>1, <3>3, RenameKeepsCopy
      <4>2. Unproven'
        BY <1>3, <1>5, <2>1, <4>1 DEF Unproven
      <4>3. QED BY <1>2, <1>3, <3>2, <4>2
    <3>4. CASE s # 0
      <4>1. binary' = binary
        BY <1>1, <1>2, <2>3, <3>1, <3>4, RenameKeepsCopy
      <4>2. Unproven'
        BY <1>3, <1>4, <2>1, <3>4, <4>1 DEF Unproven
      <4>3. QED BY <1>2, <1>3, <3>2, <4>2
    <3>5. QED BY <3>3, <3>4
  <2>4. QED BY <2>2, <2>3
<1>9. CASE Swap("remote")
  <2>1. tmp[s] = got["remote"] /\ exe' = exe
    BY <1>1, <1>9 DEF ProvenInv, SwapInv, TmpReady, Swap, Goto, Gone
  <2>2. CASE s = 0
    <3>1. binary' = got["remote"] /\ proven' = proven \ {got["remote"]}
      BY <1>1, <1>2, <1>9, <2>1, <2>2 DEF Swap, TypeInv, TypeOK
    <3>2. QED BY <1>3, <1>4, <2>1, <3>1 DEF Unproven
  <2>3. CASE s # 0
    <3>1. binary' = binary /\ proven' = proven
      BY <1>1, <1>2, <1>9, <2>3 DEF Swap, TypeInv, TypeOK
    <3>2. QED BY <1>3, <1>4, <2>1, <2>3, <3>1 DEF Unproven
  <2>4. QED BY <2>2, <2>3
<1>10. CASE Mark("remote")
  <2>1. UNCHANGED <<bin, proven, running, exe>> /\ step["remote"] = "mark"
    BY <1>10 DEF Mark, Goto
  <2>2. QED BY <1>3, <1>4, <2>1 DEF Unproven
<1>11. QED BY <1>6, <1>7, <1>8, <1>9, <1>10 DEF Apply

\* Every step keeps it so that a marker means an unproven version.
LEMMA NextMarkerMeansUnproven == ProvenInv /\ Next => MarkerMeansUnproven'
<1> DEFINE Means ==
        /\ pc \in {"boot", "rollback", "cleanup", "init"} => ~confirmed
        /\ step["remote"] # "none" => got["remote"] # running /\ (at["remote"] # 0 => exe # 0)
        /\ pc # "down" /\ exe # 0 => Unproven
        /\ step["remote"] \in {"mark", "restart"} => Unproven
        /\ marker \in Pending =>
              /\ pc # "down" /\ confirmed => binary # running
              /\ pc \in {"down", "boot", "rollback", "init", "loop"} =>
                    binary \notin proven \/ previous = Missing
              /\ pc \in {"confirm", "updating"} =>
                    binary \notin proven \/ binary = running \/ previous = Missing
<1> SUFFICES ASSUME ProvenInv, Next, OnlyRemote', Never({"crash", "clear"})' PROVE Means'
  BY DEF MarkerMeansUnproven
<1> UNCHANGED world /\ TypeInv /\ OnlyRemote /\ Never({"crash", "clear"}) /\ MarkerMeansUnproven
  BY DEF Next, ProvenInv, StartupInv, OnlyRemote, Never
<1> "crash" \notin Faults /\ "clear" \notin Faults
  BY DEF Never
<1> Missing \notin Pending
  BY DEF Pending, Counts
<1>0. Means
  BY DEF MarkerMeansUnproven
<1> USE DEF binary, previous
<1>1. pc # "updating" => step["remote"] = "none"
  BY DEF TypeInv, TypeOK
<1>2. CASE Launch
  <2>1. /\ pc = "down" /\ pc' = "boot" /\ ~confirmed' /\ exe' = 0
        /\ UNCHANGED <<bin, marker, step, proven>>
    BY <1>2 DEF Launch
  <2>2. QED BY <1>0, <1>1, <2>1
<1>3. CASE Shutdown \/ CheckInFails
  BY <1>0, <1>3 DEF Shutdown, CheckInFails, Unproven
<1>4. CASE CheckInPlain
  <2>1. /\ pc = "loop" /\ pc' = "confirm" /\ proven' = proven \cup {running}
        /\ UNCHANGED <<bin, marker, step, running, confirmed, exe>>
    BY <1>4 DEF CheckInPlain, CheckIn
  <2>2. QED BY <1>0, <1>1, <2>1 DEF Unproven
<1>5. CASE Confirm
  <2>1. /\ pc = "confirm" /\ pc' = "loop" /\ (confirmed \/ marker' = Missing)
        /\ (confirmed => marker' = marker)
        /\ UNCHANGED <<bin, step, proven, running, exe>>
    BY <1>5 DEF Confirm, AfterClear
  <2>2. QED BY <1>0, <1>1, <2>1 DEF Unproven
<1>6. CASE CheckNothingPending
  <2>1. /\ pc = "boot" /\ pc' = "init" /\ marker' \notin Pending
        /\ UNCHANGED <<bin, step, proven, running, confirmed, exe>>
    BY <1>6 DEF CheckNothingPending
  <2>2. QED BY <1>0, <1>1, <2>1 DEF Unproven
<1>7. CASE CheckPending
  <2>1. /\ pc = "boot" /\ pc' \in {"rollback", "init"} /\ marker \in Pending
        /\ UNCHANGED <<bin, step, proven, running, confirmed, exe>>
    BY <1>7 DEF CheckPending
  <2>2. QED BY <1>0, <1>1, <2>1 DEF Unproven
<1>8. CASE RollbackRename
  <2>1. pc = "rollback" /\ UNCHANGED <<marker, step, proven, running, confirmed>>
    BY <1>8 DEF RollbackRename
  <2>2. CASE pc' = "cleanup"
    <3>1. exe' = 0
      BY <2>2, NextCheckedBinary DEF ProvenInv, CheckedBinary
    <3>2. QED BY <1>0, <1>1, <2>1, <2>2, <3>1
  <2>3. CASE pc' = "init" /\ UNCHANGED <<bin, path>>
    BY <1>0, <1>1, <2>1, <2>3 DEF Unproven
  <2>4. QED BY <1>8, <2>2, <2>3 DEF RollbackRename
<1>9. CASE RollbackClear
  <2>1. pc' = "down" /\ marker' = Missing /\ step' = step /\ pc = "cleanup"
    BY <1>9 DEF RollbackClear, AfterClear
  <2>2. QED BY <1>1, <2>1
<1>10. CASE EnterLoop
  <2>1. pc = "init" /\ pc' = "loop" /\ UNCHANGED <<bin, marker, step, proven, running, confirmed, exe>>
    BY <1>10 DEF EnterLoop
  <2>2. QED BY <1>0, <1>1, <2>1 DEF Unproven
<1>11. CASE End
  <2>1. /\ pc \in {"boot", "rollback", "cleanup", "init", "loop"} /\ pc' = "down" /\ step'["remote"] = "none"
        /\ UNCHANGED <<bin, marker, proven>>
    BY <1>11, EndIsStill DEF Die
  <2>2. pc = "cleanup" => previous = Missing
    BY DEF ProvenInv, StartupInv, CheckedBinary
  <2>3. QED BY <1>0, <2>1, <2>2
<1>12. ASSUME NEW v \in Versions, CheckInUpdate(v) PROVE Means'
  <2>1. /\ pc = "loop" /\ pc' = "updating" /\ proven' = proven \cup {running} /\ v # running
        /\ step'["remote"] = "write" /\ got'["remote"] = v /\ at'["remote"] = exe
        /\ UNCHANGED <<bin, marker, running, confirmed, exe>>
    BY <1>12 DEF CheckInUpdate, CheckIn, TypeInv, TypeOK
  <2>2. QED BY <1>0, <2>1 DEF Unproven
<1>13. ASSUME NEW v \in Versions, CliUpdate(v) PROVE FALSE
  BY <1>13 DEF CliUpdate, OnlyRemote
<1>14. ASSUME NEW u \in Updaters, Apply(u) PROVE Means'
  <2>1. u = "remote"
    BY DEF OnlyRemote
  <2>2. /\ UNCHANGED <<running, got, at, confirmed>>
        /\ pc = "updating" /\ pc' \in {"updating", "confirm"} /\ step["remote"] # "none"
        /\ exe # 0 => exe' # 0
    BY <1>14, <2>1, ApplyKeepsUnproven
  <2>3. CASE Unproven'
    BY <1>0, <2>2, <2>3 DEF Unproven
  <2>4. CASE /\ step'["remote"] \notin {"mark", "restart"}
             /\ UNCHANGED <<binary, proven, exe, marker>>
             /\ previous' \in {previous, Missing}
    BY <1>0, <2>2, <2>4 DEF Unproven
  <2>5. QED BY <1>14, <2>1, <2>3, <2>4, ApplyKeepsUnproven
<1>15. CliKill \/ Kill => FALSE
  BY DEF CliKill, Kill
<1>16. QED
  BY <1>2, <1>3, <1>4, <1>5, <1>6, <1>7, <1>8, <1>9, <1>10, <1>11, <1>12, <1>13, <1>14, <1>15, Zenon
  DEF Next, Act, Startup

\* Every step keeps ProvenInv.
LEMMA NextProven == ProvenInv /\ [Next]_vars => ProvenInv'
<1>1. ProvenInv /\ Next => ProvenInv'
  BY NextSwap, NextStartup, NextMarkerMeansUnproven DEF ProvenInv
<1>2. ProvenInv /\ UNCHANGED vars => ProvenInv'
  <2> SUFFICES ASSUME ProvenInv, UNCHANGED vars PROVE ProvenInv'
    OBVIOUS
  <2>1. SwapInv' /\ StartupInv'
    BY NextSwap, NextStartup DEF ProvenInv
  <2>2. MarkerMeansUnproven'
    BY DEF ProvenInv, MarkerMeansUnproven, OnlyRemote, Never, Unproven, binary, previous
  <2>3. QED BY <2>1, <2>2 DEF ProvenInv
<1>3. QED BY <1>1, <1>2

\* What the backup replaces has not completed a check-in.
LEMMA RollbackOfUnproven ==
    ASSUME ProvenInv, OnlyRemote, Never({"crash", "clear"}), Next, RollingBack
    PROVE  binary \notin proven /\ previous # Missing /\ Renamed(1, 0)
<1>1. pc = "rollback" /\ pc' = "cleanup" /\ TypeInv
  BY DEF RollingBack, ProvenInv, StartupInv
<1>2. RollbackRename
  <2>1. ASSUME NEW u \in Updaters, Apply(u) PROVE pc' \in {pc, "confirm"}
    BY <2>1 DEF Apply, WriteTmp, RemovePrevious, Backup, BackupFails, Swap, SwapFails, Mark, Restart, Return, Goto
  <2>2. ASSUME NEW v \in Versions, CheckInUpdate(v) \/ CliUpdate(v) PROVE pc' \in {pc, "updating"}
    BY <2>2 DEF CheckInUpdate, CliUpdate, CheckIn
  <2>3. End \/ Kill => pc' = "down"
    BY <1>1, EndIsStill DEF Kill, Die
  <2>4. QED
    BY <1>1, <2>1, <2>2, <2>3 DEF Next, Act, Startup, Launch, Shutdown, CheckInPlain, CheckIn, CheckInFails, Confirm,
       CheckNothingPending, CheckPending, RollbackClear, EnterLoop, CliKill
<1>3. at["startup"] = 0 /\ marker \in Pending
  BY <1>1 DEF ProvenInv, StartupInv, CheckedBinary
<1>4. previous # Missing /\ Renamed(1, 0)
  BY <1>1, <1>2, <1>3 DEF RollbackRename, previous
<1>5. QED BY <1>1, <1>3, <1>4 DEF ProvenInv, MarkerMeansUnproven

\* A version that completed a check-in is never rolled back, if its marker
\* could be removed: a marker beside it is gone by the end of that check-in.
THEOREM ProvenIsKept == Spec => NoRollbackOfProven
<1>1. ProvenInv /\ [Next]_vars =>
          [OnlyRemote /\ Never({"crash", "clear"}) /\ RollingBack => binary \notin proven]_vars
  BY RollbackOfUnproven
<1>2. QED BY <1>1, InitProven, NextProven, PTL DEF Spec, NoRollbackOfProven
-----------------------------------------------------------------------------
(* The version register.                                                   *)

\* On macOS every update is of slot 0, whose one moment without a version
\* lies between backup and swap.
OneSlot ==
    OnlyRemote /\ ~PathFollowsRename =>
        /\ exe = 0 /\ ~tracked
        /\ step["remote"] # "none" => at["remote"] = 0
        /\ Never({"crash", "rename"}) =>
              /\ step["remote"] = "backup" => previous = Missing
              /\ step["remote"] = "swap" => binary = Missing /\ previous # Missing

RegisterInv == ProvenInv /\ OneSlot

\* At first slot 0 is the program's.
LEMMA InitRegister == Init => RegisterInv
<1>1. Init => OneSlot
  BY DEF Init, OneSlot
<1>2. QED BY <1>1, InitProven DEF RegisterInv

\* The path of the start goes on naming slot 0.
LEMMA NextOneSlot == RegisterInv /\ Next => OneSlot'
<1> DEFINE Slot0 ==
        /\ exe = 0 /\ ~tracked
        /\ step["remote"] # "none" => at["remote"] = 0
        /\ Never({"crash", "rename"}) =>
              /\ step["remote"] = "backup" => previous = Missing
              /\ step["remote"] = "swap" => binary = Missing /\ previous # Missing
<1> SUFFICES ASSUME RegisterInv, Next, OnlyRemote', (~PathFollowsRename)' PROVE Slot0'
  BY DEF OneSlot
<1> UNCHANGED world /\ TypeInv /\ OnlyRemote /\ ~PathFollowsRename /\ OneUpdater
  BY DEF Next, RegisterInv, ProvenInv, StartupInv, OnlyRemote, OneUpdater
<1>0. Slot0
  BY DEF RegisterInv, OneSlot
<1> USE DEF binary, previous
<1>1. CASE Launch
  BY <1>1 DEF Launch, TypeInv, TypeOK
<1>2. CASE Shutdown \/ CheckInPlain \/ CheckInFails \/ Confirm \/ CheckNothingPending \/ CheckPending \/ EnterLoop
  <2>1. UNCHANGED <<bin, step, exe, tracked>> /\ at'["remote"] = at["remote"]
    BY <1>2 DEF Shutdown, CheckInPlain, CheckIn, CheckInFails, Confirm, CheckNothingPending,
       CheckPending, EnterLoop, TypeInv, TypeOK
  <2>2. QED BY <1>0, <2>1 DEF Never
<1>3. CASE End \/ Kill
  BY <1>3, EndIsStill DEF Kill, Die
<1>4. CASE RollbackRename \/ RollbackClear
  <2>1. step'["remote"] = "none"
    BY <1>4 DEF RollbackRename, RollbackClear, TypeInv, TypeOK
  <2>2. exe' = 0 /\ ~tracked'
    BY <1>0, <1>4 DEF RollbackRename, RollbackClear, Renamed
  <2>3. QED BY <2>1, <2>2
<1>5. ASSUME NEW v \in Versions, CheckInUpdate(v) PROVE Slot0'
  BY <1>0, <1>5 DEF CheckInUpdate, CheckIn, TypeInv, TypeOK
<1>6. ASSUME NEW v \in Versions, CliUpdate(v) PROVE FALSE
  BY <1>6 DEF CliUpdate, OnlyRemote
<1>7. ASSUME NEW u \in Updaters, Apply(u) PROVE Slot0'
  <2>1. u = "remote" /\ at' = at /\ step["remote"] # "none" /\ at["remote"] = 0
    BY <1>0, <1>7 DEF OnlyRemote, Apply, WriteTmp, RemovePrevious, Backup, BackupFails, Swap, SwapFails, Mark, Restart,
       Return, Goto
  <2>2. 0 \in Slots /\ 1 \in Slots
    BY DEF Slots
  <2>3. CASE WriteTmp(u) \/ BackupFails(u) \/ SwapFails(u) \/ Mark(u) \/ Restart(u)
    <3>1. UNCHANGED <<exe, tracked>> /\ step'["remote"] \notin {"backup", "swap"}
      BY <2>1, <2>3 DEF WriteTmp, BackupFails, SwapFails, Mark, Restart, Return, Goto, TypeInv, TypeOK
    <3>2. QED BY <1>0, <2>1, <3>1
  <2>4. CASE RemovePrevious(u)
    <3>1. step'["remote"] = "backup" /\ exe' = exe /\ ~tracked'
      BY <1>0, <2>1, <2>4 DEF RemovePrevious, Gone, Goto, path, TypeInv, TypeOK
    <3>2. ASSUME Never({"crash", "rename"}) PROVE bin'[1] = Missing
      BY <2>1, <2>2, <2>4, <3>2 DEF RemovePrevious, Never, TypeInv, TypeOK
    <3>3. QED BY <1>0, <2>1, <3>1, <3>2 DEF Never
  <2>5. CASE Backup(u)
    <3>1. step["remote"] = "backup" /\ step'["remote"] = "swap"
      BY <2>1, <2>5 DEF Backup, Goto, TypeInv, TypeOK
    <3>2. exe' = 0 /\ ~tracked'
      BY <1>0, <2>1, <2>5 DEF Backup, Renamed
    <3>3. ASSUME Never({"crash", "rename"}) PROVE bin'[0] = Missing /\ bin'[1] # Missing
      <4>1. bin[0] # Missing
        BY <3>1, <3>3 DEF RegisterInv, ProvenInv, SwapInv, SwapPuts, TypeInv, OnlyRemote
      <4>2. Renamed(0, 1)
        BY <2>1, <2>5, <4>1 DEF Backup
      <4>3. QED BY <2>2, <4>1, <4>2, RenameKeepsCopy
    <3>4. QED BY <2>1, <3>1, <3>2, <3>3 DEF Never
  <2>6. CASE Swap(u)
    <3>1. step'["remote"] = "mark" /\ exe' = exe /\ ~tracked'
      BY <1>0, <2>1, <2>6 DEF Swap, Gone, Goto, TypeInv, TypeOK
    <3>2. QED BY <1>0, <2>1, <3>1
  <2>7. QED BY <1>7, <2>3, <2>4, <2>5, <2>6 DEF Apply
<1>8. CASE CliKill
  BY <1>8 DEF CliKill, OnlyRemote
<1>9. QED BY <1>1, <1>2, <1>3, <1>4, <1>5, <1>6, <1>7, <1>8, Zenon DEF Next, Act, Startup

\* Every step keeps RegisterInv.
LEMMA NextRegister == RegisterInv /\ [Next]_vars => RegisterInv'
<1>1. RegisterInv /\ Next => RegisterInv'
  BY NextProven, NextOneSlot DEF RegisterInv
<1>2. RegisterInv /\ UNCHANGED vars => RegisterInv'
  <2> SUFFICES ASSUME RegisterInv, UNCHANGED vars PROVE RegisterInv'
    OBVIOUS
  <2>1. ProvenInv'
    BY NextProven DEF RegisterInv
  <2>2. OneSlot'
    BY DEF RegisterInv, OneSlot, OnlyRemote, Never, binary, previous
  <2>3. QED BY <2>1, <2>2 DEF RegisterInv
<1>3. QED BY <1>1, <1>2

\* The first state is one of the register's: the original version is
\* installed and trusted, none is kept.
LEMMA InitImplements == Init => Register!Init
<1> SUFFICES ASSUME Init PROVE Register!Init
  OBVIOUS
<1>1. binary = Original /\ previous = Missing /\ Original # Missing
  BY DEF Init, binary, previous, Slots
<1>2. QED BY <1>1 DEF Init, Register!Init

\* A step that leaves the files and the proven versions alone is none of the
\* register's.
LEMMA RegisterStutters ==
    ASSUME UNCHANGED <<bin, proven>>
    PROVE  UNCHANGED Register!vars
  BY DEF Register!vars, binary, previous

\* Every other step is one of the register's, or a stutter.
LEMMA NextImplements ==
    ASSUME RegisterInv, [Next]_vars,
           OnlyRemote, ~PathFollowsRename, Never({"crash", "rename", "clear"})
    PROVE  [Register!Next]_(Register!vars)
<1> USE DEF binary, previous
<1> Never({"crash", "rename"}) /\ Never({"crash", "clear"}) /\ Never({"rename"})
  BY DEF Never
<1> ProvenInv /\ SwapInv /\ TypeInv /\ OneUpdater /\ Missing \notin Versions
  BY DEF RegisterInv, ProvenInv, SwapInv, OnlyRemote, OneUpdater
<1>0. 0 \in Slots /\ 1 \in Slots /\ bin[0] \in OnDisk /\ bin[1] \in OnDisk
  BY DEF Slots, TypeInv, TypeOK
<1>1. step["remote"] # "swap" => bin[0] # Missing
  BY DEF SwapInv, SwapPuts, TypeInv, OnlyRemote
<1>2. CASE UNCHANGED <<bin, proven>>
  BY <1>2, RegisterStutters
<1>3. ASSUME UNCHANGED bin, proven' = proven \cup {running} PROVE [Register!Next]_(Register!vars)
  <2> DEFINE version == IF binary = Missing THEN previous ELSE binary
  <2>1. CASE version \in proven
    BY <1>3, <2>1 DEF Register!vars
  <2>2. CASE version \in proven'
    BY <1>3, <2>2 DEF Register!Next, Register!Trust
  <2>3. CASE version \notin proven /\ version \notin proven'
    BY <1>3, <2>3 DEF Register!vars
  <2>4. QED BY <2>1, <2>2, <2>3
<1>4. CASE RollbackRename /\ Next
  <2>1. pc = "rollback" /\ step["remote"] = "none" /\ bin[0] # Missing
    BY <1>1, <1>4 DEF RollbackRename, TypeInv, TypeOK
  <2>2. CASE pc' = "cleanup"
    <3>1. bin[0] \notin proven /\ bin[1] # Missing /\ Renamed(1, 0) /\ UNCHANGED proven
      BY <1>4, <2>1, <2>2, RollbackOfUnproven DEF RollingBack, RollbackRename
    <3>2. bin'[0] = bin[1] /\ bin'[1] = Missing
      BY <1>0, <3>1 DEF Renamed, TypeInv, TypeOK
    <3>3. Register!Revert
      BY <2>1, <3>1, <3>2 DEF Register!Revert
    <3>4. QED BY <3>3 DEF Register!Next
  <2>3. CASE UNCHANGED <<bin, proven>>
    BY <2>3, RegisterStutters
  <2>4. QED BY <1>4, <2>2, <2>3 DEF RollbackRename
<1>5. ASSUME NEW u \in Updaters, Apply(u) PROVE [Register!Next]_(Register!vars)
  <2>1. u = "remote" /\ at["remote"] = 0 /\ step["remote"] # "none"
    BY <1>5 DEF RegisterInv, OneSlot, OnlyRemote, Apply, WriteTmp, RemovePrevious, Backup, BackupFails, Swap, SwapFails,
       Mark, Restart, Return, Goto
  <2>2. CASE WriteTmp(u) \/ Mark(u) \/ Restart(u)
    <3>1. UNCHANGED <<bin, proven>>
      BY <2>2 DEF WriteTmp, Mark, Restart
    <3>2. QED BY <3>1, RegisterStutters
  <2>3. CASE RemovePrevious(u)
    <3>1. bin'[0] = bin[0] /\ bin'[1] = Missing /\ bin[0] # Missing /\ UNCHANGED proven
      BY <1>0, <1>1, <2>1, <2>3 DEF RemovePrevious, Goto, Never, TypeInv, TypeOK
    <3>2. Register!Drop
      BY <3>1 DEF Register!Drop
    <3>3. QED BY <3>2 DEF Register!Next
  <2>4. CASE Backup(u)
    <3>1. step["remote"] = "backup" /\ bin[0] # Missing /\ bin[1] = Missing /\ UNCHANGED proven
      BY <1>1, <2>1, <2>4 DEF Backup, Goto, RegisterInv, OneSlot
    <3>2. bin'[0] = Missing /\ bin'[1] = bin[0]
      BY <1>0, <2>1, <2>4, <3>1 DEF Backup, Renamed, TypeInv, TypeOK
    <3>3. QED BY <3>1, <3>2 DEF Register!vars
  <2>5. CASE Swap(u)
    <3>1. step["remote"] = "swap" /\ bin[0] = Missing /\ bin[1] # Missing
      BY <2>1, <2>5 DEF Swap, Goto, RegisterInv, OneSlot
    <3>2. tmp[0] \in Versions
      BY <2>1, <3>1 DEF SwapInv, TmpReady, TypeInv, TypeOK
    <3>3. bin'[0] = tmp[0] /\ bin'[1] = bin[1] /\ proven' = proven \ {tmp[0]}
      BY <1>0, <2>1, <2>5 DEF Swap, TypeInv, TypeOK
    <3>4. Register!Install
      BY <3>1, <3>2, <3>3 DEF Register!Install
    <3>5. QED BY <3>4 DEF Register!Next
  <2>6. QED BY <1>5, <2>2, <2>3, <2>4, <2>5, SwapWorks DEF Apply
<1>6. ASSUME NEW v \in Versions, CheckInUpdate(v) \/ CliUpdate(v)
      PROVE  UNCHANGED <<bin, proven>> \/ (UNCHANGED bin /\ proven' = proven \cup {running})
  BY <1>6 DEF CheckInUpdate, CheckIn, CliUpdate
<1>7. CheckInPlain => UNCHANGED bin /\ proven' = proven \cup {running}
  BY DEF CheckInPlain, CheckIn
<1>8. Launch \/ Shutdown \/ End \/ Kill \/ CheckInFails \/ Confirm \/ CheckNothingPending \/ CheckPending
        \/ RollbackClear \/ EnterLoop \/ CliKill => UNCHANGED <<bin, proven>>
  BY EndIsStill DEF Launch, Shutdown, Kill, Die, CheckInFails, Confirm, CheckNothingPending, CheckPending,
     RollbackClear, EnterLoop, CliKill
<1>9. UNCHANGED vars => UNCHANGED <<bin, proven>>
  OBVIOUS
<1>10. QED
  BY <1>2, <1>3, <1>4, <1>5, <1>6, <1>7, <1>8, <1>9, Zenon DEF Next, Act, Startup

\* Where os.Executable keeps naming the path of the start, remote updates that
\* are not cut short implement the version register: each update first drops
\* what was kept, then keeps what it replaces, and only a version that never
\* completed a check-in gives way.
THEOREM RegisterImplemented == Spec => ImplementsRegister
<1>1. RegisterInv /\ [Next]_vars =>
          [ OnlyRemote /\ ~PathFollowsRename /\ Never({"crash", "rename", "clear"})
                => [Register!Next]_(Register!vars) ]_vars
  BY NextImplements
<1>2. QED
  BY <1>1, InitRegister, NextRegister, InitImplements, PTL DEF Spec, ImplementsRegister
=============================================================================
