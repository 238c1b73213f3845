------------------------ MODULE ServiceManagerProofs ------------------------
(***************************************************************************)
(* What holds of ServiceManager for every set of terminals and of worlds:  *)
(* the types, that what runs is installed, that status tells the truth,    *)
(* and what start, stop, init and update promise when they end.            *)
(***************************************************************************)
EXTENDS ServiceManager, Naturals, SequenceTheorems, TLAPS

USE WorldsAssumption DEF manager, vars, Linux, Faults, InUse
-----------------------------------------------------------------------------
(* The programs of the commands, call by call.                             *)

StepNames  == {"guard", "write", "remove", "save", "status"} \cup ManagerCalls
Installing == {"start", "wizard", "init"}

\* The calls q are the last of the calls p.
Suffix(q, p) ==
    /\ q \in Seq(StepNames)
    /\ Len(q) \in 1..Len(p)
    /\ \A i \in 1..Len(q) : q[i] = p[i + (Len(p) - Len(q))]

\* A sequence written out has the members written.
LEMMA Written2 ==
    ASSUME NEW a \in StepNames, NEW b \in StepNames
    PROVE  /\ <<a>> \in Seq(StepNames) /\ Len(<<a>>) = 1 /\ <<a>>[1] = a
           /\ <<a, b>> \in Seq(StepNames) /\ Len(<<a, b>>) = 2
           /\ <<a, b>>[1] = a /\ <<a, b>>[2] = b
  OBVIOUS

\* A sequence of three, too.
LEMMA Written3 ==
    ASSUME NEW a \in StepNames, NEW b \in StepNames, NEW c \in StepNames
    PROVE  /\ <<a, b, c>> \in Seq(StepNames) /\ Len(<<a, b, c>>) = 3
           /\ <<a, b, c>>[1] = a /\ <<a, b, c>>[2] = b /\ <<a, b, c>>[3] = c
  OBVIOUS

\* Two lists of calls, one after the other.
LEMMA Joined ==
    ASSUME NEW p \in Seq(StepNames), NEW q \in Seq(StepNames)
    PROVE  /\ p \o q \in Seq(StepNames)
           /\ Len(p \o q) = Len(p) + Len(q)
           /\ \A i \in 1..(Len(p) + Len(q)) :
                 (p \o q)[i] = IF i <= Len(p) THEN p[i] ELSE q[i - Len(p)]
           /\ \A i \in 1..Len(p) : (p \o q)[i] = p[i]
           /\ \A i \in 1..Len(q) : (p \o q)[i + Len(p)] = q[i]
<1>1. /\ p \o q \in Seq(StepNames)
      /\ Len(p \o q) = Len(p) + Len(q)
      /\ \A i \in 1..(Len(p) + Len(q)) :
            (p \o q)[i] = IF i <= Len(p) THEN p[i] ELSE q[i - Len(p)]
  BY ConcatProperties
<1>2. Len(p) \in Nat /\ Len(q) \in Nat
  OBVIOUS
<1>3. \A i \in 1..Len(p) : (p \o q)[i] = p[i]
  BY <1>1, <1>2
<1>4. ASSUME NEW i \in 1..Len(q) PROVE (p \o q)[i + Len(p)] = q[i]
  <2>1. i + Len(p) \in 1..(Len(p) + Len(q)) /\ ~(i + Len(p) <= Len(p)) /\ i + Len(p) - Len(p) = i
    BY <1>2
  <2>2. QED BY <2>1, <1>1
<1>5. QED BY <1>1, <1>3, <1>4

\* The calls of Install, by platform.
LEMMA InstallCalls ==
    /\ Install \in Seq(StepNames)
    /\ Len(Install) = IF Linux THEN 4 ELSE 5
    /\ Install[1] = "guard" /\ Install[2] = "write"
    /\ Linux => Install[3] = "reload" /\ Install[4] = "enable"
    /\ ~Linux => Install[3] = "bootout" /\ Install[4] = "bootstrap" /\ Install[5] = "kickstart"
<1>1. CASE Linux
  BY <1>1, Written2, Joined DEF Install, StepNames, ManagerCalls
<1>2. CASE ~Linux
  BY <1>2, Written2, Written3, Joined DEF Install, StepNames, ManagerCalls
<1>3. QED BY <1>1, <1>2

\* The calls of Uninstall, by platform.
LEMMA UninstallCalls ==
    /\ Uninstall \in Seq(StepNames)
    /\ Len(Uninstall) = IF Linux THEN 4 ELSE 3
    /\ Uninstall[1] = "guard"
    /\ Linux => Uninstall[2] = "disable" /\ Uninstall[3] = "remove" /\ Uninstall[4] = "reload"
    /\ ~Linux => Uninstall[2] = "bootout" /\ Uninstall[3] = "remove"
<1>1. CASE Linux
  BY <1>1, Written2, Written3, Joined DEF Uninstall, StepNames, ManagerCalls
<1>2. CASE ~Linux
  BY <1>2, Written2, Joined DEF Uninstall, StepNames, ManagerCalls
<1>3. QED BY <1>1, <1>2

\* The calls of Restart, by platform.
LEMMA RestartCalls ==
    /\ Restart \in Seq(StepNames)
    /\ Len(Restart) = 2
    /\ Restart[1] = "guard"
    /\ Restart[2] = IF Linux THEN "restart" ELSE "kickstart"
<1>1. CASE Linux
  BY <1>1, Written2, Joined DEF Restart, StepNames, ManagerCalls
<1>2. CASE ~Linux
  BY <1>2, Written2, Joined DEF Restart, StepNames, ManagerCalls
<1>3. QED BY <1>1, <1>2

\* What each command begins with, by platform.
LEMMA ProgramCalls ==
    /\ Program("start") = Install
    /\ Program("stop") = Uninstall
    /\ Program("wizard") \in Seq(StepNames)
    /\ Len(Program("wizard")) = IF Linux THEN 5 ELSE 6
    /\ Program("wizard")[1] = "save"
    /\ \A i \in 1..Len(Install) : Program("wizard")[i + 1] = Install[i]
    /\ \A op \in {"init", "update"} :
          /\ Program(op) \in Seq(StepNames) /\ Len(Program(op)) = 2
          /\ Program(op)[1] = "save" /\ Program(op)[2] = "status"
<1>1. /\ Program("start") = Install
      /\ Program("stop") = Uninstall
      /\ Program("wizard") = <<"save">> \o Install
  BY DEF Program
<1>2. ASSUME NEW op \in {"init", "update"}
      PROVE  Program(op) = <<"save", "status">>
  <2>1. CASE op = "init" BY <2>1 DEF Program
  <2>2. CASE op = "update" BY <2>2 DEF Program
  <2>3. QED BY <2>1, <2>2
<1>3. <<"save">> \in Seq(StepNames) /\ Len(<<"save">>) = 1 /\ <<"save">>[1] = "save"
  BY DEF StepNames
<1>4. <<"save", "status">> \in Seq(StepNames) /\ Len(<<"save", "status">>) = 2
      /\ <<"save", "status">>[1] = "save" /\ <<"save", "status">>[2] = "status"
  BY DEF StepNames
<1>5. /\ <<"save">> \o Install \in Seq(StepNames)
      /\ Len(<<"save">> \o Install) = IF Linux THEN 5 ELSE 6
      /\ (<<"save">> \o Install)[1] = "save"
      /\ \A i \in 1..Len(Install) : (<<"save">> \o Install)[i + 1] = Install[i]
  <2>1. Install \in Seq(StepNames) /\ Len(Install) = IF Linux THEN 4 ELSE 5
    BY InstallCalls
  <2>2. /\ <<"save">> \o Install \in Seq(StepNames)
        /\ Len(<<"save">> \o Install) = 1 + Len(Install)
        /\ \A i \in 1..1 : (<<"save">> \o Install)[i] = <<"save">>[i]
        /\ \A i \in 1..Len(Install) : (<<"save">> \o Install)[i + 1] = Install[i]
    BY <1>3, <2>1, Joined
  <2>3. QED BY <1>3, <2>1, <2>2
<1>6. QED BY <1>1, <1>5, <1>2, <1>4

\* What init and update go on with when Status has found a service.
LEMMA AfterStatusCalls ==
    /\ AfterStatus("update") = Restart
    /\ AfterStatus("init") \in Seq(StepNames)
    /\ Len(AfterStatus("init")) = 8
    /\ \A i \in 1..Len(Uninstall) : AfterStatus("init")[i] = Uninstall[i]
    /\ \A i \in 1..Len(Install) : AfterStatus("init")[i + Len(Uninstall)] = Install[i]
<1>1. AfterStatus("update") = Restart /\ AfterStatus("init") = Uninstall \o Install
  BY DEF AfterStatus
<1>2. /\ Uninstall \o Install \in Seq(StepNames)
      /\ Len(Uninstall \o Install) = 8
      /\ \A i \in 1..Len(Uninstall) : (Uninstall \o Install)[i] = Uninstall[i]
      /\ \A i \in 1..Len(Install) : (Uninstall \o Install)[i + Len(Uninstall)] = Install[i]
  <2>1. /\ Install \in Seq(StepNames) /\ Uninstall \in Seq(StepNames)
        /\ Len(Uninstall) + Len(Install) = 8
    BY InstallCalls, UninstallCalls
  <2>2. QED BY <2>1, Joined
<1>3. QED BY <1>1, <1>2

\* The ends of each list of calls, by their length: what is next, and then.
LEMMA LinuxInstall ==
    ASSUME Linux, NEW q, Suffix(q, Install)
    PROVE  /\ q \in Seq(StepNames)
           /\ \/ Len(q) = 4 /\ q[1] = "guard" /\ q[2] = "write"
              \/ Len(q) = 3 /\ q[1] = "write" /\ q[2] = "reload"
              \/ Len(q) = 2 /\ q[1] = "reload" /\ q[2] = "enable"
              \/ Len(q) = 1 /\ q[1] = "enable"
<1>1. /\ q \in Seq(StepNames) /\ Len(q) \in 1..4
      /\ \A i \in 1..Len(q) : q[i] = Install[i + (4 - Len(q))]
  BY InstallCalls DEF Suffix
<1>2. CASE Len(q) = 4 BY <1>1, <1>2, InstallCalls
<1>3. CASE Len(q) = 3 BY <1>1, <1>3, InstallCalls
<1>4. CASE Len(q) = 2 BY <1>1, <1>4, InstallCalls
<1>5. CASE Len(q) = 1 BY <1>1, <1>5, InstallCalls
<1>6. QED BY <1>1, <1>2, <1>3, <1>4, <1>5

\* The ends of Install on macOS, ...
LEMMA MacInstall ==
    ASSUME ~Linux, NEW q, Suffix(q, Install)
    PROVE  /\ q \in Seq(StepNames)
           /\ \/ Len(q) = 5 /\ q[1] = "guard" /\ q[2] = "write"
              \/ Len(q) = 4 /\ q[1] = "write" /\ q[2] = "bootout"
              \/ Len(q) = 3 /\ q[1] = "bootout" /\ q[2] = "bootstrap"
              \/ Len(q) = 2 /\ q[1] = "bootstrap" /\ q[2] = "kickstart"
              \/ Len(q) = 1 /\ q[1] = "kickstart"
<1>1. /\ q \in Seq(StepNames) /\ Len(q) \in 1..5
      /\ \A i \in 1..Len(q) : q[i] = Install[i + (5 - Len(q))]
  BY InstallCalls DEF Suffix
<1>2. CASE Len(q) = 5 BY <1>1, <1>2, InstallCalls
<1>3. CASE Len(q) = 4 BY <1>1, <1>3, InstallCalls
<1>4. CASE Len(q) = 3 BY <1>1, <1>4, InstallCalls
<1>5. CASE Len(q) = 2 BY <1>1, <1>5, InstallCalls
<1>6. CASE Len(q) = 1 BY <1>1, <1>6, InstallCalls
<1>7. QED BY <1>1, <1>2, <1>3, <1>4, <1>5, <1>6

\* ... those of the wizard's program, ...
LEMMA LinuxWizard ==
    ASSUME Linux, NEW q, Suffix(q, Program("wizard"))
    PROVE  /\ q \in Seq(StepNames)
           /\ \/ Len(q) = 5 /\ q[1] = "save" /\ q[2] = "guard"
              \/ Len(q) = 4 /\ q[1] = "guard" /\ q[2] = "write"
              \/ Len(q) = 3 /\ q[1] = "write" /\ q[2] = "reload"
              \/ Len(q) = 2 /\ q[1] = "reload" /\ q[2] = "enable"
              \/ Len(q) = 1 /\ q[1] = "enable"
<1>1. /\ q \in Seq(StepNames) /\ Len(q) \in 1..5
      /\ \A i \in 1..Len(q) : q[i] = Program("wizard")[i + (5 - Len(q))]
  BY ProgramCalls, InstallCalls DEF Suffix
<1>2. CASE Len(q) = 5 BY <1>1, <1>2, ProgramCalls, InstallCalls
<1>3. CASE Len(q) = 4 BY <1>1, <1>3, ProgramCalls, InstallCalls
<1>4. CASE Len(q) = 3 BY <1>1, <1>4, ProgramCalls, InstallCalls
<1>5. CASE Len(q) = 2 BY <1>1, <1>5, ProgramCalls, InstallCalls
<1>6. CASE Len(q) = 1 BY <1>1, <1>6, ProgramCalls, InstallCalls
<1>7. QED BY <1>1, <1>2, <1>3, <1>4, <1>5, <1>6

\* ... on macOS, ...
LEMMA MacWizard ==
    ASSUME ~Linux, NEW q, Suffix(q, Program("wizard"))
    PROVE  /\ q \in Seq(StepNames)
           /\ \/ Len(q) = 6 /\ q[1] = "save" /\ q[2] = "guard"
              \/ Len(q) = 5 /\ q[1] = "guard" /\ q[2] = "write"
              \/ Len(q) = 4 /\ q[1] = "write" /\ q[2] = "bootout"
              \/ Len(q) = 3 /\ q[1] = "bootout" /\ q[2] = "bootstrap"
              \/ Len(q) = 2 /\ q[1] = "bootstrap" /\ q[2] = "kickstart"
              \/ Len(q) = 1 /\ q[1] = "kickstart"
<1>1. /\ q \in Seq(StepNames) /\ Len(q) \in 1..6
      /\ \A i \in 1..Len(q) : q[i] = Program("wizard")[i + (6 - Len(q))]
  BY ProgramCalls, InstallCalls DEF Suffix
<1>2. CASE Len(q) = 6 BY <1>1, <1>2, ProgramCalls, InstallCalls
<1>3. CASE Len(q) = 5 BY <1>1, <1>3, ProgramCalls, InstallCalls
<1>4. CASE Len(q) = 4 BY <1>1, <1>4, ProgramCalls, InstallCalls
<1>5. CASE Len(q) = 3 BY <1>1, <1>5, ProgramCalls, InstallCalls
<1>6. CASE Len(q) = 2 BY <1>1, <1>6, ProgramCalls, InstallCalls
<1>7. CASE Len(q) = 1 BY <1>1, <1>7, ProgramCalls, InstallCalls
<1>8. QED BY <1>1, <1>2, <1>3, <1>4, <1>5, <1>6, <1>7

\* ... those of Uninstall, ...
LEMMA LinuxUninstall ==
    ASSUME Linux, NEW q, Suffix(q, Uninstall)
    PROVE  /\ q \in Seq(StepNames)
           /\ \/ Len(q) = 4 /\ q[1] = "guard" /\ q[2] = "disable"
              \/ Len(q) = 3 /\ q[1] = "disable" /\ q[2] = "remove"
              \/ Len(q) = 2 /\ q[1] = "remove" /\ q[2] = "reload"
              \/ Len(q) = 1 /\ q[1] = "reload"
<1>1. /\ q \in Seq(StepNames) /\ Len(q) \in 1..4
      /\ \A i \in 1..Len(q) : q[i] = Uninstall[i + (4 - Len(q))]
  BY UninstallCalls DEF Suffix
<1>2. CASE Len(q) = 4 BY <1>1, <1>2, UninstallCalls
<1>3. CASE Len(q) = 3 BY <1>1, <1>3, UninstallCalls
<1>4. CASE Len(q) = 2 BY <1>1, <1>4, UninstallCalls
<1>5. CASE Len(q) = 1 BY <1>1, <1>5, UninstallCalls
<1>6. QED BY <1>1, <1>2, <1>3, <1>4, <1>5

\* ... on macOS, ...
LEMMA MacUninstall ==
    ASSUME ~Linux, NEW q, Suffix(q, Uninstall)
    PROVE  /\ q \in Seq(StepNames)
           /\ \/ Len(q) = 3 /\ q[1] = "guard" /\ q[2] = "bootout"
              \/ Len(q) = 2 /\ q[1] = "bootout" /\ q[2] = "remove"
              \/ Len(q) = 1 /\ q[1] = "remove"
<1>1. /\ q \in Seq(StepNames) /\ Len(q) \in 1..3
      /\ \A i \in 1..Len(q) : q[i] = Uninstall[i + (3 - Len(q))]
  BY UninstallCalls DEF Suffix
<1>2. CASE Len(q) = 3 BY <1>1, <1>2, UninstallCalls
<1>3. CASE Len(q) = 2 BY <1>1, <1>3, UninstallCalls
<1>4. CASE Len(q) = 1 BY <1>1, <1>4, UninstallCalls
<1>5. QED BY <1>1, <1>2, <1>3, <1>4

\* ... those of Restart, ...
LEMMA LinuxRestart ==
    ASSUME Linux, NEW q, Suffix(q, Restart)
    PROVE  /\ q \in Seq(StepNames)
           /\ \/ Len(q) = 2 /\ q[1] = "guard" /\ q[2] = "restart"
              \/ Len(q) = 1 /\ q[1] = "restart"
<1>1. /\ q \in Seq(StepNames) /\ Len(q) \in 1..2
      /\ \A i \in 1..Len(q) : q[i] = Restart[i + (2 - Len(q))]
  BY RestartCalls DEF Suffix
<1>2. CASE Len(q) = 2 BY <1>1, <1>2, RestartCalls
<1>3. CASE Len(q) = 1 BY <1>1, <1>3, RestartCalls
<1>4. QED BY <1>1, <1>2, <1>3

\* ... on macOS, ...
LEMMA MacRestart ==
    ASSUME ~Linux, NEW q, Suffix(q, Restart)
    PROVE  /\ q \in Seq(StepNames)
           /\ \/ Len(q) = 2 /\ q[1] = "guard" /\ q[2] = "kickstart"
              \/ Len(q) = 1 /\ q[1] = "kickstart"
<1>1. /\ q \in Seq(StepNames) /\ Len(q) \in 1..2
      /\ \A i \in 1..Len(q) : q[i] = Restart[i + (2 - Len(q))]
  BY RestartCalls DEF Suffix
<1>2. CASE Len(q) = 2 BY <1>1, <1>2, RestartCalls
<1>3. CASE Len(q) = 1 BY <1>1, <1>3, RestartCalls
<1>4. QED BY <1>1, <1>2, <1>3

\* ... those of init's Uninstall and Install, ...
LEMMA LinuxReplace ==
    ASSUME Linux, NEW q, Suffix(q, AfterStatus("init"))
    PROVE  /\ q \in Seq(StepNames)
           /\ \/ Len(q) = 8 /\ q[1] = "guard" /\ q[2] = "disable"
              \/ Len(q) = 7 /\ q[1] = "disable" /\ q[2] = "remove"
              \/ Len(q) = 6 /\ q[1] = "remove" /\ q[2] = "reload"
              \/ Len(q) = 5 /\ q[1] = "reload" /\ q[2] = "guard"
              \/ Len(q) = 4 /\ q[1] = "guard" /\ q[2] = "write"
              \/ Len(q) = 3 /\ q[1] = "write" /\ q[2] = "reload"
              \/ Len(q) = 2 /\ q[1] = "reload" /\ q[2] = "enable"
              \/ Len(q) = 1 /\ q[1] = "enable"
<1>1. /\ q \in Seq(StepNames) /\ Len(q) \in 1..8
      /\ \A i \in 1..Len(q) : q[i] = AfterStatus("init")[i + (8 - Len(q))]
  BY AfterStatusCalls, UninstallCalls, InstallCalls DEF Suffix
<1>2. CASE Len(q) = 8 BY <1>1, <1>2, AfterStatusCalls, UninstallCalls, InstallCalls
<1>3. CASE Len(q) = 7 BY <1>1, <1>3, AfterStatusCalls, UninstallCalls, InstallCalls
<1>4. CASE Len(q) = 6 BY <1>1, <1>4, AfterStatusCalls, UninstallCalls, InstallCalls
<1>5. CASE Len(q) = 5 BY <1>1, <1>5, AfterStatusCalls, UninstallCalls, InstallCalls
<1>6. CASE Len(q) = 4 BY <1>1, <1>6, AfterStatusCalls, UninstallCalls, InstallCalls
<1>7. CASE Len(q) = 3 BY <1>1, <1>7, AfterStatusCalls, UninstallCalls, InstallCalls
<1>8. CASE Len(q) = 2 BY <1>1, <1>8, AfterStatusCalls, UninstallCalls, InstallCalls
<1>9. CASE Len(q) = 1 BY <1>1, <1>9, AfterStatusCalls, UninstallCalls, InstallCalls
<1>10. QED BY <1>1, <1>2, <1>3, <1>4, <1>5, <1>6, <1>7, <1>8, <1>9

\* ... on macOS, ...
LEMMA MacReplace ==
    ASSUME ~Linux, NEW q, Suffix(q, AfterStatus("init"))
    PROVE  /\ q \in Seq(StepNames)
           /\ \/ Len(q) = 8 /\ q[1] = "guard" /\ q[2] = "bootout"
              \/ Len(q) = 7 /\ q[1] = "bootout" /\ q[2] = "remove"
              \/ Len(q) = 6 /\ q[1] = "remove" /\ q[2] = "guard"
              \/ Len(q) = 5 /\ q[1] = "guard" /\ q[2] = "write"
              \/ Len(q) = 4 /\ q[1] = "write" /\ q[2] = "bootout"
              \/ Len(q) = 3 /\ q[1] = "bootout" /\ q[2] = "bootstrap"
              \/ Len(q) = 2 /\ q[1] = "bootstrap" /\ q[2] = "kickstart"
              \/ Len(q) = 1 /\ q[1] = "kickstart"
<1>1. /\ q \in Seq(StepNames) /\ Len(q) \in 1..8
      /\ \A i \in 1..Len(q) : q[i] = AfterStatus("init")[i + (8 - Len(q))]
  BY AfterStatusCalls, UninstallCalls, InstallCalls DEF Suffix
<1>2. CASE Len(q) = 8 BY <1>1, <1>2, AfterStatusCalls, UninstallCalls, InstallCalls
<1>3. CASE Len(q) = 7 BY <1>1, <1>3, AfterStatusCalls, UninstallCalls, InstallCalls
<1>4. CASE Len(q) = 6 BY <1>1, <1>4, AfterStatusCalls, UninstallCalls, InstallCalls
<1>5. CASE Len(q) = 5 BY <1>1, <1>5, AfterStatusCalls, UninstallCalls, InstallCalls
<1>6. CASE Len(q) = 4 BY <1>1, <1>6, AfterStatusCalls, UninstallCalls, InstallCalls
<1>7. CASE Len(q) = 3 BY <1>1, <1>7, AfterStatusCalls, UninstallCalls, InstallCalls
<1>8. CASE Len(q) = 2 BY <1>1, <1>8, AfterStatusCalls, UninstallCalls, InstallCalls
<1>9. CASE Len(q) = 1 BY <1>1, <1>9, AfterStatusCalls, UninstallCalls, InstallCalls
<1>10. QED BY <1>1, <1>2, <1>3, <1>4, <1>5, <1>6, <1>7, <1>8, <1>9

\* ... and those of what init and update do up to Status.
LEMMA ChangeEnds ==
    ASSUME NEW op \in {"init", "update"}, NEW q, Suffix(q, Program(op))
    PROVE  /\ q \in Seq(StepNames)
           /\ \/ Len(q) = 2 /\ q[1] = "save" /\ q[2] = "status"
              \/ Len(q) = 1 /\ q[1] = "status"
<1>1. /\ q \in Seq(StepNames) /\ Len(q) \in 1..2
      /\ \A i \in 1..Len(q) : q[i] = Program(op)[i + (2 - Len(q))]
  BY ProgramCalls DEF Suffix
<1>2. CASE Len(q) = 2 BY <1>1, <1>2, ProgramCalls
<1>3. CASE Len(q) = 1 BY <1>1, <1>3, ProgramCalls
<1>4. QED BY <1>1, <1>2, <1>3

\* The ends of the programs the command op may have before it.
Remains(op, q) ==
    \/ Suffix(q, Program(op))
    \/ op \in {"init", "update"} /\ Suffix(q, AfterStatus(op))

\* On Linux: from the next call, how far the command is and what follows.
LEMMA LinuxPlaces ==
    ASSUME Linux, NEW op \in Commands, NEW q, Remains(op, q)
    PROVE  /\ q[1] = "guard" =>
                \/ op \in Installing /\ Len(q) = 4 /\ q[2] = "write"
                \/ op = "stop" /\ Len(q) = 4 /\ q[2] = "disable"
                \/ op = "init" /\ Len(q) = 8 /\ q[2] = "disable"
                \/ op = "update" /\ Len(q) = 2 /\ q[2] = "restart"
           /\ q[1] = "write" => op \in Installing /\ Len(q) = 3 /\ q[2] = "reload"
           /\ q[1] = "reload" =>
                \/ op \in Installing /\ Len(q) = 2 /\ q[2] = "enable"
                \/ op = "stop" /\ Len(q) = 1
                \/ op = "init" /\ Len(q) = 5 /\ q[2] = "guard"
           /\ q[1] = "enable" => op \in Installing /\ Len(q) = 1
           /\ q[1] = "disable" =>
                /\ (op = "stop" /\ Len(q) = 3) \/ (op = "init" /\ Len(q) = 7)
                /\ q[2] = "remove"
           /\ q[1] = "remove" =>
                /\ (op = "stop" /\ Len(q) = 2) \/ (op = "init" /\ Len(q) = 6)
                /\ q[2] = "reload"
           /\ q[1] = "restart" => op = "update" /\ Len(q) = 1
           /\ q[1] = "save" =>
                \/ op = "wizard" /\ Len(q) = 5 /\ q[2] = "guard"
                \/ op \in {"init", "update"} /\ Len(q) = 2 /\ q[2] = "status"
           /\ q[1] = "status" => op \in {"init", "update"} /\ Len(q) = 1
           /\ q[1] \notin {"bootout", "bootstrap", "kickstart"}
<1>1. CASE op = "start"
  <2>1. Suffix(q, Install) BY <1>1, ProgramCalls DEF Remains
  <2>2. QED BY <1>1, <2>1, LinuxInstall DEF Installing
<1>2. CASE op = "stop"
  <2>1. Suffix(q, Uninstall) BY <1>2, ProgramCalls DEF Remains
  <2>2. QED BY <1>2, <2>1, LinuxUninstall DEF Installing
<1>3. CASE op = "wizard"
  <2>1. Suffix(q, Program("wizard")) BY <1>3 DEF Remains
  <2>2. QED BY <1>3, <2>1, LinuxWizard DEF Installing
<1>4. CASE op \in {"init", "update"} /\ Suffix(q, Program(op))
  BY <1>4, ChangeEnds DEF Installing
<1>5. CASE op = "init" /\ Suffix(q, AfterStatus(op))
  <2>1. Suffix(q, AfterStatus("init")) BY <1>5
  <2>2. QED BY <1>5, <2>1, LinuxReplace DEF Installing
<1>6. CASE op = "update" /\ Suffix(q, AfterStatus(op))
  <2>1. Suffix(q, Restart) BY <1>6, AfterStatusCalls
  <2>2. QED BY <1>6, <2>1, LinuxRestart DEF Installing
<1>7. QED BY <1>1, <1>2, <1>3, <1>4, <1>5, <1>6 DEF Commands, Remains

\* The same on macOS.
LEMMA MacPlaces ==
    ASSUME ~Linux, NEW op \in Commands, NEW q, Remains(op, q)
    PROVE  /\ q[1] = "guard" =>
                \/ op \in Installing /\ Len(q) = 5 /\ q[2] = "write"
                \/ op = "stop" /\ Len(q) = 3 /\ q[2] = "bootout"
                \/ op = "init" /\ Len(q) = 8 /\ q[2] = "bootout"
                \/ op = "update" /\ Len(q) = 2 /\ q[2] = "kickstart"
           /\ q[1] = "write" => op \in Installing /\ Len(q) = 4 /\ q[2] = "bootout"
           /\ q[1] = "bootout" =>
                \/ op \in Installing /\ Len(q) = 3 /\ q[2] = "bootstrap"
                \/ op = "stop" /\ Len(q) = 2 /\ q[2] = "remove"
                \/ op = "init" /\ Len(q) = 7 /\ q[2] = "remove"
           /\ q[1] = "bootstrap" => op \in Installing /\ Len(q) = 2 /\ q[2] = "kickstart"
           /\ q[1] = "kickstart" => op \in Installing \cup {"update"} /\ Len(q) = 1
           /\ q[1] = "remove" =>
                \/ op = "stop" /\ Len(q) = 1
                \/ op = "init" /\ Len(q) = 6 /\ q[2] = "guard"
           /\ q[1] = "save" =>
                \/ op = "wizard" /\ Len(q) = 6 /\ q[2] = "guard"
                \/ op \in {"init", "update"} /\ Len(q) = 2 /\ q[2] = "status"
           /\ q[1] = "status" => op \in {"init", "update"} /\ Len(q) = 1
           /\ q[1] \notin {"disable", "reload", "enable", "restart"}
<1>1. CASE op = "start"
  <2>1. Suffix(q, Install) BY <1>1, ProgramCalls DEF Remains
  <2>2. QED BY <1>1, <2>1, MacInstall DEF Installing
<1>2. CASE op = "stop"
  <2>1. Suffix(q, Uninstall) BY <1>2, ProgramCalls DEF Remains
  <2>2. QED BY <1>2, <2>1, MacUninstall DEF Installing
<1>3. CASE op = "wizard"
  <2>1. Suffix(q, Program("wizard")) BY <1>3 DEF Remains
  <2>2. QED BY <1>3, <2>1, MacWizard DEF Installing
<1>4. CASE op \in {"init", "update"} /\ Suffix(q, Program(op))
  BY <1>4, ChangeEnds DEF Installing
<1>5. CASE op = "init" /\ Suffix(q, AfterStatus(op))
  <2>1. Suffix(q, AfterStatus("init")) BY <1>5
  <2>2. QED BY <1>5, <2>1, MacReplace DEF Installing
<1>6. CASE op = "update" /\ Suffix(q, AfterStatus(op))
  <2>1. Suffix(q, Restart) BY <1>6, AfterStatusCalls
  <2>2. QED BY <1>6, <2>1, MacRestart DEF Installing
<1>7. QED BY <1>1, <1>2, <1>3, <1>4, <1>5, <1>6 DEF Commands, Remains

\* One call fewer is still an end of the program.
LEMMA SuffixTail ==
    ASSUME NEW p, NEW q, Suffix(q, p), Len(p) \in Nat, Tail(q) # <<>>
    PROVE  /\ Suffix(Tail(q), p)
           /\ Len(Tail(q)) = Len(q) - 1
           /\ Tail(q)[1] = q[2]
<1>1. q \in Seq(StepNames) /\ q # <<>> /\ Len(q) \in 1..Len(p)
  BY DEF Suffix
<1>2. Tail(q) \in Seq(StepNames) /\ Len(Tail(q)) = Len(q) - 1
      /\ \A i \in 1..(Len(q) - 1) : Tail(q)[i] = q[i + 1]
  BY <1>1
<1>3. Len(q) > 1
  BY <1>1, <1>2
<1>4. QED BY <1>1, <1>2, <1>3 DEF Suffix
-----------------------------------------------------------------------------
(* The inductive invariants.                                               *)

\* What a terminal holds.
CommandType ==
    [ op : Commands \cup {"none"}, caller : Callers, scope : Scopes,
      todo : Seq(StepNames), result : Results ]

\* The command at t is past what it does before it talks to the managers.
Changing(t) == InUse(t) /\ Head(cmd[t].todo) \notin {"save", "status"}

\* A command under way has an end of its program before it.
GoodCommand(c) ==
    /\ c \in CommandType
    /\ c.op # "none" <=> c.todo # <<>>
    /\ c.op # "none" =>
          c.caller \in world.callers /\ c.result = "none" /\ Remains(c.op, c.todo)

TypeInv ==
    /\ TypeOK
    /\ cmd \in [Terminals -> CommandType]
    /\ \A t \in Terminals : GoodCommand(cmd[t])

\* Where commands do not overlap, one terminal at most is in use, ...
Alone == \A t, u \in Terminals : InUse(t) /\ InUse(u) => t = u

\* ... init and update keep aiming at what Status found, ...
OnTarget(t) ==
    Changing(t) =>
        /\ cmd[t].op \in {"init", "update"} /\ cmd[t].scope = "user" =>
              ~unit["system"] /\ ResolvesUser(cmd[t].caller)
        /\ cmd[t].op = "update" => unit[cmd[t].scope]
        /\ cmd[t].op = "init" =>
              IF Len(cmd[t].todo) > 5 THEN unit[cmd[t].scope]
              ELSE MayWrite(cmd[t].caller, cmd[t].scope)

\* ... what Install has written stays, and only who may write gets so far, ...
WrittenStays(t) ==
    /\ Changing(t)
    /\ cmd[t].op \in Installing
    /\ Len(cmd[t].todo) <= IF Linux THEN 2 ELSE 3
    => unit[cmd[t].scope] /\ MayWrite(cmd[t].caller, cmd[t].scope)

\* ... and what init's Uninstall has stopped is not stale any more.
StoppedIsNotStale(t) ==
    /\ Linux
    /\ Changing(t)
    /\ cmd[t].op = "init"
    /\ Reaches(cmd[t].caller, cmd[t].scope)
    /\ Len(cmd[t].todo) < 7
    => ~stale[cmd[t].scope]

AloneInv ==
    /\ TypeInv
    /\ Never({"overlap"}) =>
          /\ Alone
          /\ \A t \in Terminals : OnTarget(t) /\ WrittenStays(t)
          /\ Never({"manager"}) => \A t \in Terminals : StoppedIsNotStale(t)

\* Between these calls a command may have left the unit without its process
\* or its registration.
InWindow(t) ==
    /\ MayWrite(cmd[t].caller, cmd[t].scope)
    /\ \/ At(t, "remove")
       \/ At(t, "enable")
       \/ At(t, "reload") /\ Len(cmd[t].todo) = 2
       \/ At(t, "bootout") /\ Len(cmd[t].todo) = 3
       \/ At(t, "bootstrap")
       \/ At(t, "kickstart") /\ cmd[t].op \in Installing

SomeoneIsInWindow(s) == \E t \in Terminals : InUse(t) /\ cmd[t].scope = s /\ InWindow(t)

\* With systemd, what runs has its unit; it is stopped before that is removed,
\* and where no command is killed, what runs is enabled, and every unit is
\* but for a command in its window.
InstalledOnLinux ==
    /\ \A s \in Scopes : job[s] = "running" => unit[s]
    /\ Never({"kill"}) =>
          \A s \in Scopes :
             /\ unit[s] /\ ~registered[s] => SomeoneIsInWindow(s)
             /\ job[s] = "running" => registered[s]
    /\ \A t \in Terminals :
          /\ At(t, "remove") /\ MayWrite(cmd[t].caller, cmd[t].scope) =>
                job[cmd[t].scope] # "running"
          /\ At(t, "reload") /\ cmd[t].op = "stop" => ~unit[cmd[t].scope]

\* With launchd, what runs is loaded and what is loaded has its plist; it is
\* booted out before that is removed or loaded again.
InstalledOnMac ==
    /\ \A s \in Scopes : job[s] = "running" => registered[s]
    /\ \A s \in Scopes : registered[s] => unit[s]
    /\ \A t \in Terminals :
          /\ At(t, "remove") /\ MayWrite(cmd[t].caller, cmd[t].scope) =>
                ~registered[cmd[t].scope]
          /\ At(t, "bootstrap") => ~registered[cmd[t].scope]
          /\ At(t, "kickstart") /\ cmd[t].op \in Installing => registered[cmd[t].scope]

InstalledInv ==
    /\ AloneInv
    /\ Never({"manager", "overlap"}) /\ ~SplitRights =>
          IF Linux THEN InstalledOnLinux ELSE InstalledOnMac

\* And what status finds does run, but for a command in its window.
TruthInv ==
    /\ InstalledInv
    /\ Never({"kill", "manager", "overlap", "term"}) /\ ~SplitRights =>
          \A s \in Scopes : unit[s] /\ job[s] # "running" => SomeoneIsInWindow(s)
-----------------------------------------------------------------------------
(* Types.                                                                  *)

\* The platform does not change, nor do the programs.
LEMMA SamePrograms ==
    ASSUME UNCHANGED world
    PROVE  /\ Linux' = Linux /\ Faults' = Faults /\ SplitRights' = SplitRights
           /\ \A op, q : Remains(op, q)' <=> Remains(op, q)
           /\ \A op, q : Remains(op, q) => Remains(op, q)'
           /\ \A c : GoodCommand(c)' <=> GoodCommand(c)
<1>1. \A op, q : Remains(op, q)' <=> Remains(op, q)
  BY DEF Remains, Suffix, Program, AfterStatus, Install, Uninstall, Restart
<1>2. Linux' = Linux /\ Faults' = Faults /\ SplitRights' = SplitRights
  BY DEF SplitRights
<1>3. \A c : GoodCommand(c)' <=> GoodCommand(c)
  BY <1>1 DEF GoodCommand
<1>4. QED BY <1>1, <1>2, <1>3

\* A world's components have their types.
LEMMA WorldParts ==
    ASSUME TypeInv
    PROVE  /\ world \in WorldType /\ Linux \in BOOLEAN
           /\ world.callers \subseteq Callers /\ world.scopes \subseteq Scopes
  BY DEF TypeInv, TypeOK, WorldType

\* What a command under way has before it.
LEMMA UnderWay ==
    ASSUME TypeInv, NEW t \in Terminals, InUse(t)
    PROVE  /\ cmd[t] \in CommandType
           /\ cmd[t].op \in Commands /\ cmd[t].caller \in world.callers
           /\ cmd[t].caller \in Callers /\ cmd[t].scope \in Scopes
           /\ cmd[t].result = "none"
           /\ Remains(cmd[t].op, cmd[t].todo)
           /\ cmd[t].todo \in Seq(StepNames)
           /\ cmd[t].todo # <<>>
           /\ Len(cmd[t].todo) \in Nat \ {0}
           /\ Head(cmd[t].todo) = cmd[t].todo[1]
<1>1. /\ cmd[t] \in CommandType
      /\ cmd[t].op \in Commands /\ cmd[t].caller \in world.callers
      /\ cmd[t].caller \in Callers /\ cmd[t].scope \in Scopes
      /\ cmd[t].result = "none" /\ Remains(cmd[t].op, cmd[t].todo)
      /\ cmd[t].todo \in Seq(StepNames) /\ cmd[t].todo # <<>>
  BY DEF TypeInv, TypeOK, GoodCommand, CommandType
<1>2. Len(cmd[t].todo) \in Nat \ {0} /\ Head(cmd[t].todo) = cmd[t].todo[1]
  BY <1>1
<1>3. QED BY <1>1, <1>2

\* An idle terminal is well-formed.
LEMMA IdleIsGood ==
    ASSUME NEW r \in Results
    PROVE  /\ GoodCommand(Idle(r))
           /\ Idle(r) \in CommandType
           /\ Idle(r).op = "none" /\ Idle(r).result = r
  BY DEF GoodCommand, Idle, CommandType, Callers, Scopes

\* The commands stay well-formed if the one that changes is.
LEMMA OneChanges ==
    ASSUME TypeInv, UNCHANGED world, NEW t \in Terminals, NEW c,
           cmd' = [cmd EXCEPT ![t] = c], GoodCommand(c)
    PROVE  /\ cmd' \in [Terminals -> CommandType]
           /\ cmd'[t] = c
           /\ \A u \in Terminals \ {t} : cmd'[u] = cmd[u]
           /\ \A u \in Terminals : GoodCommand(cmd[u])'
<1>1. /\ cmd' \in [Terminals -> CommandType]
      /\ cmd'[t] = c
      /\ \A u \in Terminals \ {t} : cmd'[u] = cmd[u]
  BY DEF TypeInv, GoodCommand
<1>2. ASSUME NEW u \in Terminals PROVE GoodCommand(cmd[u])'
  <2>1. GoodCommand(cmd'[u])
    BY <1>1 DEF TypeInv
  <2>2. QED BY <2>1, SamePrograms DEF GoodCommand
<1>3. QED BY <1>1, <1>2

\* A command that goes on, or ends with its last call.
LEMMA GoesOn ==
    ASSUME TypeInv, UNCHANGED world, NEW t \in Terminals, InUse(t), Proceed(t)
    PROVE  /\ cmd' \in [Terminals -> CommandType]
           /\ \A u \in Terminals : GoodCommand(cmd[u])'
           /\ \A u \in Terminals \ {t} : cmd'[u] = cmd[u]
           /\ Len(cmd[t].todo) = 1 => cmd'[t] = Idle("ok")
           /\ Len(cmd[t].todo) # 1 =>
                 /\ cmd'[t] = [cmd[t] EXCEPT !.todo = Tail(cmd[t].todo)]
                 /\ cmd'[t].op = cmd[t].op /\ cmd'[t].caller = cmd[t].caller
                 /\ cmd'[t].scope = cmd[t].scope /\ cmd'[t].result = "none"
                 /\ Len(cmd'[t].todo) = Len(cmd[t].todo) - 1
                 /\ cmd'[t].todo[1] = cmd[t].todo[2]
<1> DEFINE q    == cmd[t].todo
           rest == Tail(q)
           c    == IF rest = <<>> THEN Idle("ok") ELSE [cmd[t] EXCEPT !.todo = rest]
<1>1. /\ q \in Seq(StepNames) /\ q # <<>> /\ cmd[t] \in CommandType
      /\ Remains(cmd[t].op, q) /\ cmd[t].op \in Commands
      /\ cmd[t].caller \in world.callers /\ cmd[t].result = "none"
  BY UnderWay
<1>2. rest \in Seq(StepNames) /\ Len(rest) = Len(q) - 1 /\ Len(q) \in Nat /\ Len(rest) \in Nat
  BY <1>1
<1>3. rest = <<>> <=> Len(q) = 1
  <2>1. Len(<<>>) = 0 /\ \A r \in Seq(StepNames) : r # <<>> => Len(r) \in Nat \ {0}
    BY EmptySeq
  <2>2. (rest = <<>> => Len(rest) = 0) /\ (rest # <<>> => Len(rest) # 0)
    BY <1>2, <2>1
  <2> HIDE DEF rest
  <2>3. QED BY <1>2, <2>2
<1>4. cmd' = [cmd EXCEPT ![t] = c]
  BY DEF Proceed, TypeInv
<1>5. CASE rest = <<>>
  <2>1. c = Idle("ok") /\ GoodCommand(c)
    BY <1>5, IdleIsGood DEF Results
  <2>2. QED BY <1>3, <1>4, <1>5, <2>1, OneChanges
<1>6. CASE rest # <<>>
  <2>1. \A p : Suffix(q, p) => Suffix(rest, p) /\ rest[1] = q[2]
    <3> SUFFICES ASSUME NEW p, Suffix(q, p) PROVE Suffix(rest, p) /\ rest[1] = q[2]
      OBVIOUS
    <3>1. Len(p) \in Nat
      BY <1>2 DEF Suffix
    <3>2. QED BY <1>6, <3>1, SuffixTail
  <2>2. Remains(cmd[t].op, rest) /\ rest[1] = q[2]
    BY <1>1, <2>1 DEF Remains
  <2>3. /\ c \in CommandType /\ c.op = cmd[t].op /\ c.caller = cmd[t].caller
        /\ c.scope = cmd[t].scope /\ c.result = "none" /\ c.todo = rest
        /\ c = [cmd[t] EXCEPT !.todo = rest]
    BY <1>1, <1>2, <1>6 DEF CommandType
  <2>4. GoodCommand(c)
    BY <1>1, <1>6, <2>2, <2>3 DEF GoodCommand, Commands
  <2>5. cmd' \in [Terminals -> CommandType] /\ cmd'[t] = c
        /\ (\A u \in Terminals \ {t} : cmd'[u] = cmd[u])
        /\ \A u \in Terminals : GoodCommand(cmd[u])'
    BY <1>4, <2>4, OneChanges
  <2> HIDE DEF c
  <2>6. QED BY <1>2, <1>3, <1>6, <2>2, <2>3, <2>5
<1>7. QED BY <1>5, <1>6

\* A command that ends at once.
LEMMA Ends ==
    ASSUME TypeInv, UNCHANGED world, NEW t \in Terminals, NEW r \in Results,
           cmd' = [cmd EXCEPT ![t] = Idle(r)]
    PROVE  /\ cmd' \in [Terminals -> CommandType]
           /\ \A u \in Terminals : GoodCommand(cmd[u])'
           /\ \A u \in Terminals \ {t} : cmd'[u] = cmd[u]
           /\ cmd'[t] = Idle(r) /\ cmd'[t].op = "none" /\ cmd'[t].result = r
<1>1. GoodCommand(Idle(r)) /\ Idle(r).op = "none" /\ Idle(r).result = r
  BY IdleIsGood
<1>2. QED BY <1>1, OneChanges

\* The parts of the type invariant, put together.
LEMMA TypeFromParts ==
    ASSUME TypeInv, UNCHANGED world,
           cmd' \in [Terminals -> CommandType], \A u \in Terminals : GoodCommand(cmd[u])',
           unit' \in [Scopes -> BOOLEAN], registered' \in [Scopes -> BOOLEAN],
           job' \in [Scopes -> Jobs], stale' \in [Scopes -> BOOLEAN]
    PROVE  TypeInv'
<1>1. world' \in Worlds
  BY DEF TypeInv, TypeOK
<1>2. \A t \in Terminals :
        /\ cmd'[t].op \in Commands \cup {"none"}
        /\ cmd'[t].caller \in Callers
        /\ cmd'[t].scope \in Scopes
        /\ cmd'[t].result \in Results
        /\ cmd'[t].op # "none" <=> cmd'[t].todo # <<>>
  BY DEF GoodCommand, CommandType
<1>3. TypeOK'
  BY <1>1, <1>2 DEF TypeOK
<1>4. QED BY <1>3 DEF TypeInv

\* What a call of a manager leaves well-typed.
LEMMA CallType ==
    ASSUME TypeInv, NEW step, NEW s \in Scopes, Call(step, s)
    PROVE  /\ unit' = unit
           /\ registered' \in [Scopes -> BOOLEAN]
           /\ job' \in [Scopes -> Jobs] /\ stale' \in [Scopes -> BOOLEAN]
<1>1. /\ unit \in [Scopes -> BOOLEAN] /\ registered \in [Scopes -> BOOLEAN]
      /\ job \in [Scopes -> Jobs] /\ stale \in [Scopes -> BOOLEAN]
  BY DEF TypeInv, TypeOK
<1>2. CASE Enable(s) \/ Disable(s) \/ SystemdRestart(s)
  BY <1>1, <1>2 DEF Enable, Disable, SystemdRestart, Started, Stopped, Jobs
<1>3. CASE Bootout(s) \/ Bootstrap(s) \/ Kickstart(s)
  BY <1>1, <1>3 DEF Bootout, Bootstrap, Kickstart, Started, Jobs
<1>4. CASE UNCHANGED manager
  BY <1>1, <1>4
<1>5. QED BY <1>2, <1>3, <1>4 DEF Call

\* A program as a whole is an end of itself.
LEMMA WholeProgram ==
    /\ \A op \in Commands : Remains(op, Program(op)) /\ Program(op) # <<>>
    /\ \A op \in {"init", "update"} :
          Remains(op, AfterStatus(op)) /\ AfterStatus(op) # <<>>
<1>1. ASSUME NEW p \in Seq(StepNames), Len(p) \in Nat \ {0} PROVE Suffix(p, p) /\ p # <<>>
  <2>1. p # <<>>
    BY <1>1
  <2>2. \A i \in 1..Len(p) : i + (Len(p) - Len(p)) = i
    BY <1>1
  <2>3. Suffix(p, p)
    BY <1>1, <2>2 DEF Suffix
  <2>4. QED BY <2>1, <2>3
<1>2. /\ Install \in Seq(StepNames) /\ Len(Install) \in Nat \ {0}
      /\ Uninstall \in Seq(StepNames) /\ Len(Uninstall) \in Nat \ {0}
      /\ Restart \in Seq(StepNames) /\ Len(Restart) \in Nat \ {0}
  BY InstallCalls, UninstallCalls, RestartCalls
<1>3. \A op \in Commands : Program(op) \in Seq(StepNames) /\ Len(Program(op)) \in Nat \ {0}
  <2>1. Program("wizard") \in Seq(StepNames) /\ Len(Program("wizard")) \in Nat \ {0}
    BY ProgramCalls
  <2>2. \A op \in {"init", "update"} :
          Program(op) \in Seq(StepNames) /\ Len(Program(op)) \in Nat \ {0}
    BY ProgramCalls
  <2>3. \A op \in {"start", "stop"} :
          Program(op) \in Seq(StepNames) /\ Len(Program(op)) \in Nat \ {0}
    BY <1>2, ProgramCalls
  <2>4. QED BY <2>1, <2>2, <2>3 DEF Commands
<1>4. \A op \in {"init", "update"} :
        AfterStatus(op) \in Seq(StepNames) /\ Len(AfterStatus(op)) \in Nat \ {0}
  <2>1. AfterStatus("init") \in Seq(StepNames) /\ Len(AfterStatus("init")) \in Nat \ {0}
    <3>1. AfterStatus("init") \in Seq(StepNames) /\ Len(AfterStatus("init")) = 8
      BY AfterStatusCalls
    <3>2. QED BY <3>1
  <2>2. AfterStatus("update") \in Seq(StepNames) /\ Len(AfterStatus("update")) \in Nat \ {0}
    BY <1>2, AfterStatusCalls
  <2>3. QED BY <2>1, <2>2
<1>5. QED BY <1>1, <1>3, <1>4 DEF Remains

\* The first state has its types.
LEMMA InitType == Init => TypeInv
<1> SUFFICES ASSUME Init PROVE TypeInv
  OBVIOUS
<1>1. /\ unit \in [Scopes -> BOOLEAN] /\ registered \in [Scopes -> BOOLEAN]
      /\ job \in [Scopes -> Jobs] /\ stale \in [Scopes -> BOOLEAN]
  BY DEF Init, Jobs
<1>2. cmd \in [Terminals -> CommandType] /\ \A t \in Terminals : GoodCommand(cmd[t])
  BY IdleIsGood DEF Init, Results
<1>3. TypeOK
  BY <1>1, <1>2 DEF Init, TypeOK, GoodCommand, CommandType
<1>4. QED BY <1>2, <1>3 DEF TypeInv

\* A command given.
LEMMA BeginType ==
    ASSUME TypeInv, UNCHANGED world, NEW t \in Terminals, NEW op \in Commands,
           NEW c \in world.callers, NEW s \in world.scopes, Begin(t, op, c, s)
    PROVE  /\ TypeInv'
           /\ \A u \in Terminals \ {t} : cmd'[u] = cmd[u]
           /\ cmd'[t] = [op |-> op, caller |-> c, scope |-> s, todo |-> Program(op), result |-> "none"]
<1> DEFINE n == [op |-> op, caller |-> c, scope |-> s, todo |-> Program(op), result |-> "none"]
<1>1. n \in CommandType /\ n.op # "none" /\ n.todo # <<>> /\ Remains(n.op, n.todo)
  BY WholeProgram, WorldParts DEF CommandType, Results, Commands, Remains, Suffix
<1>2. GoodCommand(n)
  BY <1>1 DEF GoodCommand
<1>3. cmd' = [cmd EXCEPT ![t] = n] /\ UNCHANGED manager
  BY DEF Begin
<1>4. QED BY <1>2, <1>3, OneChanges, TypeFromParts DEF TypeInv, TypeOK

\* A step of a command other than a call of a manager.
LEMMA OwnStepType ==
    ASSUME TypeInv, UNCHANGED world, NEW t \in Terminals,
           Guard(t) \/ WriteUnit(t) \/ RemoveUnit(t) \/ Save(t) \/ Kill(t)
    PROVE  TypeInv'
<1>1. /\ unit \in [Scopes -> BOOLEAN] /\ registered \in [Scopes -> BOOLEAN]
      /\ job \in [Scopes -> Jobs] /\ stale \in [Scopes -> BOOLEAN]
  BY DEF TypeInv, TypeOK
<1>2. /\ InUse(t)
      /\ \/ Proceed(t)
         \/ Fail(t)
         \/ cmd' = [cmd EXCEPT ![t] = Idle("killed")]
  BY DEF Guard, WriteUnit, RemoveUnit, Save, Kill, At
<1>3. cmd' \in [Terminals -> CommandType] /\ \A u \in Terminals : GoodCommand(cmd[u])'
  <2>1. CASE Proceed(t) BY <1>2, <2>1, GoesOn
  <2>2. CASE Fail(t) \/ cmd' = [cmd EXCEPT ![t] = Idle("killed")]
    BY <2>2, Ends DEF Fail, Results
  <2>3. QED BY <1>2, <2>1, <2>2
<1>4. /\ unit' \in [Scopes -> BOOLEAN] /\ registered' \in [Scopes -> BOOLEAN]
      /\ job' \in [Scopes -> Jobs] /\ stale' \in [Scopes -> BOOLEAN]
  BY <1>1 DEF Guard, WriteUnit, RemoveUnit, Save, Kill
<1>5. QED BY <1>3, <1>4, TypeFromParts

\* What Status finds is a scope, and one at most.
LEMMA FoundScope ==
    ASSUME NEW c, NEW s, s \in Installed(c)
    PROVE  /\ Installed(c) = {s} /\ s \in Scopes /\ unit[s]
           /\ s = "user" => ~unit["system"] /\ ResolvesUser(c)
  BY DEF Installed, Scopes

\* Status ends the command or sets it to what it found.
LEMMA StatusStep ==
    ASSUME TypeInv, UNCHANGED world, NEW t \in Terminals, Status(t)
    PROVE  /\ TypeInv'
           /\ cmd[t].op \in {"init", "update"}
           /\ \A u \in Terminals \ {t} : cmd'[u] = cmd[u]
           /\ \/ cmd'[t] = Idle("ok") /\ Installed(cmd[t].caller) = {}
              \/ \E s \in Installed(cmd[t].caller) :
                    /\ cmd'[t] = [cmd[t] EXCEPT !.scope = s, !.todo = AfterStatus(cmd[t].op)]
                    /\ cmd'[t].op = cmd[t].op /\ cmd'[t].caller = cmd[t].caller
                    /\ cmd'[t].scope = s /\ cmd'[t].todo = AfterStatus(cmd[t].op)
<1> DEFINE found == Installed(cmd[t].caller)
           after == AfterStatus(cmd[t].op)
<1>1. /\ InUse(t) /\ cmd[t] \in CommandType /\ cmd[t].op \in Commands
      /\ cmd[t].caller \in world.callers /\ cmd[t].result = "none"
      /\ Remains(cmd[t].op, cmd[t].todo) /\ cmd[t].todo[1] = "status"
  BY UnderWay DEF Status, At
<1>2. cmd[t].op \in {"init", "update"}
  BY <1>1, LinuxPlaces, MacPlaces
<1>3. after # <<>> /\ Remains(cmd[t].op, after) /\ after \in Seq(StepNames)
  BY <1>2, WholeProgram DEF Remains, Suffix
<1>4. /\ unit' \in [Scopes -> BOOLEAN] /\ registered' \in [Scopes -> BOOLEAN]
      /\ job' \in [Scopes -> Jobs] /\ stale' \in [Scopes -> BOOLEAN]
  BY DEF TypeInv, TypeOK, Status
<1>5. CASE found = {}
  <2>1. cmd' = [cmd EXCEPT ![t] = Idle("ok")]
    BY <1>5 DEF Status
  <2>2. cmd'[t] = Idle("ok") /\ TypeInv' /\ \A u \in Terminals \ {t} : cmd'[u] = cmd[u]
    BY <1>4, <2>1, Ends, TypeFromParts DEF Results
  <2>3. QED BY <1>2, <1>5, <2>2
<1>6. CASE found # {}
  <2>1. PICK s : s \in found
    BY <1>6
  <2>2. found = {s} /\ s \in Scopes
    BY <2>1, FoundScope
  <2>3. (CHOOSE x \in found : TRUE) = s
    BY <2>2
  <2> DEFINE n == [cmd[t] EXCEPT !.scope = s, !.todo = after]
  <2>4. cmd' = [cmd EXCEPT ![t] = n]
    BY <1>3, <1>6, <2>3 DEF Status
  <2>5. n \in CommandType /\ n.op = cmd[t].op /\ n.caller = cmd[t].caller /\ n.scope = s
        /\ n.todo = after /\ n.result = "none"
    BY <1>1, <1>3, <2>2 DEF CommandType
  <2>6. GoodCommand(n)
    BY <1>1, <1>3, <2>5 DEF GoodCommand
  <2>7. cmd'[t] = n /\ TypeInv' /\ \A u \in Terminals \ {t} : cmd'[u] = cmd[u]
    BY <1>4, <2>4, <2>6, OneChanges, TypeFromParts
  <2> HIDE DEF n
  <2>8. QED BY <1>2, <2>1, <2>5, <2>7 DEF n
<1>7. QED BY <1>5, <1>6

\* The command at t has one call fewer before it.
Moved(t) ==
    /\ cmd'[t].op = cmd[t].op /\ cmd'[t].caller = cmd[t].caller
    /\ cmd'[t].scope = cmd[t].scope
    /\ Len(cmd[t].todo) \in Nat \ {0, 1}
    /\ Len(cmd'[t].todo) = Len(cmd[t].todo) - 1
    /\ Head(cmd'[t].todo) = cmd[t].todo[2]

\* Proceed either moves a command on or ends it.
LEMMA MovedOrEnded ==
    ASSUME TypeInv, UNCHANGED world, NEW t \in Terminals, InUse(t), Proceed(t)
    PROVE  /\ \A u \in Terminals \ {t} : cmd'[u] = cmd[u]
           /\ \/ Moved(t)
              \/ Len(cmd[t].todo) = 1 /\ cmd'[t] = Idle("ok") /\ cmd'[t].op = "none"
<1>1. Len(cmd[t].todo) \in Nat \ {0} /\ cmd[t].op \in Commands
  BY UnderWay
<1>2. Idle("ok").op = "none"
  BY DEF Idle
<1>3. CASE Len(cmd[t].todo) = 1
  BY <1>2, <1>3, GoesOn
<1>4. CASE Len(cmd[t].todo) # 1
  <2>1. /\ \A u \in Terminals \ {t} : cmd'[u] = cmd[u]
        /\ cmd'[t].op = cmd[t].op /\ cmd'[t].caller = cmd[t].caller
        /\ cmd'[t].scope = cmd[t].scope
        /\ Len(cmd'[t].todo) = Len(cmd[t].todo) - 1
        /\ cmd'[t].todo[1] = cmd[t].todo[2]
        /\ cmd' \in [Terminals -> CommandType]
    BY <1>4, GoesOn
  <2>2. cmd'[t].todo \in Seq(StepNames) /\ Len(cmd'[t].todo) \in Nat \ {0}
    BY <1>1, <1>4, <2>1 DEF CommandType
  <2>3. Head(cmd'[t].todo) = cmd'[t].todo[1]
    BY <2>2
  <2>4. QED BY <1>1, <1>4, <2>1, <2>3 DEF Moved
<1>5. QED BY <1>3, <1>4

\* A call of a manager, whatever becomes of it.
LEMMA CallStepType ==
    ASSUME TypeInv, UNCHANGED world, NEW t \in Terminals,
           CallWorks(t) \/ CallAstray(t) \/ CallFails(t)
    PROVE  TypeInv' /\ InUse(t) /\ UNCHANGED unit
<1>1. InUse(t) /\ (Proceed(t) \/ Fail(t)) /\ cmd[t].scope \in Scopes
  BY DEF CallWorks, CallAstray, CallFails, At, TypeInv, TypeOK
<1>2. cmd' \in [Terminals -> CommandType] /\ \A u \in Terminals : GoodCommand(cmd[u])'
  <2>1. CASE Proceed(t) BY <1>1, <2>1, GoesOn
  <2>2. CASE Fail(t) BY <2>2, Ends DEF Fail, Results
  <2>3. QED BY <1>1, <2>1, <2>2
<1>3. /\ unit' = unit /\ registered' \in [Scopes -> BOOLEAN]
      /\ job' \in [Scopes -> Jobs] /\ stale' \in [Scopes -> BOOLEAN]
  <2>1. CASE CallWorks(t)
    <3>1. PICK step \in ManagerCalls : Call(step, cmd[t].scope)
      BY <2>1 DEF CallWorks
    <3>2. QED BY <1>1, <3>1, CallType
  <2>2. CASE CallAstray(t) \/ CallFails(t)
    BY <2>2 DEF CallAstray, CallFails, TypeInv, TypeOK
  <2>3. QED BY <2>1, <2>2
<1>4. unit' \in [Scopes -> BOOLEAN]
  BY <1>3 DEF TypeInv, TypeOK
<1>5. QED BY <1>1, <1>2, <1>3, <1>4, TypeFromParts

\* What a step of a command does to the commands.
LEMMA StepShape ==
    ASSUME TypeInv, UNCHANGED world, NEW t \in Terminals, Step(t)
    PROVE  /\ TypeInv' /\ InUse(t)
           /\ \A u \in Terminals \ {t} : cmd'[u] = cmd[u]
           /\ Status(t) \/ Moved(t) \/ cmd'[t].op = "none"
<1>1. CASE Status(t)
  BY <1>1, StatusStep DEF Status, At
<1>2. CASE CallWorks(t) \/ CallAstray(t) \/ CallFails(t)
  <2>1. TypeInv' /\ InUse(t) /\ (Proceed(t) \/ Fail(t))
    BY <1>2, CallStepType DEF CallWorks, CallAstray, CallFails
  <2>2. QED BY <2>1, MovedOrEnded, Ends DEF Fail, Results
<1>3. CASE Guard(t) \/ WriteUnit(t) \/ RemoveUnit(t) \/ Save(t) \/ Kill(t)
  <2>1. /\ InUse(t)
        /\ Proceed(t) \/ Fail(t) \/ cmd' = [cmd EXCEPT ![t] = Idle("killed")]
    BY <1>3 DEF Guard, WriteUnit, RemoveUnit, Save, Kill, At
  <2>2. TypeInv'
    BY <1>3, OwnStepType
  <2>3. QED BY <2>1, <2>2, MovedOrEnded, Ends DEF Fail, Results
<1>4. QED BY <1>1, <1>2, <1>3 DEF Step

\* A step of a service's process.
LEMMA ProcessType ==
    ASSUME TypeInv, UNCHANGED world, NEW s \in Scopes, Left(s) \/ Crash(s) \/ Term(s)
    PROVE  /\ TypeInv' /\ UNCHANGED <<unit, registered, cmd>>
           /\ \A x \in Scopes : stale'[x] => stale[x]
<1>1. /\ unit \in [Scopes -> BOOLEAN] /\ registered \in [Scopes -> BOOLEAN]
      /\ job \in [Scopes -> Jobs] /\ stale \in [Scopes -> BOOLEAN]
      /\ cmd \in [Terminals -> CommandType]
  BY DEF TypeInv, TypeOK
<1>2. UNCHANGED <<unit, registered, cmd>> /\ (Started(s) \/ Stopped(s))
  BY DEF Left, Crash, Term
<1>3. job' \in [Scopes -> Jobs] /\ stale' \in [Scopes -> BOOLEAN]
      /\ stale' = [stale EXCEPT ![s] = FALSE]
  BY <1>1, <1>2 DEF Started, Stopped, Jobs
<1>4. \A x \in Scopes : stale'[x] => stale[x]
  BY <1>1, <1>3
<1>5. \A u \in Terminals : GoodCommand(cmd[u])'
  BY <1>2, SamePrograms DEF TypeInv, GoodCommand
<1>6. QED BY <1>1, <1>2, <1>3, <1>4, <1>5, TypeFromParts

\* The machine restarts.
LEMMA RebootType ==
    ASSUME TypeInv, UNCHANGED world, Reboot
    PROVE  TypeInv' /\ \A t \in Terminals : cmd'[t].op = "none"
<1>1. cmd' = [t \in Terminals |-> Idle("killed")]
  BY DEF Reboot
<1>2. GoodCommand(Idle("killed")) /\ Idle("killed") \in CommandType /\ Idle("killed").op = "none"
  BY IdleIsGood DEF Results
<1>3. cmd' \in [Terminals -> CommandType] /\ \A t \in Terminals : cmd'[t].op = "none"
  BY <1>1, <1>2
<1>4. ASSUME NEW u \in Terminals PROVE GoodCommand(cmd[u])'
  BY <1>1, <1>2, SamePrograms DEF GoodCommand
<1>5. /\ unit' \in [Scopes -> BOOLEAN] /\ registered' \in [Scopes -> BOOLEAN]
      /\ job' \in [Scopes -> Jobs] /\ stale' \in [Scopes -> BOOLEAN]
  BY DEF Reboot, TypeInv, TypeOK, Jobs
<1>6. QED BY <1>3, <1>4, <1>5, TypeFromParts

\* Every step keeps the types.
LEMMA NextType == TypeInv /\ [Next]_vars => TypeInv'
<1> SUFFICES ASSUME TypeInv, [Next]_vars PROVE TypeInv'
  OBVIOUS
<1>1. CASE UNCHANGED vars
  <2>1. \A u \in Terminals : GoodCommand(cmd[u])'
    BY <1>1, SamePrograms DEF TypeInv, GoodCommand
  <2>2. QED BY <1>1, <2>1, TypeFromParts DEF TypeInv, TypeOK
<1>2. CASE Next
  <2>1. UNCHANGED world BY <1>2 DEF Next
  <2>2. ASSUME NEW t \in Terminals, NEW op \in Commands, NEW c \in world.callers,
               NEW s \in world.scopes, Begin(t, op, c, s)
        PROVE  TypeInv'
    BY <2>1, <2>2, BeginType
  <2>3. ASSUME NEW t \in Terminals, Step(t) PROVE TypeInv'
    BY <2>1, <2>3, StepShape
  <2>4. ASSUME NEW s \in Scopes, Left(s) \/ Crash(s) \/ Term(s) PROVE TypeInv'
    BY <2>1, <2>4, ProcessType
  <2>5. CASE Reboot
    BY <2>1, <2>5, RebootType
  <2>6. QED BY <1>2, <2>2, <2>3, <2>4, <2>5 DEF Next, Act
<1>3. QED BY <1>1, <1>2

\* The types hold in every state of every machine.
THEOREM ServiceTypeCorrect == Spec => []TypeOK
<1>1. TypeInv => TypeOK BY DEF TypeInv
<1>2. QED BY <1>1, InitType, NextType, PTL DEF Spec
-----------------------------------------------------------------------------
(* Commands one at a time.                                                 *)

\* The world's conditions do not change.
LEMMA SameWorld ==
    ASSUME UNCHANGED world
    PROVE  /\ \A f : Never(f)' <=> Never(f)
           /\ SplitRights' <=> SplitRights
           /\ \A c, s : Reaches(c, s)' <=> Reaches(c, s)
           /\ Linux' <=> Linux
  BY DEF Never, SplitRights, Reaches

\* While one command is under way, its steps leave the others idle.
LEMMA StillAlone ==
    ASSUME AloneInv, UNCHANGED world, Never({"overlap"}), NEW t \in Terminals, InUse(t),
           \A u \in Terminals \ {t} : cmd'[u] = cmd[u]
    PROVE  /\ Alone'
           /\ \A u \in Terminals \ {t} : ~InUse(u) /\ ~InUse(u)' /\ ~Changing(u)'
<1>1. \A u \in Terminals \ {t} : ~InUse(u)
  BY DEF AloneInv, Alone
<1>2. \A u \in Terminals \ {t} : ~InUse(u)'
  BY <1>1
<1>3. QED BY <1>1, <1>2 DEF Alone, Changing

\* What the parts of AloneInv say of an idle terminal, or of one whose command
\* has not come to the managers.
LEMMA IdleIsAlone ==
    ASSUME NEW t \in Terminals, ~Changing(t)'
    PROVE  OnTarget(t)' /\ WrittenStays(t)' /\ StoppedIsNotStale(t)'
  BY DEF OnTarget, WrittenStays, StoppedIsNotStale

\* Up to Status, init and update never have six calls before them.
LEMMA ProgramLengths ==
    ASSUME NEW op \in {"init", "update"}, NEW q, Suffix(q, Program(op)), Len(q) = 6
    PROVE  FALSE
<1>1. Len(q) = 2 \/ Len(q) = 1 BY ChangeEnds
<1>2. QED BY <1>1

\* The sixth call from the end of init's Uninstall and Install removes.
LEMMA ReplaceSixth ==
    ASSUME NEW q, Suffix(q, AfterStatus("init")), Len(q) = 6
    PROVE  q[1] = "remove"
<1>1. CASE Linux
  <2>1. \/ Len(q) = 6 /\ q[1] = "remove"
        \/ Len(q) = 8
        \/ Len(q) = 7
        \/ Len(q) = 5
        \/ Len(q) = 4
        \/ Len(q) = 3
        \/ Len(q) = 2
        \/ Len(q) = 1
    BY <1>1, LinuxReplace
  <2>2. QED BY <2>1
<1>2. CASE ~Linux
  <2>1. \/ Len(q) = 6 /\ q[1] = "remove"
        \/ Len(q) = 8
        \/ Len(q) = 7
        \/ Len(q) = 5
        \/ Len(q) = 4
        \/ Len(q) = 3
        \/ Len(q) = 2
        \/ Len(q) = 1
    BY <1>2, MacReplace
  <2>2. QED BY <2>1
<1>3. QED BY <1>1, <1>2

\* Where a unit is written and removed.
LEMMA WriteAndRemovePlaces ==
    ASSUME NEW op \in Commands, NEW q, Remains(op, q)
    PROVE  /\ q[1] = "write" => (Len(q) = 3 \/ Len(q) = 4) /\ op # "update" /\ op # "stop"
           /\ q[1] = "remove" => op # "update" /\ (op = "init" => Len(q) = 6)
<1>1. CASE Linux
  <2>1. /\ q[1] = "write" => op \in Installing /\ Len(q) = 3
        /\ q[1] = "remove" => (op = "stop" /\ Len(q) = 2) \/ (op = "init" /\ Len(q) = 6)
    BY <1>1, LinuxPlaces
  <2>2. CASE q[1] = "write" BY <2>1, <2>2 DEF Installing
  <2>3. CASE q[1] = "remove" BY <2>1, <2>3
  <2>4. QED BY <2>2, <2>3
<1>2. CASE ~Linux
  <2>1. /\ q[1] = "write" => op \in Installing /\ Len(q) = 4
        /\ q[1] = "remove" => (op = "stop" /\ Len(q) = 1) \/ (op = "init" /\ Len(q) = 6)
    BY <1>2, MacPlaces
  <2>2. CASE q[1] = "write" BY <2>1, <2>2 DEF Installing
  <2>3. CASE q[1] = "remove" BY <2>1, <2>3
  <2>4. QED BY <2>2, <2>3
<1>3. QED BY <1>1, <1>2

\* What the next call of the command at t does when the command goes on.
Effect(t) ==
    LET next == cmd[t].todo[1]
        c    == cmd[t].caller
        s    == cmd[t].scope
    IN  \/ next = "guard" /\ UNCHANGED manager
        \/ /\ next = "write"
           /\ MayWrite(c, s)
           /\ unit' = [unit EXCEPT ![s] = TRUE]
           /\ UNCHANGED <<registered, job, stale>>
        \/ /\ next = "remove"
           /\ MayWrite(c, s) \/ ~unit[s]
           /\ unit' = [unit EXCEPT ![s] = FALSE]
           /\ UNCHANGED <<registered, job, stale>>
        \/ next = "save" /\ UNCHANGED <<unit, registered, job>>
        \/ next \in ManagerCalls /\ Reaches(c, s) /\ Call(next, s) /\ UNCHANGED unit
        \/ next = "reload" /\ UNCHANGED manager
        \/ /\ next \in BestEffort
           /\ ~Reaches(c, s) \/ ~CanCall(next, s) \/ "manager" \in Faults
           /\ UNCHANGED manager

\* Why it fails otherwise.
Refused(t) ==
    LET next == cmd[t].todo[1]
        c    == cmd[t].caller
        s    == cmd[t].scope
    IN  \/ next = "guard" /\ s = "user" /\ ~ResolvesUser(c)
        \/ next = "write" /\ ~MayWrite(c, s)
        \/ next = "remove" /\ ~MayWrite(c, s) /\ unit[s]
        \/ /\ next \in ManagerCalls \ BestEffort
           /\ ~Reaches(c, s) \/ ~CanCall(next, s) \/ "manager" \in Faults

\* The ways a step of a command may go.
LEMMA StepKinds ==
    ASSUME TypeInv, UNCHANGED world, NEW t \in Terminals, Step(t), ~Status(t)
    PROVE  /\ Remains(cmd[t].op, cmd[t].todo) /\ cmd[t].op \in Commands /\ InUse(t)
           /\ cmd[t].scope \in Scopes /\ cmd[t].caller \in world.callers
           /\ cmd[t].todo \in Seq(StepNames)
           /\ Head(cmd[t].todo) = cmd[t].todo[1]
           /\ \A step : At(t, step) <=> step = cmd[t].todo[1]
           /\ \/ Effect(t) /\ Proceed(t)
              \/ Fail(t) /\ Refused(t) /\ UNCHANGED manager
              \/ Kill(t)
<1>1. /\ Remains(cmd[t].op, cmd[t].todo) /\ cmd[t].op \in Commands /\ InUse(t)
      /\ cmd[t].scope \in Scopes /\ cmd[t].caller \in world.callers
      /\ cmd[t].todo \in Seq(StepNames) /\ cmd[t].todo # <<>>
      /\ Head(cmd[t].todo) = cmd[t].todo[1]
  BY UnderWay, StepShape
<1>2. \A step : At(t, step) <=> step = cmd[t].todo[1]
  BY <1>1 DEF At
<1>3. CASE Guard(t)
  BY <1>1, <1>2, <1>3 DEF Guard, Effect, Refused
<1>4. CASE Save(t)
  BY <1>1, <1>2, <1>4 DEF Save, Effect
<1>5. CASE WriteUnit(t)
  BY <1>1, <1>2, <1>5 DEF WriteUnit, Effect, Refused
<1>6. CASE RemoveUnit(t)
  BY <1>1, <1>2, <1>6 DEF RemoveUnit, Effect, Refused
<1>7. CASE CallWorks(t)
  <2>1. cmd[t].todo[1] \in ManagerCalls /\ Call(cmd[t].todo[1], cmd[t].scope)
        /\ Reaches(cmd[t].caller, cmd[t].scope) /\ Proceed(t)
    BY <1>2, <1>7 DEF CallWorks
  <2>2. UNCHANGED unit
    BY <1>7, CallStepType
  <2>3. QED BY <1>1, <1>2, <2>1, <2>2 DEF Effect
<1>8. CASE CallAstray(t)
  BY <1>1, <1>2, <1>8 DEF CallAstray, Effect
<1>9. CASE CallFails(t)
  <2>1. /\ cmd[t].todo[1] \in ManagerCalls /\ UNCHANGED manager
        /\ \/ ~Reaches(cmd[t].caller, cmd[t].scope)
           \/ ~CanCall(cmd[t].todo[1], cmd[t].scope)
           \/ "manager" \in Faults
        /\ IF cmd[t].todo[1] \in BestEffort THEN Proceed(t) ELSE Fail(t)
    BY <1>2, <1>9 DEF CallFails
  <2>2. QED BY <1>1, <1>2, <2>1 DEF Effect, Refused
<1>10. QED BY <1>1, <1>2, <1>3, <1>4, <1>5, <1>6, <1>7, <1>8, <1>9 DEF Step

\* What the step was that moved a command on.
LEMMA MovedBy ==
    ASSUME TypeInv, UNCHANGED world, NEW t \in Terminals, Step(t), Moved(t), ~Status(t)
    PROVE  /\ Remains(cmd[t].op, cmd[t].todo) /\ cmd[t].op \in Commands /\ InUse(t)
           /\ cmd[t].scope \in Scopes /\ cmd[t].caller \in world.callers
           /\ cmd[t].todo \in Seq(StepNames)
           /\ Head(cmd[t].todo) = cmd[t].todo[1]
           /\ \A step : At(t, step) <=> step = cmd[t].todo[1]
           /\ Effect(t) /\ Proceed(t)
<1>1. ~Fail(t) /\ ~Kill(t)
  <2>1. cmd'[t].op # "none"
    BY StepKinds DEF Moved, Commands
  <2>2. QED BY <2>1, Ends DEF Fail, Kill, Results
<1>2. QED BY <1>1, StepKinds

\* init and update have been at the managers once they have gone on there.
LEMMA StillChanging ==
    ASSUME TypeInv, UNCHANGED world, NEW t \in Terminals, Step(t), Moved(t), ~Status(t),
           Changing(t)'
    PROVE  /\ Changing(t) \/ cmd[t].op = "wizard"
           /\ cmd[t].op = "init" /\ Len(cmd[t].todo) = 6 => cmd[t].todo[1] = "remove"
<1>1. /\ Remains(cmd[t].op, cmd[t].todo) /\ cmd[t].op \in Commands
      /\ Head(cmd[t].todo) = cmd[t].todo[1] /\ InUse(t)
      /\ \A step : At(t, step) <=> step = cmd[t].todo[1]
  BY MovedBy
<1>2. cmd[t].todo[1] # "status"
  <2>1. cmd[t].todo[1] = "status" => Len(cmd[t].todo) = 1
    BY <1>1, LinuxPlaces, MacPlaces
  <2>2. QED BY <2>1 DEF Moved
<1>3. cmd[t].todo[1] = "save" => cmd[t].op = "wizard"
  <2>1. cmd[t].todo[1] = "save" => cmd[t].op = "wizard" \/ cmd[t].todo[2] = "status"
    BY <1>1, LinuxPlaces, MacPlaces
  <2>2. cmd[t].todo[2] # "status"
    BY DEF Moved, Changing
  <2>3. QED BY <2>1, <2>2
<1>4. cmd[t].op = "init" /\ Len(cmd[t].todo) = 6 => cmd[t].todo[1] = "remove"
  <2> SUFFICES ASSUME cmd[t].op = "init", Len(cmd[t].todo) = 6
               PROVE  cmd[t].todo[1] = "remove"
    OBVIOUS
  <2>1. Suffix(cmd[t].todo, Program("init")) \/ Suffix(cmd[t].todo, AfterStatus("init"))
    BY <1>1 DEF Remains
  <2>2. ~Suffix(cmd[t].todo, Program("init"))
    BY ProgramLengths
  <2>3. QED BY <2>1, <2>2, ReplaceSixth
<1>5. QED BY <1>1, <1>2, <1>3, <1>4 DEF Changing

\* OnTarget in parts.
LEMMA OnTargetParts ==
    ASSUME NEW t \in Terminals, OnTarget(t), Changing(t)
    PROVE  /\ cmd[t].op \in {"init", "update"} /\ cmd[t].scope = "user" => ~unit["system"]
           /\ cmd[t].op \in {"init", "update"} /\ cmd[t].scope = "user" =>
                 ResolvesUser(cmd[t].caller)
           /\ cmd[t].op = "update" => unit[cmd[t].scope]
           /\ cmd[t].op = "init" /\ Len(cmd[t].todo) > 5 => unit[cmd[t].scope]
           /\ cmd[t].op = "init" /\ ~(Len(cmd[t].todo) > 5) =>
                 MayWrite(cmd[t].caller, cmd[t].scope)
  BY DEF OnTarget

\* And OnTarget from its parts, in the next state.
LEMMA OnTargetFromParts ==
    ASSUME NEW t \in Terminals,
           cmd'[t].op \in {"init", "update"} /\ cmd'[t].scope = "user" => ~unit'["system"],
           cmd'[t].op \in {"init", "update"} /\ cmd'[t].scope = "user" =>
                 ResolvesUser(cmd'[t].caller),
           cmd'[t].op = "update" => unit'[cmd'[t].scope],
           cmd'[t].op = "init" /\ Len(cmd'[t].todo) > 5 => unit'[cmd'[t].scope],
           cmd'[t].op = "init" /\ ~(Len(cmd'[t].todo) > 5) =>
                 MayWrite(cmd'[t].caller, cmd'[t].scope)
    PROVE  OnTarget(t)'
  BY DEF OnTarget, MayWrite, ResolvesUser

\* Of init's eight calls the first three, up to the removal, are its Uninstall.
LEMMA Counting ==
    ASSUME NEW n \in Nat, NEW m \in Nat, m = n - 1
    PROVE  /\ m > 5 => n > 5
           /\ ~(m > 5) /\ n # 6 => ~(n > 5)
           /\ n = 6 => n > 5 /\ ~(m > 5)
           /\ n = 3 \/ n = 4 => ~(n > 5)
  OBVIOUS

\* A step of the one command keeps its aim.
LEMMA StepOnTarget ==
    ASSUME AloneInv, TypeInv', UNCHANGED world, Never({"overlap"}), NEW t \in Terminals, Step(t)
    PROVE  OnTarget(t)'
<1>1. TypeInv /\ OnTarget(t) /\ unit \in [Scopes -> BOOLEAN]
  BY DEF AloneInv, TypeInv, TypeOK
<1>2. CASE ~Changing(t)'
  BY <1>2, IdleIsAlone
<1>3. CASE Status(t) /\ Changing(t)'
  <2>1. PICK s \in Installed(cmd[t].caller) :
           /\ cmd'[t].op = cmd[t].op /\ cmd'[t].caller = cmd[t].caller
           /\ cmd'[t].scope = s /\ cmd'[t].todo = AfterStatus(cmd[t].op)
    <3>1. cmd'[t] # Idle("ok")
      BY <1>3 DEF Changing, Idle
    <3>2. QED BY <1>1, <1>3, <3>1, StatusStep
  <2>2. unit' = unit /\ unit[s] /\ (s = "user" => ~unit["system"] /\ ResolvesUser(cmd[t].caller))
    BY <1>3, <2>1, FoundScope DEF Status
  <2>3. cmd[t].op = "init" => Len(cmd'[t].todo) = 8
    BY <2>1, AfterStatusCalls
  <2>4. s = "user" => ~unit'["system"] /\ ResolvesUser(cmd'[t].caller)
    BY <2>1, <2>2
  <2>5. unit'[cmd'[t].scope]
    BY <2>1, <2>2
  <2>6. ASSUME cmd'[t].op = "init" PROVE Len(cmd'[t].todo) > 5
    <3>1. Len(cmd'[t].todo) = 8 BY <2>1, <2>3, <2>6
    <3>2. QED BY <3>1
  <2>7. QED BY <2>1, <2>4, <2>5, <2>6, OnTargetFromParts
<1>4. CASE Moved(t) /\ Changing(t)' /\ ~Status(t)
  <2> DEFINE next == cmd[t].todo[1]
  <2>1. /\ Remains(cmd[t].op, cmd[t].todo) /\ cmd[t].op \in Commands
        /\ cmd[t].scope \in Scopes
    BY <1>1, <1>4, MovedBy
  <2>2. /\ cmd[t].op \in {"init", "update"} => Changing(t)
        /\ cmd[t].op = "init" /\ Len(cmd[t].todo) = 6 => next = "remove"
    BY <1>1, <1>4, StillChanging
  <2>3. /\ cmd'[t].op = cmd[t].op /\ cmd'[t].caller = cmd[t].caller
        /\ cmd'[t].scope = cmd[t].scope
        /\ Len(cmd'[t].todo) > 5 => Len(cmd[t].todo) > 5
        /\ ~(Len(cmd'[t].todo) > 5) /\ Len(cmd[t].todo) # 6 => ~(Len(cmd[t].todo) > 5)
    <3>1. /\ Len(cmd[t].todo) \in Nat /\ Len(cmd'[t].todo) = Len(cmd[t].todo) - 1
          /\ cmd'[t].op = cmd[t].op /\ cmd'[t].caller = cmd[t].caller
          /\ cmd'[t].scope = cmd[t].scope
      BY <1>4 DEF Moved
    <3>2. Len(cmd[t].todo) \in Nat \ {0} /\ Len(cmd'[t].todo) \in Nat
      BY <1>4, <3>1 DEF Moved
    <3>3. QED BY <3>1, <3>2, Counting
  <2>4. /\ next = "write" => ~(Len(cmd[t].todo) > 5) /\ cmd[t].op # "update"
        /\ next = "remove" => cmd[t].op # "update"
        /\ next = "remove" /\ cmd[t].op = "init" => Len(cmd[t].todo) > 5 /\ ~(Len(cmd'[t].todo) > 5)
    <3>1. CASE next = "write"
      <4>1. Len(cmd[t].todo) = 3 \/ Len(cmd[t].todo) = 4
        BY <2>1, <3>1, WriteAndRemovePlaces
      <4>2. /\ Len(cmd[t].todo) \in Nat /\ Len(cmd'[t].todo) \in Nat
            /\ Len(cmd'[t].todo) = Len(cmd[t].todo) - 1
        BY <1>4 DEF Moved
      <4>3. ~(Len(cmd[t].todo) > 5)
        BY <4>1, <4>2, Counting
      <4>4. QED BY <2>1, <3>1, <4>3, WriteAndRemovePlaces
    <3>2. CASE next = "remove" /\ cmd[t].op = "init"
      <4>1. Len(cmd[t].todo) = 6
        BY <2>1, <3>2, WriteAndRemovePlaces
      <4>2. Len(cmd'[t].todo) = 5
        BY <1>4, <4>1 DEF Moved
      <4>3. Len(cmd[t].todo) > 5 /\ ~(Len(cmd'[t].todo) > 5)
        BY <4>1, <4>2
      <4>4. QED BY <3>2, <4>3
    <3>3. QED BY <2>1, <3>1, <3>2, WriteAndRemovePlaces
  <2>5. CASE next = "write" /\ unit' = [unit EXCEPT ![cmd[t].scope] = TRUE]
    <3>1. unit'["system"] => unit["system"] \/ cmd[t].scope = "system"
      BY <1>1, <2>5 DEF Scopes
    <3>2. cmd'[t].op \in {"init", "update"} /\ cmd'[t].scope = "user" => ~unit'["system"]
      BY <1>1, <2>2, <2>3, OnTargetParts, <3>1
    <3>3. cmd'[t].op \in {"init", "update"} /\ cmd'[t].scope = "user" => ResolvesUser(cmd'[t].caller)
      BY <1>1, <2>2, <2>3, OnTargetParts
    <3>4. cmd'[t].op = "update" => unit'[cmd'[t].scope]
      BY <2>3, <2>4, <2>5
    <3>5. cmd'[t].op = "init" /\ Len(cmd'[t].todo) > 5 => unit'[cmd'[t].scope]
      BY <2>3, <2>4, <2>5
    <3>6. cmd'[t].op = "init" /\ ~(Len(cmd'[t].todo) > 5) => MayWrite(cmd'[t].caller, cmd'[t].scope)
      BY <1>1, <2>2, <2>3, OnTargetParts, <2>4, <2>5
    <3>7. QED BY <3>2, <3>3, <3>4, <3>5, <3>6, OnTargetFromParts
  <2>6. CASE /\ next = "remove" /\ unit' = [unit EXCEPT ![cmd[t].scope] = FALSE]
             /\ MayWrite(cmd[t].caller, cmd[t].scope) \/ ~unit[cmd[t].scope]
    <3>1. unit'["system"] => unit["system"]
      BY <1>1, <2>6 DEF Scopes
    <3>2. cmd'[t].op \in {"init", "update"} /\ cmd'[t].scope = "user" => ~unit'["system"]
      BY <1>1, <2>2, <2>3, OnTargetParts, <3>1
    <3>3. cmd'[t].op \in {"init", "update"} /\ cmd'[t].scope = "user" => ResolvesUser(cmd'[t].caller)
      BY <1>1, <2>2, <2>3, OnTargetParts
    <3>4. cmd'[t].op = "update" => unit'[cmd'[t].scope]
      BY <2>3, <2>4, <2>6
    <3>5. cmd'[t].op = "init" /\ Len(cmd'[t].todo) > 5 => unit'[cmd'[t].scope]
      BY <2>3, <2>4, <2>6
    <3>6. cmd'[t].op = "init" /\ ~(Len(cmd'[t].todo) > 5) => MayWrite(cmd'[t].caller, cmd'[t].scope)
      BY <1>1, <2>2, <2>3, OnTargetParts, <2>4, <2>6
    <3>7. QED BY <3>2, <3>3, <3>4, <3>5, <3>6, OnTargetFromParts
  <2>7. CASE next # "remove" /\ unit' = unit
    <3>1. cmd'[t].op \in {"init", "update"} /\ cmd'[t].scope = "user" => ~unit'["system"]
      BY <1>1, <2>2, <2>3, OnTargetParts, <2>7
    <3>2. cmd'[t].op \in {"init", "update"} /\ cmd'[t].scope = "user" => ResolvesUser(cmd'[t].caller)
      BY <1>1, <2>2, <2>3, OnTargetParts
    <3>3. cmd'[t].op = "update" => unit'[cmd'[t].scope]
      BY <1>1, <2>2, <2>3, OnTargetParts, <2>7
    <3>4. cmd'[t].op = "init" /\ Len(cmd'[t].todo) > 5 => unit'[cmd'[t].scope]
      BY <1>1, <2>2, <2>3, OnTargetParts, <2>7
    <3>5. cmd'[t].op = "init" /\ ~(Len(cmd'[t].todo) > 5) => MayWrite(cmd'[t].caller, cmd'[t].scope)
      BY <1>1, <2>2, <2>3, OnTargetParts, <2>7
    <3>6. QED BY <3>1, <3>2, <3>3, <3>4, <3>5, OnTargetFromParts
  <2>8. \/ next = "write" /\ unit' = [unit EXCEPT ![cmd[t].scope] = TRUE]
        \/ /\ next = "remove" /\ unit' = [unit EXCEPT ![cmd[t].scope] = FALSE]
           /\ MayWrite(cmd[t].caller, cmd[t].scope) \/ ~unit[cmd[t].scope]
        \/ next # "remove" /\ unit' = unit
    BY <1>1, <1>4, MovedBy DEF ManagerCalls, BestEffort, Effect
  <2>9. QED BY <2>5, <2>6, <2>7, <2>8
<1>5. QED BY <1>1, <1>2, <1>3, <1>4, StepShape DEF Changing

\* The call before the last two, or on macOS three, of Install writes.
LEMMA LastCalls ==
    ASSUME NEW op \in Installing, NEW q, Remains(op, q), q[1] \notin {"save", "status"},
           Len(q) = IF Linux THEN 3 ELSE 4
    PROVE  q[1] = "write"
<1>1. op = "start" \/ op = "wizard" \/ op = "init"
  BY DEF Installing
<1>2. CASE Linux
  <2>1. CASE op = "start"
    <3>1. \/ Len(q) = 3 /\ q[1] = "write"
          \/ Len(q) = 4
          \/ Len(q) = 2
          \/ Len(q) = 1
      BY <1>2, <2>1, ProgramCalls, LinuxInstall DEF Remains
    <3>2. QED BY <1>2, <3>1
  <2>2. CASE op = "wizard"
    <3>1. \/ Len(q) = 3 /\ q[1] = "write"
          \/ Len(q) = 5
          \/ Len(q) = 4
          \/ Len(q) = 2
          \/ Len(q) = 1
      BY <1>2, <2>2, LinuxWizard DEF Remains
    <3>2. QED BY <1>2, <3>1
  <2>3. CASE op = "init" /\ Suffix(q, AfterStatus(op))
    <3>1. \/ Len(q) = 3 /\ q[1] = "write"
          \/ Len(q) = 8
          \/ Len(q) = 7
          \/ Len(q) = 6
          \/ Len(q) = 5
          \/ Len(q) = 4
          \/ Len(q) = 2
          \/ Len(q) = 1
      BY <1>2, <2>3, LinuxReplace
    <3>2. QED BY <1>2, <3>1
  <2>4. CASE op = "init" /\ Suffix(q, Program(op))
    BY <2>4, ChangeEnds
  <2>5. QED BY <1>1, <2>1, <2>2, <2>3, <2>4 DEF Remains
<1>3. CASE ~Linux
  <2>1. CASE op = "start"
    <3>1. \/ Len(q) = 4 /\ q[1] = "write"
          \/ Len(q) = 5
          \/ Len(q) = 3
          \/ Len(q) = 2
          \/ Len(q) = 1
      BY <1>3, <2>1, ProgramCalls, MacInstall DEF Remains
    <3>2. QED BY <1>3, <3>1
  <2>2. CASE op = "wizard"
    <3>1. \/ Len(q) = 4 /\ q[1] = "write"
          \/ Len(q) = 6
          \/ Len(q) = 5
          \/ Len(q) = 3
          \/ Len(q) = 2
          \/ Len(q) = 1
      BY <1>3, <2>2, MacWizard DEF Remains
    <3>2. QED BY <1>3, <3>1
  <2>3. CASE op = "init" /\ Suffix(q, AfterStatus(op))
    <3>1. \/ Len(q) = 4 /\ q[1] = "write"
          \/ Len(q) = 8
          \/ Len(q) = 7
          \/ Len(q) = 6
          \/ Len(q) = 5
          \/ Len(q) = 3
          \/ Len(q) = 2
          \/ Len(q) = 1
      BY <1>3, <2>3, MacReplace
    <3>2. QED BY <1>3, <3>1
  <2>4. CASE op = "init" /\ Suffix(q, Program(op))
    BY <2>4, ChangeEnds
  <2>5. QED BY <1>1, <2>1, <2>2, <2>3, <2>4 DEF Remains
<1>4. QED BY <1>2, <1>3

\* start and the wizard remove nothing.
LEMMA NoRemoval ==
    ASSUME NEW op \in {"start", "wizard"}, NEW q, Remains(op, q)
    PROVE  q[1] # "remove"
<1>1. op \in Commands BY DEF Commands
<1>2. CASE Linux
  <2>1. q[1] = "remove" => (op = "stop" /\ Len(q) = 2) \/ (op = "init" /\ Len(q) = 6)
    BY <1>1, <1>2, LinuxPlaces
  <2>2. QED BY <2>1
<1>3. CASE ~Linux
  <2>1. q[1] = "remove" => (op = "stop" /\ Len(q) = 1) \/ (op = "init" /\ Len(q) = 6)
    BY <1>1, <1>3, MacPlaces
  <2>2. QED BY <2>1
<1>4. QED BY <1>2, <1>3

\* On Linux the seventh call from the end of init disables.
LEMMA SeventhCall ==
    ASSUME Linux, NEW q, Remains("init", q), Len(q) = 7
    PROVE  q[1] = "disable"
<1>1. ~Suffix(q, Program("init"))
  <2> SUFFICES ASSUME Suffix(q, Program("init")) PROVE FALSE
    OBVIOUS
  <2>1. Len(q) = 2 \/ Len(q) = 1 BY ChangeEnds
  <2>2. QED BY <2>1
<1>2. Suffix(q, AfterStatus("init"))
  BY <1>1 DEF Remains
<1>3. \/ Len(q) = 7 /\ q[1] = "disable"
      \/ Len(q) = 8
      \/ Len(q) = 6
      \/ Len(q) = 5
      \/ Len(q) = 4
      \/ Len(q) = 3
      \/ Len(q) = 2
      \/ Len(q) = 1
  BY <1>2, LinuxReplace
<1>4. QED BY <1>3

\* One more or one fewer.
LEMMA Thresholds ==
    ASSUME NEW n \in Nat, NEW m \in Nat, m = n - 1, NEW k \in Nat
    PROVE  /\ m <= k => n <= k \/ n = k + 1
           /\ m < k => n < k \/ n = k
           /\ n <= k /\ k < 6 => n # 6
  OBVIOUS

\* A step of the one command keeps what Install has written.
LEMMA StepWritten ==
    ASSUME AloneInv, TypeInv', UNCHANGED world, Never({"overlap"}), NEW t \in Terminals, Step(t)
    PROVE  WrittenStays(t)'
<1>1. TypeInv /\ WrittenStays(t) /\ unit \in [Scopes -> BOOLEAN]
  BY DEF AloneInv, TypeInv, TypeOK
<1>2. CASE ~Changing(t)'
  BY <1>2, IdleIsAlone
<1>3. CASE Status(t) /\ Changing(t)'
  <2>1. PICK s \in Installed(cmd[t].caller) :
           cmd'[t].op = cmd[t].op /\ cmd'[t].todo = AfterStatus(cmd[t].op)
    <3>1. cmd'[t] # Idle("ok")
      BY <1>3 DEF Changing, Idle
    <3>2. QED BY <1>1, <1>3, <3>1, StatusStep
  <2>2. ASSUME cmd'[t].op \in Installing PROVE ~(Len(cmd'[t].todo) <= IF Linux' THEN 2 ELSE 3)
    <3>1. cmd[t].op = "init"
      BY <1>1, <1>3, <2>1, <2>2, StatusStep DEF Installing
    <3>2. Len(cmd'[t].todo) = 8
      BY <2>1, <3>1, AfterStatusCalls
    <3>3. QED BY <3>2
  <2>3. QED BY <2>2 DEF WrittenStays
<1>4. CASE Moved(t) /\ Changing(t)' /\ ~Status(t)
  <2> DEFINE next == cmd[t].todo[1]
             k    == IF Linux THEN 2 ELSE 3
  <2> SUFFICES ASSUME cmd'[t].op \in Installing, Len(cmd'[t].todo) <= k
               PROVE  unit'[cmd'[t].scope] /\ MayWrite(cmd'[t].caller, cmd'[t].scope)
    BY DEF WrittenStays, MayWrite, ResolvesUser
  <2>1. /\ Remains(cmd[t].op, cmd[t].todo) /\ cmd[t].op \in Commands
        /\ cmd[t].scope \in Scopes /\ Head(cmd[t].todo) = next /\ InUse(t)
    BY <1>1, <1>4, MovedBy
  <2>2. /\ Len(cmd[t].todo) \in Nat /\ Len(cmd'[t].todo) \in Nat
        /\ Len(cmd'[t].todo) = Len(cmd[t].todo) - 1
        /\ cmd'[t].op = cmd[t].op /\ cmd'[t].caller = cmd[t].caller
        /\ cmd'[t].scope = cmd[t].scope
    BY <1>4 DEF Moved
  <2>3. k \in Nat /\ (Len(cmd[t].todo) <= k \/ Len(cmd[t].todo) = k + 1)
    <3>1. k \in Nat OBVIOUS
    <3> HIDE DEF k
    <3>2. QED BY <2>2, <3>1, Thresholds
  <2>4. next \notin {"save", "status"} /\ Changing(t)
    <3>1. next = "save" => Len(cmd[t].todo) = k + 3 \/ cmd[t].todo[2] = "status"
      <4>1. CASE Linux
        <5>1. next = "save" => Len(cmd[t].todo) = 5 \/ cmd[t].todo[2] = "status"
          BY <2>1, <4>1, LinuxPlaces
        <5>2. QED BY <4>1, <5>1
      <4>2. CASE ~Linux
        <5>1. next = "save" => Len(cmd[t].todo) = 6 \/ cmd[t].todo[2] = "status"
          BY <2>1, <4>2, MacPlaces
        <5>2. QED BY <4>2, <5>1
      <4>3. QED BY <4>1, <4>2
    <3>2. next = "status" => Len(cmd[t].todo) = 1
      BY <2>1, LinuxPlaces, MacPlaces
    <3>3. cmd[t].todo[2] # "status" /\ Len(cmd[t].todo) # 1
      BY <1>4 DEF Moved, Changing
    <3>4. Len(cmd[t].todo) # k + 3
      <4> HIDE DEF k
      <4>1. QED BY <2>2, <2>3
    <3>5. next # "save" /\ next # "status"
      BY <3>1, <3>2, <3>3, <3>4
    <3>6. QED BY <2>1, <3>5 DEF Changing
  <2>5. CASE next = "write"
    <3>1. /\ MayWrite(cmd[t].caller, cmd[t].scope)
          /\ unit' = [unit EXCEPT ![cmd[t].scope] = TRUE]
      BY <1>1, <1>4, <2>5, MovedBy DEF ManagerCalls, BestEffort, Effect
    <3>2. QED BY <1>1, <2>1, <2>2, <3>1
  <2>6. CASE next # "write"
    <3>1. Len(cmd[t].todo) # k + 1
      <4>1. ASSUME Len(cmd[t].todo) = k + 1 PROVE FALSE
        <5>1. Len(cmd[t].todo) = IF Linux THEN 3 ELSE 4
          BY <4>1
        <5>2. QED BY <2>1, <2>2, <2>4, <2>6, <5>1, LastCalls
      <4>2. QED BY <4>1
    <3>2. unit[cmd[t].scope] /\ MayWrite(cmd[t].caller, cmd[t].scope)
      BY <1>1, <2>2, <2>3, <2>4, <3>1 DEF WrittenStays
    <3>3. next # "remove"
      <4>1. next = "remove" => cmd[t].op \in {"stop", "update"} \/ Len(cmd[t].todo) = 6
        <5>1. next = "remove" /\ cmd[t].op = "init" => Len(cmd[t].todo) = 6
          BY <2>1, WriteAndRemovePlaces
        <5>2. next = "remove" => cmd[t].op \notin {"start", "wizard"}
          BY <2>1, NoRemoval
        <5>3. QED BY <2>1, <5>1, <5>2 DEF Commands
      <4>2. Len(cmd[t].todo) # 6
        <5>1. CASE Len(cmd[t].todo) = k + 1 BY <3>1, <5>1
        <5>2. CASE Len(cmd[t].todo) <= k
          <6>1. k = 2 \/ k = 3 OBVIOUS
          <6>2. k < 6 BY <6>1
          <6> HIDE DEF k
          <6>3. QED BY <2>2, <2>3, <5>2, <6>2, Thresholds
        <5>3. QED BY <2>3, <5>1, <5>2
      <4>3. QED BY <2>2, <4>1, <4>2 DEF Installing
    <3>4. unit' = unit
      BY <1>1, <1>4, <2>6, <3>3, MovedBy DEF Effect
    <3>5. QED BY <2>2, <3>2, <3>4
  <2>7. QED BY <2>5, <2>6
<1>5. QED BY <1>1, <1>2, <1>3, <1>4, StepShape DEF Changing

\* A call of a manager makes nothing stale.
LEMMA CallStale ==
    ASSUME TypeInv, NEW step, NEW s \in Scopes, Call(step, s)
    PROVE  /\ \A x \in Scopes : stale'[x] => stale[x]
           /\ step = "disable" => ~stale'[s]
<1>1. stale \in [Scopes -> BOOLEAN]
  BY DEF TypeInv, TypeOK
<1>2. stale' = stale \/ stale' = [stale EXCEPT ![s] = FALSE]
  <2>1. CASE Enable(s) \/ Bootstrap(s)
    BY <2>1 DEF Enable, Bootstrap, Started
  <2>2. CASE Disable(s) \/ SystemdRestart(s) \/ Kickstart(s)
    BY <2>2 DEF Disable, SystemdRestart, Kickstart, Started, Stopped
  <2>3. CASE Bootout(s) \/ UNCHANGED manager
    BY <2>3 DEF Bootout
  <2>4. QED BY <2>1, <2>2, <2>3 DEF Call
<1>3. step = "disable" => stale' = [stale EXCEPT ![s] = FALSE]
  BY DEF Call, Disable, Stopped
<1>4. QED BY <1>1, <1>2, <1>3

\* On Linux, where the calls of systemctl do not fail, what init stopped does
\* not become stale.
LEMMA StepNotStale ==
    ASSUME AloneInv, TypeInv', UNCHANGED world, Never({"overlap"}), Never({"manager"}),
           NEW t \in Terminals, Step(t)
    PROVE  StoppedIsNotStale(t)'
<1>1. TypeInv /\ StoppedIsNotStale(t) /\ OnTarget(t) /\ stale \in [Scopes -> BOOLEAN]
  BY DEF AloneInv, TypeInv, TypeOK
<1>2. CASE ~Changing(t)'
  BY <1>2, IdleIsAlone
<1>3. CASE Status(t) /\ Changing(t)'
  <2>1. PICK s \in Installed(cmd[t].caller) :
           cmd'[t].op = cmd[t].op /\ cmd'[t].todo = AfterStatus(cmd[t].op)
    <3>1. cmd'[t] # Idle("ok")
      BY <1>3 DEF Changing, Idle
    <3>2. QED BY <1>1, <1>3, <3>1, StatusStep
  <2>2. ASSUME cmd'[t].op = "init" PROVE ~(Len(cmd'[t].todo) < 7)
    <3>1. Len(cmd'[t].todo) = 8
      BY <2>1, <2>2, AfterStatusCalls
    <3>2. QED BY <3>1
  <2>3. QED BY <2>2 DEF StoppedIsNotStale
<1>4. CASE Moved(t) /\ Changing(t)' /\ ~Status(t)
  <2> DEFINE next == cmd[t].todo[1]
             s    == cmd[t].scope
  <2>1. /\ Remains(cmd[t].op, cmd[t].todo) /\ s \in Scopes
    BY <1>1, <1>4, MovedBy
  <2>2. /\ Len(cmd[t].todo) \in Nat /\ Len(cmd'[t].todo) \in Nat
        /\ Len(cmd'[t].todo) = Len(cmd[t].todo) - 1
        /\ cmd'[t].op = cmd[t].op /\ cmd'[t].caller = cmd[t].caller
        /\ cmd'[t].scope = s
    BY <1>4 DEF Moved
  <2> SUFFICES ASSUME Linux, cmd[t].op = "init", Reaches(cmd[t].caller, s), Len(cmd'[t].todo) < 7
               PROVE  ~stale'[s]
    BY <2>2, SameWorld DEF StoppedIsNotStale, Reaches
  <2>3. Changing(t)
    BY <1>1, <1>4, StillChanging
  <2>4. Len(cmd[t].todo) < 7 \/ Len(cmd[t].todo) = 7
    BY <2>2, Thresholds
  <2>5. CASE Len(cmd[t].todo) = 7
    <3>1. next = "disable"
      BY <2>1, <2>5, SeventhCall
    <3>2. unit[s]
      <4>1. Len(cmd[t].todo) > 5 BY <2>5
      <4>2. QED BY <1>1, <2>3, <4>1, OnTargetParts
    <3>3. CanCall("disable", s) /\ ~("manager" \in Faults)
      BY <3>2 DEF CanCall, Never
    <3>4. Call("disable", s)
      BY <1>1, <1>4, <3>1, <3>3, MovedBy DEF Effect
    <3>5. QED BY <1>1, <2>1, <3>4, CallStale
  <2>6. CASE Len(cmd[t].todo) < 7
    <3>1. ~stale[s]
      BY <1>1, <2>3, <2>6 DEF StoppedIsNotStale
    <3>2. next # "save"
      BY <2>1, <2>3, <1>1, <1>4, MovedBy DEF Changing
    <3>3. stale' = stale \/ Call(next, s)
      BY <1>1, <1>4, <3>2, MovedBy DEF Effect
    <3>4. QED BY <1>1, <2>1, <3>1, <3>3, CallStale
  <2>7. QED BY <2>4, <2>5, <2>6
<1>5. QED BY <1>1, <1>2, <1>3, <1>4, StepShape DEF Changing

\* A command is given while no other is under way.
LEMMA BeginAlone ==
    ASSUME AloneInv, UNCHANGED world, NEW t \in Terminals, NEW op \in Commands,
           NEW c \in world.callers, NEW s \in world.scopes, Begin(t, op, c, s)
    PROVE  AloneInv'
<1>1. TypeInv BY DEF AloneInv
<1>2. /\ TypeInv' /\ \A u \in Terminals \ {t} : cmd'[u] = cmd[u]
      /\ cmd'[t].op = op /\ cmd'[t].todo = Program(op)
  <2>1. /\ TypeInv' /\ \A u \in Terminals \ {t} : cmd'[u] = cmd[u]
        /\ cmd'[t] = [op |-> op, caller |-> c, scope |-> s, todo |-> Program(op), result |-> "none"]
    BY <1>1, BeginType
  <2>2. cmd'[t].op = op /\ cmd'[t].todo = Program(op)
    BY <2>1
  <2>3. QED BY <2>1, <2>2
<1>3. ASSUME Never({"overlap"})
      PROVE  /\ Alone'
             /\ \A u \in Terminals : OnTarget(u)' /\ WrittenStays(u)' /\ StoppedIsNotStale(u)'
  <2>1. Quiet
    BY <1>3 DEF Begin, Never
  <2>2. \A u \in Terminals \ {t} : ~InUse(u)'
    BY <1>2, <2>1 DEF Quiet
  <2>3. \A u \in Terminals \ {t} : ~Changing(u)'
    BY <2>2 DEF Changing
  <2>4. CASE op \in {"init", "update", "wizard"}
    <3>1. Program(op)[1] = "save" /\ Program(op) \in Seq(StepNames) /\ Program(op) # <<>>
      BY <2>4, ProgramCalls, WholeProgram DEF Commands
    <3>2. Head(Program(op)) = "save"
      BY <3>1
    <3>3. ~Changing(t)'
      BY <1>2, <3>2 DEF Changing
    <3>4. QED BY <2>2, <2>3, <3>3, IdleIsAlone DEF Alone
  <2>5. CASE op = "start"
    <3>1. Len(cmd'[t].todo) = IF Linux THEN 4 ELSE 5
      BY <1>2, <2>5, ProgramCalls, InstallCalls
    <3>2. ~(Len(cmd'[t].todo) <= IF Linux' THEN 2 ELSE 3)
      <4>1. CASE Linux
        <5>1. Len(cmd'[t].todo) = 4 BY <3>1, <4>1
        <5>2. QED BY <4>1, <5>1
      <4>2. CASE ~Linux
        <5>1. Len(cmd'[t].todo) = 5 BY <3>1, <4>2
        <5>2. QED BY <4>2, <5>1
      <4>3. QED BY <4>1, <4>2
    <3>3. OnTarget(t)' /\ WrittenStays(t)' /\ StoppedIsNotStale(t)'
      BY <1>2, <2>5, <3>2 DEF OnTarget, WrittenStays, StoppedIsNotStale
    <3>4. QED BY <2>2, <2>3, <3>3, IdleIsAlone DEF Alone
  <2>6. CASE op = "stop"
    <3>1. OnTarget(t)' /\ WrittenStays(t)' /\ StoppedIsNotStale(t)'
      BY <1>2, <2>6 DEF OnTarget, WrittenStays, StoppedIsNotStale, Installing
    <3>2. QED BY <2>2, <2>3, <3>1, IdleIsAlone DEF Alone
  <2>7. QED BY <2>4, <2>5, <2>6 DEF Commands
<1>4. QED BY <1>2, <1>3, SameWorld DEF AloneInv

\* The machine's own steps leave the commands and units, and make nothing stale.
LEMMA ProcessAlone ==
    ASSUME AloneInv, UNCHANGED world, NEW s \in Scopes, Left(s) \/ Crash(s) \/ Term(s)
    PROVE  AloneInv'
<1>1. /\ TypeInv' /\ UNCHANGED <<unit, cmd>>
      /\ \A x \in Scopes : stale'[x] => stale[x]
      /\ \A t \in Terminals : cmd[t].scope \in Scopes
  BY ProcessType DEF AloneInv, TypeInv, TypeOK
<1>2. \A t \in Terminals : (Changing(t)' <=> Changing(t)) /\ (OnTarget(t) => OnTarget(t)')
  BY <1>1 DEF Changing, OnTarget, MayWrite, ResolvesUser
<1>3. \A t \in Terminals : WrittenStays(t) => WrittenStays(t)'
  BY <1>1, <1>2 DEF WrittenStays, MayWrite, ResolvesUser
<1>4. \A t \in Terminals : StoppedIsNotStale(t) => StoppedIsNotStale(t)'
  BY <1>1, <1>2, SameWorld DEF StoppedIsNotStale, Reaches
<1>5. Alone => Alone'
  BY <1>1 DEF Alone
<1>6. QED BY <1>1, <1>2, <1>3, <1>4, <1>5, SameWorld DEF AloneInv

\* Every step keeps AloneInv.
LEMMA NextAlone == AloneInv /\ [Next]_vars => AloneInv'
<1> SUFFICES ASSUME AloneInv, [Next]_vars PROVE AloneInv'
  OBVIOUS
<1>1. CASE UNCHANGED vars
  BY <1>1, NextType DEF AloneInv, Alone, OnTarget, WrittenStays, StoppedIsNotStale, Changing,
     MayWrite, ResolvesUser, Reaches, Never
<1>2. CASE Next
  <2>1. UNCHANGED world /\ TypeInv BY <1>2 DEF Next, AloneInv
  <2>2. ASSUME NEW t \in Terminals, NEW op \in Commands, NEW c \in world.callers,
               NEW s \in world.scopes, Begin(t, op, c, s)
        PROVE  AloneInv'
    BY <2>1, <2>2, BeginAlone
  <2>3. ASSUME NEW t \in Terminals, Step(t) PROVE AloneInv'
    <3>1. TypeInv' /\ InUse(t) /\ \A u \in Terminals \ {t} : cmd'[u] = cmd[u]
      BY <2>1, <2>3, StepShape
    <3>2. ASSUME Never({"overlap"})
          PROVE  /\ Alone'
                 /\ \A u \in Terminals : OnTarget(u)' /\ WrittenStays(u)'
                 /\ Never({"manager"}) => \A u \in Terminals : StoppedIsNotStale(u)'
      <4>1. Alone' /\ \A u \in Terminals \ {t} : ~InUse(u)'
        BY <2>1, <3>1, <3>2, StillAlone
      <4>2. \A u \in Terminals \ {t} : OnTarget(u)' /\ WrittenStays(u)' /\ StoppedIsNotStale(u)'
        BY <4>1, IdleIsAlone DEF Changing
      <4>3. OnTarget(t)' /\ WrittenStays(t)'
        BY <2>1, <2>3, <3>1, <3>2, StepOnTarget, StepWritten
      <4>4. Never({"manager"}) => StoppedIsNotStale(t)'
        BY <2>1, <2>3, <3>1, <3>2, StepNotStale
      <4>5. QED BY <4>1, <4>2, <4>3, <4>4
    <3>3. QED BY <2>1, <3>1, <3>2, SameWorld DEF AloneInv
  <2>4. ASSUME NEW s \in Scopes, Left(s) \/ Crash(s) \/ Term(s) PROVE AloneInv'
    BY <2>1, <2>4, ProcessAlone
  <2>5. CASE Reboot
    <3>1. TypeInv' /\ \A t \in Terminals : ~InUse(t)'
      BY <2>1, <2>5, RebootType
    <3>2. \A t \in Terminals : ~Changing(t)'
      BY <3>1 DEF Changing
    <3>3. QED BY <3>1, <3>2, IdleIsAlone DEF AloneInv, Alone
  <2>6. QED BY <1>2, <2>2, <2>3, <2>4, <2>5 DEF Next, Act
<1>3. QED BY <1>1, <1>2

\* It holds in the first state.
LEMMA InitAlone == Init => AloneInv
<1> SUFFICES ASSUME Init PROVE AloneInv
  OBVIOUS
<1>1. \A t \in Terminals : ~InUse(t)
  BY DEF Init, Idle
<1>2. QED BY <1>1, InitType DEF AloneInv, Alone, OnTarget, WrittenStays, StoppedIsNotStale, Changing
-----------------------------------------------------------------------------
(* What runs is installed.                                                 *)

\* Without sudo and polkit on Linux, who may write a unit reaches its manager.
LEMMA WritersReach ==
    ASSUME TypeInv, ~SplitRights, NEW c \in world.callers, NEW s \in Scopes
    PROVE  MayWrite(c, s) <=> Reaches(c, s)
<1>1. c \in {"user", "polkit", "sudo", "root"} /\ (Linux => c \notin {"sudo", "polkit"})
  BY WorldParts DEF Callers, SplitRights
<1>2. QED BY <1>1 DEF MayWrite, Reaches, ResolvesUser, Scopes

\* Forbidding more faults forbids each of them.
LEMMA NeverMore ==
    /\ Never({"manager", "overlap"}) => Never({"overlap"}) /\ Never({"manager"})
    /\ Never({"kill", "manager", "overlap", "term"}) =>
          /\ Never({"manager", "overlap"}) /\ Never({"kill"}) /\ Never({"term"})
          /\ Never({"overlap"}) /\ Never({"manager"})
  BY DEF Never

\* The next call of an idle terminal is none.
LEMMA IdleIsNowhere ==
    ASSUME NEW t \in Terminals, ~InUse(t)
    PROVE  (\A step : ~At(t, step)) /\ ~InWindow(t)
  BY DEF At, InWindow

\* On Linux: where a command is next, and where it was.
LEMMA LinuxMoves ==
    ASSUME TypeInv, TypeInv', Linux, UNCHANGED world, NEW t \in Terminals, InUse(t), Moved(t)
    PROVE  /\ InUse(t)'
           /\ \A step : At(t, step)' <=> step = cmd[t].todo[2]
           /\ cmd[t].todo[1] = "guard" => cmd[t].todo[2] \in {"write", "disable", "restart"}
           /\ cmd[t].todo[1] = "write" =>
                 cmd[t].op \in Installing /\ cmd[t].todo[2] = "reload" /\ Len(cmd'[t].todo) = 2
           /\ cmd[t].todo[1] = "reload" =>
                 \/ cmd[t].op \in Installing /\ Len(cmd[t].todo) = 2 /\ cmd[t].todo[2] = "enable"
                 \/ cmd[t].op = "init" /\ Len(cmd[t].todo) = 5 /\ cmd[t].todo[2] = "guard"
           /\ cmd[t].todo[1] = "disable" => cmd[t].todo[2] = "remove"
           /\ cmd[t].todo[1] = "remove" => cmd[t].todo[2] = "reload"
           /\ cmd[t].todo[1] = "save" => cmd[t].todo[2] \in {"guard", "status"}
           /\ cmd[t].todo[1] \notin {"enable", "restart", "status", "bootout", "bootstrap", "kickstart"}
<1> DEFINE q == cmd[t].todo
<1>1. Remains(cmd[t].op, q) /\ cmd[t].op \in Commands
  BY UnderWay
<1>2. /\ cmd'[t].op = cmd[t].op /\ Len(q) \in Nat \ {0, 1}
      /\ Len(cmd'[t].todo) = Len(q) - 1 /\ Head(cmd'[t].todo) = q[2]
  BY DEF Moved
<1>3. InUse(t)' /\ cmd'[t].todo # <<>>
  BY <1>1, <1>2 DEF TypeInv, TypeOK, Commands
<1>4. \A step : At(t, step)' <=> step = q[2]
  BY <1>2, <1>3 DEF At
<1>5. Len(q) # 1
  BY <1>2
<1> HIDE DEF q
<1>6. q[1] = "guard" => q[2] \in {"write", "disable", "restart"}
  BY <1>1, LinuxPlaces
<1>7. q[1] = "write" => cmd[t].op \in Installing /\ q[2] = "reload" /\ Len(q) = 3
  BY <1>1, LinuxPlaces
<1>8. q[1] = "reload" =>
        \/ cmd[t].op \in Installing /\ Len(q) = 2 /\ q[2] = "enable"
        \/ cmd[t].op = "stop" /\ Len(q) = 1
        \/ cmd[t].op = "init" /\ Len(q) = 5 /\ q[2] = "guard"
  BY <1>1, LinuxPlaces
<1>9. /\ q[1] = "disable" => q[2] = "remove"
      /\ q[1] = "remove" => q[2] = "reload"
      /\ q[1] = "save" => q[2] \in {"guard", "status"}
      /\ q[1] \notin {"bootout", "bootstrap", "kickstart"}
  BY <1>1, LinuxPlaces
<1>10. /\ q[1] = "enable" => Len(q) = 1
       /\ q[1] = "restart" => Len(q) = 1
       /\ q[1] = "status" => Len(q) = 1
  BY <1>1, LinuxPlaces
<1>11. ASSUME q[1] = "write" PROVE Len(cmd'[t].todo) = 2
  <2>1. Len(q) = 3 BY <1>7, <1>11
  <2>2. QED BY <1>2, <2>1
<1>12. QED BY <1>3, <1>4, <1>5, <1>6, <1>7, <1>8, <1>9, <1>10, <1>11 DEF q

\* The same on macOS.
LEMMA MacMoves ==
    ASSUME TypeInv, TypeInv', ~Linux, UNCHANGED world, NEW t \in Terminals, InUse(t), Moved(t)
    PROVE  /\ InUse(t)'
           /\ \A step : At(t, step)' <=> step = cmd[t].todo[2]
           /\ cmd[t].todo[1] = "guard" =>
                 \/ cmd[t].todo[2] \in {"write", "bootout"}
                    /\ (cmd[t].todo[2] = "bootout" => Len(cmd'[t].todo) # 3)
                 \/ cmd[t].op = "update" /\ cmd[t].todo[2] = "kickstart"
           /\ cmd[t].todo[1] = "write" =>
                 cmd[t].op \in Installing /\ cmd[t].todo[2] = "bootout" /\ Len(cmd'[t].todo) = 3
           /\ cmd[t].todo[1] = "bootout" =>
                 \/ cmd[t].op \in Installing /\ Len(cmd[t].todo) = 3 /\ cmd[t].todo[2] = "bootstrap"
                 \/ cmd[t].op \in {"stop", "init"} /\ Len(cmd[t].todo) # 3 /\ cmd[t].todo[2] = "remove"
           /\ cmd[t].todo[1] = "bootstrap" =>
                 cmd[t].op \in Installing /\ Len(cmd[t].todo) = 2 /\ cmd[t].todo[2] = "kickstart"
           /\ cmd[t].todo[1] = "remove" => cmd[t].todo[2] = "guard"
           /\ cmd[t].todo[1] = "save" => cmd[t].todo[2] \in {"guard", "status"}
           /\ cmd[t].todo[1] \notin {"kickstart", "status", "disable", "reload", "enable", "restart"}
<1> DEFINE q == cmd[t].todo
<1>1. Remains(cmd[t].op, q) /\ cmd[t].op \in Commands
  BY UnderWay
<1>2. /\ cmd'[t].op = cmd[t].op /\ Len(q) \in Nat \ {0, 1}
      /\ Len(cmd'[t].todo) = Len(q) - 1 /\ Head(cmd'[t].todo) = q[2]
  BY DEF Moved
<1>3. InUse(t)' /\ cmd'[t].todo # <<>>
  BY <1>1, <1>2 DEF TypeInv, TypeOK, Commands
<1>4. \A step : At(t, step)' <=> step = q[2]
  BY <1>2, <1>3 DEF At
<1>5. Len(q) # 1
  BY <1>2
<1> HIDE DEF q
<1>6. q[1] = "guard" =>
        \/ cmd[t].op \in Installing /\ Len(q) = 5 /\ q[2] = "write"
        \/ cmd[t].op = "stop" /\ Len(q) = 3 /\ q[2] = "bootout"
        \/ cmd[t].op = "init" /\ Len(q) = 8 /\ q[2] = "bootout"
        \/ cmd[t].op = "update" /\ Len(q) = 2 /\ q[2] = "kickstart"
  BY <1>1, MacPlaces
<1>7. q[1] = "write" => cmd[t].op \in Installing /\ Len(q) = 4 /\ q[2] = "bootout"
  BY <1>1, MacPlaces
<1>8. q[1] = "bootout" =>
        \/ cmd[t].op \in Installing /\ Len(q) = 3 /\ q[2] = "bootstrap"
        \/ cmd[t].op = "stop" /\ Len(q) = 2 /\ q[2] = "remove"
        \/ cmd[t].op = "init" /\ Len(q) = 7 /\ q[2] = "remove"
  BY <1>1, MacPlaces
<1>9. q[1] = "remove" =>
        \/ cmd[t].op = "stop" /\ Len(q) = 1
        \/ cmd[t].op = "init" /\ Len(q) = 6 /\ q[2] = "guard"
  BY <1>1, MacPlaces
<1>10. q[1] = "save" =>
        \/ cmd[t].op = "wizard" /\ Len(q) = 6 /\ q[2] = "guard"
        \/ cmd[t].op \in {"init", "update"} /\ Len(q) = 2 /\ q[2] = "status"
  BY <1>1, MacPlaces
<1>11. /\ q[1] = "bootstrap" => cmd[t].op \in Installing /\ Len(q) = 2 /\ q[2] = "kickstart"
       /\ q[1] = "kickstart" => Len(q) = 1
       /\ q[1] = "status" => Len(q) = 1
       /\ q[1] \notin {"disable", "reload", "enable", "restart"}
  BY <1>1, MacPlaces
<1>12. ASSUME q[1] = "write" PROVE Len(cmd'[t].todo) = 3
  <2>1. Len(q) = 4 BY <1>7, <1>12
  <2>2. QED BY <1>2, <2>1
<1>13. ASSUME q[1] = "guard", q[2] = "bootout" PROVE Len(cmd'[t].todo) # 3
  <2>1. Len(q) = 3 \/ Len(q) = 8 BY <1>6, <1>13
  <2>2. Len(cmd'[t].todo) = 2 \/ Len(cmd'[t].todo) = 7 BY <1>2, <2>1
  <2>3. QED BY <2>2
<1>14. ASSUME q[1] = "bootout", q[2] = "remove"
       PROVE  Len(q) # 3 /\ cmd[t].op \in {"stop", "init"}
  <2>1. /\ Len(q) = 2 \/ Len(q) = 7
        /\ cmd[t].op \in {"stop", "init"}
    BY <1>8, <1>14
  <2>2. QED BY <2>1
<1>15. QED BY <1>3, <1>4, <1>5, <1>6, <1>7, <1>8, <1>9, <1>10, <1>11, <1>12, <1>13, <1>14 DEF q

\* A command in its window on Linux, by its next call.
LEMMA LinuxWindow ==
    ASSUME TypeInv, Linux, NEW t \in Terminals, InUse(t)
    PROVE  InWindow(t) <=>
             /\ MayWrite(cmd[t].caller, cmd[t].scope)
             /\ \/ cmd[t].todo[1] \in {"remove", "enable"}
                \/ cmd[t].todo[1] = "reload" /\ Len(cmd[t].todo) = 2
<1>1. \A step : At(t, step) <=> step = cmd[t].todo[1]
  BY UnderWay DEF At
<1>2. cmd[t].todo[1] \notin {"bootout", "bootstrap", "kickstart"}
  BY UnderWay, LinuxPlaces
<1>3. QED BY <1>1, <1>2 DEF InWindow

\* A command that is refused was in no window.
LEMMA RefusedOutside ==
    ASSUME AloneInv, Never({"manager", "overlap"}), ~SplitRights, Linux,
           NEW t \in Terminals, InUse(t), Refused(t)
    PROVE  ~InWindow(t)
<1>1. TypeInv /\ cmd[t].op \in Commands /\ Remains(cmd[t].op, cmd[t].todo)
      /\ cmd[t].scope \in Scopes /\ cmd[t].caller \in world.callers
      /\ Head(cmd[t].todo) = cmd[t].todo[1]
  BY UnderWay DEF AloneInv
<1>2. MayWrite(cmd[t].caller, cmd[t].scope) <=> Reaches(cmd[t].caller, cmd[t].scope)
  BY <1>1, WritersReach
<1>3. "manager" \notin Faults
  BY DEF Never
<1>4. cmd[t].todo[1] = "enable" => unit[cmd[t].scope]
  <2>1. cmd[t].todo[1] = "enable" => cmd[t].op \in Installing /\ Len(cmd[t].todo) = 1
    BY <1>1, LinuxPlaces
  <2>2. WrittenStays(t)
    BY NeverMore DEF AloneInv
  <2>3. ASSUME cmd[t].todo[1] = "enable" PROVE unit[cmd[t].scope]
    <3>1. Len(cmd[t].todo) = 1 /\ cmd[t].op \in Installing /\ Changing(t)
      BY <1>1, <2>1, <2>3 DEF Changing
    <3>2. Len(cmd[t].todo) <= IF Linux THEN 2 ELSE 3
      BY <3>1
    <3>3. QED BY <2>2, <3>1, <3>2 DEF WrittenStays
  <2>4. QED BY <2>3
<1>5. CASE cmd[t].todo[1] \in {"guard", "write", "remove"}
  BY <1>1, <1>5, LinuxWindow DEF Refused, ManagerCalls
<1>6. CASE cmd[t].todo[1] \in ManagerCalls \ BestEffort
  <2>1. cmd[t].todo[1] \in {"enable", "reload"} => CanCall(cmd[t].todo[1], cmd[t].scope)
    BY <1>4 DEF CanCall
  <2>2. QED BY <1>1, <1>2, <1>3, <1>6, <2>1, LinuxWindow DEF Refused, ManagerCalls
<1>7. QED BY <1>5, <1>6 DEF Refused

\* What runs stays enabled, ...
LEMMA StepRunsEnabled ==
    ASSUME AloneInv, TypeInv', UNCHANGED world, Never({"manager", "overlap"}), ~SplitRights, Linux,
           InstalledOnLinux, Never({"kill"}), NEW t \in Terminals, Step(t)
    PROVE  \A x \in Scopes : job'[x] = "running" => registered'[x]
<1> DEFINE next == cmd[t].todo[1]
           s    == cmd[t].scope
<1>1. /\ TypeInv
      /\ registered \in [Scopes -> BOOLEAN] /\ job \in [Scopes -> Jobs]
      /\ \A x \in Scopes : job[x] = "running" => registered[x]
  BY DEF AloneInv, TypeInv, TypeOK, InstalledOnLinux
<1>2. CASE UNCHANGED <<registered, job>>
  BY <1>1, <1>2
<1>3. CASE ~Status(t) /\ Effect(t) /\ next \in ManagerCalls /\ Call(next, s)
  <2>1. /\ InUse(t) /\ s \in Scopes /\ cmd[t].op \in Commands /\ Remains(cmd[t].op, cmd[t].todo)
        /\ \A u \in Terminals \ {t} : ~InUse(u)
    <3>1. InUse(t) /\ \A u \in Terminals \ {t} : cmd'[u] = cmd[u]
      BY <1>1, StepShape
    <3>2. \A u \in Terminals \ {t} : ~InUse(u)
      BY <3>1, NeverMore, StillAlone
    <3>3. QED BY <1>1, <3>1, <3>2, UnderWay
  <2>2. next \notin {"bootout", "bootstrap", "kickstart"}
    BY <2>1, LinuxPlaces
  <2>3. CASE next = "enable" /\ Enable(s)
    <3>1. /\ registered' = [registered EXCEPT ![s] = TRUE]
          /\ job' = job \/ job' = [job EXCEPT ![s] = "running"]
      BY <2>3 DEF Enable, Started
    <3>2. QED BY <1>1, <2>1, <3>1
  <2>4. CASE next = "disable" /\ Disable(s)
    <3>1. /\ registered' = [registered EXCEPT ![s] = FALSE]
          /\ job' = [job EXCEPT ![s] = "stopped"]
      BY <2>4 DEF Disable, Stopped
    <3>2. QED BY <1>1, <2>1, <3>1
  <2>5. CASE next = "restart" /\ SystemdRestart(s)
    <3>1. unit[s] /\ registered' = registered /\ job' = [job EXCEPT ![s] = "running"]
      BY <2>5 DEF SystemdRestart, Started
    <3>2. ~InWindow(t)
      BY <1>1, <2>1, <2>5, LinuxWindow
    <3>3. registered[s]
      BY <2>1, <3>1, <3>2 DEF InstalledOnLinux, SomeoneIsInWindow
    <3>4. QED BY <1>1, <2>1, <3>1, <3>3
  <2>6. CASE next = "reload" /\ UNCHANGED manager
    BY <1>2, <2>6
  <2>7. QED BY <1>3, <2>2, <2>3, <2>4, <2>5, <2>6 DEF Call, ManagerCalls
<1>4. \/ UNCHANGED <<registered, job>>
      \/ ~Status(t) /\ Effect(t) /\ next \in ManagerCalls /\ Call(next, s)
  <2>1. CASE Status(t) \/ Kill(t)
    BY <2>1 DEF Status, Kill
  <2>2. CASE ~Status(t) /\ ~Kill(t)
    <3>1. Effect(t) \/ UNCHANGED manager
      BY <1>1, <2>2, StepKinds
    <3>2. QED BY <2>2, <3>1 DEF Effect
  <2>3. QED BY <2>1, <2>2
<1>5. QED BY <1>2, <1>3, <1>4

\* ... and a step of a command with systemd keeps the rest.
LEMMA StepInstalledLinux ==
    ASSUME AloneInv, TypeInv', UNCHANGED world, Never({"manager", "overlap"}), ~SplitRights, Linux,
           InstalledOnLinux, NEW t \in Terminals, Step(t)
    PROVE  InstalledOnLinux'
<1> DEFINE next == cmd[t].todo[1]
           s    == cmd[t].scope
           c    == cmd[t].caller
<1>1. /\ TypeInv
      /\ unit \in [Scopes -> BOOLEAN] /\ registered \in [Scopes -> BOOLEAN]
      /\ job \in [Scopes -> Jobs]
  BY DEF AloneInv, TypeInv, TypeOK
<1>2. /\ InUse(t) /\ s \in Scopes /\ c \in world.callers
      /\ \A u \in Terminals \ {t} : cmd'[u] = cmd[u] /\ ~InUse(u) /\ ~InUse(u)'
      /\ \A u \in Terminals \ {t} : (\A step : ~At(u, step) /\ ~At(u, step)') /\ ~InWindow(u)
  <2>1. InUse(t) /\ \A u \in Terminals \ {t} : cmd'[u] = cmd[u]
    BY <1>1, StepShape
  <2>2. \A u \in Terminals \ {t} : ~InUse(u) /\ ~InUse(u)'
    BY <2>1, NeverMore, StillAlone
  <2>3. QED BY <1>1, <2>1, <2>2, IdleIsNowhere, UnderWay DEF At
<1>3. MayWrite(c, s) <=> Reaches(c, s)
  BY <1>1, <1>2, WritersReach
<1>4. Never({"kill"}) => \A x \in Scopes : unit[x] /\ ~registered[x] => x = s /\ InWindow(t)
  BY <1>2 DEF InstalledOnLinux, SomeoneIsInWindow
<1>5. \A step : At(t, step) <=> step = next
  BY <1>1, <1>2, UnderWay DEF At
\* What has to be shown, with the others idle.
<1>6. ASSUME \A x \in Scopes : job'[x] = "running" => unit'[x],
             Never({"kill"}) =>
                \A x \in Scopes : unit'[x] /\ ~registered'[x] =>
                                        InUse(t)' /\ x = cmd'[t].scope /\ InWindow(t)',
             At(t, "remove")' /\ MayWrite(cmd'[t].caller, cmd'[t].scope) =>
                job'[cmd'[t].scope] # "running",
             At(t, "reload")' /\ cmd'[t].op = "stop" => ~unit'[cmd'[t].scope]
      PROVE  InstalledOnLinux'
  <2>1. \A u \in Terminals :
          /\ At(u, "remove")' /\ MayWrite(cmd'[u].caller, cmd'[u].scope) =>
                job'[cmd'[u].scope] # "running"
          /\ At(u, "reload")' /\ cmd'[u].op = "stop" => ~unit'[cmd'[u].scope]
    BY <1>2, <1>6
  <2>2. Never({"kill"})' =>
          \A x \in Scopes :
             /\ unit'[x] /\ ~registered'[x] => SomeoneIsInWindow(x)'
             /\ job'[x] = "running" => registered'[x]
    <3>1. Never({"kill"})' => \A x \in Scopes : unit'[x] /\ ~registered'[x] => SomeoneIsInWindow(x)'
      BY <1>6, SameWorld DEF SomeoneIsInWindow
    <3>2. Never({"kill"})' => \A x \in Scopes : job'[x] = "running" => registered'[x]
      BY StepRunsEnabled, SameWorld
    <3>3. QED BY <3>1, <3>2
  <2>3. QED BY <1>6, <2>1, <2>2 DEF InstalledOnLinux, MayWrite, ResolvesUser
<1>7. CASE Status(t)
  <2>1. UNCHANGED manager /\ next = "status"
    BY <1>5, <1>7 DEF Status
  <2>2. ~InWindow(t)
    BY <1>1, <1>2, <2>1, LinuxWindow
  <2>3. ~At(t, "remove")' /\ ~At(t, "reload")'
    <3>1. CASE cmd'[t] = Idle("ok")
      BY <3>1 DEF At, Idle
    <3>2. CASE cmd'[t].todo = AfterStatus(cmd[t].op) /\ cmd[t].op \in {"init", "update"}
      <4>1. /\ AfterStatus(cmd[t].op)[1] = "guard" /\ AfterStatus(cmd[t].op) \in Seq(StepNames)
            /\ AfterStatus(cmd[t].op) # <<>>
        <5>1. CASE cmd[t].op = "init"
          BY <5>1, AfterStatusCalls, UninstallCalls, WholeProgram
        <5>2. CASE cmd[t].op = "update"
          BY <5>2, AfterStatusCalls, RestartCalls, WholeProgram
        <5>3. QED BY <3>2, <5>1, <5>2
      <4>2. Head(cmd'[t].todo) = "guard"
        BY <3>2, <4>1
      <4>3. QED BY <4>2 DEF At
    <3>3. QED BY <1>1, <1>7, <3>1, <3>2, StatusStep
  <2>4. QED BY <1>4, <1>6, <2>1, <2>2, <2>3 DEF InstalledOnLinux
<1>8. CASE Kill(t)
  <2>1. cmd'[t].op = "none" /\ UNCHANGED manager /\ ~Never({"kill"})
    BY <1>1, <1>8, Ends DEF Kill, Results, Never
  <2>2. ~At(t, "remove")' /\ ~At(t, "reload")'
    BY <2>1 DEF At
  <2>3. QED BY <1>6, <2>1, <2>2 DEF InstalledOnLinux
<1>9. CASE Fail(t) /\ Refused(t) /\ UNCHANGED manager
  <2>1. cmd'[t].op = "none"
    BY <1>1, <1>9, Ends DEF Fail, Results
  <2>2. ~At(t, "remove")' /\ ~At(t, "reload")'
    BY <2>1 DEF At
  <2>3. ~InWindow(t)
    BY <1>2, <1>9, RefusedOutside
  <2>4. QED BY <1>4, <1>6, <1>9, <2>2, <2>3 DEF InstalledOnLinux
<1>10. CASE Effect(t) /\ Proceed(t)
  <2>1. \/ Moved(t)
        \/ Len(cmd[t].todo) = 1 /\ cmd'[t].op = "none"
    BY <1>1, <1>2, <1>10, MovedOrEnded
  <2>2. cmd'[t].op = "none" => ~InUse(t)' /\ \A step : ~At(t, step)'
    BY DEF At
  <2>3. Remains(cmd[t].op, cmd[t].todo) /\ cmd[t].op \in Commands
    BY <1>1, <1>2, UnderWay
  <2>4. InWindow(t) <=>
             /\ MayWrite(c, s)
             /\ \/ next \in {"remove", "enable"}
                \/ next = "reload" /\ Len(cmd[t].todo) = 2
    BY <1>1, <1>2, LinuxWindow
  <2>5. Moved(t) => /\ InUse(t)' /\ cmd'[t].op = cmd[t].op /\ cmd'[t].scope = s /\ cmd'[t].caller = c
                    /\ \A step : At(t, step)' <=> step = cmd[t].todo[2]
    BY <1>1, <1>2, LinuxMoves DEF Moved
  <2>6. Moved(t) /\ MayWrite(c, s) /\
          (\/ cmd[t].todo[2] \in {"remove", "enable"}
           \/ cmd[t].todo[2] = "reload" /\ Len(cmd'[t].todo) = 2) => InWindow(t)'
    BY <2>5 DEF InWindow, MayWrite, ResolvesUser
  <2>7. CASE next \in {"guard", "save"} /\ UNCHANGED <<unit, registered, job>>
    <3>1. Moved(t) => cmd[t].todo[2] \notin {"remove", "reload"}
      BY <1>1, <1>2, <2>7, LinuxMoves
    <3>2. ~At(t, "remove")' /\ ~At(t, "reload")' /\ ~InWindow(t)
      BY <2>1, <2>2, <2>4, <2>5, <2>7, <3>1
    <3>3. QED BY <1>4, <1>6, <2>7, <3>2 DEF InstalledOnLinux
  <2>8. CASE /\ next = "write" /\ MayWrite(c, s) /\ unit' = [unit EXCEPT ![s] = TRUE]
             /\ UNCHANGED <<registered, job, stale>>
    <3>1. Len(cmd[t].todo) = 3
      BY <2>3, <2>8, LinuxPlaces
    <3>2. Moved(t)
      BY <2>1, <3>1
    <3>3. cmd[t].op \in Installing /\ cmd[t].todo[2] = "reload" /\ Len(cmd'[t].todo) = 2
      BY <1>1, <1>2, <2>8, <3>2, LinuxMoves
    <3>4. InWindow(t)' /\ InUse(t)' /\ cmd'[t].scope = s /\ ~At(t, "remove")' /\ cmd'[t].op # "stop"
      BY <2>5, <2>6, <2>8, <3>2, <3>3 DEF Installing
    <3>5. \A x \in Scopes : unit'[x] = (IF x = s THEN TRUE ELSE unit[x])
      BY <1>1, <2>8
    <3>6. Never({"kill"}) => \A x \in Scopes : unit'[x] /\ ~registered'[x] => x = s
      BY <1>4, <2>8, <3>5
    <3>7. \A x \in Scopes : job'[x] = "running" => unit'[x]
      BY <2>8, <3>5 DEF InstalledOnLinux
    <3>8. QED BY <1>6, <3>4, <3>6, <3>7
  <2>9. CASE /\ next = "remove" /\ (MayWrite(c, s) \/ ~unit[s]) /\ unit' = [unit EXCEPT ![s] = FALSE]
             /\ UNCHANGED <<registered, job, stale>>
    <3>1. job[s] # "running"
      BY <1>2, <1>5, <2>9 DEF InstalledOnLinux
    <3>2. \A x \in Scopes : unit'[x] = (IF x = s THEN FALSE ELSE unit[x])
      BY <1>1, <2>9
    <3>3. \A x \in Scopes : job'[x] = "running" => unit'[x]
      BY <2>9, <3>1, <3>2 DEF InstalledOnLinux
    <3>4. Never({"kill"}) => \A x \in Scopes : ~(unit'[x] /\ ~registered'[x])
      BY <1>4, <2>9, <3>2
    <3>5. Moved(t) => cmd[t].todo[2] = "reload"
      BY <1>1, <1>2, <2>9, LinuxMoves
    <3>6. ~At(t, "remove")' /\ (At(t, "reload")' => cmd'[t].scope = s)
      BY <2>1, <2>2, <2>5, <3>5
    <3>7. ~unit'[s]
      BY <1>2, <3>2
    <3>8. QED BY <1>6, <3>3, <3>4, <3>6, <3>7
  <2>10. CASE next = "reload" /\ UNCHANGED manager
    <3>1. Moved(t) => \/ Len(cmd[t].todo) = 2 /\ cmd[t].todo[2] = "enable"
                      \/ cmd[t].todo[2] = "guard"
      BY <1>1, <1>2, <2>10, LinuxMoves
    <3>2. InWindow(t) => Moved(t) /\ cmd[t].todo[2] = "enable" /\ MayWrite(c, s)
      <4>1. ASSUME InWindow(t) PROVE Len(cmd[t].todo) = 2 /\ MayWrite(c, s)
        BY <2>4, <2>10, <4>1
      <4>2. ASSUME InWindow(t) PROVE Moved(t)
        <5>1. Len(cmd[t].todo) = 2 BY <4>1, <4>2
        <5>2. QED BY <2>1, <5>1
      <4>3. ASSUME InWindow(t) PROVE cmd[t].todo[2] = "enable"
        <5>1. Len(cmd[t].todo) = 2 BY <4>1, <4>3
        <5>2. next = "reload" =>
                \/ cmd[t].op \in Installing /\ Len(cmd[t].todo) = 2 /\ cmd[t].todo[2] = "enable"
                \/ cmd[t].op = "stop" /\ Len(cmd[t].todo) = 1
                \/ cmd[t].op = "init" /\ Len(cmd[t].todo) = 5 /\ cmd[t].todo[2] = "guard"
          BY <2>3, LinuxPlaces
        <5>3. QED BY <2>10, <5>1, <5>2
      <4>4. QED BY <4>1, <4>2, <4>3
    <3>3. InWindow(t) => InWindow(t)' /\ InUse(t)' /\ cmd'[t].scope = s
      BY <2>5, <2>6, <3>2
    <3>4. ~At(t, "remove")' /\ ~At(t, "reload")'
      BY <2>1, <2>2, <2>5, <3>1
    <3>5. QED BY <1>4, <1>6, <2>10, <3>3, <3>4 DEF InstalledOnLinux
  <2>11. CASE next = "disable"
    <3>1. Len(cmd[t].todo) = 3 \/ Len(cmd[t].todo) = 7
      BY <2>3, <2>11, LinuxPlaces
    <3>2. Moved(t)
      BY <2>1, <3>1
    <3>3. cmd[t].todo[2] = "remove"
      BY <1>1, <1>2, <2>11, <3>2, LinuxMoves
    <3>4. /\ InUse(t)' /\ cmd'[t].scope = s /\ cmd'[t].caller = c /\ ~At(t, "reload")'
          /\ MayWrite(c, s) => InWindow(t)'
      BY <2>5, <2>6, <3>2, <3>3
    <3>5. CASE Reaches(c, s) /\ Disable(s)
      <4>1. /\ unit' = unit /\ job' = [job EXCEPT ![s] = "stopped"]
            /\ registered' = [registered EXCEPT ![s] = FALSE]
        BY <3>5 DEF Disable, Stopped
      <4>2. \A x \in Scopes : job'[x] = "running" => unit'[x]
        BY <1>1, <1>2, <4>1 DEF InstalledOnLinux
      <4>3. job'[s] # "running"
        BY <1>1, <1>2, <4>1
      <4>4. \A x \in Scopes : registered'[x] = (IF x = s THEN FALSE ELSE registered[x])
        BY <1>1, <4>1
      <4>5. Never({"kill"}) => \A x \in Scopes : unit'[x] /\ ~registered'[x] => x = s
        BY <1>4, <2>4, <2>11, <4>1, <4>4
      <4>6. QED BY <1>3, <1>6, <3>4, <3>5, <4>2, <4>3, <4>5
    <3>6. CASE /\ ~Reaches(c, s) \/ ~CanCall("disable", s) \/ "manager" \in Faults
               /\ UNCHANGED manager
      <4>1. MayWrite(c, s) => ~unit[s]
        BY <1>3, <3>6 DEF CanCall, Never
      <4>2. MayWrite(c, s) => job'[s] # "running"
        BY <1>2, <3>6, <4>1 DEF InstalledOnLinux
      <4>3. Never({"kill"}) => \A x \in Scopes : ~(unit'[x] /\ ~registered'[x])
        BY <1>4, <2>4, <2>11, <3>6
      <4>4. QED BY <1>6, <3>4, <3>6, <4>2, <4>3 DEF InstalledOnLinux
    <3>7. QED BY <1>10, <2>11, <3>5, <3>6 DEF Effect, Call, ManagerCalls, BestEffort
  <2>12. CASE next \in {"enable", "restart"} /\ (Enable(s) \/ SystemdRestart(s))
    <3>1. ~Moved(t)
      BY <1>1, <1>2, <2>12, LinuxMoves
    <3>2. \A step : ~At(t, step)'
      BY <2>1, <2>2, <3>1
    <3>3. unit' = unit /\ unit[s] /\ (job' = job \/ job' = [job EXCEPT ![s] = "running"])
      BY <2>12 DEF Enable, SystemdRestart, Started
    <3>4. \A x \in Scopes : job'[x] = "running" => unit'[x]
      BY <1>1, <1>2, <3>3 DEF InstalledOnLinux
    <3>5. Never({"kill"}) => \A x \in Scopes : ~(unit'[x] /\ ~registered'[x])
      <4>1. CASE Enable(s) /\ next = "enable"
        <5>1. \A x \in Scopes : registered'[x] = (IF x = s THEN TRUE ELSE registered[x])
          BY <1>1, <4>1 DEF Enable
        <5>2. QED BY <1>4, <3>3, <5>1
      <4>2. CASE SystemdRestart(s) /\ next = "restart"
        <5>1. registered' = registered /\ ~InWindow(t)
          BY <2>4, <4>2 DEF SystemdRestart
        <5>2. QED BY <1>4, <3>3, <5>1
      <4>3. QED BY <1>10, <2>12, <4>1, <4>2 DEF Effect, Call, BestEffort
    <3>6. QED BY <1>6, <3>2, <3>4, <3>5
  <2>13. next \notin {"bootout", "bootstrap", "kickstart"}
    BY <2>3, LinuxPlaces
  <2>14. next \in ManagerCalls /\ Call(next, s) => \/ next = "disable"
                                                   \/ next \in {"enable", "restart"} /\ (Enable(s) \/ SystemdRestart(s))
                                                   \/ next = "reload" /\ UNCHANGED manager
    BY <2>13 DEF Call, ManagerCalls
  <2>15. QED BY <1>10, <2>7, <2>8, <2>9, <2>10, <2>11, <2>12, <2>13, <2>14 DEF Effect, BestEffort
<1>11. QED BY <1>1, <1>7, <1>8, <1>9, <1>10, StepKinds

\* A step of a command with launchd keeps what InstalledOnMac says.
LEMMA StepInstalledMac ==
    ASSUME AloneInv, TypeInv', UNCHANGED world, Never({"manager", "overlap"}), ~SplitRights, ~Linux,
           InstalledOnMac, NEW t \in Terminals, Step(t)
    PROVE  InstalledOnMac'
<1> DEFINE next == cmd[t].todo[1]
           s    == cmd[t].scope
           c    == cmd[t].caller
<1>1. /\ TypeInv
      /\ unit \in [Scopes -> BOOLEAN] /\ registered \in [Scopes -> BOOLEAN]
      /\ job \in [Scopes -> Jobs]
  BY DEF AloneInv, TypeInv, TypeOK
<1>2. /\ InUse(t) /\ s \in Scopes /\ c \in world.callers
      /\ cmd[t].op \in Commands /\ Remains(cmd[t].op, cmd[t].todo)
      /\ \A u \in Terminals \ {t} : \A step : ~At(u, step)'
  <2>1. InUse(t) /\ \A u \in Terminals \ {t} : cmd'[u] = cmd[u]
    BY <1>1, StepShape
  <2>2. \A u \in Terminals \ {t} : ~InUse(u)'
    BY <2>1, NeverMore, StillAlone
  <2>3. QED BY <1>1, <2>1, <2>2, UnderWay DEF At
<1>3. (MayWrite(c, s) <=> Reaches(c, s)) /\ "manager" \notin Faults
  BY <1>1, <1>2, WritersReach DEF Never
<1>4. /\ \A x \in Scopes : job[x] = "running" => registered[x]
      /\ \A x \in Scopes : registered[x] => unit[x]
  BY DEF InstalledOnMac
<1>5. \A step : At(t, step) <=> step = next
  BY <1>1, <1>2, UnderWay DEF At
\* What has to be shown, with the others idle.
<1>6. ASSUME \A x \in Scopes : job'[x] = "running" => registered'[x],
             \A x \in Scopes : registered'[x] => unit'[x],
             At(t, "remove")' /\ MayWrite(cmd'[t].caller, cmd'[t].scope) =>
                ~registered'[cmd'[t].scope],
             At(t, "bootstrap")' => ~registered'[cmd'[t].scope],
             At(t, "kickstart")' /\ cmd'[t].op \in Installing => registered'[cmd'[t].scope]
      PROVE  InstalledOnMac'
  <2>1. \A u \in Terminals :
          /\ At(u, "remove")' /\ MayWrite(cmd'[u].caller, cmd'[u].scope) =>
                ~registered'[cmd'[u].scope]
          /\ At(u, "bootstrap")' => ~registered'[cmd'[u].scope]
          /\ At(u, "kickstart")' /\ cmd'[u].op \in Installing => registered'[cmd'[u].scope]
    BY <1>2, <1>6
  <2>2. QED BY <1>6, <2>1 DEF InstalledOnMac, MayWrite, ResolvesUser
<1>7. CASE Status(t)
  <2>1. UNCHANGED manager
    BY <1>7 DEF Status
  <2>2. \A step : At(t, step)' => step = "guard"
    <3>1. CASE cmd'[t] = Idle("ok")
      BY <3>1 DEF At, Idle
    <3>2. CASE cmd'[t].todo = AfterStatus(cmd[t].op) /\ cmd[t].op \in {"init", "update"}
      <4>1. /\ AfterStatus(cmd[t].op)[1] = "guard" /\ AfterStatus(cmd[t].op) \in Seq(StepNames)
            /\ AfterStatus(cmd[t].op) # <<>>
        <5>1. CASE cmd[t].op = "init"
          BY <5>1, AfterStatusCalls, UninstallCalls, WholeProgram
        <5>2. CASE cmd[t].op = "update"
          BY <5>2, AfterStatusCalls, RestartCalls, WholeProgram
        <5>3. QED BY <3>2, <5>1, <5>2
      <4>2. Head(cmd'[t].todo) = "guard"
        BY <3>2, <4>1
      <4>3. QED BY <4>2 DEF At
    <3>3. QED BY <1>1, <1>7, <3>1, <3>2, StatusStep
  <2>3. QED BY <1>4, <1>6, <2>1, <2>2
<1>8. CASE Kill(t) \/ (Fail(t) /\ UNCHANGED manager)
  <2>1. cmd'[t].op = "none" /\ UNCHANGED manager
    BY <1>1, <1>8, Ends DEF Kill, Fail, Results
  <2>2. \A step : ~At(t, step)'
    BY <2>1 DEF At
  <2>3. QED BY <1>4, <1>6, <2>1, <2>2
<1>9. CASE Effect(t) /\ Proceed(t)
  <2>1. Moved(t) \/ \A step : ~At(t, step)'
    <3>1. Moved(t) \/ cmd'[t].op = "none"
      BY <1>1, <1>2, <1>9, MovedOrEnded
    <3>2. QED BY <3>1 DEF At
  <2>2. Moved(t) => /\ cmd'[t].op = cmd[t].op /\ cmd'[t].scope = s /\ cmd'[t].caller = c
                    /\ \A step : At(t, step)' <=> step = cmd[t].todo[2]
    BY <1>1, <1>2, MacMoves DEF Moved
  <2>3. CASE next \in {"guard", "save"} /\ UNCHANGED <<unit, registered, job>>
    <3>1. Moved(t) => /\ cmd[t].todo[2] \notin {"remove", "bootstrap"}
                      /\ cmd[t].todo[2] = "kickstart" => cmd[t].op = "update"
      BY <1>1, <1>2, <2>3, MacMoves
    <3>2. /\ ~At(t, "remove")' /\ ~At(t, "bootstrap")'
          /\ At(t, "kickstart")' => cmd'[t].op \notin Installing
      BY <2>1, <2>2, <3>1 DEF Installing
    <3>3. QED BY <1>4, <1>6, <2>3, <3>2
  <2>4. CASE next = "write" /\ unit' = [unit EXCEPT ![s] = TRUE] /\ UNCHANGED <<registered, job>>
    <3>1. Moved(t) => cmd[t].todo[2] = "bootout"
      BY <1>1, <1>2, <2>4, MacMoves
    <3>2. ~At(t, "remove")' /\ ~At(t, "bootstrap")' /\ ~At(t, "kickstart")'
      BY <2>1, <2>2, <3>1
    <3>3. \A x \in Scopes : unit[x] => unit'[x]
      BY <1>1, <2>4
    <3>4. QED BY <1>4, <1>6, <2>4, <3>2, <3>3
  <2>5. CASE /\ next = "remove" /\ (MayWrite(c, s) \/ ~unit[s]) /\ unit' = [unit EXCEPT ![s] = FALSE]
             /\ UNCHANGED <<registered, job>>
    <3>1. ~registered[s]
      BY <1>2, <1>4, <1>5, <2>5 DEF InstalledOnMac
    <3>2. Moved(t) => cmd[t].todo[2] = "guard"
      BY <1>1, <1>2, <2>5, MacMoves
    <3>3. ~At(t, "remove")' /\ ~At(t, "bootstrap")' /\ ~At(t, "kickstart")'
      BY <2>1, <2>2, <3>2
    <3>4. \A x \in Scopes : registered[x] => unit'[x]
      BY <1>1, <1>4, <2>5, <3>1
    <3>5. QED BY <1>4, <1>6, <2>5, <3>3, <3>4
  <2>6. CASE next = "bootout"
    <3>1. Moved(t) => \/ cmd[t].op \in Installing /\ Len(cmd[t].todo) = 3 /\ cmd[t].todo[2] = "bootstrap"
                      \/ cmd[t].todo[2] = "remove"
      BY <1>1, <1>2, <2>6, MacMoves
    <3>2. /\ ~At(t, "kickstart")'
          /\ At(t, "bootstrap")' => cmd[t].op \in Installing /\ Len(cmd[t].todo) = 3
          /\ At(t, "remove")' \/ At(t, "bootstrap")' => cmd'[t].scope = s /\ cmd'[t].caller = c
      BY <2>1, <2>2, <3>1
    <3>3. CASE Bootout(s)
      <4>1. /\ unit' = unit /\ registered' = [registered EXCEPT ![s] = FALSE]
            /\ job' = [job EXCEPT ![s] = IF @ = "running" THEN "leaving" ELSE @]
        BY <3>3 DEF Bootout
      <4>2. \A x \in Scopes : /\ registered'[x] => registered[x] /\ x # s
                              /\ job'[x] = "running" => job[x] = "running" /\ x # s
        BY <1>1, <4>1
      <4>3. \A x \in Scopes : x # s => registered'[x] = registered[x]
        BY <1>1, <4>1
      <4>4. \A x \in Scopes : job'[x] = "running" => registered'[x]
        BY <1>4, <4>2, <4>3
      <4>5. \A x \in Scopes : registered'[x] => unit'[x]
        BY <1>4, <4>1, <4>2
      <4>6. ~registered'[s]
        BY <1>2, <4>2
      <4>7. QED BY <1>6, <3>2, <4>4, <4>5, <4>6
    <3>4. CASE (~Reaches(c, s) \/ ~CanCall("bootout", s)) /\ UNCHANGED manager
      <4>1. MayWrite(c, s) => ~registered[s]
        BY <1>3, <3>4 DEF CanCall
      <4>2. ASSUME cmd[t].op \in Installing, Len(cmd[t].todo) = 3
            PROVE  MayWrite(c, s)
        <5>1. Head(cmd[t].todo) = "bootout" /\ Changing(t)
          BY <1>1, <1>2, <2>6, UnderWay DEF Changing
        <5>2. Len(cmd[t].todo) <= IF Linux THEN 2 ELSE 3
          BY <4>2
        <5>3. WrittenStays(t)
          BY NeverMore DEF AloneInv
        <5>4. QED BY <4>2, <5>1, <5>2, <5>3 DEF WrittenStays
      <4>3. QED BY <1>4, <1>6, <3>2, <3>4, <4>1, <4>2
    <3>5. QED BY <1>3, <1>9, <2>6, <3>3, <3>4 DEF Effect, Call, BestEffort
  <2>7. CASE next = "bootstrap" /\ Bootstrap(s)
    <3>1. Moved(t) => cmd[t].todo[2] = "kickstart"
      BY <1>1, <1>2, <2>7, MacMoves
    <3>2. /\ ~At(t, "remove")' /\ ~At(t, "bootstrap")'
          /\ At(t, "kickstart")' => cmd'[t].scope = s
      BY <2>1, <2>2, <3>1
    <3>3. /\ unit' = unit /\ unit[s] /\ registered' = [registered EXCEPT ![s] = TRUE]
          /\ job' = job \/ job' = [job EXCEPT ![s] = "running"]
      BY <2>7 DEF Bootstrap, Started
    <3>4. \A x \in Scopes : registered'[x] <=> registered[x] \/ x = s
      BY <1>1, <3>3
    <3>5. \A x \in Scopes : job'[x] = "running" => job[x] = "running" \/ x = s
      BY <1>1, <3>3
    <3>6. registered'[s]
      BY <1>2, <3>4
    <3>7. QED BY <1>4, <1>6, <3>2, <3>3, <3>4, <3>5, <3>6
  <2>8. CASE next = "kickstart" /\ Kickstart(s)
    <3>1. ~Moved(t)
      BY <1>1, <1>2, <2>8, MacMoves
    <3>2. \A step : ~At(t, step)'
      BY <2>1, <3>1
    <3>3. /\ unit' = unit /\ registered' = registered /\ registered[s]
          /\ job' = [job EXCEPT ![s] = "running"]
      BY <2>8 DEF Kickstart, Started
    <3>4. \A x \in Scopes : job'[x] = "running" => job[x] = "running" \/ x = s
      BY <1>1, <3>3
    <3>5. QED BY <1>4, <1>6, <3>2, <3>3, <3>4
  <2>9. next \notin {"disable", "reload", "enable", "restart"}
    BY <1>2, MacPlaces
  <2>10. next \in ManagerCalls /\ Call(next, s) =>
           next = "bootout" \/ (next = "bootstrap" /\ Bootstrap(s)) \/ (next = "kickstart" /\ Kickstart(s))
    BY <2>9 DEF Call, ManagerCalls
  <2>11. QED BY <1>9, <2>3, <2>4, <2>5, <2>6, <2>7, <2>8, <2>9, <2>10 DEF Effect, BestEffort
<1>10. QED BY <1>1, <1>7, <1>8, <1>9, StepKinds

\* Where nothing is under way nobody is in a window.
LEMMA QuietOutside ==
    ASSUME Quiet
    PROVE  \A s \in Scopes : ~SomeoneIsInWindow(s)
  BY DEF Quiet, SomeoneIsInWindow

\* What is installed stays so where no command comes to its next call and the
\* managers know what they knew, or know it anew.
LEMMA InstalledWithNobody ==
    ASSUME \A t \in Terminals : \A step \in {"remove", "reload", "bootstrap", "kickstart"} : ~At(t, step)',
           \A s \in Scopes : job'[s] = "running" => unit'[s],
           Linux' /\ Never({"kill"})' =>
              \A s \in Scopes : /\ unit'[s] => registered'[s]
                                /\ job'[s] = "running" => registered'[s],
           ~Linux' => \A s \in Scopes : /\ job'[s] = "running" => registered'[s]
                                        /\ registered'[s] => unit'[s]
    PROVE  IF Linux' THEN InstalledOnLinux' ELSE InstalledOnMac'
<1>1. CASE Linux'
  <2>1. InstalledOnLinux'
    BY <1>1 DEF InstalledOnLinux
  <2>2. QED BY <1>1, <2>1
<1>2. CASE ~Linux'
  <2>1. InstalledOnMac'
    BY <1>2 DEF InstalledOnMac
  <2>2. QED BY <1>2, <2>1
<1>3. QED BY <1>1, <1>2

\* A command given changes nothing yet.
LEMMA BeginInstalled ==
    ASSUME InstalledInv, AloneInv', UNCHANGED world, NEW t \in Terminals, NEW op \in Commands,
           NEW c \in world.callers, NEW s \in world.scopes, Begin(t, op, c, s)
    PROVE  InstalledInv'
<1> SUFFICES ASSUME Never({"manager", "overlap"}), ~SplitRights
             PROVE  IF Linux' THEN InstalledOnLinux' ELSE InstalledOnMac'
  BY SameWorld DEF InstalledInv
<1>1. TypeInv /\ (IF Linux THEN InstalledOnLinux ELSE InstalledOnMac)
  BY DEF InstalledInv, AloneInv
<1>2. Quiet /\ UNCHANGED manager
  BY DEF Begin, Never
<1>3. /\ \A u \in Terminals \ {t} : ~InUse(u)'
      /\ cmd'[t].todo = Program(op)
  <2>1. /\ \A u \in Terminals \ {t} : cmd'[u] = cmd[u]
        /\ cmd'[t] = [op |-> op, caller |-> c, scope |-> s, todo |-> Program(op), result |-> "none"]
    BY <1>1, BeginType
  <2>2. cmd'[t].todo = Program(op)
    BY <2>1
  <2>3. QED BY <1>2, <2>1, <2>2 DEF Quiet
<1>4. Head(Program(op)) \in {"save", "guard"}
  <2>1. Program(op) \in Seq(StepNames) /\ Program(op) # <<>>
    BY WholeProgram DEF Remains, Suffix
  <2>2. Program(op)[1] \in {"save", "guard"}
    <3>1. Program("start")[1] = "guard" /\ Program("stop")[1] = "guard"
      BY ProgramCalls, InstallCalls, UninstallCalls
    <3>2. Program("wizard")[1] = "save" /\ Program("init")[1] = "save" /\ Program("update")[1] = "save"
      BY ProgramCalls
    <3>3. QED BY <3>1, <3>2 DEF Commands
  <2>3. QED BY <2>1, <2>2
<1>5. \A u \in Terminals : \A step \in {"remove", "reload", "bootstrap", "kickstart"} : ~At(u, step)'
  BY <1>3, <1>4 DEF At
<1>6. Never({"kill"})' => Never({"kill"})
  BY SameWorld
<1>7. CASE Linux
  BY <1>1, <1>2, <1>5, <1>6, <1>7, QuietOutside, InstalledWithNobody DEF InstalledOnLinux
<1>8. CASE ~Linux
  BY <1>1, <1>2, <1>5, <1>8, InstalledWithNobody DEF InstalledOnMac
<1>9. QED BY <1>7, <1>8

\* A process that runs after its own step ran before it.
LEMMA ProcessInstalled ==
    ASSUME InstalledInv, AloneInv', UNCHANGED world, NEW s \in Scopes, Left(s) \/ Crash(s) \/ Term(s)
    PROVE  InstalledInv'
<1> SUFFICES ASSUME Never({"manager", "overlap"}), ~SplitRights
             PROVE  IF Linux' THEN InstalledOnLinux' ELSE InstalledOnMac'
  BY SameWorld DEF InstalledInv
<1>1. /\ TypeInv /\ job \in [Scopes -> Jobs]
      /\ IF Linux THEN InstalledOnLinux ELSE InstalledOnMac
  BY DEF InstalledInv, AloneInv, TypeInv, TypeOK
<1>2. /\ UNCHANGED <<unit, registered, cmd>>
      /\ \/ job' = [job EXCEPT ![s] = "stopped"]
         \/ job' = [job EXCEPT ![s] = "running"] /\ job[s] = "running"
  <2>1. CASE Left(s) BY <2>1 DEF Left, Stopped
  <2>2. CASE Crash(s) BY <2>2 DEF Crash, Started, Stopped
  <2>3. CASE Term(s) BY <2>3 DEF Term, Started, Stopped
  <2>4. QED BY <2>1, <2>2, <2>3
<1>3. \A x \in Scopes : job'[x] = "running" => job[x] = "running"
  BY <1>1, <1>2
<1>4. \A t \in Terminals : (\A step : At(t, step)' <=> At(t, step)) /\ (InWindow(t)' <=> InWindow(t))
  BY <1>2 DEF At, InWindow, MayWrite, ResolvesUser
<1>5. \A x \in Scopes : SomeoneIsInWindow(x)' <=> SomeoneIsInWindow(x)
  BY <1>2, <1>4 DEF SomeoneIsInWindow
<1>6. CASE Linux
  <2>1. InstalledOnLinux
    BY <1>1, <1>6
  <2>2. \A x \in Scopes : job'[x] = "running" => unit'[x]
    BY <1>2, <1>3, <2>1 DEF InstalledOnLinux
  <2>3. Never({"kill"})' => \A x \in Scopes : /\ unit'[x] /\ ~registered'[x] => SomeoneIsInWindow(x)'
                                              /\ job'[x] = "running" => registered'[x]
    BY <1>2, <1>3, <1>5, <2>1, SameWorld DEF InstalledOnLinux
  <2>4. \A t \in Terminals :
          /\ At(t, "remove")' /\ MayWrite(cmd'[t].caller, cmd'[t].scope) => job'[cmd'[t].scope] # "running"
          /\ At(t, "reload")' /\ cmd'[t].op = "stop" => ~unit'[cmd'[t].scope]
    <3>1. \A t \in Terminals : cmd[t].scope \in Scopes
      BY <1>1 DEF TypeInv, TypeOK
    <3>2. QED BY <1>2, <1>3, <1>4, <2>1, <3>1 DEF InstalledOnLinux
  <2>5. InstalledOnLinux'
    BY <2>2, <2>3, <2>4 DEF InstalledOnLinux, MayWrite, ResolvesUser
  <2>6. QED BY <1>6, <2>5
<1>7. CASE ~Linux
  <2>1. InstalledOnMac
    BY <1>1, <1>7
  <2>2. \A x \in Scopes : (job'[x] = "running" => registered'[x]) /\ (registered'[x] => unit'[x])
    BY <1>2, <1>3, <2>1 DEF InstalledOnMac
  <2>3. InstalledOnMac'
    BY <1>2, <1>4, <2>1, <2>2 DEF InstalledOnMac, MayWrite, ResolvesUser
  <2>4. QED BY <1>7, <2>3
<1>8. QED BY <1>6, <1>7

\* A restart of the machine starts what is installed, and no command is left.
LEMMA RebootInstalled ==
    ASSUME InstalledInv, AloneInv', UNCHANGED world, Reboot
    PROVE  InstalledInv'
<1> SUFFICES ASSUME Never({"manager", "overlap"}), ~SplitRights
             PROVE  IF Linux' THEN InstalledOnLinux' ELSE InstalledOnMac'
  BY SameWorld DEF InstalledInv
<1>1. TypeInv /\ (IF Linux THEN InstalledOnLinux ELSE InstalledOnMac)
  BY DEF InstalledInv, AloneInv
<1>2. \A t \in Terminals : \A step \in {"remove", "reload", "bootstrap", "kickstart"} : ~At(t, step)'
  BY <1>1, RebootType DEF At
<1>3. /\ unit' = unit
      /\ \A s \in Scopes : job'[s] = "running" <=> unit[s] /\ (Linux => registered[s])
      /\ registered' = IF Linux THEN registered ELSE unit
      /\ Quiet \/ ~Never({"kill"})
  BY DEF Reboot, Never
<1>4. CASE Linux
  <2>1. Never({"kill"})' => \A s \in Scopes : unit[s] => registered[s]
    BY <1>1, <1>3, <1>4, SameWorld, QuietOutside DEF InstalledOnLinux
  <2>2. QED BY <1>2, <1>3, <1>4, <2>1, SameWorld, InstalledWithNobody
<1>5. CASE ~Linux
  BY <1>2, <1>3, <1>5, SameWorld, InstalledWithNobody
<1>6. QED BY <1>4, <1>5

\* Every step keeps InstalledInv.
LEMMA NextInstalled == InstalledInv /\ [Next]_vars => InstalledInv'
<1> SUFFICES ASSUME InstalledInv, [Next]_vars PROVE InstalledInv'
  OBVIOUS
<1>1. AloneInv' /\ TypeInv'
  BY NextAlone DEF InstalledInv, AloneInv
<1>2. CASE UNCHANGED vars
  <2>1. \A t \in Terminals : (\A step : At(t, step)' <=> At(t, step)) /\ (InWindow(t)' <=> InWindow(t))
    BY <1>2 DEF At, InWindow, MayWrite, ResolvesUser
  <2>2. \A x \in Scopes : SomeoneIsInWindow(x)' <=> SomeoneIsInWindow(x)
    BY <1>2, <2>1 DEF SomeoneIsInWindow
  <2>3. InstalledOnLinux => InstalledOnLinux'
    BY <1>2, <2>1, <2>2, SameWorld DEF InstalledOnLinux, MayWrite, ResolvesUser
  <2>4. InstalledOnMac => InstalledOnMac'
    BY <1>2, <2>1 DEF InstalledOnMac, MayWrite, ResolvesUser
  <2>5. QED BY <1>1, <1>2, <2>3, <2>4, SameWorld DEF InstalledInv
<1>3. CASE Next
  <2>1. UNCHANGED world BY <1>3 DEF Next
  <2>2. ASSUME NEW t \in Terminals, NEW op \in Commands, NEW c \in world.callers,
               NEW s \in world.scopes, Begin(t, op, c, s)
        PROVE  InstalledInv'
    BY <1>1, <2>1, <2>2, BeginInstalled
  <2>3. ASSUME NEW t \in Terminals, Step(t) PROVE InstalledInv'
    <3>1. ASSUME Never({"manager", "overlap"}), ~SplitRights
          PROVE  IF Linux THEN InstalledOnLinux' ELSE InstalledOnMac'
      BY <1>1, <2>1, <2>3, <3>1, StepInstalledLinux, StepInstalledMac DEF InstalledInv
    <3>2. QED BY <1>1, <2>1, <3>1, SameWorld DEF InstalledInv
  <2>4. ASSUME NEW s \in Scopes, Left(s) \/ Crash(s) \/ Term(s) PROVE InstalledInv'
    BY <1>1, <2>1, <2>4, ProcessInstalled
  <2>5. CASE Reboot
    BY <1>1, <2>1, <2>5, RebootInstalled
  <2>6. QED BY <1>3, <2>2, <2>3, <2>4, <2>5 DEF Next, Act
<1>4. QED BY <1>2, <1>3

\* Nothing is installed in the first state.
LEMMA InitInstalled == Init => InstalledInv
<1> SUFFICES ASSUME Init PROVE InstalledInv
  OBVIOUS
<1>1. \A t \in Terminals : \A step : ~At(t, step)
  BY DEF Init, Idle, At
<1>2. \A s \in Scopes : job[s] = "stopped" /\ ~unit[s] /\ ~registered[s]
  BY DEF Init
<1>3. QED BY <1>1, <1>2, InitAlone DEF InstalledInv, InstalledOnLinux, InstalledOnMac

\* No process is orphaned: from every state of every machine without failing
\* managers, overlapping commands or sudo on Linux, what runs has its unit or
\* plist, and with systemd is enabled if no command was killed.
THEOREM NoOrphans == Spec => []RunningIsInstalled
<1>1. InstalledInv => RunningIsInstalled
  <2> SUFFICES ASSUME InstalledInv, Never({"manager", "overlap"}), ~SplitRights
               PROVE  \A s \in Scopes : job[s] = "running" =>
                                            unit[s] /\ (Linux /\ Never({"kill"}) => registered[s])
    BY DEF RunningIsInstalled
  <2>1. CASE Linux
    BY <2>1 DEF InstalledInv, InstalledOnLinux
  <2>2. CASE ~Linux
    BY <2>2 DEF InstalledInv, InstalledOnMac
  <2>3. QED BY <2>1, <2>2
<1>2. QED BY <1>1, InitInstalled, NextInstalled, PTL DEF Spec
-----------------------------------------------------------------------------
(* What status finds does run.                                             *)

\* The worlds StatusTellsTruth and InitKeepsService are about.
Undisturbed == Never({"kill", "manager", "overlap", "term"}) /\ ~SplitRights

\* They are worlds of InstalledInv, too.
LEMMA UndisturbedWorld ==
    ASSUME InstalledInv, Undisturbed
    PROVE  /\ AloneInv /\ TypeInv
           /\ Never({"manager", "overlap"}) /\ ~SplitRights /\ Never({"kill"})
           /\ Linux => InstalledOnLinux
           /\ ~Linux => InstalledOnMac
           /\ "manager" \notin Faults /\ "term" \notin Faults
           /\ Never({"overlap"})
<1>1. /\ AloneInv /\ TypeInv
      /\ Never({"manager", "overlap"}) /\ ~SplitRights /\ Never({"kill"}) /\ Never({"overlap"})
      /\ "manager" \notin Faults /\ "term" \notin Faults
  BY NeverMore DEF Undisturbed, InstalledInv, AloneInv, Never
<1>2. QED BY <1>1 DEF InstalledInv

\* A command in its window on macOS, by its next call.
LEMMA MacWindow ==
    ASSUME TypeInv, ~Linux, NEW t \in Terminals, InUse(t)
    PROVE  InWindow(t) <=>
             /\ MayWrite(cmd[t].caller, cmd[t].scope)
             /\ \/ cmd[t].todo[1] \in {"remove", "bootstrap"}
                \/ cmd[t].todo[1] = "bootout" /\ Len(cmd[t].todo) = 3
                \/ cmd[t].todo[1] = "kickstart" /\ cmd[t].op \in Installing
<1>1. \A step : At(t, step) <=> step = cmd[t].todo[1]
  BY UnderWay DEF At
<1>2. cmd[t].todo[1] \notin {"reload", "enable"}
  BY UnderWay, MacPlaces
<1>3. QED BY <1>1, <1>2 DEF InWindow

\* There, too, a command that is refused was in no window.
LEMMA RefusedOutsideMac ==
    ASSUME AloneInv, Never({"manager", "overlap"}), ~SplitRights, ~Linux, InstalledOnMac,
           NEW t \in Terminals, InUse(t), Refused(t)
    PROVE  ~InWindow(t)
<1> DEFINE next == cmd[t].todo[1]
           s    == cmd[t].scope
<1>1. TypeInv /\ cmd[t].op \in Commands /\ Remains(cmd[t].op, cmd[t].todo)
      /\ s \in Scopes /\ cmd[t].caller \in world.callers /\ Head(cmd[t].todo) = next
  BY UnderWay DEF AloneInv
<1>2. MayWrite(cmd[t].caller, s) <=> Reaches(cmd[t].caller, s)
  BY <1>1, WritersReach
<1>3. \A step : At(t, step) <=> step = next
  BY <1>1, UnderWay DEF At
<1>4. CASE next \in {"guard", "write", "remove"}
  BY <1>1, <1>4, MacWindow DEF Refused, ManagerCalls
<1>5. CASE next \in ManagerCalls \ BestEffort
  <2>1. next = "kickstart" /\ cmd[t].op \in Installing => CanCall(next, s)
    BY <1>3 DEF CanCall, InstalledOnMac
  <2>2. ASSUME next = "bootstrap" PROVE CanCall(next, s)
    <3>1. cmd[t].op \in Installing /\ Len(cmd[t].todo) = 2
      BY <1>1, <2>2, MacPlaces
    <3>2. Len(cmd[t].todo) <= IF Linux THEN 2 ELSE 3
      BY <3>1
    <3>3. Changing(t)
      BY <1>1, <2>2 DEF Changing
    <3>4. WrittenStays(t)
      BY NeverMore DEF AloneInv
    <3>5. unit[s]
      BY <3>1, <3>2, <3>3, <3>4 DEF WrittenStays
    <3>6. QED BY <1>3, <2>2, <3>5 DEF CanCall, InstalledOnMac
  <2>3. QED BY <1>1, <1>2, <1>5, <2>1, <2>2, MacWindow DEF Refused, ManagerCalls, Never, BestEffort
<1>6. QED BY <1>4, <1>5 DEF Refused

\* What the one command's step does to the unit and the process at its scope:
\* what it leaves there without its process it is in its window for.
LEMMA StepTruth ==
    ASSUME TruthInv, InstalledInv', UNCHANGED world, Undisturbed, NEW t \in Terminals, Step(t)
    PROVE  \A x \in Scopes : unit'[x] /\ job'[x] # "running" =>
                                InUse(t)' /\ x = cmd'[t].scope /\ InWindow(t)'
<1> DEFINE next == cmd[t].todo[1]
           s    == cmd[t].scope
           c    == cmd[t].caller
           Kept == \A x \in Scopes : unit'[x] /\ job'[x] # "running" =>
                                        InUse(t)' /\ x = cmd'[t].scope /\ InWindow(t)'
<1>1. /\ InstalledInv /\ AloneInv /\ TypeInv /\ TypeInv' /\ "manager" \notin Faults
      /\ Never({"manager", "overlap"}) /\ ~SplitRights /\ Never({"kill"})
      /\ Linux => InstalledOnLinux
      /\ ~Linux => InstalledOnMac
      /\ unit \in [Scopes -> BOOLEAN] /\ job \in [Scopes -> Jobs]
  BY UndisturbedWorld DEF TruthInv, InstalledInv, AloneInv, TypeInv, TypeOK
<1>2. /\ InUse(t) /\ s \in Scopes /\ c \in world.callers
      /\ cmd[t].op \in Commands /\ Remains(cmd[t].op, cmd[t].todo)
      /\ \A u \in Terminals \ {t} : ~InUse(u)
  <2>1. InUse(t) /\ \A u \in Terminals \ {t} : cmd'[u] = cmd[u]
    BY <1>1, StepShape
  <2>2. \A u \in Terminals \ {t} : ~InUse(u)
    BY <1>1, <2>1, NeverMore, StillAlone
  <2>3. QED BY <1>1, <2>1, <2>2, UnderWay
<1>3. \A x \in Scopes : unit[x] /\ job[x] # "running" => x = s /\ InWindow(t)
  BY <1>2 DEF TruthInv, Undisturbed, SomeoneIsInWindow
<1>4. MayWrite(c, s) <=> Reaches(c, s)
  BY <1>1, <1>2, WritersReach
<1>5. Linux => (InWindow(t) <=> /\ MayWrite(c, s)
                                /\ \/ next \in {"remove", "enable"}
                                   \/ next = "reload" /\ Len(cmd[t].todo) = 2)
  BY <1>1, <1>2, LinuxWindow
<1>6. ~Linux => (InWindow(t) <=> /\ MayWrite(c, s)
                                 /\ \/ next \in {"remove", "bootstrap"}
                                    \/ next = "bootout" /\ Len(cmd[t].todo) = 3
                                    \/ next = "kickstart" /\ cmd[t].op \in Installing)
  BY <1>1, <1>2, MacWindow
<1>7. CASE ~InWindow(t) /\ UNCHANGED <<unit, job>>
  BY <1>3, <1>7
<1>8. CASE Status(t)
  <2>1. next = "status" /\ UNCHANGED <<unit, job>>
    BY <1>1, <1>2, <1>8, UnderWay DEF Status, At
  <2>2. ~InWindow(t)
    BY <1>5, <1>6, <2>1
  <2>3. QED BY <1>7, <2>1, <2>2
<1>9. CASE Fail(t) /\ Refused(t) /\ UNCHANGED manager
  BY <1>1, <1>2, <1>7, <1>9, RefusedOutside, RefusedOutsideMac
<1>10. CASE Effect(t) /\ Proceed(t)
  <2>1. Moved(t) \/ Len(cmd[t].todo) = 1
    BY <1>1, <1>2, <1>10, MovedOrEnded
  <2>2. ASSUME Moved(t), MayWrite(c, s),
               \/ cmd[t].todo[2] \in {"remove", "enable", "bootstrap"}
               \/ cmd[t].todo[2] = "reload" /\ Len(cmd'[t].todo) = 2
               \/ cmd[t].todo[2] = "bootout" /\ Len(cmd'[t].todo) = 3
               \/ cmd[t].todo[2] = "kickstart" /\ cmd[t].op \in Installing
        PROVE  InUse(t)' /\ cmd'[t].scope = s /\ InWindow(t)'
    <3>1. /\ InUse(t)' /\ cmd'[t].op = cmd[t].op /\ cmd'[t].scope = s /\ cmd'[t].caller = c
          /\ \A step : At(t, step)' <=> step = cmd[t].todo[2]
      BY <1>1, <1>2, <2>2, LinuxMoves, MacMoves DEF Moved
    <3>2. QED BY <2>2, <3>1 DEF InWindow, MayWrite, ResolvesUser
  <2>3. CASE next \in {"guard", "save"} /\ UNCHANGED <<unit, registered, job>>
    BY <1>5, <1>6, <1>7, <2>3
  <2>4. CASE next = "write" /\ MayWrite(c, s) /\ unit' = [unit EXCEPT ![s] = TRUE] /\ UNCHANGED job
    <3>1. Moved(t)
      <4>1. Len(cmd[t].todo) = 3 \/ Len(cmd[t].todo) = 4
        BY <1>2, <2>4, WriteAndRemovePlaces
      <4>2. QED BY <2>1, <4>1
    <3>2. \/ cmd[t].todo[2] = "reload" /\ Len(cmd'[t].todo) = 2
          \/ cmd[t].todo[2] = "bootout" /\ Len(cmd'[t].todo) = 3
      BY <1>1, <1>2, <2>4, <3>1, LinuxMoves, MacMoves
    <3>3. InUse(t)' /\ cmd'[t].scope = s /\ InWindow(t)'
      BY <2>2, <2>4, <3>1, <3>2
    <3>4. \A x \in Scopes : x # s => unit'[x] = unit[x]
      BY <1>1, <2>4
    <3>5. QED BY <1>3, <2>4, <3>3, <3>4
  <2>5. CASE next = "remove" /\ unit' = [unit EXCEPT ![s] = FALSE] /\ UNCHANGED job
    <3>1. \A x \in Scopes : unit'[x] => unit[x] /\ x # s
      BY <1>1, <2>5
    <3>2. QED BY <1>3, <2>5, <3>1
  <2>6. CASE next = "reload" /\ UNCHANGED manager
    <3>1. CASE InWindow(t)
      <4>1. Linux /\ MayWrite(c, s) /\ Len(cmd[t].todo) = 2
        BY <1>5, <1>6, <2>6, <3>1
      <4>2. Moved(t)
        BY <2>1, <4>1
      <4>3. cmd[t].todo[2] = "enable"
        <5>1. next = "reload" =>
                \/ cmd[t].op \in Installing /\ Len(cmd[t].todo) = 2 /\ cmd[t].todo[2] = "enable"
                \/ cmd[t].op = "stop" /\ Len(cmd[t].todo) = 1
                \/ cmd[t].op = "init" /\ Len(cmd[t].todo) = 5 /\ cmd[t].todo[2] = "guard"
          BY <1>2, <4>1, LinuxPlaces
        <5>2. QED BY <2>6, <4>1, <5>1
      <4>4. InUse(t)' /\ cmd'[t].scope = s /\ InWindow(t)'
        BY <2>2, <4>1, <4>2, <4>3
      <4>5. QED BY <1>3, <2>6, <4>4
    <3>2. QED BY <1>7, <2>6, <3>1
  <2>7. CASE next \in BestEffort
    <3>1. CASE Reaches(c, s) /\ (Disable(s) \/ Bootout(s))
      <4>1. Moved(t)
        <5>1. CASE Linux
          <6>1. Len(cmd[t].todo) = 3 \/ Len(cmd[t].todo) = 7
            BY <1>2, <2>7, <5>1, LinuxPlaces DEF BestEffort
          <6>2. QED BY <2>1, <6>1
        <5>2. CASE ~Linux
          <6>1. Len(cmd[t].todo) = 3 \/ Len(cmd[t].todo) = 2 \/ Len(cmd[t].todo) = 7
            BY <1>2, <2>7, <5>2, MacPlaces DEF BestEffort
          <6>2. QED BY <2>1, <6>1
        <5>3. QED BY <5>1, <5>2
      <4>2. cmd[t].todo[2] \in {"remove", "bootstrap"}
        BY <1>1, <1>2, <2>7, <4>1, LinuxMoves, MacMoves DEF BestEffort
      <4>3. InUse(t)' /\ cmd'[t].scope = s /\ InWindow(t)'
        BY <1>4, <2>2, <3>1, <4>1, <4>2
      <4>4. unit' = unit /\ \A x \in Scopes : x # s => job'[x] = job[x]
        BY <1>1, <3>1 DEF Disable, Bootout, Stopped
      <4>5. QED BY <1>3, <4>3, <4>4
    <3>2. CASE (~Reaches(c, s) \/ ~CanCall(next, s)) /\ UNCHANGED manager
      <4>1. CASE InWindow(t)
        <5>1. ~Linux /\ next = "bootout" /\ Len(cmd[t].todo) = 3 /\ MayWrite(c, s)
          BY <1>5, <1>6, <2>7, <4>1 DEF BestEffort
        <5>2. Moved(t)
          BY <2>1, <5>1
        <5>3. cmd[t].todo[2] = "bootstrap" \/ (Len(cmd[t].todo) # 3 /\ cmd[t].todo[2] = "remove")
          BY <1>1, <1>2, <5>1, <5>2, MacMoves
        <5>4. InUse(t)' /\ cmd'[t].scope = s /\ InWindow(t)'
          BY <2>2, <5>1, <5>2, <5>3
        <5>5. QED BY <1>3, <3>2, <5>4
      <4>2. QED BY <1>7, <3>2, <4>1
    <3>3. QED BY <1>1, <1>10, <2>7, <3>1, <3>2 DEF Effect, Call, BestEffort
  <2>8. CASE next = "bootstrap" /\ Bootstrap(s) /\ Reaches(c, s)
    <3>1. ~Linux
      BY <1>2, <2>8, LinuxPlaces
    <3>2. Moved(t)
      <4>1. Len(cmd[t].todo) = 2
        BY <1>2, <2>8, <3>1, MacPlaces
      <4>2. QED BY <2>1, <4>1
    <3>3. cmd[t].todo[2] = "kickstart" /\ cmd[t].op \in Installing
      BY <1>1, <1>2, <2>8, <3>1, <3>2, MacMoves
    <3>4. InUse(t)' /\ cmd'[t].scope = s /\ InWindow(t)'
      BY <1>4, <2>2, <2>8, <3>2, <3>3
    <3>5. unit' = unit /\ \A x \in Scopes : x # s => job'[x] = job[x]
      BY <1>1, <2>8 DEF Bootstrap, Started
    <3>6. QED BY <1>3, <3>4, <3>5
  <2>9. CASE Enable(s) \/ SystemdRestart(s) \/ Kickstart(s)
    <3>1. unit' = unit /\ (job' = [job EXCEPT ![s] = "running"] \/ (job' = job /\ job[s] = "running"))
      BY <2>9 DEF Enable, SystemdRestart, Kickstart, Started
    <3>2. \A x \in Scopes : job'[x] # "running" => x # s /\ job'[x] = job[x]
      BY <1>1, <1>2, <3>1
    <3>3. QED BY <1>3, <3>1, <3>2
  <2>10. next \in ManagerCalls /\ Call(next, s) =>
           \/ next \in BestEffort
           \/ next = "bootstrap" /\ Bootstrap(s)
           \/ Enable(s) \/ SystemdRestart(s) \/ Kickstart(s)
           \/ next = "reload" /\ UNCHANGED manager
    BY DEF Call, ManagerCalls, BestEffort
  <2>11. QED BY <1>10, <2>3, <2>4, <2>5, <2>6, <2>7, <2>8, <2>9, <2>10 DEF Effect
<1>11. ~Kill(t)
  BY <1>1 DEF Kill, Never
<1>12. QED BY <1>1, <1>8, <1>9, <1>10, <1>11, StepKinds

\* Every step keeps TruthInv.
LEMMA NextTruth == TruthInv /\ [Next]_vars => TruthInv'
<1> SUFFICES ASSUME TruthInv, [Next]_vars PROVE TruthInv'
  OBVIOUS
<1>1. /\ InstalledInv /\ InstalledInv' /\ AloneInv' /\ TypeInv /\ TypeInv' /\ UNCHANGED world
      /\ job \in [Scopes -> Jobs]
  BY NextInstalled DEF TruthInv, InstalledInv, AloneInv, TypeInv, TypeOK, Next
<1>2. Undisturbed' <=> Undisturbed
  BY <1>1, SameWorld DEF Undisturbed
<1> SUFFICES ASSUME Undisturbed
             PROVE  \A x \in Scopes : unit'[x] /\ job'[x] # "running" => SomeoneIsInWindow(x)'
  BY <1>1, <1>2 DEF TruthInv, Undisturbed
<1>3. \A x \in Scopes : unit[x] /\ job[x] # "running" => SomeoneIsInWindow(x)
  BY DEF TruthInv, Undisturbed
<1>4. CASE UNCHANGED <<unit, cmd>> /\ \A x \in Scopes : job'[x] = "running" <=> job[x] = "running"
  <2>1. \A t \in Terminals : InWindow(t)' <=> InWindow(t)
    BY <1>4 DEF InWindow, At, MayWrite, ResolvesUser
  <2>2. \A x \in Scopes : SomeoneIsInWindow(x)' <=> SomeoneIsInWindow(x)
    BY <1>4, <2>1 DEF SomeoneIsInWindow
  <2>3. QED BY <1>3, <1>4, <2>2
<1>5. ASSUME NEW t \in Terminals, NEW op \in Commands, NEW c \in world.callers,
             NEW s \in world.scopes, Begin(t, op, c, s)
      PROVE  \A x \in Scopes : unit'[x] => job'[x] = "running"
  <2>1. Quiet /\ UNCHANGED manager
    BY <1>1, <1>5, UndisturbedWorld DEF Begin, Never
  <2>2. QED BY <1>3, <2>1, QuietOutside
<1>6. ASSUME NEW t \in Terminals, Step(t)
      PROVE  \A x \in Scopes : unit'[x] /\ job'[x] # "running" => SomeoneIsInWindow(x)'
  <2>1. \A x \in Scopes : unit'[x] /\ job'[x] # "running" =>
                             InUse(t)' /\ x = cmd'[t].scope /\ InWindow(t)'
    BY <1>1, <1>6, StepTruth
  <2>2. QED BY <2>1 DEF SomeoneIsInWindow
<1>7. ASSUME NEW s \in Scopes, Left(s) \/ Crash(s) \/ Term(s)
      PROVE  UNCHANGED <<unit, cmd>> /\ \A x \in Scopes : job'[x] = "running" <=> job[x] = "running"
  <2>1. ~Term(s)
    BY <1>1, UndisturbedWorld DEF Term
  <2>2. CASE Left(s)
    <3>1. job[s] = "leaving" /\ job' = [job EXCEPT ![s] = "stopped"] /\ UNCHANGED <<unit, cmd>>
      BY <2>2 DEF Left, Stopped
    <3>2. QED BY <1>1, <3>1
  <2>3. CASE Crash(s)
    <3>1. job[s] = "running"
      BY <2>3 DEF Crash
    <3>2. Managed(s)
      <4>1. CASE Linux
        BY <1>1, <3>1, <4>1, UndisturbedWorld DEF InstalledOnLinux, Managed
      <4>2. CASE ~Linux
        BY <1>1, <3>1, <4>2, UndisturbedWorld DEF InstalledOnMac, Managed
      <4>3. QED BY <4>1, <4>2
    <3>3. job' = [job EXCEPT ![s] = "running"] /\ UNCHANGED <<unit, cmd>>
      BY <2>3, <3>2 DEF Crash, Started
    <3>4. QED BY <1>1, <3>1, <3>3
  <2>4. QED BY <1>7, <2>1, <2>2, <2>3
<1>8. ASSUME Reboot
      PROVE  \A x \in Scopes : unit'[x] => job'[x] = "running"
  <2>1. Quiet
    BY <1>1, <1>8, UndisturbedWorld DEF Reboot, Never
  <2>2. unit' = unit /\ \A x \in Scopes : unit[x] /\ (Linux => registered[x]) => job'[x] = "running"
    BY <1>8 DEF Reboot
  <2>3. Linux => \A x \in Scopes : unit[x] => registered[x]
    BY <1>1, <2>1, QuietOutside, UndisturbedWorld DEF InstalledOnLinux
  <2>4. QED BY <2>2, <2>3
<1>9. CASE UNCHANGED vars
  BY <1>4, <1>9
<1>10. CASE Next
  BY <1>4, <1>5, <1>6, <1>7, <1>8, <1>10 DEF Next, Act
<1>11. QED BY <1>9, <1>10

\* In the first state there is nothing for status to find.
LEMMA InitTruth == Init => TruthInv
<1> SUFFICES ASSUME Init PROVE TruthInv
  OBVIOUS
<1>1. \A s \in Scopes : ~unit[s]
  BY DEF Init
<1>2. QED BY <1>1, InitInstalled DEF TruthInv

\* No command that ends by itself leaves a unit without its process: while none
\* is under way, what status calls running runs, in every machine where nothing
\* kills a command or the service and the managers do what they are asked.
THEOREM StatusIsTrue == Spec => []StatusTellsTruth
<1>1. TruthInv => StatusTellsTruth
  BY QuietOutside DEF TruthInv, StatusTellsTruth
<1>2. QED BY <1>1, InitTruth, NextTruth, PTL DEF Spec
-----------------------------------------------------------------------------
(* What the commands promise when they end.                                *)

\* The last call of each command.
LEMMA LastCall ==
    ASSUME NEW op \in Commands, NEW q, Remains(op, q), Len(q) = 1, q[1] # "status"
    PROVE  /\ op \in Installing => q[1] = IF Linux THEN "enable" ELSE "kickstart"
           /\ op = "stop" => q[1] = IF Linux THEN "reload" ELSE "remove"
           /\ op = "update" => q[1] = IF Linux THEN "restart" ELSE "kickstart"
<1>1. q[1] \in StepNames
  BY DEF Remains, Suffix
<1>2. CASE Linux
  <2>1. CASE q[1] = "guard"
    <3>1. Len(q) = 4 \/ Len(q) = 8 \/ Len(q) = 2 BY <1>2, <2>1, LinuxPlaces
    <3>2. QED BY <3>1
  <2>2. CASE q[1] \in {"write", "disable"}
    <3>1. Len(q) = 3 \/ Len(q) = 7 BY <1>2, <2>2, LinuxPlaces
    <3>2. QED BY <3>1
  <2>3. CASE q[1] \in {"remove", "save"}
    <3>1. Len(q) = 2 \/ Len(q) = 6 \/ Len(q) = 5 BY <1>2, <2>3, LinuxPlaces
    <3>2. QED BY <3>1
  <2>4. CASE q[1] = "reload"
    <3>1. (op \in Installing /\ Len(q) = 2) \/ op = "stop" \/ Len(q) = 5
      BY <1>2, <2>4, LinuxPlaces
    <3>2. op = "stop" BY <3>1
    <3>3. QED BY <1>2, <2>4, <3>2 DEF Installing
  <2>5. CASE q[1] \in {"enable", "restart"}
    BY <1>2, <2>5, LinuxPlaces DEF Installing
  <2>6. QED BY <1>1, <1>2, <2>1, <2>2, <2>3, <2>4, <2>5, LinuxPlaces DEF StepNames, ManagerCalls
<1>3. CASE ~Linux
  <2>1. CASE q[1] = "guard"
    <3>1. Len(q) = 5 \/ Len(q) = 3 \/ Len(q) = 8 \/ Len(q) = 2 BY <1>3, <2>1, MacPlaces
    <3>2. QED BY <3>1
  <2>2. CASE q[1] \in {"write", "save"}
    <3>1. Len(q) = 4 \/ Len(q) = 6 \/ Len(q) = 2 BY <1>3, <2>2, MacPlaces
    <3>2. QED BY <3>1
  <2>3. CASE q[1] \in {"bootout", "bootstrap"}
    <3>1. Len(q) = 3 \/ Len(q) = 2 \/ Len(q) = 7 BY <1>3, <2>3, MacPlaces
    <3>2. QED BY <3>1
  <2>4. CASE q[1] = "remove"
    <3>1. op = "stop" \/ Len(q) = 6
      BY <1>3, <2>4, MacPlaces
    <3>2. op = "stop" BY <3>1
    <3>3. QED BY <1>3, <2>4, <3>2 DEF Installing
  <2>5. CASE q[1] = "kickstart"
    <3>1. op \in Installing \cup {"update"}
      BY <1>3, <2>5, MacPlaces
    <3>2. QED BY <1>3, <2>5, <3>1 DEF Installing
  <2>6. QED BY <1>1, <1>3, <2>1, <2>2, <2>3, <2>4, <2>5, MacPlaces DEF StepNames, ManagerCalls
<1>4. QED BY <1>2, <1>3

\* A command ends by a step of its own.
LEMMA EndsByItself ==
    ASSUME TypeInv, [Next]_vars, NEW t \in Terminals, InUse(t), ~InUse(t)',
           cmd'[t].result # "killed"
    PROVE  /\ UNCHANGED world /\ Step(t) /\ TypeInv'
           /\ cmd'[t].result = "ok" =>
                 \/ Status(t) /\ Installed(cmd[t].caller) = {}
                 \/ ~Status(t) /\ Effect(t) /\ Len(cmd[t].todo) = 1
           /\ cmd'[t].result = "ok" \/ (~Status(t) /\ Refused(t) /\ UNCHANGED manager)
<1>1. UNCHANGED world /\ TypeInv' /\ ~UNCHANGED cmd
  BY NextType DEF Next
<1>2. ASSUME NEW u \in Terminals, NEW op \in Commands, NEW c \in world.callers,
             NEW s \in world.scopes, Begin(u, op, c, s)
      PROVE  FALSE
  <2>1. u # t /\ cmd'[t] = cmd[t]
    BY <1>1, <1>2, BeginType DEF Begin
  <2>2. QED BY <2>1
<1>3. ASSUME NEW s \in Scopes, Left(s) \/ Crash(s) \/ Term(s) PROVE FALSE
  BY <1>1, <1>3, ProcessType
<1>4. ASSUME Reboot PROVE FALSE
  BY <1>4 DEF Reboot, Idle
<1>5. PICK u \in Terminals : Step(u)
  BY <1>1, <1>2, <1>3, <1>4 DEF Next, Act
<1>6. u = t
  BY <1>1, <1>5, StepShape
<1>7. CASE Status(t)
  <2>1. \/ cmd'[t] = Idle("ok") /\ Installed(cmd[t].caller) = {}
        \/ cmd'[t].op = cmd[t].op
    BY <1>1, <1>7, StatusStep
  <2>2. cmd'[t] = Idle("ok") /\ Installed(cmd[t].caller) = {}
    BY <2>1
  <2>3. QED BY <1>1, <1>5, <1>6, <1>7, <2>2, IdleIsGood DEF Results
<1>8. CASE ~Status(t)
  <2>1. ~Kill(t)
    BY <1>1, Ends DEF Kill, Results
  <2>2. CASE Effect(t) /\ Proceed(t)
    <3>1. cmd'[t] = Idle("ok") /\ Len(cmd[t].todo) = 1
      BY <1>1, <2>2, MovedOrEnded DEF Moved
    <3>2. QED BY <1>1, <1>5, <1>6, <1>8, <2>2, <3>1, IdleIsGood DEF Results
  <2>3. CASE Fail(t) /\ Refused(t) /\ UNCHANGED manager
    <3>1. cmd'[t].result = "failed"
      BY <1>1, <2>3, Ends DEF Fail, Results
    <3>2. QED BY <1>1, <1>5, <1>6, <1>8, <2>3, <3>1
  <2>4. QED BY <1>1, <1>5, <1>6, <1>8, <2>1, <2>2, <2>3, StepKinds
<1>9. QED BY <1>7, <1>8

\* One that reports success has made its last call, or Status found nothing.
LEMMA SucceedsByItself ==
    ASSUME TypeInv, [Next]_vars, NEW t \in Terminals, Succeeds(t)
    PROVE  /\ UNCHANGED world /\ Step(t) /\ TypeInv'
           /\ \/ Status(t) /\ Installed(cmd[t].caller) = {}
              \/ /\ ~Status(t) /\ Effect(t) /\ Len(cmd[t].todo) = 1
                 /\ cmd[t].todo[1] # "status"
           /\ InUse(t) /\ cmd[t].op \in Commands /\ cmd[t].scope \in Scopes
           /\ Remains(cmd[t].op, cmd[t].todo) /\ cmd[t].caller \in world.callers
           /\ Head(cmd[t].todo) = cmd[t].todo[1]
           /\ \A step : At(t, step) <=> step = cmd[t].todo[1]
<1>1. InUse(t) /\ ~InUse(t)' /\ cmd'[t].result = "ok"
  BY IdleIsGood DEF Succeeds, Results
<1>2. /\ cmd[t].op \in Commands /\ cmd[t].scope \in Scopes
      /\ Remains(cmd[t].op, cmd[t].todo) /\ cmd[t].caller \in world.callers
      /\ Head(cmd[t].todo) = cmd[t].todo[1]
      /\ \A step : At(t, step) <=> step = cmd[t].todo[1]
  BY <1>1, UnderWay DEF At
<1>3. Effect(t) => cmd[t].todo[1] # "status"
  BY DEF Effect, ManagerCalls, BestEffort
<1>4. QED BY <1>1, <1>2, <1>3, EndsByItself

\* A process started, or found running.
LEMMA LastCallRuns ==
    ASSUME TypeInv, NEW t \in Terminals, InUse(t), Effect(t),
           cmd[t].todo[1] \in {"enable", "restart", "kickstart"}
    PROVE  /\ job'[cmd[t].scope] = "running" /\ unit' = unit
           /\ Reaches(cmd[t].caller, cmd[t].scope)
           /\ cmd[t].todo[1] \in {"enable", "restart"} => unit[cmd[t].scope]
           /\ cmd[t].todo[1] = "kickstart" => registered[cmd[t].scope]
           /\ stale' = [stale EXCEPT ![cmd[t].scope] = FALSE] \/ stale' = stale
           /\ cmd[t].todo[1] # "enable" => stale' = [stale EXCEPT ![cmd[t].scope] = FALSE]
<1> DEFINE s == cmd[t].scope
<1>1. s \in Scopes /\ job \in [Scopes -> Jobs]
  BY DEF TypeInv, TypeOK
<1>2. Reaches(cmd[t].caller, s) /\ Call(cmd[t].todo[1], s)
  BY DEF Effect, BestEffort
<1>3. CASE cmd[t].todo[1] = "enable" /\ Enable(s)
  BY <1>1, <1>2, <1>3 DEF Enable, Started
<1>4. CASE cmd[t].todo[1] = "restart" /\ SystemdRestart(s)
  BY <1>1, <1>2, <1>4 DEF SystemdRestart, Started
<1>5. CASE cmd[t].todo[1] = "kickstart" /\ Kickstart(s)
  BY <1>1, <1>2, <1>5 DEF Kickstart, Started
<1>6. QED BY <1>2, <1>3, <1>4, <1>5 DEF Call

\* "started the receptor service": whatever the machine, the faults and the
\* other commands, after a successful start or wizard the service runs.
THEOREM StartedMeansRunning == Spec => StartRuns
<1>1. ASSUME TypeInv, [Next]_vars, NEW t \in Terminals, Succeeds(t),
             cmd[t].op \in {"start", "wizard"}
      PROVE  job'[cmd[t].scope] = "running"
  <2>1. ~Status(t)
    BY <1>1, SucceedsByItself, StatusStep
  <2>2. Effect(t) /\ InUse(t) /\ cmd[t].todo[1] \in {"enable", "kickstart"}
    <3>1. /\ Effect(t) /\ InUse(t) /\ Len(cmd[t].todo) = 1 /\ cmd[t].todo[1] # "status"
          /\ cmd[t].op \in Commands /\ Remains(cmd[t].op, cmd[t].todo)
      BY <1>1, <2>1, SucceedsByItself
    <3>2. QED BY <1>1, <3>1, LastCall DEF Installing
  <2>3. QED BY <1>1, <2>2, LastCallRuns
<1>2. TypeInv /\ [Next]_vars =>
        [\A t \in Terminals :
            Succeeds(t) /\ cmd[t].op \in {"start", "wizard"} => job'[cmd[t].scope] = "running"]_vars
  BY <1>1
<1>3. QED BY <1>2, InitType, NextType, PTL DEF Spec, StartRuns

\* "stopped the receptor service": where the managers do as they are asked and
\* commands do not overlap, its process and its unit are gone after a
\* successful stop.
THEOREM StoppedMeansGone == Spec => StopStops
<1>1. ASSUME InstalledInv, [Next]_vars, NEW t \in Terminals, Never({"manager", "overlap"}),
             ~SplitRights, Succeeds(t), cmd[t].op = "stop"
      PROVE  job'[cmd[t].scope] # "running" /\ ~unit'[cmd[t].scope]
  <2> DEFINE next == cmd[t].todo[1]
             s    == cmd[t].scope
  <2>1. TypeInv /\ unit \in [Scopes -> BOOLEAN] /\ (IF Linux THEN InstalledOnLinux ELSE InstalledOnMac)
    BY <1>1 DEF InstalledInv, AloneInv, TypeInv, TypeOK
  <2>2. /\ InUse(t) /\ s \in Scopes /\ Effect(t)
        /\ Len(cmd[t].todo) = 1 /\ next # "status"
        /\ cmd[t].op \in Commands /\ Remains(cmd[t].op, cmd[t].todo)
        /\ \A step : At(t, step) <=> step = next
    BY <1>1, <2>1, SucceedsByItself, StatusStep
  <2>3. next = IF Linux THEN "reload" ELSE "remove"
    BY <1>1, <2>2, LastCall
  <2>4. CASE Linux
    <3>1. UNCHANGED manager
      BY <2>2, <2>3, <2>4 DEF Effect, Call, BestEffort
    <3>2. ~unit[s]
      BY <1>1, <2>1, <2>2, <2>3, <2>4 DEF InstalledOnLinux
    <3>3. QED BY <2>1, <2>2, <2>4, <3>1, <3>2 DEF InstalledOnLinux
  <2>5. CASE ~Linux
    <3>1. /\ MayWrite(cmd[t].caller, s) \/ ~unit[s]
          /\ unit' = [unit EXCEPT ![s] = FALSE] /\ UNCHANGED job
      BY <2>2, <2>3, <2>5 DEF Effect, ManagerCalls, BestEffort
    <3>2. ~registered[s]
      BY <2>1, <2>2, <2>3, <2>5, <3>1 DEF InstalledOnMac
    <3>3. job[s] # "running"
      BY <2>1, <2>2, <2>5, <3>2 DEF InstalledOnMac
    <3>4. QED BY <2>1, <2>2, <3>1, <3>3
  <2>6. QED BY <2>4, <2>5
<1>2. InstalledInv /\ [Next]_vars =>
        [\A t \in Terminals :
            Never({"manager", "overlap"}) /\ ~SplitRights /\ Succeeds(t) /\ cmd[t].op = "stop" =>
                job'[cmd[t].scope] # "running" /\ ~unit'[cmd[t].scope]]_vars
  BY <1>1
<1>3. QED BY <1>2, InitInstalled, NextInstalled, PTL DEF Spec, StopStops

\* What Status finds after init's or update's last call is where that was.
LEMMA LastCallAim ==
    ASSUME AloneInv, Never({"overlap"}), [Next]_vars, NEW t \in Terminals, Succeeds(t), ~Status(t),
           cmd[t].op \in {"init", "update"}, NEW caller
    PROVE  /\ \A s \in Installed(caller)' : s = cmd[t].scope
           /\ Effect(t) /\ InUse(t) /\ cmd[t].scope \in Scopes
           /\ cmd[t].todo[1] \in {"enable", "restart", "kickstart"}
           /\ cmd[t].todo[1] = "enable" =>
                 Linux /\ cmd[t].op = "init" /\ Changing(t) /\ Len(cmd[t].todo) = 1
<1> DEFINE next == cmd[t].todo[1]
           s    == cmd[t].scope
<1>1. TypeInv /\ OnTarget(t) /\ WrittenStays(t)
  BY DEF AloneInv
<1>2. /\ InUse(t) /\ s \in Scopes /\ Effect(t)
      /\ Len(cmd[t].todo) = 1 /\ next # "status"
      /\ cmd[t].op \in Commands /\ Remains(cmd[t].op, cmd[t].todo)
      /\ Head(cmd[t].todo) = next
  BY <1>1, SucceedsByItself
<1>3. /\ next \in {"enable", "restart", "kickstart"}
      /\ next = "enable" => Linux /\ cmd[t].op = "init"
  BY <1>2, LastCall DEF Installing
<1>4. Changing(t)
  BY <1>2, <1>3 DEF Changing
<1>5. unit' = unit
  BY <1>1, <1>2, <1>3, LastCallRuns
<1>6. unit[s]
  <2>1. CASE cmd[t].op = "update"
    BY <1>1, <1>4, <2>1, OnTargetParts
  <2>2. CASE cmd[t].op = "init"
    <3>1. Len(cmd[t].todo) <= IF Linux THEN 2 ELSE 3
      BY <1>2
    <3>2. QED BY <1>1, <1>4, <2>2, <3>1 DEF WrittenStays, Installing
  <2>3. QED BY <2>1, <2>2
<1>7. s = "user" => ~unit["system"]
  BY <1>1, <1>4, OnTargetParts
<1>8. \A x \in Installed(caller)' : x = s
  <2>1. CASE s = "system"
    BY <1>5, <1>6, <2>1 DEF Installed
  <2>2. CASE s = "user"
    BY <1>5, <1>7, <2>2 DEF Installed
  <2>3. QED BY <1>2, <2>1, <2>2 DEF Scopes
<1>9. QED BY <1>2, <1>3, <1>4, <1>8

\* After a successful init or update the service that Status finds runs, and
\* with the new configuration or program, in every machine whose commands do
\* not overlap, and with systemd as long as its calls do not fail.
THEOREM ChangesAreInEffect == Spec => ChangeTakesEffect
<1>1. ASSUME AloneInv, [Next]_vars, NEW t \in Terminals, NEW caller \in Callers,
             Never({"overlap"}), Linux => Never({"manager"}), Succeeds(t),
             cmd[t].op \in {"init", "update"}, cmd[t].caller = caller,
             NEW s \in Installed(caller)'
      PROVE  job'[s] = "running" /\ ~stale'[s]
  <2>1. TypeInv /\ stale \in [Scopes -> BOOLEAN]
    BY <1>1 DEF AloneInv, TypeInv, TypeOK
  <2>2. ~Status(t)
    <3> SUFFICES ASSUME Status(t) PROVE FALSE
      OBVIOUS
    <3>1. Installed(caller) = {}
      <4>1. cmd[t].todo[1] = "status"
        <5>1. InUse(t) /\ Head(cmd[t].todo) = "status"
          BY DEF Status, At
        <5>2. QED BY <2>1, <5>1, UnderWay
      <4>2. QED BY <1>1, <2>1, <4>1, SucceedsByItself
    <3>2. Installed(caller)' = Installed(caller)
      BY DEF Status, Installed, ResolvesUser
    <3>3. QED BY <1>1, <3>1, <3>2
  <2>3. /\ s = cmd[t].scope /\ s \in Scopes /\ Effect(t) /\ InUse(t)
        /\ cmd[t].todo[1] \in {"enable", "restart", "kickstart"}
        /\ cmd[t].todo[1] = "enable" =>
              Linux /\ cmd[t].op = "init" /\ Changing(t) /\ Len(cmd[t].todo) = 1
    BY <1>1, <2>2, LastCallAim
  <2>4. /\ job'[s] = "running" /\ Reaches(cmd[t].caller, s)
        /\ stale' = [stale EXCEPT ![s] = FALSE] \/ stale' = stale
        /\ cmd[t].todo[1] # "enable" => stale' = [stale EXCEPT ![s] = FALSE]
    BY <2>1, <2>3, LastCallRuns
  <2>5. CASE cmd[t].todo[1] = "enable"
    <3>1. Len(cmd[t].todo) < 7
      <4>1. Len(cmd[t].todo) = 1 BY <2>3, <2>5
      <4>2. QED BY <4>1
    <3>2. StoppedIsNotStale(t)
      BY <1>1, <2>3, <2>5 DEF AloneInv
    <3>3. ~stale[s]
      BY <2>3, <2>4, <2>5, <3>1, <3>2 DEF StoppedIsNotStale
    <3>4. QED BY <2>1, <2>3, <2>4, <3>3
  <2>6. CASE cmd[t].todo[1] # "enable"
    BY <2>1, <2>3, <2>4, <2>6
  <2>7. QED BY <2>5, <2>6
<1>2. ASSUME AloneInv, [Next]_vars
      PROVE  [\A t \in Terminals, caller \in Callers :
                /\ Never({"overlap"})
                /\ Linux => Never({"manager"})
                /\ Succeeds(t)
                /\ cmd[t].op \in {"init", "update"}
                /\ cmd[t].caller = caller
                => \A s \in Installed(caller)' : job'[s] = "running" /\ ~stale'[s]]_vars
  BY <1>1, <1>2
<1>3. QED BY <1>2, InitAlone, NextAlone, PTL DEF Spec, ChangeTakesEffect

\* Among init's calls there is one of a manager until it is past Status only.
LEMMA StatusIsNoCall ==
    ASSUME TypeInv, NEW t \in Terminals, InUse(t), cmd[t].todo[1] = "status"
    PROVE  ~\E i \in DOMAIN cmd[t].todo : cmd[t].todo[i] \in ManagerCalls
<1>1. cmd[t].op \in Commands /\ Remains(cmd[t].op, cmd[t].todo) /\ cmd[t].todo \in Seq(StepNames)
  BY UnderWay
<1>2. Len(cmd[t].todo) = 1
  BY <1>1, LinuxPlaces, MacPlaces
<1>3. DOMAIN cmd[t].todo = {1}
  BY <1>1, <1>2
<1>4. QED BY <1>3 DEF ManagerCalls

\* Some lengths.
LEMMA UpToFive == \A n : n = 1 \/ n = 2 \/ n = 3 \/ n = 4 \/ n = 5 => ~(n > 5)
  OBVIOUS

\* Where init is refused it has not taken the service away, or has it back.
LEMMA InitRefused ==
    ASSUME TruthInv, Undisturbed, NEW t \in Terminals, InUse(t), Refused(t), cmd[t].op = "init"
    PROVE  unit[cmd[t].scope] /\ job[cmd[t].scope] = "running"
<1> DEFINE next == cmd[t].todo[1]
           s    == cmd[t].scope
           c    == cmd[t].caller
<1>1. /\ InstalledInv /\ AloneInv /\ TypeInv /\ "manager" \notin Faults
      /\ Never({"manager", "overlap"}) /\ ~SplitRights
      /\ Linux => InstalledOnLinux
      /\ ~Linux => InstalledOnMac
      /\ OnTarget(t) /\ Alone
  BY UndisturbedWorld DEF TruthInv, AloneInv
<1>2. /\ s \in Scopes /\ c \in world.callers
      /\ cmd[t].op \in Commands /\ Remains(cmd[t].op, cmd[t].todo)
      /\ Head(cmd[t].todo) = next
  BY <1>1, UnderWay
<1>3. ~InWindow(t)
  BY <1>1, RefusedOutside, RefusedOutsideMac
<1>4. \A x \in Scopes : unit[x] => job[x] = "running"
  BY <1>1, <1>3 DEF TruthInv, Undisturbed, SomeoneIsInWindow, Alone
<1>5. Changing(t)
  BY <1>2 DEF Refused, Changing, ManagerCalls
<1>6. (s = "user" => ResolvesUser(c)) /\ (~(Len(cmd[t].todo) > 5) => MayWrite(c, s))
  BY <1>1, <1>5, OnTargetParts
<1>7. MayWrite(c, s) <=> Reaches(c, s)
  BY <1>1, <1>2, WritersReach
<1>8. next # "guard"
  BY <1>6 DEF Refused, ManagerCalls
<1>9. next # "write"
  <2> SUFFICES ASSUME next = "write" PROVE FALSE
    OBVIOUS
  <2>1. Len(cmd[t].todo) = 3 \/ Len(cmd[t].todo) = 4
    BY <1>2, WriteAndRemovePlaces
  <2>2. ~(Len(cmd[t].todo) > 5)
    BY <2>1, UpToFive
  <2>3. QED BY <1>6, <2>2 DEF Refused, ManagerCalls
<1>10. next \notin ManagerCalls
  <2> SUFFICES ASSUME next \in ManagerCalls PROVE FALSE
    OBVIOUS
  <2>1. next \in {"reload", "enable", "bootstrap", "kickstart"}
    <3>1. next # "restart"
      BY <1>2, LinuxPlaces, MacPlaces
    <3>2. QED BY <3>1 DEF Refused, ManagerCalls, BestEffort
  <2>2. Len(cmd[t].todo) = 5 \/ Len(cmd[t].todo) = 2 \/ Len(cmd[t].todo) = 1
    BY <1>2, <2>1, LinuxPlaces, MacPlaces
  <2>3. ~(Len(cmd[t].todo) > 5)
    BY <2>2, UpToFive
  <2>4. MayWrite(c, s) /\ Reaches(c, s)
    BY <1>6, <1>7, <2>3
  <2>5. next = "reload"
    <3>1. CASE Linux
      BY <1>1, <1>2, <1>3, <2>1, <2>4, <3>1, LinuxWindow, LinuxPlaces
    <3>2. CASE ~Linux
      BY <1>1, <1>2, <1>3, <2>1, <2>4, <3>2, MacWindow, MacPlaces DEF Installing
    <3>3. QED BY <3>1, <3>2
  <2>6. QED BY <1>1, <2>4, <2>5 DEF Refused, CanCall
<1>11. next = "remove" /\ unit[s]
  BY <1>8, <1>9, <1>10 DEF Refused
<1>12. QED BY <1>2, <1>4, <1>11

\* init takes the service away and sets it up again: however it ends in an
\* undisturbed machine, the service it found is there afterwards and runs.
THEOREM InitLeavesService == Spec => InitKeepsService
<1>1. ASSUME TruthInv, [Next]_vars, NEW t \in Terminals, NEW s \in Scopes, Undisturbed,
             cmd[t].op = "init", cmd[t].scope = s,
             \E i \in DOMAIN cmd[t].todo : cmd[t].todo[i] \in ManagerCalls, EndsAlone(t)
      PROVE  unit'[s] /\ job'[s] = "running"
  <2>1. /\ InstalledInv /\ TypeInv /\ InUse(t)
        /\ Linux => InstalledOnLinux
        /\ ~Linux => InstalledOnMac
    BY <1>1, UndisturbedWorld DEF TruthInv, EndsAlone
  <2>2. cmd[t].todo[1] # "status" /\ cmd[t].op \in Commands /\ Remains(cmd[t].op, cmd[t].todo)
    BY <1>1, <2>1, StatusIsNoCall, UnderWay
  <2>3. ~Status(t)
    BY <2>1, <2>2, UnderWay DEF Status, At
  <2>4. \/ Effect(t) /\ Len(cmd[t].todo) = 1
        \/ Refused(t) /\ UNCHANGED manager
    BY <1>1, <2>1, <2>3, EndsByItself DEF EndsAlone
  <2>5. CASE Effect(t) /\ Len(cmd[t].todo) = 1
    <3>1. cmd[t].todo[1] = IF Linux THEN "enable" ELSE "kickstart"
      BY <1>1, <2>2, <2>5, LastCall DEF Installing
    <3>2. job'[s] = "running" /\ unit' = unit
          /\ (Linux => unit[s]) /\ (~Linux => registered[s])
      BY <1>1, <2>1, <2>5, <3>1, LastCallRuns
    <3>3. ~Linux => unit[s]
      BY <1>1, <2>1, <3>2 DEF InstalledOnMac
    <3>4. QED BY <3>2, <3>3
  <2>6. CASE Refused(t) /\ UNCHANGED manager
    BY <1>1, <2>1, <2>6, InitRefused
  <2>7. QED BY <2>4, <2>5, <2>6
<1>2. ASSUME TruthInv, [Next]_vars
      PROVE  [\A t \in Terminals, s \in Scopes :
                /\ Never({"kill", "manager", "overlap", "term"})
                /\ ~SplitRights
                /\ cmd[t].op = "init"
                /\ cmd[t].scope = s
                /\ \E i \in DOMAIN cmd[t].todo : cmd[t].todo[i] \in ManagerCalls
                /\ EndsAlone(t)
                => unit'[s] /\ job'[s] = "running"]_vars
  BY <1>1, <1>2 DEF Undisturbed
<1>3. QED BY <1>2, InitTruth, NextTruth, PTL DEF Spec, InitKeepsService
=============================================================================
