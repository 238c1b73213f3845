--------------------------- MODULE ServiceManager ---------------------------
(***************************************************************************)
(* Installing, removing and restarting the background service: what start, *)
(* stop, init, the wizard and update ask of systemd or launchd, one call   *)
(* after another, and what those managers and the machine do meanwhile.    *)
(* There may be a unit (or plist) per user and one for the whole system.   *)
(***************************************************************************)
EXTENDS Sequences

CONSTANTS
    Terminals, \* where commands are typed
    Worlds     \* the machines considered; see WorldType

Scopes == {"user", "system"}

Callers ==
    { "user",   \* an ordinary user
      "polkit", \* one whom polkit lets call the system's manager on Linux
      "sudo",   \* root through sudo, with SUDO_USER set
      "root" }  \* root without it: a cron job, the system-wide service itself

Commands == {"start", "stop", "init", "wizard", "update"}

FaultKinds ==
    { "kill",     \* a command is killed between two calls
      "manager",  \* a call of systemctl or launchctl fails
      "overlap",  \* commands overlap
      "reboot",   \* the machine restarts
      "crash",    \* the service's process fails
      "term" }    \* the service's process is sent SIGTERM and ends with 0

\* What a behaviour never changes: Linux or macOS, the faults, and who may
\* give a command for which scope.
WorldType ==
    [ linux : BOOLEAN, faults : SUBSET FaultKinds, callers : SUBSET Callers,
      scopes : SUBSET Scopes ]

ASSUME WorldsAssumption == Worlds \subseteq WorldType

VARIABLES
    world,
    unit,        \* scope -> is the unit file or plist there?
    registered,  \* scope -> is it enabled (systemd) or loaded (launchd)?
    job,         \* scope -> its process: stopped, running, or leaving
    stale,       \* scope -> does that run an older config or binary?
    cmd          \* terminal -> the command given there

manager == <<unit, registered, job, stale>>
vars    == <<world, manager, cmd>>

Linux       == world.linux
Faults      == world.faults
Jobs        == {"stopped", "running", "leaving"}
Results     == {"none", "ok", "failed", "killed"}
Idle(r)     == [op |-> "none", caller |-> "user", scope |-> "user", todo |-> <<>>, result |-> r]
InUse(t)    == cmd[t].op # "none"
Quiet       == \A t \in Terminals : ~InUse(t)

Init ==
    /\ world \in Worlds
    /\ unit = [s \in Scopes |-> FALSE]
    /\ registered = unit
    /\ job = [s \in Scopes |-> "stopped"]
    /\ stale = unit
    /\ cmd = [t \in Terminals |-> Idle("none")]
-----------------------------------------------------------------------------
(* The calls each operation of package service makes, in order.            *)

\* Mutant: RunAtLoad is trusted to start the process.
InstallNoKickstart ==
    <<"guard", "write">> \o IF Linux THEN <<"reload", "enable">> ELSE <<"bootout", "bootstrap">>

Install ==
    <<"guard", "write">> \o
    IF Linux THEN <<"reload", "enable">> ELSE <<"bootout", "bootstrap", "kickstart">>

\* Mutant: the unit is removed before the service is stopped.
UninstallRemovesFirst == <<"guard", "remove">> \o IF Linux THEN <<"disable", "reload">> ELSE <<"bootout">>

\* Mutant: the unit is removed, its process is left alone.
UninstallOnlyRemoves == <<"guard", "remove">>

\* Mutant: the service is stopped, its unit stays.
UninstallKeepsUnit == <<"guard">> \o IF Linux THEN <<"disable", "reload">> ELSE <<"bootout">>

Uninstall ==
    <<"guard">> \o IF Linux THEN <<"disable", "remove", "reload">> ELSE <<"bootout", "remove">>

Restart == <<"guard">> \o IF Linux THEN <<"restart">> ELSE <<"kickstart">>

\* init and update change config.json or the binary and ask Status then.
Program(op) ==
    CASE op = "start"  -> Install
      [] op = "stop"   -> Uninstall
      [] op = "wizard" -> <<"save">> \o Install
      [] op \in {"init", "update"} -> <<"save", "status">>

\* Mutant: the change is made, the service is left alone.
AfterStatusNothing(op) == IF op = "init" THEN <<>> ELSE Restart

\* Mutant: the service is started again before it is removed.
AfterStatusReversed(op) == IF op = "init" THEN Install \o Uninstall ELSE Restart

\* restartServiceIfRunning and ApplyDaemonUpdate.
AfterStatus(op) == IF op = "init" THEN Uninstall \o Install ELSE Restart

\* sudoenv: root without SUDO_USER has no home, and no unit of its own.
ResolvesUser(caller) == caller # "root"

MayWrite(caller, s) == IF s = "system" THEN caller \in {"sudo", "root"} ELSE ResolvesUser(caller)

\* systemctl --user run by sudo talks to root's own manager, or to none;
\* launchctl gets the user's domain by its number.
Reaches(caller, s) ==
    IF s = "system" THEN caller \in {"sudo", "root"} \/ (caller = "polkit" /\ Linux)
    ELSE caller \in {"user", "polkit"} \/ (caller = "sudo" /\ ~Linux)

\* Status looks for the system-wide unit first.
Installed(caller) ==
    IF unit["system"] THEN {"system"}
    ELSE IF unit["user"] /\ ResolvesUser(caller) THEN {"user"} ELSE {}
-----------------------------------------------------------------------------
(* The managers.  Each operator says what a successful call changes.       *)

Stopped(s) == job' = [job EXCEPT ![s] = "stopped"] /\ stale' = [stale EXCEPT ![s] = FALSE]
Started(s) == job' = [job EXCEPT ![s] = "running"] /\ stale' = [stale EXCEPT ![s] = FALSE]

\* systemctl enable --now: nothing is started twice.
Enable(s) ==
    /\ unit[s]
    /\ registered' = [registered EXCEPT ![s] = TRUE]
    /\ IF job[s] = "running" THEN UNCHANGED <<job, stale>> ELSE Started(s)
    /\ UNCHANGED unit

\* systemctl disable --now.
Disable(s) ==
    /\ unit[s]
    /\ registered' = [registered EXCEPT ![s] = FALSE]
    /\ Stopped(s)
    /\ UNCHANGED unit

\* systemctl restart starts what was stopped, too.
SystemdRestart(s) == unit[s] /\ Started(s) /\ UNCHANGED <<unit, registered>>

\* launchctl bootout returns before the process is gone.
Bootout(s) ==
    /\ registered[s]
    /\ registered' = [registered EXCEPT ![s] = FALSE]
    /\ job' = [job EXCEPT ![s] = IF @ = "running" THEN "leaving" ELSE @]
    /\ UNCHANGED <<unit, stale>>

\* launchctl bootstrap: RunAtLoad starts the process, unless the one before
\* is still leaving.
Bootstrap(s) ==
    /\ unit[s]
    /\ ~registered[s]
    /\ registered' = [registered EXCEPT ![s] = TRUE]
    /\ IF job[s] = "leaving" THEN UNCHANGED <<job, stale>> ELSE Started(s)
    /\ UNCHANGED unit

\* launchctl kickstart -k.
Kickstart(s) == registered[s] /\ Started(s) /\ UNCHANGED <<unit, registered>>

Call(step, s) ==
    \/ step = "enable" /\ Enable(s)
    \/ step = "disable" /\ Disable(s)
    \/ step = "restart" /\ SystemdRestart(s)
    \/ step = "bootout" /\ Bootout(s)
    \/ step = "bootstrap" /\ Bootstrap(s)
    \/ step = "kickstart" /\ Kickstart(s)
    \/ step = "reload" /\ UNCHANGED manager

CanCall(step, s) ==
    CASE step \in {"enable", "disable", "restart"} -> unit[s]
      [] step \in {"bootout", "kickstart"} -> registered[s]
      [] step = "bootstrap" -> unit[s] /\ ~registered[s]
      [] step = "reload" -> TRUE

ManagerCalls == {"enable", "disable", "restart", "bootout", "bootstrap", "kickstart", "reload"}
BestEffort   == {"disable", "bootout"}
-----------------------------------------------------------------------------
(* A command, step by step.                                                *)

Begin(t, op, caller, s) ==
    /\ ~InUse(t)
    /\ Quiet \/ "overlap" \in Faults
    /\ cmd' = [cmd EXCEPT ![t] =
                 [op |-> op, caller |-> caller, scope |-> s, todo |-> Program(op), result |-> "none"]]
    /\ UNCHANGED manager

At(t, step) == InUse(t) /\ cmd[t].todo # <<>> /\ Head(cmd[t].todo) = step

\* Mutant: nothing is reported after the last call.
ProceedUnreported(t) == cmd' = [cmd EXCEPT ![t].todo = Tail(@)]

\* The command goes on with its next call, or has made its last.
Proceed(t) ==
    LET rest == Tail(cmd[t].todo)
    IN  cmd' = [cmd EXCEPT ![t] = IF rest = <<>> THEN Idle("ok") ELSE [@ EXCEPT !.todo = rest]]

\* init and the wizard report a failure as a warning; nothing is undone.
Fail(t) == cmd' = [cmd EXCEPT ![t] = Idle("failed")]

\* guardAgainstRootPerUserInstall.
Guard(t) ==
    /\ At(t, "guard")
    /\ IF cmd[t].scope = "user" /\ ~ResolvesUser(cmd[t].caller) THEN Fail(t) ELSE Proceed(t)
    /\ UNCHANGED manager

WriteUnit(t) ==
    /\ At(t, "write")
    /\ IF MayWrite(cmd[t].caller, cmd[t].scope)
       THEN Proceed(t) /\ unit' = [unit EXCEPT ![cmd[t].scope] = TRUE]
       ELSE Fail(t) /\ UNCHANGED unit
    /\ UNCHANGED <<registered, job, stale>>

\* A unit that is not there counts as removed.
RemoveUnit(t) ==
    /\ At(t, "remove")
    /\ IF MayWrite(cmd[t].caller, cmd[t].scope) \/ ~unit[cmd[t].scope]
       THEN Proceed(t) /\ unit' = [unit EXCEPT ![cmd[t].scope] = FALSE]
       ELSE Fail(t) /\ UNCHANGED unit
    /\ UNCHANGED <<registered, job, stale>>

\* config.json or the binary is replaced under the running processes.
Save(t) ==
    /\ At(t, "save")
    /\ stale' = [s \in Scopes |-> job[s] # "stopped"]
    /\ Proceed(t)
    /\ UNCHANGED <<unit, registered, job>>

Status(t) ==
    /\ At(t, "status")
    /\ LET found == Installed(cmd[t].caller)
           after == AfterStatus(cmd[t].op)
       IN  cmd' = [cmd EXCEPT ![t] =
                     IF found = {} \/ after = <<>> THEN Idle("ok")
                     ELSE [@ EXCEPT !.scope = CHOOSE s \in found : TRUE, !.todo = after]]
    /\ UNCHANGED manager

\* A call that reaches the manager and works, ...
CallWorks(t) ==
    \E step \in ManagerCalls :
        /\ At(t, step)
        /\ Reaches(cmd[t].caller, cmd[t].scope)
        /\ Call(step, cmd[t].scope)
        /\ Proceed(t)

\* ... one to root's own manager, ...
CallAstray(t) ==
    /\ At(t, "reload")
    /\ cmd[t].caller = "sudo" /\ ~Reaches("sudo", cmd[t].scope)
    /\ Proceed(t)
    /\ UNCHANGED manager

\* ... and one that fails, which disable and bootout may.
CallFails(t) ==
    \E step \in ManagerCalls :
        /\ At(t, step)
        /\ \/ ~Reaches(cmd[t].caller, cmd[t].scope)
           \/ ~CanCall(step, cmd[t].scope)
           \/ "manager" \in Faults
        /\ IF step \in BestEffort THEN Proceed(t) ELSE Fail(t)
        /\ UNCHANGED manager

Kill(t) ==
    /\ "kill" \in Faults
    /\ InUse(t)
    /\ cmd' = [cmd EXCEPT ![t] = Idle("killed")]
    /\ UNCHANGED manager

Step(t) ==
    \/ Guard(t) \/ WriteUnit(t) \/ RemoveUnit(t) \/ Save(t) \/ Status(t)
    \/ CallWorks(t) \/ CallAstray(t) \/ CallFails(t) \/ Kill(t)
-----------------------------------------------------------------------------
(* The processes and the machine.                                          *)

Managed(s) == IF Linux THEN unit[s] ELSE registered[s]

Left(s) ==
    /\ job[s] = "leaving"
    /\ Stopped(s)
    /\ UNCHANGED <<unit, registered, cmd>>

\* Restart=on-failure and KeepAlive.
Crash(s) ==
    /\ "crash" \in Faults
    /\ job[s] = "running"
    /\ IF Managed(s) THEN Started(s) ELSE Stopped(s)
    /\ UNCHANGED <<unit, registered, cmd>>

\* A clean exit is no failure to systemd.
Term(s) ==
    /\ "term" \in Faults
    /\ job[s] = "running"
    /\ IF ~Linux /\ Managed(s) THEN Started(s) ELSE Stopped(s)
    /\ UNCHANGED <<unit, registered, cmd>>

\* The machine comes back, and its user logs in (or lingers).  It kills the
\* command under way, too.
Reboot ==
    /\ "reboot" \in Faults
    /\ Quiet \/ "kill" \in Faults
    /\ cmd' = [t \in Terminals |-> Idle("killed")]
    /\ LET up(s) == unit[s] /\ (Linux => registered[s])
       IN  /\ job' = [s \in Scopes |-> IF up(s) THEN "running" ELSE "stopped"]
           /\ registered' = IF Linux THEN registered ELSE unit
    /\ stale' = [s \in Scopes |-> FALSE]
    /\ UNCHANGED unit

Act ==
    \/ \E t \in Terminals, op \in Commands, c \in world.callers, s \in world.scopes : Begin(t, op, c, s)
    \/ \E t \in Terminals : Step(t)
    \/ \E s \in Scopes : Left(s) \/ Crash(s) \/ Term(s)
    \/ Reboot

Next == Act /\ UNCHANGED world

Spec == Init /\ [][Next]_vars
-----------------------------------------------------------------------------
(* Properties.  Some hold in every world; the others say in which.         *)

Never(faults) == Faults \cap faults = {}

\* Someone may write a unit without reaching its manager, or the reverse.
SplitRights == Linux /\ world.callers \cap {"sudo", "polkit"} # {}

\* The command at t ends with this step, and reports success.
Succeeds(t) == InUse(t) /\ cmd'[t] = Idle("ok")
EndsAlone(t) == InUse(t) /\ ~InUse(t)' /\ cmd'[t].result # "killed"

\* What each command is doing and what the managers know.
TypeOK ==
    /\ world \in Worlds
    /\ unit \in [Scopes -> BOOLEAN]
    /\ registered \in [Scopes -> BOOLEAN]
    /\ job \in [Scopes -> Jobs]
    /\ stale \in [Scopes -> BOOLEAN]
    /\ \A t \in Terminals :
          /\ cmd[t].op \in Commands \cup {"none"}
          /\ cmd[t].caller \in Callers
          /\ cmd[t].scope \in Scopes
          /\ cmd[t].result \in Results
          /\ InUse(t) <=> cmd[t].todo # <<>>

\* No process is orphaned: what runs has its unit or plist, so stop, status,
\* init and update can find it, wherever a command was killed and whatever
\* the process or the machine did.  With systemd it is enabled, too, unless
\* an Install was killed before that and update started the service later.
RunningIsInstalled ==
    Never({"manager", "overlap"}) /\ ~SplitRights =>
        \A s \in Scopes : job[s] = "running" =>
                                unit[s] /\ (Linux /\ Never({"kill"}) => registered[s])

\* While no command is under way, a service that status calls running
\* (it looks for the file only) does run: no command that ends by itself
\* leaves a unit without its process.
StatusTellsTruth ==
    Never({"kill", "manager", "overlap", "term"}) /\ ~SplitRights /\ Quiet =>
        \A s \in Scopes : unit[s] => job[s] = "running"

\* "started the receptor service": after start or the wizard it runs, even if
\* the launchd job it replaces was still on its way out, and whatever other
\* commands did meanwhile.
StartRuns ==
    [][\A t \in Terminals :
          Succeeds(t) /\ cmd[t].op \in {"start", "wizard"} => job'[cmd[t].scope] = "running"]_vars

\* "stopped the receptor service": after stop neither its process nor its
\* unit is there, so that it does not come back at boot.
StopStops ==
    [][\A t \in Terminals :
          Never({"manager", "overlap"}) /\ ~SplitRights /\ Succeeds(t) /\ cmd[t].op = "stop" =>
              job'[cmd[t].scope] # "running" /\ ~unit'[cmd[t].scope]]_vars

\* After init or update has reported success, the service Status finds runs
\* with the new config or binary, through crashes, SIGTERMs, restarts of the
\* machine and, on macOS, calls of launchctl that failed on the way.
ChangeTakesEffect ==
    [][\A t \in Terminals, caller \in Callers :
          /\ Never({"overlap"})
          /\ Linux => Never({"manager"})
          /\ Succeeds(t)
          /\ cmd[t].op \in {"init", "update"}
          /\ cmd[t].caller = caller
          => \A s \in Installed(caller)' : job'[s] = "running" /\ ~stale'[s]]_vars

\* init takes the service away and sets it up again; however that ends, the
\* service it found is there afterwards.  So restartServiceIfRunning has no
\* way to fail half-way but a manager's failing call, a kill, and sudo or
\* polkit on Linux (a service that SIGTERM had ended may stay so: a user
\* cannot replace the system-wide unit).
InitKeepsService ==
    [][\A t \in Terminals, s \in Scopes :
          /\ Never({"kill", "manager", "overlap", "term"})
          /\ ~SplitRights
          /\ cmd[t].op = "init"
          /\ cmd[t].scope = s
          /\ \E i \in DOMAIN cmd[t].todo : cmd[t].todo[i] \in ManagerCalls
          /\ EndsAlone(t)
          => unit'[s] /\ job'[s] = "running"]_vars

\* The wizard's new configuration is in use once it says "started"
\* (systemctl enable --now leaves a running service alone).
WizardTakesEffect ==
    [][\A t \in Terminals :
          Never({"overlap"}) /\ Succeeds(t) /\ cmd[t].op = "wizard" => ~stale'[cmd[t].scope]]_vars

\* sudo receptor update restarts the service it finds, per-user or not.
SudoUpdateRestarts ==
    [][\A t \in Terminals :
          /\ Never({"kill", "manager", "overlap"})
          /\ cmd[t].op = "update" /\ cmd[t].caller = "sudo" /\ EndsAlone(t)
          => cmd'[t].result = "ok"]_vars
=============================================================================
