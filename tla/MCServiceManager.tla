-------------------------- MODULE MCServiceManager --------------------------
(***************************************************************************)
(* The machines for the service runs: Linux and macOS, each with the sets  *)
(* of faults below and every caller and scope; on Linux also without sudo  *)
(* and polkit, because several properties hold only there.                 *)
(***************************************************************************)
EXTENDS ServiceManager

CONSTANTS t1, t2

World(linux, faults, callers) ==
    [linux |-> linux, faults |-> faults, callers |-> callers, scopes |-> Scopes]

\* What commands given one at a time may meet.
MCFaults == { {}, {"crash", "reboot"}, {"kill", "crash", "reboot", "term"}, {"manager", "crash"} }

MCWorlds ==
    {World(linux, f, Callers) : linux \in BOOLEAN, f \in MCFaults}
        \cup {World(TRUE, f, {"user", "root"}) : f \in MCFaults}
        \cup {World(linux, {"overlap", "crash"}, {"user", "root"}) : linux \in BOOLEAN}
=============================================================================
