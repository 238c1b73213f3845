-------------------------- MODULE VersionRegister ---------------------------
(***************************************************************************)
(* What updating promises: one version is installed, the one it replaced   *)
(* is kept beside it, and the way back is open until the new version has   *)
(* shown that it works.                                                    *)
(***************************************************************************)
CONSTANTS
    Versions,  \* released versions
    Original,  \* installed and trusted at first
    Missing    \* no version kept

VARIABLES installed, kept, trusted

vars == <<installed, kept, trusted>>

Init == installed = Original /\ kept = Missing /\ trusted = TRUE

\* An update drops the version kept so far, ...
Drop == kept' = Missing /\ UNCHANGED <<installed, trusted>>

\* ... then replaces the installed one and keeps that.
Install ==
    /\ installed' \in Versions
    /\ kept' = installed
    /\ trusted' = FALSE

\* The installed version completes a check-in.
Trust == trusted' = TRUE /\ UNCHANGED <<installed, kept>>

\* A version never trusted gives way to the one it replaced.
Revert ==
    /\ ~trusted
    /\ kept # Missing
    /\ installed' = kept
    /\ kept' = Missing
    /\ trusted' \in BOOLEAN

Next == Drop \/ Install \/ Trust \/ Revert

Spec == Init /\ [][Next]_vars
=============================================================================
