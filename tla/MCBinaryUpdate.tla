--------------------------- MODULE MCBinaryUpdate ---------------------------
(* The worlds TLC explores BinaryUpdate in. *)
EXTENDS BinaryUpdate

CONSTANTS v1, v2, v3

World(updaters, service, faults, linux, early, mute, max) ==
    [ updaters |-> updaters, faults |-> faults, linux |-> linux, service |-> service,
      early |-> early, late |-> {v2}, mute |-> mute, updates |-> max ]

\* Each fault set is the largest some property allows.
MCFaults ==
    { {"shutdown", "restart", "clear"},
      {"shutdown", "restart", "save"},
      FaultKinds \ {"crash", "clear"},
      FaultKinds \ {"crash", "rename"},
      FaultKinds \ {"crash", "save"},
      FaultKinds \ {"rename"},
      FaultKinds }

MCWorlds ==
    { World({"remote"}, TRUE, {"shutdown", "restart"}, l, {}, {}, MaxUpdates) : l \in BOOLEAN }
    \cup { World({"remote"}, TRUE, f, l, {}, {}, 3) : f \in MCFaults, l \in BOOLEAN }
    \cup { World({"remote"}, TRUE, f, l, {v3}, {}, 2) : f \in MCFaults, l \in BOOLEAN }
    \cup { World({"cli"}, TRUE, f, l, {}, {v3}, 2) : f \in MCFaults, l \in BOOLEAN }
    \cup { World({"remote", "cli"}, s, {}, l, {}, {v3}, 2) : s \in BOOLEAN, l \in BOOLEAN }
    \cup { World({"remote"}, FALSE, {"shutdown"}, l, {}, {}, 3) : l \in BOOLEAN }

\* One update and nothing goes wrong.
MCPlainWorlds == { World({"remote"}, TRUE, {}, TRUE, {}, {}, 1) }
=============================================================================
