---------------------------- MODULE MCServiceLoop ----------------------------
(***************************************************************************)
(* The fault combinations for the loop's runs: each fault alone, and those *)
(* that matter together.                                                   *)
(***************************************************************************)
EXTENDS ServiceLoop

MCFaultSets ==
    { {}, {"zero"}, {"overlap"}, {"disk"}, {"term"}, {"term", "zero"}, {"term", "disk"},
      {"kill", "term", "overlap", "disk"}, {"hang", "kill", "term"} }
=============================================================================
