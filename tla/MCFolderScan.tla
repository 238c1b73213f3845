---------------------------- MODULE MCFolderScan -----------------------------
(***************************************************************************)
(* Folders for the scan's run: a chain of up to three entries, the last of *)
(* any kind, and a file next to one of them.  Of four names, the first is  *)
(* a dot file's and the last a lock file's.                                *)
(***************************************************************************)
EXTENDS FolderScan, TLC

MCNames == 1 .. 4

Chains == UNION {[1 .. n -> MCNames] : n \in 0 .. 3}

Chain(c, kind) == (c :> kind) @@ [p \in Prefixes(c) |-> "dir"]

\* A file called n beside the chain's entry number i.
Beside(c, i, n) == Append(SubSeq(c, 1, i - 1), n)

MCTrees ==
    {Chain(c, kind) : c \in Chains, kind \in Kinds}
        \cup UNION {{Chain(c, kind) @@ (Beside(c, i, n) :> "file") :
                        kind \in Kinds, i \in DOMAIN c, n \in MCNames} : c \in Chains}
        \cup {[Chain(c, "file") EXCEPT ![<<>>] = "linkdir"] : c \in Chains}

MCPatternSets ==
    { {}, {<<{2}>>}, {<<{2, 3}>>}, {<<{2}, {2, 3}>>}, {<<{}>>, <<{3}, {2}>>} }
=============================================================================
