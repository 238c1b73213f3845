----------------------------- MODULE FolderScan ------------------------------
(***************************************************************************)
(* Which files of a folder a full scan considers: the walk over the tree,  *)
(* which prunes hidden names, and the ignore rules applied to each file it *)
(* has listed.  A path is the sequence of its components, << >> the folder *)
(* itself; what is done with a file's content is SyncEngine.               *)
(***************************************************************************)
EXTENDS Naturals, Sequences, FiniteSets, SequencesExt

CONSTANTS
    Names,      \* what a file may be called: numbers, in lexical order
    Dotted,     \* those with a leading dot
    Locks,      \* those with a leading ~$
    Trees,      \* the folders considered: path -> kind
    PatternSets \* the ignore patterns of a folder; see Matches

Kinds ==
    { "file",    \* or a link to one
      "dir",
      "linkdir", \* a symbolic link to a directory
      "gone" }   \* a dangling link, or deleted since it was listed

Paths == Seq(Names)

\* The first i components of a path.
Cut(p, i) == SubSeq(p, 1, i)
Parent(p) == Cut(p, Len(p) - 1)

\* What an entry is in is a directory, up to the folder itself.
IsTree(t) ==
    /\ IsFiniteSet(DOMAIN t) /\ DOMAIN t \subseteq Paths /\ <<>> \in DOMAIN t
    /\ \A p \in DOMAIN t :
          /\ t[p] \in Kinds
          /\ \A i \in 0 .. Len(p) - 1 : Cut(p, i) \in DOMAIN t /\ t[Cut(p, i)] \in {"dir", "linkdir"}

ASSUME ConstantsAssumption ==
    /\ Names \subseteq Nat
    /\ Dotted \subseteq Names /\ Locks \subseteq Names
    /\ \A t \in Trees : IsTree(t)
    /\ \A ps \in PatternSets : \A pattern \in ps : pattern \in Seq(SUBSET Names)

VARIABLES
    tree,       \* the folder
    unreadable, \* its directories that cannot be listed
    patterns,   \* its ignore patterns
    phase,      \* stat, walk, sync or done
    stack,      \* WalkDir: the entries still to visit, in order
    results,    \* enumerateFiles: what it has listed
    failed,     \* was an error reported for the folder?
    offered     \* files whose content is compared with the manifest

folder == <<tree, unreadable, patterns>>
vars   == <<folder, phase, stack, results, failed, offered>>

Dirs(t) == {p \in DOMAIN t : t[p] = "dir"}

Init ==
    /\ tree \in Trees
    /\ unreadable \in SUBSET Dirs(tree)
    /\ patterns \in PatternSets
    /\ phase = "stat"
    /\ stack = <<>>
    /\ results = <<>>
    /\ failed = FALSE
    /\ offered = {}
-----------------------------------------------------------------------------
(* The ignore rules.                                                       *)

\* filepath.Match: * and ? never match a slash, so a pattern is a sequence of
\* sets of names.  A malformed one is <<{}>>: it matches nothing.
Matches(pattern, path) ==
    /\ Len(pattern) = Len(path)
    /\ \A i \in DOMAIN path : path[i] \in pattern[i]

BuiltIn(path) == \E i \in DOMAIN path : path[i] \in Dotted \cup Locks

\* Mutant: patterns are compared with the whole path and its last component.
IsIgnoredByLastName(path, ps) ==
    \/ BuiltIn(path)
    \/ \E pattern \in ps : Matches(pattern, path) \/ Matches(pattern, <<path[Len(path)]>>)

IsIgnored(path, ps) ==
    \/ BuiltIn(path)
    \/ \E pattern \in ps :
          \/ Matches(pattern, path)
          \/ \E i \in DOMAIN path : Matches(pattern, <<path[i]>>)
-----------------------------------------------------------------------------
(* SyncFullScan.                                                           *)

\* The folder is there: os.Stat follows links.
Stat ==
    /\ phase = "stat"
    /\ IF tree[<<>>] \in {"dir", "linkdir"}
       THEN phase' = "walk" /\ stack' = <<(<<>>)>> /\ UNCHANGED failed
       ELSE phase' = "done" /\ failed' = TRUE /\ UNCHANGED stack
    /\ UNCHANGED <<folder, results, offered>>

Children(p) == {q \in DOMAIN tree : q # <<>> /\ Parent(q) = p}
Pruned(p)   == p # <<>> /\ Last(p) \in Dotted

\* The entries of a directory, in lexical order.
Listing(p) ==
    CHOOSE s \in [1 .. Cardinality(Children(p)) -> Children(p)] :
        \A i, j \in DOMAIN s : i < j => Last(s[i]) < Last(s[j])

\* Mutant: SkipDir is returned for a hidden file, too; WalkDir then leaves
\* the directory the file is in.
VisitSkipsSiblings ==
    /\ phase = "walk" /\ stack # <<>>
    /\ LET p == Head(stack)
       IN  IF Pruned(p)
           THEN /\ stack' = IF tree[p] = "dir" THEN Tail(stack)
                            ELSE SelectSeq(Tail(stack), LAMBDA q : Parent(q) # Parent(p))
                /\ UNCHANGED <<results, failed>>
           ELSE IF tree[p] = "dir"
           THEN stack' = Listing(p) \o Tail(stack) /\ UNCHANGED <<results, failed>>
           ELSE results' = Append(results, p) /\ stack' = Tail(stack) /\ UNCHANGED failed
    /\ UNCHANGED <<folder, phase, offered>>

\* Mutant: the walk ends at the first directory it cannot list.
VisitGivesUp ==
    /\ phase = "walk" /\ stack # <<>>
    /\ LET p == Head(stack)
       IN  IF ~Pruned(p) /\ p \in unreadable
           THEN failed' = TRUE /\ stack' = <<>> /\ UNCHANGED results
           ELSE /\ stack' = (IF ~Pruned(p) /\ tree[p] = "dir" THEN Listing(p) ELSE <<>>) \o Tail(stack)
                /\ results' = IF Pruned(p) \/ tree[p] = "dir" THEN results ELSE Append(results, p)
                /\ UNCHANGED failed
    /\ UNCHANGED <<folder, phase, offered>>

\* Mutant: the error of a directory is lost.
VisitSilently ==
    /\ phase = "walk" /\ stack # <<>>
    /\ LET p    == Head(stack)
           walk == ~Pruned(p) /\ tree[p] = "dir" /\ p \notin unreadable
       IN  /\ stack' = (IF walk THEN Listing(p) ELSE <<>>) \o Tail(stack)
           /\ results' = IF Pruned(p) \/ tree[p] = "dir" THEN results ELSE Append(results, p)
    /\ UNCHANGED <<folder, phase, failed, offered>>

\* WalkDir and its callback, for one entry: hidden names are pruned, a
\* directory is listed in order, links are not followed, and an error is
\* kept while the walk goes on.
Visit ==
    /\ phase = "walk" /\ stack # <<>>
    /\ LET p    == Head(stack)
           walk == ~Pruned(p) /\ tree[p] = "dir"
       IN  /\ stack' = (IF walk /\ p \notin unreadable THEN Listing(p) ELSE <<>>) \o Tail(stack)
           /\ results' = IF Pruned(p) \/ tree[p] = "dir" THEN results ELSE Append(results, p)
           /\ failed' = (failed \/ (walk /\ p \in unreadable))
    /\ UNCHANGED <<folder, phase, offered>>

\* What is listed is sorted by its paths as strings, which need not be the
\* order of the walk: any order.
Listed ==
    /\ phase = "walk" /\ stack = <<>>
    /\ phase' = "sync"
    /\ \E order \in Bijection(DOMAIN results, DOMAIN results) :
          results' = [i \in DOMAIN results |-> results[order[i]]]
    /\ UNCHANGED <<folder, stack, failed, offered>>

\* Mutant: a file is known by its name alone, not by its path in the folder.
SyncOneByName ==
    /\ phase = "sync" /\ results # <<>>
    /\ LET p == Head(results)
       IN  offered' = IF p # <<>> /\ ~IsIgnored(p, patterns) /\ tree[p] = "file"
                      THEN offered \cup {<<Last(p)>>} ELSE offered
    /\ results' = Tail(results)
    /\ UNCHANGED <<folder, phase, stack, failed>>

\* syncOne up to the hash: the folder itself has no path in it, what is
\* ignored is left, os.Stat follows links.
SyncOne ==
    /\ phase = "sync" /\ results # <<>>
    /\ LET p == Head(results)
       IN  offered' = IF p # <<>> /\ ~IsIgnored(p, patterns) /\ tree[p] = "file"
                      THEN offered \cup {p} ELSE offered
    /\ results' = Tail(results)
    /\ UNCHANGED <<folder, phase, stack, failed>>

Done ==
    /\ phase = "sync" /\ results = <<>>
    /\ phase' = "done"
    /\ UNCHANGED <<folder, stack, results, failed, offered>>

Next == Stat \/ Visit \/ Listed \/ SyncOne \/ Done

Spec == Init /\ [][Next]_vars /\ WF_vars(Next)
-----------------------------------------------------------------------------
(* Properties.                                                             *)

\* Every variable has its type; no entry is visited or listed twice, and what
\* is compared with the manifest is an entry of the folder, by its whole path.
TypeOK ==
    /\ IsTree(tree)
    /\ unreadable \subseteq Dirs(tree)
    /\ patterns \in PatternSets
    /\ phase \in {"stat", "walk", "sync", "done"}
    /\ offered \subseteq DOMAIN tree
    /\ ToSet(stack \o results) \subseteq DOMAIN tree
    /\ IsInjective(stack \o results)

\* The files in directories that can be reached and listed.
Reachable ==
    {p \in DOMAIN tree :
        /\ p # <<>> /\ tree[p] = "file"
        /\ \A i \in 0 .. Len(p) - 1 :
              tree[Cut(p, i)] = "dir" /\ Cut(p, i) \notin unreadable}

\* A scan considers exactly the reachable files the rules allow: pruning
\* hidden names changes nothing, and a directory that cannot be listed costs
\* its own contents only.
ScanFindsAll ==
    phase = "done" => offered = {p \in Reachable : ~IsIgnored(p, patterns)}

\* A scan that missed the contents of a visible directory has said so.
ErrorsReported ==
    phase = "done" /\ tree[<<>>] = "dir" =>
        \A d \in unreadable :
            (\A i \in 0 .. Len(d) : tree[Cut(d, i)] = "dir" /\ Cut(d, i) \notin unreadable \ {d})
            /\ ~(\E i \in DOMAIN d : d[i] \in Dotted)
            => failed

\* What a plain pattern, or a built-in rule, says of a directory holds for
\* everything under it, at any depth.
IgnoredSubtree ==
    \A p, q \in DOMAIN tree :
        /\ p # <<>> /\ q # <<>> /\ IsPrefix(p, q)
        /\ \A pattern \in patterns : Len(pattern) = 1
        /\ IsIgnored(p, patterns)
        => IsIgnored(q, patterns)

\* A watched folder that is a link to a directory is scanned or reported.
LinkedFolderScanned ==
    phase = "done" /\ tree[<<>>] = "linkdir" =>
        failed \/ \A p \in DOMAIN tree :
                     tree[p] = "file" /\ ~IsIgnored(p, patterns) => p \in offered
=============================================================================
