-------------------------- MODULE FolderScanProofs ---------------------------
(***************************************************************************)
(* What holds of FolderScan for every folder and every set of patterns:    *)
(* the types, that a scan finds exactly the files it should, that it       *)
(* reports what it could not list, and that a rule for a directory is one  *)
(* for all that is in it.                                                  *)
(***************************************************************************)
EXTENDS FolderScan, SequenceTheorems, FiniteSetTheorems, TLAPS

USE DEF folder, vars
-----------------------------------------------------------------------------
(* Paths.                                                                  *)

\* A path cut off after i components has the path's first i components.
LEMMA CutFacts ==
    ASSUME NEW p \in Paths, NEW i \in 0 .. Len(p)
    PROVE  /\ Cut(p, i) \in Paths
           /\ Len(Cut(p, i)) = i
           /\ \A k \in 1 .. i : Cut(p, i)[k] = p[k]
<1>1. Len(p) \in Nat /\ \A k \in 1 .. i : p[k] \in Names
  BY LenProperties, ElementOfSeq DEF Paths
<1>2. /\ SubSeq(p, 1, i) \in Seq(Names)
      /\ Len(SubSeq(p, 1, i)) = IF 1 <= i THEN i - 1 + 1 ELSE 0
      /\ \A k \in 1 .. (i - 1 + 1) : SubSeq(p, 1, i)[k] = p[1 + k - 1]
  BY <1>1, SubSeqProperties
<1>3. QED BY <1>1, <1>2 DEF Cut, Paths

\* Two paths of the same length that agree everywhere are equal.
LEMMA SamePath ==
    ASSUME NEW p \in Paths, NEW q \in Paths, Len(p) = Len(q),
           \A k \in 1 .. Len(p) : p[k] = q[k]
    PROVE  p = q
  BY SeqEqual DEF Paths

\* Nothing is cut off a path at its full length, and only the folder is left at 0.
LEMMA CutEnds ==
    ASSUME NEW p \in Paths
    PROVE  Len(p) \in Nat /\ Cut(p, Len(p)) = p /\ Cut(p, 0) = <<>> /\ (Len(p) = 0 <=> p = <<>>)
<1>1. Len(p) \in Nat /\ (p # <<>> => Len(p) \in Nat \ {0}) /\ Len(<<>>) = 0
  BY LenProperties, EmptySeq DEF Paths
<1>2. Cut(p, Len(p)) = p
  BY SubSeqFull DEF Cut, Paths
<1>3. Cut(p, 0) = <<>>
  BY SubSeqEmpty DEF Cut
<1>4. QED BY <1>1, <1>2, <1>3

\* What is cut off twice is cut off at the shorter length.
LEMMA CutOfCut ==
    ASSUME NEW p \in Paths, NEW j \in 0 .. Len(p), NEW i \in 0 .. j
    PROVE  Cut(Cut(p, j), i) = Cut(p, i)
<1>1. Len(p) \in Nat /\ i \in 0 .. Len(p)
  BY LenProperties DEF Paths
<1>2. Cut(p, j) \in Paths /\ Len(Cut(p, j)) = j /\ \A k \in 1 .. j : Cut(p, j)[k] = p[k]
  BY CutFacts
<1>3. /\ Cut(Cut(p, j), i) \in Paths /\ Len(Cut(Cut(p, j), i)) = i
      /\ \A k \in 1 .. i : Cut(Cut(p, j), i)[k] = Cut(p, j)[k]
  BY <1>2, CutFacts
<1>4. Cut(p, i) \in Paths /\ Len(Cut(p, i)) = i /\ \A k \in 1 .. i : Cut(p, i)[k] = p[k]
  BY <1>1, CutFacts
<1>5. \A k \in 1 .. i : Cut(Cut(p, j), i)[k] = Cut(p, i)[k]
  BY <1>1, <1>2, <1>3, <1>4
<1>6. QED BY <1>3, <1>4, <1>5, SamePath

\* Of two paths none leads through the other, and they are not the same.
Under(p, q) == Len(p) <= Len(q) /\ Cut(q, Len(p)) = p
Apart(p, q) == ~Under(p, q) /\ ~Under(q, p)

\* A path leads through itself.
LEMMA ApartDiffers ==
    ASSUME NEW p \in Paths, NEW q \in Paths, Apart(p, q)
    PROVE  p # q /\ Apart(q, p)
  BY CutEnds DEF Apart, Under

\* The entries of a directory are one component longer than it, lead through
\* it, and differ in that component.
LEMMA ChildFacts ==
    ASSUME IsTree(tree), NEW p \in DOMAIN tree, NEW q \in Children(p)
    PROVE  /\ q \in DOMAIN tree /\ q \in Paths /\ p \in Paths
           /\ Len(p) \in Nat /\ Len(q) = Len(p) + 1 /\ Cut(q, Len(p)) = p
           /\ Last(q) \in Names /\ Last(q) = q[Len(q)]
<1>1. q \in DOMAIN tree /\ q \in Paths /\ p \in Paths /\ q # <<>> /\ Cut(q, Len(q) - 1) = p
  BY DEF IsTree, Children, Parent
<1>2. Len(q) \in Nat \ {0} /\ Len(p) \in Nat
  BY <1>1, CutEnds
<1>3. Len(p) = Len(q) - 1
  BY <1>1, <1>2, CutFacts
<1>4. q[Len(q)] \in Names
  BY <1>1, <1>2, ElementOfSeq DEF Paths
<1>5. Cut(q, Len(p)) = p
  BY <1>1, <1>3
<1>6. Len(q) = Len(p) + 1
  BY <1>2, <1>3
<1>7. QED BY <1>1, <1>2, <1>4, <1>5, <1>6 DEF Last

\* Entries of one directory have different names.
LEMMA ChildrenDiffer ==
    ASSUME IsTree(tree), NEW p \in DOMAIN tree,
           NEW q \in Children(p), NEW r \in Children(p), Last(q) = Last(r)
    PROVE  q = r
<1>1. /\ q \in Paths /\ r \in Paths /\ Len(p) \in Nat
      /\ Len(q) = Len(p) + 1 /\ Len(r) = Len(p) + 1
      /\ Cut(q, Len(p)) = p /\ Cut(r, Len(p)) = p
      /\ q[Len(p) + 1] = r[Len(p) + 1]
  BY ChildFacts
<1>2. \A k \in 1 .. Len(p) : q[k] = p[k] /\ r[k] = p[k]
  BY <1>1, CutFacts
<1>3. \A k \in 1 .. Len(q) : q[k] = r[k]
  BY <1>1, <1>2
<1>4. QED BY <1>1, <1>3, SamePath
-----------------------------------------------------------------------------
(* The listing of a directory.                                             *)

\* A directory can be listed: its entries, each once, in lexical order.
LEMMA ListingFacts ==
    ASSUME IsTree(tree), NEW p \in DOMAIN tree
    PROVE  /\ Listing(p) \in Seq(Children(p))
           /\ ToSet(Listing(p)) = Children(p)
           /\ IsInjective(Listing(p))
<1> DEFINE C         == Children(p)
           n         == Cardinality(C)
           Before(q) == {r \in C : Last(r) < Last(q)}
           rank      == [q \in C |-> Cardinality(Before(q)) + 1]
           Sorted(s) == \A i, j \in DOMAIN s : i < j => Last(s[i]) < Last(s[j])
           entry     == [i \in 1 .. n |-> CHOOSE q \in C : rank[q] = i]
<1>1. IsFiniteSet(C) /\ n \in Nat
  <2>1. C \in SUBSET DOMAIN tree /\ IsFiniteSet(DOMAIN tree)
    BY DEF Children, IsTree
  <2>2. QED BY <2>1, FS_Subset, FS_CardinalityType
<1>2. \A q \in C : Last(q) \in Nat
  BY ChildFacts, ConstantsAssumption
<1>3. \A q \in C : IsFiniteSet(Before(q)) /\ Cardinality(Before(q)) \in Nat /\ Cardinality(Before(q)) < n
  <2> TAKE q \in C
  <2>1. Before(q) \in SUBSET C /\ q \notin Before(q)
    BY <1>2
  <2>2. IsFiniteSet(Before(q)) /\ Cardinality(Before(q)) <= n /\ (n = Cardinality(Before(q)) => C = Before(q))
    BY <1>1, <2>1, FS_Subset
  <2>3. Cardinality(Before(q)) \in Nat
    BY <2>2, FS_CardinalityType
  <2>4. Cardinality(Before(q)) # n
    BY <2>1, <2>2
  <2> HIDE DEF C, n, Before
  <2>5. QED BY <1>1, <2>2, <2>3, <2>4
<1>4. \A q, r \in C : Last(q) < Last(r) => Cardinality(Before(q)) < Cardinality(Before(r))
  <2> SUFFICES ASSUME NEW q \in C, NEW r \in C, Last(q) < Last(r)
               PROVE  Cardinality(Before(q)) < Cardinality(Before(r))
    OBVIOUS
  <2>1. Before(q) \in SUBSET Before(r) /\ q \in Before(r) /\ q \notin Before(q)
    BY <1>2
  <2>2. /\ Cardinality(Before(q)) <= Cardinality(Before(r))
        /\ Cardinality(Before(r)) = Cardinality(Before(q)) => Before(r) = Before(q)
    BY <1>3, <2>1, FS_Subset
  <2>3. Cardinality(Before(q)) \in Nat /\ Cardinality(Before(r)) \in Nat
    BY <1>3
  <2>4. Cardinality(Before(r)) # Cardinality(Before(q))
    BY <2>1, <2>2
  <2> HIDE DEF Before
  <2>5. QED BY <2>2, <2>3, <2>4
<1>5. \A q, r \in C : rank[q] = rank[r] => q = r
  <2> SUFFICES ASSUME NEW q \in C, NEW r \in C, rank[q] = rank[r] PROVE Last(q) = Last(r)
    BY ChildrenDiffer
  <2>1. Cardinality(Before(q)) \in Nat /\ Cardinality(Before(r)) \in Nat
    BY <1>3
  <2>2. Cardinality(Before(q)) + 1 = Cardinality(Before(r)) + 1
    OBVIOUS
  <2> HIDE DEF Before
  <2>3. ~(Last(q) < Last(r)) /\ ~(Last(r) < Last(q))
    BY <1>4, <2>1, <2>2
  <2>4. QED BY <1>2, <2>3
<1>6. \A q \in C : rank[q] \in 1 .. n
  <2> TAKE q \in C
  <2>1. rank[q] = Cardinality(Before(q)) + 1 /\ Cardinality(Before(q)) \in Nat /\ Cardinality(Before(q)) < n
    BY <1>3
  <2> HIDE DEF n, rank, Before
  <2>2. QED BY <1>1, <2>1
<1>7. \A i \in 1 .. n : \E q \in C : rank[q] = i
  <2>1. rank \in Injection(C, 1 .. n)
    BY <1>5, <1>6 DEF Injection, IsInjective
  <2>2. IsFiniteSet(1 .. n) /\ Cardinality(1 .. n) = n
    <3> HIDE DEF n
    <3>1. IsFiniteSet(1 .. n) /\ Cardinality(1 .. n) = IF 1 > n THEN 0 ELSE n - 1 + 1
      BY <1>1, FS_Interval
    <3>2. QED BY <1>1, <3>1
  <2>3. rank \in Surjection(C, 1 .. n)
    <3> HIDE DEF rank
    <3>1. Cardinality(C) = Cardinality(1 .. n) <=> rank \in Surjection(C, 1 .. n)
      BY <2>1, <2>2, FS_Injection
    <3>2. QED BY <2>2, <3>1
  <2>4. QED BY <2>3 DEF Surjection
<1>8. entry \in [1 .. n -> C] /\ \A i \in 1 .. n : rank[entry[i]] = i
  <2> HIDE DEF C, n, rank
  <2>1. \A i \in 1 .. n : entry[i] \in C /\ rank[entry[i]] = i
    BY <1>7
  <2>2. QED BY <2>1
<1>9. Sorted(entry)
  <2> SUFFICES ASSUME NEW i \in 1 .. n, NEW j \in 1 .. n, i < j PROVE Last(entry[i]) < Last(entry[j])
    OBVIOUS
  <2>1. entry[i] \in C /\ entry[j] \in C /\ rank[entry[i]] = i /\ rank[entry[j]] = j
    BY <1>8
  <2> HIDE DEF entry
  <2> DEFINE a == entry[i]  b == entry[j]
  <2>2. a \in C /\ b \in C
    BY <2>1
  <2>3. Last(a) \in Nat /\ Last(b) \in Nat
    BY <1>2, <2>2
  <2>4. Cardinality(Before(a)) \in Nat /\ Cardinality(Before(b)) \in Nat
    BY <1>3, <2>2
  <2>5. Cardinality(Before(a)) + 1 = i /\ Cardinality(Before(b)) + 1 = j
    BY <2>1, <2>2
  <2>6. Last(b) < Last(a) => Cardinality(Before(b)) < Cardinality(Before(a))
    BY <1>4, <2>2
  <2>7. Last(b) = Last(a) => a = b
    BY <2>2, ChildrenDiffer
  <2> HIDE DEF Before, C, a, b
  <2>8. ~(Last(b) < Last(a)) /\ Last(b) # Last(a)
    BY <2>4, <2>5, <2>6, <2>7
  <2>9. Last(a) < Last(b)
    BY <2>3, <2>8
  <2>10. QED BY <2>9 DEF a, b
<1>10. Listing(p) \in [1 .. n -> C] /\ Sorted(Listing(p))
  <2> HIDE DEF entry
  <2>1. Listing(p) = CHOOSE s \in [1 .. n -> C] : Sorted(s)
    BY DEF Listing
  <2> HIDE DEF C, n, Sorted
  <2>2. QED BY <1>8, <1>9, <2>1
<1> HIDE DEF entry, rank, Before
<1>11. IsInjective(Listing(p))
  <2> SUFFICES ASSUME NEW i \in 1 .. n, NEW j \in 1 .. n, Listing(p)[i] = Listing(p)[j], i # j PROVE FALSE
    BY <1>10 DEF IsInjective
  <2>1. Listing(p)[i] \in C /\ Listing(p)[j] \in C
    BY <1>10
  <2>2. Last(Listing(p)[i]) \in Nat /\ Last(Listing(p)[j]) \in Nat
    BY <1>2, <2>1
  <2>3. i < j \/ j < i
    BY <1>1
  <2>4. Last(Listing(p)[i]) < Last(Listing(p)[j]) \/ Last(Listing(p)[j]) < Last(Listing(p)[i])
    BY <1>10, <2>3
  <2>5. QED BY <2>2, <2>4
<1>12. Listing(p) \in Seq(C)
  BY <1>1, <1>10
<1>13. ToSet(Listing(p)) = C
  <2>1. Listing(p) \in Injection(1 .. n, C)
    BY <1>10, <1>11 DEF Injection
  <2>2. IsFiniteSet(1 .. n) /\ Cardinality(1 .. n) = n
    <3> HIDE DEF n
    <3>1. IsFiniteSet(1 .. n) /\ Cardinality(1 .. n) = IF 1 > n THEN 0 ELSE n - 1 + 1
      BY <1>1, FS_Interval
    <3>2. QED BY <1>1, <3>1
  <2>3. Listing(p) \in Surjection(1 .. n, C)
    BY <1>1, <2>1, <2>2, FS_Injection
  <2>4. \A q \in C : \E i \in 1 .. n : Listing(p)[i] = q
    BY <2>3 DEF Surjection
  <2>5. QED BY <1>10, <2>4 DEF ToSet
<1>14. QED BY <1>11, <1>12, <1>13
-----------------------------------------------------------------------------
(* What is to be visited, and what is listed.                              *)

\* No entry of a sequence of paths leads through another one.
Scattered(s) == \A i, j \in DOMAIN s : i # j => Apart(s[i], s[j])

\* Sequences one after the other have the elements of both.
LEMMA ElementsOfConcat ==
    ASSUME NEW S, NEW s \in Seq(S), NEW u \in Seq(S)
    PROVE  s \o u \in Seq(S) /\ ToSet(s \o u) = ToSet(s) \cup ToSet(u)
<1>1. /\ s \o u \in Seq(S) /\ Len(s \o u) = Len(s) + Len(u)
      /\ \A i \in 1 .. Len(s) + Len(u) : (s \o u)[i] = IF i <= Len(s) THEN s[i] ELSE u[i - Len(s)]
  BY ConcatProperties
<1>2. /\ Len(s) \in Nat /\ Len(u) \in Nat
      /\ DOMAIN s = 1 .. Len(s) /\ DOMAIN u = 1 .. Len(u) /\ DOMAIN (s \o u) = 1 .. Len(s) + Len(u)
  BY <1>1, LenProperties
<1>3. ASSUME NEW i \in DOMAIN (s \o u) PROVE (s \o u)[i] \in ToSet(s) \cup ToSet(u)
  <2>1. CASE i <= Len(s)
    <3>1. i \in DOMAIN s /\ (s \o u)[i] = s[i]
      BY <1>1, <1>2, <2>1
    <3>2. QED BY <3>1 DEF ToSet
  <2>2. CASE ~(i <= Len(s))
    <3>1. i - Len(s) \in DOMAIN u /\ (s \o u)[i] = u[i - Len(s)]
      BY <1>1, <1>2, <2>2
    <3>2. QED BY <3>1 DEF ToSet
  <2>3. QED BY <2>1, <2>2
<1>4. ASSUME NEW i \in DOMAIN s PROVE s[i] \in ToSet(s \o u)
  <2>1. i \in DOMAIN (s \o u) /\ (s \o u)[i] = s[i]
    BY <1>1, <1>2
  <2>2. QED BY <2>1 DEF ToSet
<1>5. ASSUME NEW i \in DOMAIN u PROVE u[i] \in ToSet(s \o u)
  <2>1. i + Len(s) \in 1 .. Len(s) + Len(u) /\ ~(i + Len(s) <= Len(s)) /\ (i + Len(s)) - Len(s) = i
    BY <1>2
  <2>2. (s \o u)[i + Len(s)] = u[i]
    BY <1>1, <2>1
  <2>3. QED BY <1>2, <2>1, <2>2 DEF ToSet
<1>6. QED BY <1>1, <1>3, <1>4, <1>5 DEF ToSet

\* Two sequences whose entries are apart, each and from each other, make one.
LEMMA ScatteredConcat ==
    ASSUME NEW S, NEW s \in Seq(S), NEW u \in Seq(S), Scattered(s), Scattered(u),
           \A a \in ToSet(s), b \in ToSet(u) : Apart(a, b)
    PROVE  Scattered(s \o u)
<1>1. /\ s \o u \in Seq(S) /\ Len(s \o u) = Len(s) + Len(u)
      /\ \A i \in 1 .. Len(s) + Len(u) : (s \o u)[i] = IF i <= Len(s) THEN s[i] ELSE u[i - Len(s)]
  BY ConcatProperties
<1>2. /\ Len(s) \in Nat /\ Len(u) \in Nat
      /\ DOMAIN s = 1 .. Len(s) /\ DOMAIN u = 1 .. Len(u) /\ DOMAIN (s \o u) = 1 .. Len(s) + Len(u)
  BY <1>1, LenProperties
<1>3. \A a \in ToSet(s), b \in ToSet(u) : Apart(a, b) /\ Apart(b, a)
  BY DEF Apart
<1> SUFFICES ASSUME NEW i \in DOMAIN (s \o u), NEW j \in DOMAIN (s \o u), i # j
             PROVE  Apart((s \o u)[i], (s \o u)[j])
  BY DEF Scattered
<1>4. \A k \in DOMAIN (s \o u) :
         \/ k <= Len(s) /\ k \in DOMAIN s /\ (s \o u)[k] = s[k]
         \/ k > Len(s) /\ k - Len(s) \in DOMAIN u /\ (s \o u)[k] = u[k - Len(s)]
  BY <1>1, <1>2
<1>5. CASE i <= Len(s) /\ j <= Len(s)
  <2>1. i \in DOMAIN s /\ (s \o u)[i] = s[i] /\ j \in DOMAIN s /\ (s \o u)[j] = s[j]
    BY <1>1, <1>2, <1>5
  <2>2. QED BY <2>1 DEF Scattered
<1>6. CASE ~(i <= Len(s)) /\ ~(j <= Len(s))
  <2>1. /\ i - Len(s) \in DOMAIN u /\ (s \o u)[i] = u[i - Len(s)]
        /\ j - Len(s) \in DOMAIN u /\ (s \o u)[j] = u[j - Len(s)]
    BY <1>1, <1>2, <1>6
  <2>2. i - Len(s) # j - Len(s)
    BY <1>1, <1>2
  <2>3. QED BY <2>1, <2>2 DEF Scattered
<1>7. CASE i <= Len(s) /\ ~(j <= Len(s))
  <2>1. /\ i \in DOMAIN s /\ (s \o u)[i] = s[i]
        /\ j - Len(s) \in DOMAIN u /\ (s \o u)[j] = u[j - Len(s)]
    BY <1>1, <1>2, <1>7
  <2>2. QED BY <1>3, <2>1 DEF ToSet
<1>8. CASE ~(i <= Len(s)) /\ j <= Len(s)
  <2>1. /\ j \in DOMAIN s /\ (s \o u)[j] = s[j]
        /\ i - Len(s) \in DOMAIN u /\ (s \o u)[i] = u[i - Len(s)]
    BY <1>1, <1>2, <1>8
  <2>2. QED BY <1>3, <2>1 DEF ToSet
<1>9. QED BY <1>5, <1>6, <1>7, <1>8

\* A sequence is its head and the rest.
LEMMA HeadAndTail ==
    ASSUME NEW S, NEW s \in Seq(S), s # <<>>
    PROVE  /\ Head(s) \in S /\ Tail(s) \in Seq(S)
           /\ ToSet(s) = {Head(s)} \cup ToSet(Tail(s))
           /\ Scattered(s) => Scattered(Tail(s)) /\ \A b \in ToSet(Tail(s)) : Apart(Head(s), b)
<1>1. /\ Head(s) \in S /\ Tail(s) \in Seq(S)
      /\ Len(Tail(s)) = Len(s) - 1 /\ \A i \in 1 .. Len(Tail(s)) : Tail(s)[i] = s[i + 1]
  BY HeadTailProperties
<1>2. Len(s) \in Nat \ {0} /\ DOMAIN s = 1 .. Len(s) /\ DOMAIN Tail(s) = 1 .. Len(s) - 1 /\ Head(s) = s[1]
  BY <1>1, LenProperties, EmptySeq
<1>3. \A i \in DOMAIN Tail(s) : i + 1 \in DOMAIN s /\ i + 1 # 1 /\ Tail(s)[i] = s[i + 1]
  BY <1>1, <1>2
<1>4. \A i \in DOMAIN s : i = 1 \/ (i - 1 \in DOMAIN Tail(s) /\ (i - 1) + 1 = i)
  BY <1>2
<1>5. 1 \in DOMAIN s
  BY <1>2
<1>6. ToSet(s) = {Head(s)} \cup ToSet(Tail(s))
  <2>1. \A i \in DOMAIN s : s[i] \in {Head(s)} \cup ToSet(Tail(s))
    <3> TAKE i \in DOMAIN s
    <3>1. CASE i = 1
      BY <1>2, <3>1
    <3>2. CASE i # 1
      <4>1. i - 1 \in DOMAIN Tail(s) /\ Tail(s)[i - 1] = s[i]
        BY <1>3, <1>4, <3>2
      <4>2. QED BY <4>1 DEF ToSet
    <3>3. QED BY <3>1, <3>2
  <2>2. \A i \in DOMAIN Tail(s) : Tail(s)[i] \in ToSet(s)
    BY <1>3 DEF ToSet
  <2>3. QED BY <1>2, <1>5, <2>1, <2>2 DEF ToSet
<1>7. ASSUME Scattered(s) PROVE Scattered(Tail(s))
  <2> SUFFICES ASSUME NEW i \in DOMAIN Tail(s), NEW j \in DOMAIN Tail(s), i # j
               PROVE  Apart(Tail(s)[i], Tail(s)[j])
    BY DEF Scattered
  <2>1. i + 1 # j + 1
    BY <1>2
  <2>2. QED BY <1>3, <1>7, <2>1 DEF Scattered
<1>8. ASSUME Scattered(s), NEW b \in ToSet(Tail(s)) PROVE Apart(Head(s), b)
  <2>1. PICK i \in DOMAIN Tail(s) : b = Tail(s)[i]
    BY DEF ToSet
  <2>2. QED BY <1>2, <1>3, <1>5, <1>8, <2>1 DEF Scattered
<1>9. QED BY <1>1, <1>6, <1>7, <1>8

\* A sequence of one, and one more entry at the end.
LEMMA OneMore ==
    ASSUME NEW S, NEW s \in Seq(S), NEW p \in S
    PROVE  /\ Append(s, p) \in Seq(S) /\ ToSet(Append(s, p)) = ToSet(s) \cup {p}
           /\ Scattered(s) /\ (\A a \in ToSet(s) : Apart(a, p)) => Scattered(Append(s, p))
<1>1. Append(s, p) = s \o <<p>> /\ Append(s, p) \in Seq(S)
  BY AppendIsConcat, AppendProperties
<1>2. <<p>> \in Seq(S) /\ ToSet(<<p>>) = {p} /\ Scattered(<<p>>)
  BY DEF ToSet, Scattered
<1>3. ToSet(s \o <<p>>) = ToSet(s) \cup ToSet(<<p>>)
  <2> DEFINE u == <<p>>
  <2>1. u \in Seq(S)
    BY <1>2
  <2> HIDE DEF u
  <2>2. ToSet(s \o u) = ToSet(s) \cup ToSet(u)
    BY <2>1, ElementsOfConcat
  <2>3. QED BY <2>2 DEF u
<1>4. ASSUME Scattered(s), \A a \in ToSet(s) : Apart(a, p) PROVE Scattered(s \o <<p>>)
  <2>1. \A a \in ToSet(s), b \in ToSet(<<p>>) : Apart(a, b)
    BY <1>2, <1>4
  <2>2. QED BY <1>2, <1>4, <2>1, ScatteredConcat
<1>5. QED BY <1>1, <1>2, <1>3, <1>4

\* The listing of a directory is scattered.
LEMMA ListingScattered ==
    ASSUME IsTree(tree), NEW p \in DOMAIN tree
    PROVE  Scattered(Listing(p))
<1> SUFFICES ASSUME NEW i \in DOMAIN Listing(p), NEW j \in DOMAIN Listing(p), i # j
             PROVE  Apart(Listing(p)[i], Listing(p)[j])
  BY DEF Scattered
<1> DEFINE q == Listing(p)[i]
           r == Listing(p)[j]
<1>1. q \in Children(p) /\ r \in Children(p) /\ q # r
  BY ListingFacts DEF ToSet, IsInjective
<1>2. q \in Paths /\ r \in Paths /\ Len(q) = Len(r)
  BY <1>1, ChildFacts
<1> HIDE DEF q, r
<1>3. Cut(q, Len(r)) = q /\ Cut(r, Len(q)) = r
  BY <1>2, CutEnds
<1>4. Apart(q, r)
  BY <1>1, <1>3 DEF Apart, Under
<1>5. QED BY <1>4 DEF q, r

\* What is apart from a directory is apart from its entries.
LEMMA ChildStaysApart ==
    ASSUME IsTree(tree), NEW p \in DOMAIN tree, NEW q \in Children(p),
           NEW r \in DOMAIN tree, Apart(p, r)
    PROVE  Apart(q, r)
<1>1. /\ q \in Paths /\ p \in Paths /\ r \in Paths
      /\ Len(p) \in Nat /\ Len(q) = Len(p) + 1 /\ Cut(q, Len(p)) = p /\ Len(r) \in Nat
  <2>1. r \in Paths
    BY DEF IsTree
  <2>2. QED BY <2>1, CutEnds, ChildFacts
<1>2. ~Under(q, r)
  <2> SUFFICES ASSUME Len(q) <= Len(r), Cut(r, Len(q)) = q PROVE Under(p, r)
    BY DEF Under, Apart
  <2>1. Len(q) \in 0 .. Len(r) /\ Len(p) \in 0 .. Len(q) /\ Len(p) <= Len(r)
    BY <1>1
  <2>2. Cut(Cut(r, Len(q)), Len(p)) = Cut(r, Len(p))
    BY <1>1, <2>1, CutOfCut
  <2>3. QED BY <1>1, <2>1, <2>2 DEF Under
<1>3. ~Under(r, q)
  <2> SUFFICES ASSUME Len(r) <= Len(q), Cut(q, Len(r)) = r PROVE FALSE
    BY DEF Under
  <2>1. CASE Len(r) = Len(q)
    <3>1. q = r
      BY <1>1, <2>1, CutEnds
    <3>2. Under(p, r)
      BY <1>1, <3>1 DEF Under
    <3>3. QED BY <3>2 DEF Apart
  <2>2. CASE Len(r) # Len(q)
    <3>1. Len(r) <= Len(p) /\ Len(p) \in 0 .. Len(q) /\ Len(r) \in 0 .. Len(p)
      BY <1>1, <2>2
    <3>2. Cut(Cut(q, Len(p)), Len(r)) = Cut(q, Len(r))
      BY <1>1, <3>1, CutOfCut
    <3>3. Under(r, p)
      BY <1>1, <3>1, <3>2 DEF Under
    <3>4. QED BY <3>3 DEF Apart
  <2>3. QED BY <2>1, <2>2
<1>4. QED BY <1>2, <1>3 DEF Apart
-----------------------------------------------------------------------------
(* The inductive invariant of a scan.                                      *)

\* What the variables may hold; nothing is to be visited but in the walk.
StateInv ==
    /\ IsTree(tree)
    /\ unreadable \subseteq Dirs(tree)
    /\ patterns \in PatternSets
    /\ phase \in {"stat", "walk", "sync", "done"}
    /\ stack \in Seq(DOMAIN tree)
    /\ results \in Seq(DOMAIN tree)
    /\ offered \subseteq DOMAIN tree
    /\ failed \in BOOLEAN
    /\ phase # "walk" => stack = <<>>
    /\ phase \in {"stat", "done"} => results = <<>>

\* No entry is to be visited, or listed, that another one leads through.
ApartInv ==
    /\ Scattered(stack)
    /\ Scattered(results)
    /\ \A a \in ToSet(stack), b \in ToSet(results) : Apart(a, b)

\* The directories on the way to an entry are listed.
Open(p) == \A i \in 0 .. Len(p) - 1 : tree[Cut(p, i)] = "dir" /\ Cut(p, i) \notin unreadable

\* The files a scan should offer.
Wanted == {p \in Reachable : ~IsIgnored(p, patterns)}

\* A scan comes to no entry but through open directories.
OnlyInv ==
    /\ \A p \in ToSet(stack) \cup ToSet(results) : Open(p)
    /\ offered \subseteq Wanted

\* The entry, or one it is in, is still to be visited.
Ahead(p) == \E i \in 0 .. Len(p) : Cut(p, i) \in ToSet(stack)

\* Every file wanted is offered, listed, or still ahead.
AllInv ==
    phase # "stat" => \A p \in Wanted : p \in offered \cup ToSet(results) \/ Ahead(p)

\* A directory that cannot be listed, and that nothing else hides.
Visible(d) ==
    /\ \A i \in 0 .. Len(d) : tree[Cut(d, i)] = "dir" /\ Cut(d, i) \notin unreadable \ {d}
    /\ ~(\E i \in DOMAIN d : d[i] \in Dotted)

\* Such a directory has been reported, or is still ahead.
ToldInv ==
    phase # "stat" /\ tree[<<>>] = "dir" => \A d \in unreadable : Visible(d) => failed \/ Ahead(d)

ScanInv == StateInv /\ ApartInv /\ OnlyInv /\ AllInv /\ ToldInv
-----------------------------------------------------------------------------
(* Steps of a scan.                                                        *)

\* What a visible entry's path is made of: the entries on the way to it are in
\* the folder, and none of them is pruned.
LEMMA OnTheWay ==
    ASSUME IsTree(tree), NEW q \in DOMAIN tree, NEW i \in 0 .. Len(q),
           ~(\E k \in DOMAIN q : q[k] \in Dotted)
    PROVE  q \in Paths /\ Len(q) \in Nat /\ Cut(q, i) \in DOMAIN tree /\ ~Pruned(Cut(q, i))
<1>1. q \in Paths
  BY DEF IsTree
<1>2. Len(q) \in Nat /\ DOMAIN q = 1 .. Len(q)
  BY <1>1, LenProperties DEF Paths
<1>3. Cut(q, i) \in DOMAIN tree
  <2>1. CASE i = Len(q)
    BY <1>1, <2>1, CutEnds
  <2>2. CASE i # Len(q)
    <3>1. i \in 0 .. Len(q) - 1
      BY <1>2, <2>2
    <3>2. QED BY <3>1 DEF IsTree
  <2>3. QED BY <2>1, <2>2
<1>4. ~Pruned(Cut(q, i))
  <2> SUFFICES ASSUME Cut(q, i) # <<>>, Last(Cut(q, i)) \in Dotted PROVE FALSE
    BY DEF Pruned
  <2>1. i # 0
    BY <1>1, CutEnds
  <2>2. Len(Cut(q, i)) = i /\ \A k \in 1 .. i : Cut(q, i)[k] = q[k]
    BY <1>1, CutFacts
  <2>3. i \in 1 .. i /\ i \in DOMAIN q
    BY <1>2, <2>1
  <2>4. Last(Cut(q, i)) = q[i]
    BY <2>2, <2>3 DEF Last
  <2>5. QED BY <2>3, <2>4
<1>5. QED BY <1>1, <1>2, <1>3, <1>4

\* What is one component further on a path is an entry of the directory.
LEMMA NextOnTheWay ==
    ASSUME IsTree(tree), NEW q \in DOMAIN tree, NEW i \in 0 .. Len(q) - 1, Cut(q, i + 1) \in DOMAIN tree
    PROVE  Cut(q, i + 1) \in Children(Cut(q, i))
<1>1. q \in Paths /\ Len(q) \in Nat /\ Len(<<>>) = 0
  <2>1. q \in Paths
    BY DEF IsTree
  <2>2. QED BY <2>1, CutEnds, EmptySeq
<1>2. i + 1 \in 0 .. Len(q) /\ i \in 0 .. i + 1 /\ i + 1 # 0 /\ (i + 1) - 1 = i
  BY <1>1
<1>3. Len(Cut(q, i + 1)) = i + 1
  BY <1>1, <1>2, CutFacts
<1>4. Cut(Cut(q, i + 1), i) = Cut(q, i)
  BY <1>1, <1>2, CutOfCut
<1>5. Cut(q, i + 1) # <<>>
  BY <1>1, <1>2, <1>3
<1>6. QED BY <1>2, <1>3, <1>4, <1>5 DEF Children, Parent

\* The entries the walk adds when it visits p.
Entered(p) == IF ~Pruned(p) /\ tree[p] = "dir" /\ p \notin unreadable THEN Children(p) ELSE {}

\* What a step of the walk does, in terms of sets.
LEMMA VisitFacts ==
    ASSUME StateInv, Visit
    PROVE  /\ Head(stack) \in DOMAIN tree /\ Tail(stack) \in Seq(DOMAIN tree)
           /\ ToSet(stack) = {Head(stack)} \cup ToSet(Tail(stack))
           /\ stack' \in Seq(DOMAIN tree)
           /\ ToSet(stack') = Entered(Head(stack)) \cup ToSet(Tail(stack))
           /\ results' \in Seq(DOMAIN tree)
           /\ ToSet(results') = ToSet(results) \cup
                 IF Pruned(Head(stack)) \/ tree[Head(stack)] = "dir" THEN {} ELSE {Head(stack)}
<1> DEFINE p    == Head(stack)
           new  == IF ~Pruned(p) /\ tree[p] = "dir" /\ p \notin unreadable THEN Listing(p) ELSE <<>>
<1>1. /\ stack \in Seq(DOMAIN tree) /\ stack # <<>> /\ results \in Seq(DOMAIN tree)
      /\ stack' = new \o Tail(stack)
      /\ results' = IF Pruned(p) \/ tree[p] = "dir" THEN results ELSE Append(results, p)
  BY DEF StateInv, Visit
<1>2. p \in DOMAIN tree /\ Tail(stack) \in Seq(DOMAIN tree) /\ ToSet(stack) = {p} \cup ToSet(Tail(stack))
  BY <1>1, HeadAndTail
<1>3. new \in Seq(DOMAIN tree) /\ ToSet(new) = Entered(p)
  <2>1. CASE ~Pruned(p) /\ tree[p] = "dir" /\ p \notin unreadable
    <3>1. Listing(p) \in Seq(Children(p)) /\ ToSet(Listing(p)) = Children(p)
      BY <1>2, ListingFacts DEF StateInv
    <3>2. Listing(p) \in Seq(DOMAIN tree)
      BY <3>1, SeqMonotonic DEF Children
    <3>3. QED BY <2>1, <3>1, <3>2 DEF Entered
  <2>2. CASE ~(~Pruned(p) /\ tree[p] = "dir" /\ p \notin unreadable)
    <3>1. <<>> \in Seq(DOMAIN tree) /\ ToSet(<<>>) = {}
      BY DEF ToSet
    <3>2. QED BY <2>2, <3>1 DEF Entered
  <2>3. QED BY <2>1, <2>2
<1>4. new \o Tail(stack) \in Seq(DOMAIN tree) /\ ToSet(new \o Tail(stack)) = ToSet(new) \cup ToSet(Tail(stack))
  <2> DEFINE rest == Tail(stack)
             S    == DOMAIN tree
  <2>1. new \in Seq(S) /\ rest \in Seq(S)
    BY <1>2, <1>3
  <2> HIDE DEF new, rest, S
  <2>2. new \o rest \in Seq(S) /\ ToSet(new \o rest) = ToSet(new) \cup ToSet(rest)
    BY <2>1, ElementsOfConcat
  <2>3. QED BY <2>2 DEF rest, S
<1>5. Append(results, p) \in Seq(DOMAIN tree) /\ ToSet(Append(results, p)) = ToSet(results) \cup {p}
  BY <1>1, <1>2, OneMore
<1> HIDE DEF new
<1>6. stack' \in Seq(DOMAIN tree) /\ ToSet(stack') = Entered(p) \cup ToSet(Tail(stack))
  BY <1>1, <1>3, <1>4
<1>7. results' \in Seq(DOMAIN tree)
  BY <1>1, <1>5
<1>8. ToSet(results') = ToSet(results) \cup IF Pruned(p) \/ tree[p] = "dir" THEN {} ELSE {p}
  <2>1. CASE Pruned(p) \/ tree[p] = "dir"
    BY <1>1, <2>1
  <2>2. CASE ~(Pruned(p) \/ tree[p] = "dir")
    BY <1>1, <1>5, <2>2
  <2>3. QED BY <2>1, <2>2
<1>9. QED BY <1>2, <1>6, <1>7, <1>8

\* The step of syncOne, in terms of sets.
LEMMA SyncOneFacts ==
    ASSUME StateInv, SyncOne
    PROVE  /\ Head(results) \in DOMAIN tree /\ results' \in Seq(DOMAIN tree)
           /\ ToSet(results) = {Head(results)} \cup ToSet(results')
           /\ Scattered(results) => Scattered(results')
<1>1. results \in Seq(DOMAIN tree) /\ results # <<>> /\ results' = Tail(results)
  BY DEF StateInv, SyncOne
<1>2. QED BY <1>1, HeadAndTail

\* The walk gets closer to an entry with open, visible directories, or visits it.
LEMMA VisitGetsCloser ==
    ASSUME StateInv, Visit, NEW q \in DOMAIN tree, Open(q), Ahead(q),
           ~(\E k \in DOMAIN q : q[k] \in Dotted)
    PROVE  Ahead(q)' \/ Head(stack) = q
<1>1. /\ ToSet(stack) = {Head(stack)} \cup ToSet(Tail(stack))
      /\ ToSet(stack') = Entered(Head(stack)) \cup ToSet(Tail(stack))
  BY VisitFacts
<1>2. PICK i \in 0 .. Len(q) : Cut(q, i) \in ToSet(stack)
  BY DEF Ahead
<1>3. IsTree(tree) /\ q \in Paths /\ Len(q) \in Nat
  BY <1>2, OnTheWay DEF StateInv
<1>4. CASE Cut(q, i) # Head(stack)
  <2>1. Cut(q, i) \in ToSet(stack')
    BY <1>1, <1>2, <1>4
  <2>2. QED BY <2>1 DEF Ahead
<1>5. CASE Cut(q, i) = Head(stack) /\ i = Len(q)
  BY <1>3, <1>5, CutEnds
<1>6. CASE Cut(q, i) = Head(stack) /\ i # Len(q)
  <2>1. i \in 0 .. Len(q) - 1 /\ i + 1 \in 0 .. Len(q)
    BY <1>3, <1>6
  <2>2. tree[Cut(q, i)] = "dir" /\ Cut(q, i) \notin unreadable
    BY <2>1 DEF Open
  <2>3. ~Pruned(Cut(q, i)) /\ Cut(q, i + 1) \in DOMAIN tree
    BY <1>3, <2>1, OnTheWay
  <2>4. Cut(q, i + 1) \in Children(Cut(q, i))
    BY <1>3, <2>1, <2>3, NextOnTheWay
  <2>5. Entered(Head(stack)) = Children(Cut(q, i))
    BY <1>6, <2>2, <2>3 DEF Entered
  <2>6. Cut(q, i + 1) \in ToSet(stack')
    BY <1>1, <2>4, <2>5
  <2>7. QED BY <2>1, <2>6 DEF Ahead
<1>7. QED BY <1>4, <1>5, <1>6

\* A wanted file is an entry of the folder with open directories around it and
\* no hidden name on its path.
LEMMA WantedFacts ==
    ASSUME IsTree(tree), NEW q \in Wanted
    PROVE  /\ q \in DOMAIN tree /\ q # <<>> /\ tree[q] = "file" /\ Open(q)
           /\ ~(\E k \in DOMAIN q : q[k] \in Dotted) /\ ~IsIgnored(q, patterns)
           /\ Len(q) \in Nat /\ 0 \in 0 .. Len(q) - 1 /\ Cut(q, 0) = <<>> /\ tree[<<>>] = "dir"
<1>1. /\ q \in DOMAIN tree /\ q # <<>> /\ tree[q] = "file" /\ Open(q)
      /\ ~(\E k \in DOMAIN q : q[k] \in Dotted) /\ ~IsIgnored(q, patterns)
  BY DEF Wanted, Reachable, Open, IsIgnored, BuiltIn
<1>2. q \in Paths
  BY <1>1 DEF IsTree
<1>3. Len(q) \in Nat /\ Len(q) # 0 /\ Cut(q, 0) = <<>>
  BY <1>1, <1>2, CutEnds
<1>4. 0 \in 0 .. Len(q) - 1
  BY <1>3
<1>5. tree[Cut(q, 0)] = "dir"
  BY <1>1, <1>4 DEF Open
<1>6. QED BY <1>1, <1>3, <1>4, <1>5
-----------------------------------------------------------------------------
(* The invariant is inductive.                                             *)

\* A scan starts with nothing to visit and nothing listed.
LEMMA ScanInit == ASSUME Init PROVE ScanInv
<1>1. /\ stack = <<>> /\ results = <<>> /\ offered = {} /\ phase = "stat" /\ failed = FALSE
      /\ IsTree(tree) /\ unreadable \subseteq Dirs(tree) /\ patterns \in PatternSets
  BY ConstantsAssumption DEF Init
<1>2. ToSet(<<>>) = {} /\ Scattered(<<>>)
  BY DEF ToSet, Scattered
<1>3. <<>> \in Seq(DOMAIN tree)
  OBVIOUS
<1>4. StateInv
  BY <1>1, <1>3 DEF StateInv
<1>5. ApartInv /\ OnlyInv
  BY <1>1, <1>2 DEF ApartInv, OnlyInv
<1>6. AllInv /\ ToldInv
  BY <1>1 DEF AllInv, ToldInv
<1>7. QED BY <1>4, <1>5, <1>6 DEF ScanInv

\* What Stat puts on the stack is the folder itself.
LEMMA StatFacts ==
    ASSUME StateInv, Stat
    PROVE  /\ <<>> \in DOMAIN tree /\ ToSet(stack) = {} /\ ToSet(results) = {} /\ results = <<>>
           /\ \/ /\ phase' = "walk" /\ stack' = <<(<<>>)>> /\ ToSet(stack') = {<<>>} /\ failed' = failed
                 /\ stack' \in Seq(DOMAIN tree) /\ Scattered(stack')
              \/ /\ phase' = "done" /\ stack' = <<>> /\ ToSet(stack') = {} /\ failed' = TRUE
                 /\ stack' \in Seq(DOMAIN tree) /\ Scattered(stack') /\ tree[<<>>] # "dir"
<1>1. <<>> \in DOMAIN tree
  BY DEF StateInv, IsTree
<1>2. stack = <<>> /\ results = <<>> /\ ToSet(<<>>) = {} /\ <<>> \in Seq(DOMAIN tree) /\ Scattered(<<>>)
  BY DEF StateInv, Stat, ToSet, Scattered
<1>3. CASE tree[<<>>] \in {"dir", "linkdir"}
  <2>1. phase' = "walk" /\ stack' = <<(<<>>)>> /\ failed' = failed
    BY <1>3 DEF Stat
  <2>2. ToSet(<<(<<>>)>>) = {<<>>} /\ Scattered(<<(<<>>)>>)
    BY DEF ToSet, Scattered
  <2>3. <<(<<>>)>> \in Seq(DOMAIN tree)
    BY <1>1
  <2>4. QED BY <1>1, <1>2, <2>1, <2>2, <2>3
<1>4. CASE tree[<<>>] \notin {"dir", "linkdir"}
  <2>1. phase' = "done" /\ stack' = stack /\ failed' = TRUE
    BY <1>4 DEF Stat
  <2>2. QED BY <1>1, <1>2, <1>4, <2>1
<1>5. QED BY <1>3, <1>4

\* Sorting what is listed neither adds nor loses an entry.
LEMMA ListedFacts ==
    ASSUME StateInv, Listed
    PROVE  /\ results' \in Seq(DOMAIN tree) /\ ToSet(results') = ToSet(results)
           /\ Scattered(results) => Scattered(results')
<1>1. results \in Seq(DOMAIN tree)
  BY DEF StateInv
<1>2. PICK order \in Bijection(DOMAIN results, DOMAIN results) :
         results' = [i \in DOMAIN results |-> results[order[i]]]
  BY DEF Listed
<1>3. /\ order \in [DOMAIN results -> DOMAIN results]
      /\ \A i, j \in DOMAIN results : order[i] = order[j] => i = j
      /\ \A i \in DOMAIN results : \E j \in DOMAIN results : order[j] = i
  BY <1>2 DEF Bijection, Injection, Surjection, IsInjective
<1>4. DOMAIN results' = DOMAIN results /\ \A i \in DOMAIN results : results'[i] = results[order[i]]
  BY <1>2
<1>5. results' \in Seq(DOMAIN tree)
  <2>1. Len(results) \in Nat /\ DOMAIN results = 1 .. Len(results)
        /\ \A i \in DOMAIN results : results[i] \in DOMAIN tree
    BY <1>1, LenProperties, ElementOfSeq
  <2>2. results' \in [1 .. Len(results) -> DOMAIN tree]
    BY <1>2, <1>3, <2>1
  <2>3. QED BY <2>1, <2>2
<1>6. ToSet(results') = ToSet(results)
  BY <1>3, <1>4 DEF ToSet
<1>7. Scattered(results) => Scattered(results')
  BY <1>3, <1>4 DEF Scattered
<1>8. QED BY <1>5, <1>6, <1>7

\* Every step keeps the types.
LEMMA StateStep == ASSUME ScanInv, Next PROVE StateInv'
<1>1. StateInv
  BY DEF ScanInv
<1>2. UNCHANGED folder
  BY DEF Next, Stat, Visit, Listed, SyncOne, Done
<1>3. /\ IsTree(tree)' /\ (unreadable \subseteq Dirs(tree))' /\ (patterns \in PatternSets)'
      /\ stack \in Seq(DOMAIN tree') /\ results \in Seq(DOMAIN tree') /\ offered \subseteq DOMAIN tree'
      /\ failed \in BOOLEAN
  BY <1>1, <1>2 DEF StateInv
<1>4. CASE Stat
  <2>1. UNCHANGED <<results, offered>> /\ phase' \in {"walk", "done"} /\ stack' \in Seq(DOMAIN tree')
        /\ failed' \in BOOLEAN /\ (phase' # "walk" => stack' = <<>>) /\ results = <<>>
    <3>1. UNCHANGED <<results, offered>>
      BY <1>4 DEF Stat
    <3>2. QED BY <1>1, <1>2, <1>3, <1>4, <3>1, StatFacts
  <2>2. QED BY <1>3, <2>1 DEF StateInv
<1>5. CASE Visit
  <2>1. stack' \in Seq(DOMAIN tree') /\ results' \in Seq(DOMAIN tree')
    BY <1>1, <1>2, <1>5, VisitFacts
  <2>2. phase' = "walk" /\ offered' = offered /\ failed' \in BOOLEAN
    BY <1>3, <1>5 DEF Visit
  <2>3. QED BY <1>3, <2>1, <2>2 DEF StateInv
<1>6. CASE Listed
  <2>1. results' \in Seq(DOMAIN tree')
    BY <1>1, <1>2, <1>6, ListedFacts
  <2>2. phase' = "sync" /\ UNCHANGED <<stack, failed, offered>> /\ stack = <<>>
    BY <1>6 DEF Listed
  <2>3. QED BY <1>3, <2>1, <2>2 DEF StateInv
<1>7. CASE SyncOne
  <2>1. results' \in Seq(DOMAIN tree') /\ Head(results) \in DOMAIN tree'
    BY <1>1, <1>2, <1>7, SyncOneFacts
  <2>2. offered' \subseteq DOMAIN tree'
    BY <1>3, <1>7, <2>1 DEF SyncOne
  <2>3. phase' = "sync" /\ UNCHANGED <<stack, failed>> /\ stack = <<>>
    BY <1>1, <1>7 DEF SyncOne, StateInv
  <2>4. QED BY <1>3, <2>1, <2>2, <2>3 DEF StateInv
<1>8. CASE Done
  BY <1>1, <1>3, <1>8 DEF StateInv, Done
<1>9. QED BY <1>4, <1>5, <1>6, <1>7, <1>8 DEF Next

\* Every step keeps the entries apart: a directory gives way to its entries.
LEMMA ApartStep == ASSUME ScanInv, Next PROVE ApartInv'
<1>1. StateInv /\ ApartInv
  BY DEF ScanInv
<1>2. CASE Stat
  <2>1. Scattered(stack') /\ results' = results /\ ToSet(results) = {} /\ Scattered(results)
    BY <1>1, <1>2, StatFacts DEF Stat, ApartInv
  <2>2. QED BY <2>1 DEF ApartInv
<1>3. CASE Visit
  <2> DEFINE p    == Head(stack)
             rest == Tail(stack)
             new  == IF ~Pruned(p) /\ tree[p] = "dir" /\ p \notin unreadable THEN Listing(p) ELSE <<>>
             S    == DOMAIN tree
  <2>1. /\ stack \in Seq(S) /\ stack # <<>> /\ results \in Seq(S)
        /\ stack' = new \o rest
        /\ results' = IF Pruned(p) \/ tree[p] = "dir" THEN results ELSE Append(results, p)
        /\ IsTree(tree)
    BY <1>1, <1>3 DEF StateInv, Visit
  <2>2. /\ p \in S /\ rest \in Seq(S) /\ ToSet(stack) = {p} \cup ToSet(rest)
        /\ Scattered(rest) /\ \A b \in ToSet(rest) : Apart(p, b)
    BY <1>1, <2>1, HeadAndTail DEF ApartInv
  <2>3. ToSet(rest) \subseteq S /\ ToSet(results) \subseteq S
    BY <2>1, <2>2, ElementOfSeq, LenProperties DEF ToSet
  <2>4. /\ new \in Seq(S) /\ Scattered(new) /\ ToSet(new) \subseteq Entered(p)
    <3>1. CASE ~Pruned(p) /\ tree[p] = "dir" /\ p \notin unreadable
      <4>1. Listing(p) \in Seq(Children(p)) /\ ToSet(Listing(p)) = Children(p) /\ Scattered(Listing(p))
        BY <2>1, <2>2, ListingFacts, ListingScattered
      <4>2. Listing(p) \in Seq(S)
        BY <4>1, SeqMonotonic DEF Children
      <4>3. QED BY <3>1, <4>1, <4>2 DEF Entered
    <3>2. CASE ~(~Pruned(p) /\ tree[p] = "dir" /\ p \notin unreadable)
      <4>1. <<>> \in Seq(S) /\ ToSet(<<>>) = {} /\ Scattered(<<>>)
        BY DEF ToSet, Scattered
      <4>2. QED BY <3>2, <4>1
    <3>3. QED BY <3>1, <3>2
  <2>5. \A a \in Entered(p), b \in S : Apart(p, b) => Apart(a, b)
    BY <2>1, <2>2, ChildStaysApart DEF Entered
  <2>6. \A b \in ToSet(results) : Apart(p, b)
    BY <1>1, <2>2 DEF ApartInv
  <2> HIDE DEF new, rest, S
  <2>7. \A a \in ToSet(new), b \in ToSet(rest) \cup ToSet(results) : Apart(a, b)
    BY <2>2, <2>3, <2>4, <2>5, <2>6
  <2>8. Scattered(new \o rest) /\ ToSet(new \o rest) = ToSet(new) \cup ToSet(rest)
    BY <2>2, <2>4, <2>7, ElementsOfConcat, ScatteredConcat
  <2>9. \A a \in ToSet(rest), b \in ToSet(results) : Apart(a, b)
    BY <1>1, <2>2 DEF ApartInv
  <2>10. CASE Pruned(p) \/ tree[p] = "dir"
    <3>1. results' = results
      BY <2>1, <2>10
    <3>2. Scattered(results)
      BY <1>1 DEF ApartInv
    <3>3. QED BY <2>1, <2>7, <2>8, <2>9, <3>1, <3>2 DEF ApartInv
  <2>11. CASE ~(Pruned(p) \/ tree[p] = "dir")
    <3>1. results' = Append(results, p) /\ ToSet(new) = {}
      BY <2>1, <2>4, <2>11 DEF Entered
    <3>2. \A b \in ToSet(results) \cup ToSet(rest) : Apart(b, p)
      BY <2>2, <2>6 DEF Apart
    <3>3. ToSet(results') = ToSet(results) \cup {p} /\ Scattered(results')
      <4>1. Scattered(results)
        BY <1>1 DEF ApartInv
      <4>2. QED BY <2>1, <2>2, <3>1, <3>2, <4>1, OneMore
    <3>4. QED BY <2>1, <2>8, <2>9, <3>1, <3>2, <3>3 DEF ApartInv
  <2>12. QED BY <2>10, <2>11
<1>4. CASE Listed
  <2>1. ToSet(results') = ToSet(results) /\ Scattered(results')
    BY <1>1, <1>4, ListedFacts DEF ApartInv
  <2>2. stack' = stack
    BY <1>4 DEF Listed
  <2>3. QED BY <1>1, <2>1, <2>2 DEF ApartInv
<1>5. CASE SyncOne
  <2>1. Scattered(results') /\ ToSet(results') \subseteq ToSet(results)
    BY <1>1, <1>5, SyncOneFacts DEF ApartInv
  <2>2. stack' = stack
    BY <1>5 DEF SyncOne
  <2>3. QED BY <1>1, <2>1, <2>2 DEF ApartInv
<1>6. CASE Done
  BY <1>1, <1>6 DEF ApartInv, Done
<1>7. QED BY <1>2, <1>3, <1>4, <1>5, <1>6 DEF Next

\* The entries of an open directory that can be listed are open.
LEMMA ChildIsOpen ==
    ASSUME IsTree(tree), NEW p \in DOMAIN tree, Open(p), NEW q \in Entered(p)
    PROVE  Open(q)
<1>1. q \in Children(p) /\ tree[p] = "dir" /\ p \notin unreadable
  BY DEF Entered
<1>2. q \in Paths /\ Len(p) \in Nat /\ Len(q) = Len(p) + 1 /\ Cut(q, Len(p)) = p
  BY <1>1, ChildFacts
<1> SUFFICES ASSUME NEW i \in 0 .. Len(q) - 1 PROVE tree[Cut(q, i)] = "dir" /\ Cut(q, i) \notin unreadable
  BY DEF Open
<1>3. CASE i = Len(p)
  BY <1>1, <1>2, <1>3
<1>4. CASE i # Len(p)
  <2>1. i \in 0 .. Len(p) - 1 /\ i \in 0 .. Len(p) /\ Len(p) \in 0 .. Len(q)
    BY <1>2, <1>4
  <2>2. Cut(Cut(q, Len(p)), i) = Cut(q, i)
    BY <1>2, <2>1, CutOfCut
  <2>3. QED BY <1>2, <2>1, <2>2 DEF Open
<1>5. QED BY <1>3, <1>4

\* The folder does not change, and what is said of it alone stays.
LEMMA FolderStays ==
    ASSUME ScanInv, Next
    PROVE  /\ tree' = tree /\ unreadable' = unreadable /\ patterns' = patterns
           /\ Wanted' = Wanted
           /\ \A p : Open(p)' <=> Open(p)
           /\ \A p : Visible(p)' <=> Visible(p)
<1>1. tree' = tree /\ unreadable' = unreadable /\ patterns' = patterns
  BY DEF Next, Stat, Visit, Listed, SyncOne, Done
<1>2. QED BY <1>1 DEF Wanted, Reachable, Open, Visible, IsIgnored, BuiltIn, Matches

\* Every step keeps to what is open and wanted.
LEMMA OnlyStep == ASSUME ScanInv, Next PROVE OnlyInv'
<1>1. StateInv /\ IsTree(tree) /\ OnlyInv
  BY DEF ScanInv, StateInv
<1>2. /\ \A p : Open(p)' <=> Open(p)
      /\ Wanted' = Wanted /\ tree' = tree
  BY FolderStays
<1> SUFFICES /\ \A p \in ToSet(stack') \cup ToSet(results') : Open(p)
             /\ offered' \subseteq Wanted
  BY <1>2 DEF OnlyInv
<1>3. CASE Stat
  <2>1. Open(<<>>)
    <3>1. Len(<<>>) = 0
      BY EmptySeq
    <3>2. 0 .. Len(<<>>) - 1 = {}
      BY <3>1
    <3>3. QED BY <3>2 DEF Open
  <2>2. ToSet(stack') \subseteq {<<>>} /\ ToSet(results) = {}
    BY <1>1, <1>3, StatFacts
  <2>3. results' = results /\ offered' = offered
    BY <1>3 DEF Stat
  <2>4. QED BY <1>1, <2>1, <2>2, <2>3 DEF OnlyInv
<1>4. CASE Visit
  <2>1. /\ Head(stack) \in DOMAIN tree
        /\ ToSet(stack) = {Head(stack)} \cup ToSet(Tail(stack))
        /\ ToSet(stack') = Entered(Head(stack)) \cup ToSet(Tail(stack))
        /\ ToSet(results') \subseteq ToSet(results) \cup {Head(stack)}
    BY <1>1, <1>4, VisitFacts
  <2>2. Open(Head(stack)) /\ \A q \in ToSet(Tail(stack)) \cup ToSet(results) : Open(q)
    BY <1>1, <2>1 DEF OnlyInv
  <2>3. \A q \in Entered(Head(stack)) : Open(q)
    BY <1>1, <2>1, <2>2, ChildIsOpen
  <2>4. offered' \subseteq Wanted
    BY <1>1, <1>4 DEF OnlyInv, Visit
  <2>5. QED BY <2>1, <2>2, <2>3, <2>4
<1>5. CASE Listed
  <2>1. ToSet(results') = ToSet(results)
    BY <1>1, <1>5, ListedFacts
  <2>2. UNCHANGED <<stack, offered>>
    BY <1>5 DEF Listed
  <2>3. QED BY <1>1, <2>1, <2>2 DEF OnlyInv
<1>6. CASE SyncOne
  <2> DEFINE p == Head(results)
  <2>1. p \in DOMAIN tree /\ ToSet(results) = {p} \cup ToSet(results')
    BY <1>1, <1>6, SyncOneFacts
  <2>2. stack' = stack /\ offered' = IF p # <<>> /\ ~IsIgnored(p, patterns) /\ tree[p] = "file"
                                     THEN offered \cup {p} ELSE offered
    BY <1>6 DEF SyncOne
  <2>3. p # <<>> /\ ~IsIgnored(p, patterns) /\ tree[p] = "file" => p \in Wanted
    <3>1. Open(p)
      BY <1>1, <2>1 DEF OnlyInv
    <3> HIDE DEF p
    <3>2. QED BY <2>1, <3>1 DEF Wanted, Reachable, Open
  <2> HIDE DEF p
  <2>4. QED BY <1>1, <2>1, <2>2, <2>3 DEF OnlyInv
<1>7. CASE Done
  BY <1>1, <1>7 DEF OnlyInv, Done
<1>8. QED BY <1>3, <1>4, <1>5, <1>6, <1>7 DEF Next

\* Nothing is ahead when there is nothing left to visit.
LEMMA AheadEnds == ASSUME stack = <<>>, NEW q PROVE ~Ahead(q)
<1>1. ToSet(stack) = {}
  BY DEF ToSet
<1>2. QED BY <1>1 DEF Ahead

\* Every step keeps each wanted file ahead, listed or offered.
LEMMA AllStep == ASSUME ScanInv, Next PROVE AllInv'
<1>1. StateInv /\ IsTree(tree) /\ IsTree(tree)' /\ AllInv
  BY StateStep DEF ScanInv, StateInv
<1>2. Wanted' = Wanted /\ tree' = tree
  BY FolderStays
<1> SUFFICES ASSUME phase' # "stat", NEW q \in Wanted
             PROVE  q \in offered' \cup ToSet(results') \/ Ahead(q)'
  BY <1>2 DEF AllInv
<1>3. /\ q \in DOMAIN tree /\ q # <<>> /\ tree[q] = "file" /\ Open(q) /\ tree[<<>>] = "dir"
      /\ ~(\E k \in DOMAIN q : q[k] \in Dotted) /\ ~IsIgnored(q, patterns) /\ Len(q) \in Nat
  BY <1>1, WantedFacts
<1>4. CASE Stat
  <2>1. <<>> \in ToSet(stack')
    BY <1>1, <1>3, <1>4, StatFacts
  <2>2. 0 \in 0 .. Len(q) /\ Cut(q, 0) = <<>>
    BY <1>1, <1>3, CutEnds DEF IsTree
  <2>3. QED BY <2>1, <2>2 DEF Ahead
<1>5. CASE Visit
  <2>1. offered' = offered /\ phase = "walk"
    BY <1>5 DEF Visit
  <2>2. q \in offered \cup ToSet(results) \/ Ahead(q)
    BY <1>1, <2>1 DEF AllInv
  <2>3. ToSet(results') = ToSet(results) \cup IF Pruned(Head(stack)) \/ tree[Head(stack)] = "dir" THEN {} ELSE {Head(stack)}
    BY <1>1, <1>5, VisitFacts
  <2>4. CASE q \in offered \cup ToSet(results)
    BY <2>1, <2>3, <2>4
  <2>5. CASE Ahead(q)
    <3>1. Ahead(q)' \/ Head(stack) = q
      BY <1>1, <1>3, <1>5, <2>5, VisitGetsCloser
    <3>2. CASE Head(stack) = q
      <4>1. ~Pruned(q)
        <5>1. Len(q) \in 0 .. Len(q) /\ q \in Paths
          BY <1>1, <1>3 DEF IsTree
        <5>2. ~Pruned(Cut(q, Len(q)))
          BY <1>1, <1>3, <5>1, OnTheWay
        <5>3. QED BY <5>1, <5>2, CutEnds
      <4>2. QED BY <1>3, <2>3, <3>2, <4>1
    <3>3. QED BY <3>1, <3>2
  <2>6. QED BY <2>2, <2>4, <2>5
<1>6. CASE Listed
  <2>1. q \in offered \cup ToSet(results) \/ Ahead(q)
    BY <1>1, <1>6 DEF AllInv, Listed
  <2>2. UNCHANGED <<stack, offered>> /\ ToSet(results') = ToSet(results)
    <3>1. UNCHANGED <<stack, offered>>
      BY <1>6 DEF Listed
    <3>2. QED BY <1>1, <1>6, <3>1, ListedFacts
  <2>3. QED BY <2>1, <2>2 DEF Ahead
<1>7. CASE SyncOne
  <2> DEFINE p == Head(results)
  <2>1. ToSet(results) = {p} \cup ToSet(results')
    BY <1>1, <1>7, SyncOneFacts
  <2>2. phase = "sync" /\ stack' = stack
        /\ offered' = IF p # <<>> /\ ~IsIgnored(p, patterns) /\ tree[p] = "file"
                      THEN offered \cup {p} ELSE offered
    BY <1>7 DEF SyncOne
  <2> HIDE DEF p
  <2>3. q \in offered \cup ToSet(results) \/ Ahead(q)
    BY <1>1, <2>2 DEF AllInv
  <2>4. CASE q \in offered \/ q \in ToSet(results')
    BY <2>2, <2>4
  <2>5. CASE q = p
    BY <1>3, <2>2, <2>5
  <2>6. CASE Ahead(q)
    BY <2>2, <2>6 DEF Ahead
  <2>7. QED BY <2>1, <2>3, <2>4, <2>5, <2>6
<1>8. CASE Done
  <2>1. q \in offered \cup ToSet(results) \/ Ahead(q)
    BY <1>1, <1>8 DEF AllInv, Done
  <2>2. UNCHANGED <<stack, results, offered>>
    BY <1>8 DEF Done
  <2>3. QED BY <2>1, <2>2 DEF Ahead
<1>9. QED BY <1>4, <1>5, <1>6, <1>7, <1>8 DEF Next

\* Every step keeps each visible directory that cannot be listed ahead, until
\* it is reported.
LEMMA ToldStep == ASSUME ScanInv, Next PROVE ToldInv'
<1>1. StateInv /\ IsTree(tree) /\ IsTree(tree)' /\ ToldInv
  BY StateStep DEF ScanInv, StateInv
<1>2. tree' = tree /\ unreadable' = unreadable /\ \A p : Visible(p)' <=> Visible(p)
  BY FolderStays
<1> SUFFICES ASSUME phase' # "stat", tree[<<>>] = "dir", NEW d \in unreadable, Visible(d)
             PROVE  failed' \/ Ahead(d)'
  BY <1>2 DEF ToldInv
<1>3. d \in DOMAIN tree /\ tree[d] = "dir" /\ ~(\E k \in DOMAIN d : d[k] \in Dotted)
  BY <1>1 DEF StateInv, Dirs, Visible
<1>4. d \in Paths /\ Len(d) \in Nat
  <2>1. d \in Paths
    BY <1>1, <1>3 DEF IsTree
  <2>2. QED BY <2>1, CutEnds
<1>5. CASE Stat
  <2>1. <<>> \in ToSet(stack')
    BY <1>1, <1>5, StatFacts
  <2>2. 0 \in 0 .. Len(d) /\ Cut(d, 0) = <<>>
    BY <1>1, <1>3, <1>4, CutEnds DEF IsTree
  <2>3. QED BY <2>1, <2>2 DEF Ahead
<1>6. CASE Visit
  <2>1. phase = "walk" /\ failed' = (failed \/ (~Pruned(Head(stack)) /\ tree[Head(stack)] = "dir" /\ Head(stack) \in unreadable))
    BY <1>6 DEF Visit
  <2>2. failed \/ Ahead(d)
    BY <1>1, <2>1 DEF ToldInv
  <2>3. CASE Ahead(d)
    <3>1. Open(d)
      <4> SUFFICES ASSUME NEW i \in 0 .. Len(d) - 1 PROVE tree[Cut(d, i)] = "dir" /\ Cut(d, i) \notin unreadable
        BY DEF Open
      <4>1. i \in 0 .. Len(d) /\ i # Len(d)
        BY <1>4
      <4>2. Cut(d, i) # d
        BY <1>4, <4>1, CutFacts
      <4>3. QED BY <4>1, <4>2 DEF Visible
    <3>2. Ahead(d)' \/ Head(stack) = d
      BY <1>1, <1>3, <1>6, <2>3, <3>1, VisitGetsCloser
    <3>3. CASE Head(stack) = d
      <4>1. Len(d) \in 0 .. Len(d)
        BY <1>4
      <4>2. ~Pruned(Cut(d, Len(d)))
        BY <1>1, <1>3, <4>1, OnTheWay
      <4>3. ~Pruned(d)
        BY <1>4, <4>2, CutEnds
      <4>4. QED BY <1>3, <2>1, <3>3, <4>3
    <3>4. QED BY <3>2, <3>3
  <2>4. QED BY <2>1, <2>2, <2>3
<1>7. CASE Listed \/ SyncOne \/ Done
  <2>1. UNCHANGED <<stack, failed>> /\ phase # "stat"
    BY <1>7 DEF Listed, SyncOne, Done
  <2>2. failed \/ Ahead(d)
    BY <1>1, <2>1 DEF ToldInv
  <2>3. QED BY <2>1, <2>2 DEF Ahead
<1>8. QED BY <1>5, <1>6, <1>7 DEF Next

\* The invariant holds in every state.
LEMMA ScanInvariant == Spec => []ScanInv
<1>1. ASSUME ScanInv, [Next]_vars PROVE ScanInv'
  <2>1. CASE Next
    BY <1>1, <2>1, StateStep, ApartStep, OnlyStep, AllStep, ToldStep DEF ScanInv
  <2>2. CASE UNCHANGED vars
    BY <1>1, <2>2 DEF ScanInv, StateInv, ApartInv, OnlyInv, AllInv, ToldInv, Dirs, Open, Visible,
       Ahead, Wanted, Reachable, IsIgnored, BuiltIn, Matches
  <2>3. QED BY <1>1, <2>1, <2>2
<1>2. QED BY <1>1, ScanInit, PTL DEF Spec
-----------------------------------------------------------------------------
(* The theorems.                                                           *)

\* Paths apart from each other are different ones, so what is still to be
\* visited and what is listed are all different entries.
LEMMA EntriesDiffer ==
    ASSUME StateInv, ApartInv
    PROVE  IsInjective(stack \o results) /\ ToSet(stack \o results) \subseteq DOMAIN tree
<1> DEFINE all == stack \o results
<1>1. Scattered(all) /\ all \in Seq(DOMAIN tree)
  BY ScatteredConcat, ElementsOfConcat DEF StateInv, ApartInv
<1> HIDE DEF all
<1>2. \A i \in DOMAIN all : all[i] \in DOMAIN tree
  BY <1>1, LenProperties, ElementOfSeq
<1>3. DOMAIN tree \subseteq Paths
  BY DEF StateInv, IsTree
<1>4. \A i, j \in DOMAIN all : i # j => all[i] # all[j]
  <2> SUFFICES ASSUME NEW i \in DOMAIN all, NEW j \in DOMAIN all, i # j PROVE all[i] # all[j]
    OBVIOUS
  <2>1. Apart(all[i], all[j]) /\ all[i] \in Paths /\ all[j] \in Paths
    BY <1>1, <1>2, <1>3 DEF Scattered
  <2>2. QED BY <2>1, ApartDiffers
<1>5. IsInjective(all) /\ ToSet(all) \subseteq DOMAIN tree
  BY <1>2, <1>4 DEF IsInjective, ToSet
<1>6. QED BY <1>5 DEF all

\* Types are right, and enumerateFiles visits and lists no entry twice.
THEOREM ScanTypeCorrect == Spec => []TypeOK
<1>1. ScanInv => TypeOK
  BY EntriesDiffer DEF ScanInv, StateInv, TypeOK
<1>2. QED BY <1>1, ScanInvariant, PTL

\* SyncFullScan compares exactly the reachable files the rules allow, in
\* every folder, under every set of patterns, and whatever cannot be listed.
THEOREM ScanIsExact == Spec => []ScanFindsAll
<1>1. ScanInv => ScanFindsAll
  <2> SUFFICES ASSUME ScanInv, phase = "done"
               PROVE  offered = {p \in Reachable : ~IsIgnored(p, patterns)}
    BY DEF ScanFindsAll
  <2>1. offered \subseteq Wanted
    BY DEF ScanInv, OnlyInv
  <2>2. stack = <<>> /\ results = <<>>
    BY DEF ScanInv, StateInv
  <2>3. \A q \in Wanted : q \in offered
    <3> TAKE q \in Wanted
    <3>1. q \in offered \cup ToSet(results) \/ Ahead(q)
      BY DEF ScanInv, AllInv
    <3>2. ~Ahead(q) /\ ToSet(results) = {}
      BY <2>2, AheadEnds DEF ToSet
    <3>3. QED BY <3>1, <3>2
  <2>4. QED BY <2>1, <2>3 DEF Wanted
<1>2. QED BY <1>1, ScanInvariant, PTL

\* A scan that could not list a visible directory ends with an error.
THEOREM MissedIsReported == Spec => []ErrorsReported
<1>1. ScanInv => ErrorsReported
  <2> SUFFICES ASSUME ScanInv, phase = "done", tree[<<>>] = "dir", NEW d \in unreadable, Visible(d)
               PROVE  failed
    BY DEF ErrorsReported, Visible
  <2>1. stack = <<>>
    BY DEF ScanInv, StateInv
  <2>2. failed \/ Ahead(d)
    BY DEF ScanInv, ToldInv
  <2>3. QED BY <2>1, <2>2, AheadEnds
<1>2. QED BY <1>1, ScanInvariant, PTL

\* Where every pattern is plain, one that ignores a directory ignores what is
\* in it, at any depth; so do the built-in rules.
THEOREM SubtreeIsIgnored == Spec => []IgnoredSubtree
<1>1. StateInv => IgnoredSubtree
  <2> SUFFICES ASSUME StateInv, NEW p \in DOMAIN tree, NEW q \in DOMAIN tree,
                      p # <<>>, IsPrefix(p, q),
                      \A pattern \in patterns : Len(pattern) = 1,
                      IsIgnored(p, patterns)
               PROVE  IsIgnored(q, patterns)
    BY DEF IgnoredSubtree
  <2>1. p \in Paths /\ q \in Paths
    BY DEF StateInv, IsTree
  <2>2. Len(p) \in Nat \ {0} /\ Len(q) \in Nat /\ DOMAIN p = 1 .. Len(p) /\ DOMAIN q = 1 .. Len(q)
    BY <2>1, LenProperties, EmptySeq DEF Paths
  <2>3. Len(p) <= Len(q) /\ Cut(p, Len(p)) = Cut(q, Len(p))
    BY DEF IsPrefix, Cut
  <2>4. \A i \in DOMAIN p : i \in DOMAIN q /\ q[i] = p[i]
    <3>1. Len(p) \in 0 .. Len(q)
      BY <2>2, <2>3
    <3>2. p = Cut(q, Len(p))
      BY <2>1, <2>3, CutEnds
    <3>3. \A i \in 1 .. Len(p) : Cut(q, Len(p))[i] = q[i]
      BY <2>1, <3>1, CutFacts
    <3>4. QED BY <2>2, <2>3, <3>2, <3>3
  <2>5. CASE BuiltIn(p)
    BY <2>4, <2>5 DEF IsIgnored, BuiltIn
  <2>6. ASSUME NEW pattern \in patterns, Matches(pattern, p) PROVE IsIgnored(q, patterns)
    <3>1. Len(pattern) = 1 /\ Len(p) = 1 /\ 1 \in DOMAIN p /\ p[1] \in pattern[1]
      BY <2>2, <2>6 DEF Matches
    <3>2. 1 \in DOMAIN q /\ Matches(pattern, <<q[1]>>)
      BY <2>4, <3>1 DEF Matches
    <3>3. QED BY <3>2 DEF IsIgnored
  <2>7. ASSUME NEW pattern \in patterns, NEW i \in DOMAIN p, Matches(pattern, <<p[i]>>)
        PROVE  IsIgnored(q, patterns)
    BY <2>4, <2>7 DEF IsIgnored
  <2>8. QED BY <2>5, <2>6, <2>7 DEF IsIgnored
<1>2. ScanInv => IgnoredSubtree
  BY <1>1 DEF ScanInv
<1>3. QED BY <1>2, ScanInvariant, PTL
=============================================================================
