-------------------------- MODULE ServiceLoopProofs --------------------------
(***************************************************************************)
(* What holds of ServiceLoop for every cap of the log and every set of     *)
(* faults: the types, that the log is newest first, that it is complete,   *)
(* and that SIGTERM interrupts nothing.                                    *)
(***************************************************************************)
EXTENDS ServiceLoop, SequenceTheorems, TLAPS

USE ConstantsAssumption DEF process, vars, May
-----------------------------------------------------------------------------
(* The log with one entry more.                                            *)

\* A log of events up to n, within its cap.
IsLog(q, n) == q \in Seq(1 .. n) /\ Len(q) <= Cap

\* The new entry comes first, the others follow as far as there is room.
LEMMA EntryAdded ==
    ASSUME NEW n \in Nat, NEW q, IsLog(q, n)
    PROVE  /\ IsLog(WithEntry(q, n + 1), n + 1)
           /\ Len(WithEntry(q, n + 1)) = IF Len(q) < Cap THEN Len(q) + 1 ELSE Cap
           /\ WithEntry(q, n + 1)[1] = n + 1
           /\ \A i \in 1 .. Len(WithEntry(q, n + 1)) :
                 i # 1 => i - 1 \in 1 .. Len(q) /\ WithEntry(q, n + 1)[i] = q[i - 1]
<1> DEFINE m    == IF Len(q) < Cap THEN Len(q) ELSE Cap - 1
           kept == SubSeq(q, 1, m)
           w    == <<n + 1>> \o kept
<1>1. Len(q) \in Nat /\ m \in Nat /\ m <= Len(q) /\ m < Cap
  BY LenProperties DEF IsLog
<1>2. \A i \in 1 .. m : q[i] \in 1 .. (n + 1)
  <2>1. \A i \in 1 .. Len(q) : q[i] \in 1 .. n
    BY ElementOfSeq DEF IsLog
  <2> HIDE DEF m
  <2>2. QED BY <1>1, <2>1
<1>3. kept \in Seq(1 .. (n + 1)) /\ Len(kept) = m /\ \A i \in 1 .. m : kept[i] = q[i]
  <2> HIDE DEF m
  <2>1. /\ kept \in Seq(1 .. (n + 1))
        /\ Len(kept) = IF 1 <= m THEN m - 1 + 1 ELSE 0
        /\ \A i \in 1 .. (m - 1 + 1) : kept[i] = q[1 + i - 1]
    BY <1>1, <1>2, SubSeqProperties
  <2> HIDE DEF kept
  <2>2. QED BY <1>1, <2>1
<1>4. <<n + 1>> \in Seq(1 .. (n + 1)) /\ Len(<<n + 1>>) = 1 /\ <<n + 1>>[1] = n + 1
  OBVIOUS
<1> HIDE DEF kept
<1>5. /\ w \in Seq(1 .. (n + 1))
      /\ Len(w) = 1 + m
      /\ \A i \in 1 .. (1 + m) : w[i] = IF i <= 1 THEN <<n + 1>>[i] ELSE kept[i - 1]
  BY <1>3, <1>4, ConcatProperties
<1>6. w = WithEntry(q, n + 1)
  BY DEF WithEntry, kept
<1> HIDE DEF w
<1>7. Len(w) = IF Len(q) < Cap THEN Len(q) + 1 ELSE Cap
  BY <1>1, <1>5
<1> HIDE DEF m
<1>8. w[1] = n + 1
  BY <1>1, <1>4, <1>5
<1>9. \A i \in 1 .. Len(w) : i # 1 => i - 1 \in 1 .. Len(q) /\ w[i] = q[i - 1]
  BY <1>1, <1>3, <1>5
<1>10. IsLog(w, n + 1)
  BY <1>1, <1>5 DEF IsLog
<1>11. QED BY <1>6, <1>7, <1>8, <1>9, <1>10

\* A log stays one when the next event happens elsewhere.
LEMMA LogGrowsOld ==
    ASSUME NEW n \in Nat, NEW q, IsLog(q, n)
    PROVE  IsLog(q, n + 1)
<1>1. \A i \in 1 .. Len(q) : q[i] \in 1 .. (n + 1)
  BY ElementOfSeq DEF IsLog
<1>2. q \in [1 .. Len(q) -> 1 .. (n + 1)] /\ Len(q) \in Nat
  BY <1>1, LenProperties DEF IsLog
<1>3. QED BY <1>2 DEF IsLog

\* An empty log.
LEMMA EmptyLog == ASSUME NEW n \in Nat PROVE IsLog(<<>>, n) /\ DOMAIN <<>> = {}
  BY EmptySeq DEF IsLog
-----------------------------------------------------------------------------
(* Types.                                                                  *)

\* TypeOK, and copy is a function on the processes.
TypeInv ==
    /\ faults \in FaultSets
    /\ pc \in [Procs -> Controls]
    /\ looping \in BOOLEAN
    /\ due \subseteq Channels
    /\ clock \in 0 .. MaxEvents
    /\ DOMAIN copy = Procs /\ copy = [p \in Procs |-> copy[p]]
    /\ \A p \in Procs : IsLog(copy[p], clock)
    /\ logFile = Unreadable \/ IsLog(logFile, clock)

\* It says the same as TypeOK of what TypeOK speaks of.
LEMMA TypeInvIsType == TypeInv => TypeOK
  BY DEF TypeInv, TypeOK, IsLog

\* In the first state.
LEMMA InitType == Init => TypeInv
<1> SUFFICES ASSUME Init PROVE TypeInv
  OBVIOUS
<1>1. clock = 0 /\ 0 \in 0 .. MaxEvents /\ IsLog(<<>>, 0)
  BY EmptyLog DEF Init
<1>2. DOMAIN copy = Procs /\ copy = [p \in Procs |-> copy[p]] /\ \A p \in Procs : copy[p] = <<>>
  BY DEF Init
<1>3. /\ faults \in FaultSets /\ pc \in [Procs -> Controls] /\ looping \in BOOLEAN
      /\ due \subseteq Channels /\ logFile = <<>>
  BY DEF Init, Controls
<1>4. QED BY <1>1, <1>2, <1>3 DEF TypeInv

\* What an end of a process leaves.
LEMMA EndType ==
    ASSUME TypeInv, UNCHANGED faults, NEW p \in Procs, End(p)
    PROVE  /\ TypeInv'
           /\ pc' = [pc EXCEPT ![p] = "down"] /\ copy' = [copy EXCEPT ![p] = <<>>]
           /\ UNCHANGED <<logFile, clock>>
           /\ p = "service" => looping' = FALSE /\ due' = {}
           /\ p # "service" => UNCHANGED <<looping, due>>
<1>1. /\ pc' = [pc EXCEPT ![p] = "down"] /\ copy' = [copy EXCEPT ![p] = <<>>]
      /\ UNCHANGED <<logFile, clock>>
      /\ p = "service" => looping' = FALSE /\ due' = {}
      /\ p # "service" => UNCHANGED <<looping, due>>
  BY DEF End, Go
<1>2. clock \in Nat /\ IsLog(<<>>, clock)
  BY EmptyLog DEF TypeInv
<1>3. TypeInv'
  BY <1>1, <1>2 DEF TypeInv, Controls
<1>4. QED BY <1>1, <1>3

\* Every step keeps the types.
LEMMA NextType == TypeInv /\ [Next]_vars => TypeInv'
<1> SUFFICES ASSUME TypeInv, [Next]_vars PROVE TypeInv'
  OBVIOUS
<1>1. CASE UNCHANGED vars
  BY <1>1 DEF TypeInv
<1>2. CASE Next
  <2>1. UNCHANGED faults
    BY <1>2 DEF Next
  <2>2. clock \in Nat /\ IsLog(<<>>, clock)
    BY EmptyLog DEF TypeInv
  <2>3. ASSUME NEW p \in Procs, Boot(p) PROVE TypeInv'
    <3>1. IsLog(Loaded, clock)
      BY <2>2 DEF TypeInv, Loaded
    <3>2. /\ pc' = [pc EXCEPT ![p] = "round"] /\ copy' = [copy EXCEPT ![p] = Loaded]
          /\ UNCHANGED <<looping, due, logFile, clock>>
      BY <2>3 DEF Boot, Go
    <3>3. QED BY <2>1, <3>1, <3>2 DEF TypeInv, Controls
  <2>4. ASSUME NEW p \in Procs, LogEvent(p) PROVE TypeInv'
    <3> DEFINE w == WithEntry(copy[p], clock + 1)
    <3>1. IsLog(w, clock + 1)
      BY <2>2, <2>4, EntryAdded DEF TypeInv
    <3>2. /\ \A q \in Procs : IsLog(copy[q], clock + 1)
          /\ logFile = Unreadable \/ IsLog(logFile, clock + 1)
      BY <2>2, LogGrowsOld DEF TypeInv
    <3>3. /\ clock < MaxEvents /\ clock' = clock + 1 /\ copy' = [copy EXCEPT ![p] = w]
          /\ UNCHANGED <<looping, due>>
          /\ \/ pc' = [pc EXCEPT ![p] = "write"] /\ logFile' = Unreadable
             \/ UNCHANGED <<pc, logFile>>
      BY <2>4 DEF LogEvent, Go
    <3> HIDE DEF w
    <3>4. QED BY <2>1, <3>1, <3>2, <3>3 DEF TypeInv, Controls
  <2>5. ASSUME NEW p \in Procs, WriteLog(p) PROVE TypeInv'
    BY <2>1, <2>5 DEF WriteLog, Go, TypeInv, Controls
  <2>6. ASSUME NEW p \in Procs, EndRound(p) PROVE TypeInv'
    BY <2>1, <2>6, EndType DEF EndRound, Go, TypeInv, Controls
  <2>7. ASSUME NEW p \in Procs, Kill(p) PROVE TypeInv'
    BY <2>1, <2>7, EndType DEF Kill
  <2>8. ASSUME NEW p \in Procs, Hang(p) PROVE TypeInv'
    BY <2>1, <2>8 DEF Hang, Go, TypeInv, Controls
  <2>9. ASSUME NEW c \in {"sync", "checkin"}, Tick(c) PROVE TypeInv'
    BY <2>1, <2>9 DEF Tick, TypeInv, Channels
  <2>10. ASSUME NEW c \in Channels, Select(c) PROVE TypeInv'
    BY <2>1, <2>10, EndType DEF Select, Go, TypeInv, Controls, Procs
  <2>11. CASE EndCheckIn
    <3>1. CASE End("service")
      BY <2>1, <3>1, EndType DEF Procs
    <3>2. CASE ~End("service")
      <4>1. /\ pc' = [pc EXCEPT !["service"] = "idle"]
            /\ due' = due \/ due' = due \ {"sync"}
            /\ UNCHANGED <<looping, copy, logFile, clock>>
        BY <2>11, <3>2 DEF EndCheckIn, Go
      <4>2. due' \subseteq Channels
        BY <4>1 DEF TypeInv
      <4>3. QED BY <2>1, <4>1, <4>2 DEF TypeInv, Controls
    <3>3. QED BY <3>1, <3>2
  <2>12. CASE Term
    BY <2>1, <2>12, EndType DEF Term, TypeInv, Channels, Procs
  <2>13. QED BY <1>2, <2>3, <2>4, <2>5, <2>6, <2>7, <2>8, <2>9, <2>10, <2>11, <2>12
             DEF Next, Act, Work
<1>3. QED BY <1>1, <1>2

\* The types hold in every state, and no copy of the log outgrows its cap.
THEOREM LoopTypeCorrect == Spec => []TypeOK
<1>1. QED BY TypeInvIsType, InitType, NextType, PTL DEF Spec
-----------------------------------------------------------------------------
(* Order.  LogNewestFirst speaks of the file; what is written to it is a   *)
(* process's copy, so the copies have to be in order as well.              *)

\* The later an entry stands, the older it is.
NewestFirst(q) == \A i, j \in DOMAIN q : i < j => q[i] > q[j]

\* Every copy of the log is newest first.
OrderInv ==
    /\ TypeInv
    /\ \A p \in Procs : NewestFirst(copy[p])
    /\ logFile # Unreadable => NewestFirst(logFile)

\* An entry younger than all the others keeps a log in order.
LEMMA EntryIsNewest ==
    ASSUME NEW n \in Nat, NEW q, IsLog(q, n), NewestFirst(q)
    PROVE  NewestFirst(WithEntry(q, n + 1))
<1> DEFINE w == WithEntry(q, n + 1)
<1>1. /\ w[1] = n + 1
      /\ \A i \in 1 .. Len(w) : i # 1 => i - 1 \in 1 .. Len(q) /\ w[i] = q[i - 1]
      /\ w \in Seq(1 .. (n + 1))
  BY EntryAdded DEF IsLog
<1>2. \A i \in 1 .. Len(q) : q[i] \in 1 .. n
  BY ElementOfSeq DEF IsLog
<1>3. DOMAIN q = 1 .. Len(q) /\ Len(q) \in Nat
  BY LenProperties DEF IsLog
<1> HIDE DEF w
<1>4. DOMAIN w = 1 .. Len(w) /\ Len(w) \in Nat
  BY <1>1, LenProperties
<1>5. ASSUME NEW i \in 1 .. Len(w), NEW j \in 1 .. Len(w), i < j PROVE w[i] > w[j]
  <2>1. j # 1 /\ j - 1 \in 1 .. Len(q) /\ w[j] = q[j - 1] /\ i \in Nat /\ j \in Nat
    BY <1>1, <1>4, <1>5
  <2>2. CASE i = 1
    BY <1>1, <1>2, <2>1, <2>2
  <2>3. CASE i # 1
    <3>1. i - 1 \in 1 .. Len(q) /\ w[i] = q[i - 1]
      BY <1>1, <2>3
    <3>2. i - 1 < j - 1
      BY <1>5, <2>1
    <3>3. q[i - 1] > q[j - 1]
      BY <1>3, <2>1, <3>1, <3>2 DEF NewestFirst
    <3>4. QED BY <2>1, <3>1, <3>3
  <2>4. QED BY <2>2, <2>3
<1>6. NewestFirst(w)
  BY <1>4, <1>5 DEF NewestFirst
<1>7. QED BY <1>6 DEF w

\* An empty log is in order.
LEMMA EmptyIsOrdered == NewestFirst(<<>>)
  BY EmptyLog, 0 \in Nat DEF NewestFirst

\* What a step may put into the copies and the file: a copy is emptied,
\* loaded or given a new entry, the file takes a copy or becomes unreadable.
LEMMA LogStep ==
    ASSUME TypeInv, [Next]_vars
    PROVE  /\ \A p \in Procs :
                 \/ copy'[p] = copy[p]
                 \/ copy'[p] = <<>>
                 \/ copy'[p] = Loaded
                 \/ copy'[p] = WithEntry(copy[p], clock + 1)
           /\ \/ logFile' = logFile
              \/ logFile' = Unreadable
              \/ \E p \in Procs : logFile' = copy[p]
<1>1. DOMAIN copy = Procs
  BY DEF TypeInv
<1>2. ASSUME NEW p \in Procs, End(p)
      PROVE  copy' = [copy EXCEPT ![p] = <<>>] /\ logFile' = logFile
  BY <1>2 DEF End
<1>3. CASE UNCHANGED vars
  BY <1>3
<1>4. ASSUME NEW p \in Procs, Boot(p)
      PROVE  copy' = [copy EXCEPT ![p] = Loaded] /\ logFile' = logFile
  BY <1>4 DEF Boot
<1>5. ASSUME NEW p \in Procs, LogEvent(p)
      PROVE  /\ copy' = [copy EXCEPT ![p] = WithEntry(copy[p], clock + 1)]
             /\ logFile' = logFile \/ logFile' = Unreadable
  BY <1>5 DEF LogEvent
<1>6. ASSUME NEW p \in Procs, WriteLog(p)
      PROVE  UNCHANGED copy /\ (logFile' = copy[p] \/ logFile' = Unreadable)
  BY <1>6 DEF WriteLog
<1>7. ASSUME NEW p \in Procs, EndRound(p) \/ Kill(p) \/ Hang(p)
      PROVE  UNCHANGED <<copy, logFile>> \/ End(p)
  BY <1>7 DEF EndRound, Kill, Hang
<1>8. ASSUME \/ \E c \in {"sync", "checkin"} : Tick(c)
             \/ \E c \in Channels : Select(c)
             \/ EndCheckIn
             \/ Term
      PROVE  UNCHANGED <<copy, logFile>> \/ End("service")
  BY <1>8 DEF Tick, Select, EndCheckIn, Term
<1>9. "service" \in Procs
  BY DEF Procs
<1>10. \/ UNCHANGED vars \/ UNCHANGED <<copy, logFile>>
       \/ \E p \in Procs : End(p) \/ Boot(p) \/ LogEvent(p) \/ WriteLog(p)
  BY <1>7, <1>8, <1>9 DEF Next, Act, Work
<1>11. CASE UNCHANGED <<copy, logFile>>
  BY <1>11
<1>12. CASE \E p \in Procs : End(p)
  BY <1>1, <1>2, <1>12
<1>13. CASE \E p \in Procs : Boot(p)
  BY <1>1, <1>4, <1>13
<1>14. CASE \E p \in Procs : LogEvent(p)
  BY <1>1, <1>5, <1>14
<1>15. CASE \E p \in Procs : WriteLog(p)
  BY <1>6, <1>15
<1>16. QED BY <1>3, <1>10, <1>11, <1>12, <1>13, <1>14, <1>15

\* Every step keeps every copy in order.
LEMMA NextOrder == OrderInv /\ [Next]_vars => OrderInv'
<1> SUFFICES ASSUME OrderInv, [Next]_vars PROVE OrderInv'
  OBVIOUS
<1>1. TypeInv /\ TypeInv' /\ clock \in Nat
  BY NextType DEF OrderInv, TypeInv
<1>2. NewestFirst(Loaded)
  BY EmptyIsOrdered DEF OrderInv, Loaded
<1>3. ASSUME NEW p \in Procs PROVE NewestFirst(WithEntry(copy[p], clock + 1))
  BY <1>1, EntryIsNewest DEF OrderInv, TypeInv
<1>4. ASSUME NEW p \in Procs PROVE NewestFirst(copy'[p])
  <2>1. \/ copy'[p] = copy[p] \/ copy'[p] = <<>> \/ copy'[p] = Loaded
        \/ copy'[p] = WithEntry(copy[p], clock + 1)
    BY <1>1, LogStep
  <2>2. QED BY <2>1, <1>2, <1>3, EmptyIsOrdered DEF OrderInv
<1>5. logFile' # Unreadable => NewestFirst(logFile')
  BY <1>1, LogStep DEF OrderInv
<1>6. QED BY <1>1, <1>4, <1>5 DEF OrderInv

\* The log, where it can be read, is newest first and names no event twice,
\* whatever processes write it, and however they are killed.
THEOREM LogIsNewestFirst == Spec => []LogNewestFirst
<1>1. Init => OrderInv
  BY InitType, EmptyIsOrdered DEF Init, OrderInv
<1>2. OrderInv => LogNewestFirst
  BY EmptyIsOrdered DEF OrderInv, LogNewestFirst, Loaded, NewestFirst
<1>3. QED BY <1>1, <1>2, NextOrder, PTL DEF Spec
-----------------------------------------------------------------------------
(* One process after another.  Without an overlap and with a disk that     *)
(* works, the file says what the one process that is up has in memory,     *)
(* except while that process is writing it.                                *)

\* At most one process is up; its copy is what the file says, unless it is
\* writing the file, which nobody can read then.
SoloInv ==
    /\ TypeInv
    /\ Never({"overlap", "disk"}) =>
        /\ \A p, q \in Procs : pc[p] # "down" /\ pc[q] # "down" => p = q
        /\ \A p \in Procs : pc[p] \notin {"down", "write"} => Loaded = copy[p]
        /\ \A p \in Procs : pc[p] = "write" => logFile = Unreadable

\* A copy of the log is never mistaken for a file that cannot be read.
LEMMA LogsAreReadable ==
    ASSUME TypeInv, NEW p \in Procs
    PROVE  copy[p] # Unreadable
<1>1. IsLog(copy[p], clock) /\ clock \in Nat
  BY DEF TypeInv
<1>2. Len(copy[p]) \in Nat /\ copy[p] \in [1 .. Len(copy[p]) -> 1 .. clock]
  BY <1>1, LenProperties DEF IsLog
<1>3. copy[p] \in [1 .. Len(copy[p]) -> Nat]
  BY <1>1, <1>2
<1>4. copy[p] \in Seq(Nat)
  BY <1>2, <1>3
<1>5. QED BY <1>4

\* The end of a process.
LEMMA SoloEnd ==
    ASSUME SoloInv, TypeInv', UNCHANGED faults, NEW p \in Procs, End(p)
    PROVE  SoloInv'
<1> SUFFICES ASSUME Never({"overlap", "disk"})'
             PROVE  /\ \A r, q \in Procs : pc'[r] # "down" /\ pc'[q] # "down" => r = q
                    /\ \A r \in Procs : pc'[r] \notin {"down", "write"} => Loaded' = copy'[r]
                    /\ \A r \in Procs : pc'[r] = "write" => logFile' = Unreadable
  BY DEF SoloInv
<1>1. /\ pc' = [pc EXCEPT ![p] = "down"] /\ copy' = [copy EXCEPT ![p] = <<>>]
      /\ logFile' = logFile /\ Loaded' = Loaded
  BY DEF End, Go, Loaded
<1>2. Never({"overlap", "disk"}) /\ pc \in [Procs -> Controls] /\ DOMAIN copy = Procs
  BY DEF Never, SoloInv, TypeInv
<1>3. \A q \in Procs : /\ pc'[q] = IF q = p THEN "down" ELSE pc[q]
                       /\ copy'[q] = IF q = p THEN <<>> ELSE copy[q]
  BY <1>1, <1>2
<1>4. QED BY <1>1, <1>2, <1>3 DEF SoloInv

\* A step in which one process that is up moves on and does not log.
LEMMA SoloMove ==
    ASSUME SoloInv, TypeInv', UNCHANGED <<faults, copy, logFile>>, NEW p \in Procs,
           NEW where \in Controls \ {"down", "write"}, pc[p] \notin {"down", "write"}, Go(p, where)
    PROVE  SoloInv'
<1> SUFFICES ASSUME Never({"overlap", "disk"})'
             PROVE  /\ \A r, q \in Procs : pc'[r] # "down" /\ pc'[q] # "down" => r = q
                    /\ \A r \in Procs : pc'[r] \notin {"down", "write"} => Loaded' = copy'[r]
                    /\ \A r \in Procs : pc'[r] = "write" => logFile' = Unreadable
  BY DEF SoloInv
<1>1. Never({"overlap", "disk"}) /\ pc \in [Procs -> Controls] /\ Loaded' = Loaded
  BY DEF Never, SoloInv, TypeInv, Loaded
<1>2. \A q \in Procs : pc'[q] = IF q = p THEN where ELSE pc[q]
  BY <1>1 DEF Go
<1>3. QED BY <1>1, <1>2 DEF SoloInv

\* A step that leaves the processes, their copies and the file alone.
LEMMA SoloRest ==
    ASSUME SoloInv, TypeInv', UNCHANGED <<faults, pc, copy, logFile>>
    PROVE  SoloInv'
  BY DEF SoloInv, Never, Loaded

\* Every step keeps the file in line with the one process that is up.
LEMMA NextSolo == SoloInv /\ [Next]_vars => SoloInv'
<1> SUFFICES ASSUME SoloInv, [Next]_vars PROVE SoloInv'
  OBVIOUS
<1>1. TypeInv /\ TypeInv' /\ UNCHANGED faults
  BY NextType DEF SoloInv, Next
<1>2. CASE UNCHANGED vars
  BY <1>1, <1>2, SoloRest
<1>3. CASE Next
  <2> DEFINE Solo == /\ \A r, q \in Procs : pc[r] # "down" /\ pc[q] # "down" => r = q
                     /\ \A r \in Procs : pc[r] \notin {"down", "write"} => Loaded = copy[r]
                     /\ \A r \in Procs : pc[r] = "write" => logFile = Unreadable
  <2>1. Never({"overlap", "disk"})' => Never({"overlap", "disk"}) /\ Solo /\ "overlap" \notin faults /\ "disk" \notin faults
    BY <1>1 DEF Never, SoloInv
  <2>2. ASSUME Never({"overlap", "disk"})' => Solo' PROVE SoloInv'
    BY <1>1, <2>2 DEF SoloInv
  <2>3. pc \in [Procs -> Controls] /\ DOMAIN copy = Procs
    BY <1>1 DEF TypeInv
  <2>4. ASSUME NEW p \in Procs, Boot(p) PROVE SoloInv'
    <3> SUFFICES ASSUME Never({"overlap", "disk"})' PROVE Solo'
      BY <2>2
    <3>1. /\ \A q \in Procs : pc[q] = "down"
          /\ pc' = [pc EXCEPT ![p] = "round"] /\ copy' = [copy EXCEPT ![p] = Loaded]
          /\ logFile' = logFile /\ Loaded' = Loaded
      BY <2>1, <2>4 DEF Boot, Go, Loaded
    <3>2. \A q \in Procs : pc'[q] = (IF q = p THEN "round" ELSE "down") /\ copy'[p] = Loaded
      BY <2>3, <3>1
    <3>3. QED BY <3>1, <3>2
  <2>5. ASSUME NEW p \in Procs, LogEvent(p) PROVE SoloInv'
    <3> SUFFICES ASSUME Never({"overlap", "disk"})' PROVE Solo'
      BY <2>2
    <3>1. pc[p] = "round" /\ pc' = [pc EXCEPT ![p] = "write"] /\ logFile' = Unreadable
      BY <2>1, <2>5 DEF LogEvent, Go
    <3>2. \A q \in Procs : pc'[q] = (IF q = p THEN "write" ELSE pc[q])
      BY <2>3, <3>1
    <3>3. \A q \in Procs : q # p => pc[q] = "down"
      BY <2>1, <3>1
    <3>4. QED BY <3>1, <3>2, <3>3
  <2>6. ASSUME NEW p \in Procs, WriteLog(p) PROVE SoloInv'
    <3> SUFFICES ASSUME Never({"overlap", "disk"})' PROVE Solo'
      BY <2>2
    <3>1. pc[p] = "write" /\ pc' = [pc EXCEPT ![p] = "round"] /\ copy' = copy
      BY <2>6 DEF WriteLog, Go
    <3>2. logFile' = copy[p]
      BY <2>1, <2>6, <3>1 DEF WriteLog
    <3>3. \A q \in Procs : pc'[q] = IF q = p THEN "round" ELSE "down"
      BY <2>1, <2>3, <3>1
    <3>4. Loaded' = copy[p]
      BY <1>1, <3>2, LogsAreReadable DEF Loaded
    <3>5. QED BY <3>1, <3>3, <3>4
  <2>7. ASSUME NEW p \in Procs, EndRound(p) PROVE SoloInv'
    <3>1. CASE End(p)
      BY <1>1, <3>1, SoloEnd
    <3>2. CASE ~End(p)
      <4>1. pc[p] = "round" /\ Go(p, "idle") /\ UNCHANGED <<copy, logFile>>
        BY <2>7, <3>2 DEF EndRound
      <4>2. QED BY <1>1, <4>1, SoloMove DEF Controls
    <3>3. QED BY <3>1, <3>2
  <2>8. ASSUME NEW p \in Procs, Kill(p) PROVE SoloInv'
    BY <1>1, <2>8, SoloEnd DEF Kill
  <2>9. ASSUME NEW p \in Procs, Hang(p) PROVE SoloInv'
    <3>1. pc[p] \notin {"down", "write"} /\ Go(p, "hung") /\ UNCHANGED <<copy, logFile>>
      BY <2>9 DEF Hang
    <3>2. QED BY <1>1, <3>1, SoloMove DEF Controls
  <2>10. ASSUME NEW c \in {"sync", "checkin"}, Tick(c) PROVE SoloInv'
    BY <1>1, <2>10, SoloRest DEF Tick
  <2>11. "service" \in Procs
    BY DEF Procs
  <2>12. ASSUME NEW c \in Channels, Select(c) PROVE SoloInv'
    <3>1. CASE End("service")
      BY <1>1, <2>11, <3>1, SoloEnd
    <3>2. CASE ~End("service")
      <4>1. /\ pc["service"] = "idle" /\ UNCHANGED <<copy, logFile>>
            /\ Go("service", "round") \/ Go("service", "checkin")
        BY <2>12, <3>2 DEF Select
      <4>2. QED BY <1>1, <2>11, <4>1, SoloMove DEF Controls
    <3>3. QED BY <3>1, <3>2
  <2>13. CASE EndCheckIn
    <3>1. CASE End("service")
      BY <1>1, <2>11, <3>1, SoloEnd
    <3>2. CASE ~End("service")
      <4>1. pc["service"] = "checkin" /\ Go("service", "idle") /\ UNCHANGED <<copy, logFile>>
        BY <2>13, <3>2 DEF EndCheckIn
      <4>2. QED BY <1>1, <2>11, <4>1, SoloMove DEF Controls
    <3>3. QED BY <3>1, <3>2
  <2>14. CASE Term
    <3>1. CASE End("service")
      BY <1>1, <2>11, <3>1, SoloEnd
    <3>2. CASE ~End("service")
      BY <1>1, <2>14, <3>2, SoloRest DEF Term
    <3>3. QED BY <3>1, <3>2
  <2>15. QED BY <1>3, <2>4, <2>5, <2>6, <2>7, <2>8, <2>9, <2>10, <2>12, <2>13, <2>14
             DEF Next, Act, Work
<1>4. QED BY <1>2, <1>3

\* In the first state.
LEMMA InitSolo == Init => SoloInv
  BY InitType DEF Init, SoloInv, Loaded

\* A step that takes the service out of its loop is the loop's answer to a
\* signal, if nothing kills the service and no interval of 0 is pushed.
LEMMA LoopIsLeft ==
    ASSUME TypeInv, [Next]_vars, Never({"kill", "zero"}), looping, ~looping'
    PROVE  pc["service"] = "idle"
<1>1. Next /\ "kill" \notin faults /\ "zero" \notin faults
  BY DEF Never
<1>2. ASSUME NEW p \in Procs, Boot(p) \/ Work(p) \/ Kill(p) \/ Hang(p) PROVE FALSE
  BY <1>1, <1>2 DEF Boot, Work, LogEvent, WriteLog, EndRound, End, Kill, Hang, Procs
<1>3. ASSUME NEW c \in {"sync", "checkin"}, Tick(c) PROVE FALSE
  BY <1>3 DEF Tick
<1>4. ~EndCheckIn /\ ~Term
  BY <1>1 DEF EndCheckIn, Term
<1>5. PICK c \in Channels : Select(c)
  BY <1>1, <1>2, <1>3, <1>4 DEF Next, Act
<1>6. QED BY <1>5 DEF Select

\* Once Run has entered its loop, SIGTERM interrupts neither a round nor a
\* check-in, and leaves all the service has logged in the file.
THEOREM TermInterruptsNothing == Spec => TermIsGraceful
<1> DEFINE Graceful == Never({"kill", "zero"}) /\ looping /\ ~looping' =>
                           /\ pc["service"] = "idle"
                           /\ Never({"overlap", "disk"}) => Loaded = copy["service"]
<1>1. SoloInv /\ [Next]_vars => Graceful
  <2> SUFFICES ASSUME SoloInv, [Next]_vars, Never({"kill", "zero"}), looping, ~looping'
               PROVE  /\ pc["service"] = "idle"
                      /\ Never({"overlap", "disk"}) => Loaded = copy["service"]
    OBVIOUS
  <2>1. pc["service"] = "idle"
    BY LoopIsLeft DEF SoloInv
  <2>2. QED BY <2>1 DEF SoloInv, Procs
<1>2. SoloInv /\ [Next]_vars => [Graceful]_vars
  BY <1>1
<1>3. QED BY <1>2, InitSolo, NextSolo, PTL DEF Spec, TermIsGraceful
-----------------------------------------------------------------------------
(* Completeness.  The copy of the process that is up names the latest      *)
(* events, and so does the file once it is written.                        *)

\* The log of the latest of n events.
Complete(q, n) ==
    /\ Len(q) = IF n < Cap THEN n ELSE Cap
    /\ \A i \in DOMAIN q : q[i] = n + 1 - i

\* Who is up knows the latest events, and so does who reads the file while
\* nobody writes it.
CompleteInv ==
    /\ SoloInv
    /\ Never({"kill", "term", "overlap", "disk"}) =>
        /\ \A p \in Procs : pc[p] # "down" => Complete(copy[p], clock)
        /\ (\A p \in Procs : pc[p] # "write") => logFile # Unreadable /\ Complete(logFile, clock)

\* A complete log with the next event is complete.
LEMMA EntryCompletes ==
    ASSUME NEW n \in Nat, NEW q, IsLog(q, n), Complete(q, n)
    PROVE  Complete(WithEntry(q, n + 1), n + 1)
<1> DEFINE w == WithEntry(q, n + 1)
<1>1. /\ w[1] = n + 1 /\ w \in Seq(1 .. (n + 1))
      /\ Len(w) = IF Len(q) < Cap THEN Len(q) + 1 ELSE Cap
      /\ \A i \in 1 .. Len(w) : i # 1 => i - 1 \in 1 .. Len(q) /\ w[i] = q[i - 1]
  BY EntryAdded DEF IsLog
<1>2. DOMAIN q = 1 .. Len(q) /\ Len(q) \in Nat
  BY LenProperties DEF IsLog
<1> HIDE DEF w
<1>3. DOMAIN w = 1 .. Len(w) /\ Len(w) \in Nat
  BY <1>1, LenProperties
<1>4. Len(w) = IF n + 1 < Cap THEN n + 1 ELSE Cap
  BY <1>1, <1>2 DEF Complete
<1>5. ASSUME NEW i \in 1 .. Len(w) PROVE w[i] = n + 2 - i
  <2>1. CASE i = 1
    BY <1>1, <2>1
  <2>2. CASE i # 1
    <3>1. i - 1 \in DOMAIN q /\ w[i] = q[i - 1]
      BY <1>1, <1>2, <2>2
    <3>2. q[i - 1] = n + 1 - (i - 1)
      BY <3>1 DEF Complete
    <3>3. QED BY <1>3, <3>1, <3>2
  <2>3. QED BY <2>1, <2>2
<1>6. Complete(w, n + 1)
  BY <1>3, <1>4, <1>5 DEF Complete
<1>7. QED BY <1>6 DEF w

\* Every step keeps the log complete.
LEMMA NextComplete == CompleteInv /\ [Next]_vars => CompleteInv'
<1> SUFFICES ASSUME CompleteInv, [Next]_vars PROVE CompleteInv'
  OBVIOUS
<1>1. SoloInv /\ SoloInv' /\ TypeInv /\ UNCHANGED faults
  BY NextSolo DEF CompleteInv, SoloInv, Next
<1> SUFFICES ASSUME Never({"kill", "term", "overlap", "disk"})
             PROVE  /\ \A p \in Procs : pc'[p] # "down" => Complete(copy'[p], clock')
                    /\ (\A p \in Procs : pc'[p] # "write") => logFile' # Unreadable /\ Complete(logFile', clock')
  BY <1>1 DEF CompleteInv, Never
<1>2. /\ \A p \in Procs : pc[p] # "down" => Complete(copy[p], clock)
      /\ (\A p \in Procs : pc[p] # "write") => logFile # Unreadable /\ Complete(logFile, clock)
  BY DEF CompleteInv
<1>3. /\ "kill" \notin faults /\ "term" \notin faults /\ "overlap" \notin faults /\ "disk" \notin faults
      /\ \A p, q \in Procs : pc[p] # "down" /\ pc[q] # "down" => p = q
      /\ \A p \in Procs : pc[p] = "write" => logFile = Unreadable
  BY <1>1 DEF Never, SoloInv
<1>4. pc \in [Procs -> Controls] /\ DOMAIN copy = Procs /\ clock \in Nat
  BY <1>1 DEF TypeInv
<1> DEFINE Whole == /\ \A p \in Procs : pc'[p] # "down" => Complete(copy'[p], clock')
                    /\ (\A p \in Procs : pc'[p] # "write") => logFile' # Unreadable /\ Complete(logFile', clock')
<1> SUFFICES Whole
  OBVIOUS
<1>5. ASSUME UNCHANGED <<pc, copy, logFile, clock>> PROVE Whole
  BY <1>2, <1>5
<1>6. ASSUME NEW p \in Procs, pc[p] \notin {"down", "write"}, End(p) PROVE Whole
  <2>1. pc' = [pc EXCEPT ![p] = "down"] /\ UNCHANGED <<logFile, clock>>
    BY <1>6 DEF End, Go
  <2>2. \A q \in Procs : pc'[q] = "down" /\ pc[q] # "write"
    BY <1>3, <1>4, <1>6, <2>1
  <2>3. QED BY <1>2, <2>1, <2>2
<1>7. ASSUME NEW p \in Procs, NEW where \in Controls, pc[p] \notin {"down", "write"}, Go(p, where),
             UNCHANGED <<copy, logFile, clock>>
      PROVE  Whole
  <2>1. \A q \in Procs : pc[q] # "write"
    BY <1>3, <1>7
  <2>2. \A q \in Procs : pc'[q] # "down" => pc[q] # "down"
    BY <1>4, <1>7 DEF Go
  <2>3. QED BY <1>2, <1>7, <2>1, <2>2
<1>8. ASSUME NEW p \in Procs, Boot(p) PROVE Whole
  <2>1. /\ \A q \in Procs : pc[q] = "down"
        /\ pc' = [pc EXCEPT ![p] = "round"] /\ copy' = [copy EXCEPT ![p] = Loaded]
        /\ UNCHANGED <<logFile, clock>>
    BY <1>3, <1>8 DEF Boot, Go
  <2>2. logFile # Unreadable /\ Complete(logFile, clock) /\ Loaded = logFile
    BY <1>2, <2>1 DEF Loaded
  <2>3. \A q \in Procs : pc'[q] # "down" => copy'[q] = logFile
    BY <1>4, <2>1, <2>2
  <2>4. QED BY <2>1, <2>2, <2>3
<1>9. ASSUME NEW p \in Procs, LogEvent(p) PROVE Whole
  <2>1. /\ pc[p] = "round" /\ pc' = [pc EXCEPT ![p] = "write"] /\ clock' = clock + 1
        /\ copy' = [copy EXCEPT ![p] = WithEntry(copy[p], clock + 1)]
    BY <1>3, <1>9 DEF LogEvent, Go
  <2>2. Complete(WithEntry(copy[p], clock + 1), clock + 1)
    BY <1>1, <1>2, <1>4, <2>1, EntryCompletes DEF TypeInv
  <2>3. \A q \in Procs : pc'[q] # "down" => q = p
    BY <1>3, <1>4, <2>1
  <2>4. copy'[p] = WithEntry(copy[p], clock + 1) /\ pc'[p] = "write"
    BY <1>4, <2>1
  <2>5. QED BY <2>1, <2>2, <2>3, <2>4
<1>10. ASSUME NEW p \in Procs, WriteLog(p) PROVE Whole
  <2>1. pc[p] = "write" /\ pc' = [pc EXCEPT ![p] = "round"] /\ UNCHANGED <<copy, clock>>
    BY <1>10 DEF WriteLog, Go
  <2>2. logFile' = copy[p]
    BY <1>3, <1>10, <2>1 DEF WriteLog
  <2>3. Complete(copy[p], clock) /\ copy[p] # Unreadable
    BY <1>1, <1>2, <2>1, LogsAreReadable
  <2>4. \A q \in Procs : pc'[q] # "down" => q = p
    BY <1>3, <1>4, <2>1
  <2>5. QED BY <2>1, <2>2, <2>3, <2>4
<1>11. ASSUME NEW p \in Procs, EndRound(p) PROVE Whole
  <2>1. pc[p] = "round" /\ (End(p) \/ (Go(p, "idle") /\ UNCHANGED <<copy, logFile, clock>>))
    BY <1>11 DEF EndRound
  <2>2. QED BY <1>6, <1>7, <2>1 DEF Controls
<1>12. ASSUME NEW p \in Procs, Hang(p) PROVE Whole
  <2>1. pc[p] \notin {"down", "write"} /\ Go(p, "hung") /\ UNCHANGED <<copy, logFile, clock>>
    BY <1>12 DEF Hang
  <2>2. QED BY <1>7, <2>1 DEF Controls
<1>13. ASSUME NEW c \in {"sync", "checkin"}, Tick(c) PROVE Whole
  BY <1>5, <1>13 DEF Tick
<1>14. "service" \in Procs
  BY DEF Procs
<1>15. ASSUME EndCheckIn \/ \E c \in Channels : Select(c) PROVE Whole
  <2>1. /\ pc["service"] \notin {"down", "write"}
        /\ \/ End("service")
           \/ \E where \in {"idle", "round", "checkin"} : Go("service", where) /\ UNCHANGED <<copy, logFile, clock>>
    BY <1>15 DEF EndCheckIn, Select
  <2>2. QED BY <1>6, <1>7, <1>14, <2>1 DEF Controls
<1>16. \A p \in Procs : ~Kill(p) /\ ~Term
  BY <1>3 DEF Kill, Term
<1>17. CASE UNCHANGED vars
  BY <1>5, <1>17
<1>18. CASE Next
  <2> HIDE DEF Whole
  <2>1. QED BY <1>8, <1>9, <1>10, <1>11, <1>12, <1>13, <1>14, <1>15, <1>16, <1>18
            DEF Next, Act, Work
<1>19. QED BY <1>17, <1>18

\* As long as processes run one after another and are not killed, status
\* shows the latest events, of this process or an earlier one.
THEOREM LogNamesTheLatest == Spec => []LogComplete
<1>1. Init => CompleteInv
  <2> SUFFICES ASSUME Init PROVE CompleteInv
    OBVIOUS
  <2>1. IsLog(<<>>, 0) /\ DOMAIN <<>> = {}
    BY EmptyLog
  <2>2. logFile = <<>> /\ clock = 0 /\ \A p \in Procs : pc[p] = "down"
    BY DEF Init
  <2>3. Len(<<>>) = 0 /\ <<>> # Unreadable
    <3>1. <<>> \in Seq(Nat)
      OBVIOUS
    <3>2. QED BY <3>1, EmptySeq
  <2>4. Complete(<<>>, 0)
    BY <2>1, <2>3 DEF Complete
  <2>5. QED BY <2>2, <2>3, <2>4, InitSolo DEF CompleteInv
<1>2. CompleteInv => LogComplete
  BY DEF CompleteInv, LogComplete, Complete, Loaded
<1>3. QED BY <1>1, <1>2, NextComplete, PTL DEF Spec
=============================================================================
