----------------------------- MODULE SyncLedger -----------------------------
(***************************************************************************)
(* What the two store files of a folder promise, with no process, memory   *)
(* or upload in sight: they are two durable maps, changed at one path at a *)
(* time.  A record is replaced only by that of an upload the server has    *)
(* answered for, or removed when the file is gone; a queued path stays     *)
(* queued until that answer is recorded, or the file is gone.              *)
(***************************************************************************)
CONSTANTS Paths, Contents, Nil

VARIABLES
    present,   \* paths at which there is a file
    accepted,  \* pairs <<path, hash>> the server accepted an upload under
    answers,   \* those of an upload whose answer is still to be noted
    recorded,  \* path -> hash recorded last
    queued     \* paths that await a retry

Init ==
    /\ present \subseteq Paths
    /\ accepted = {}
    /\ answers = {}
    /\ recorded = [x \in Paths |-> Nil]
    /\ queued = {}

\* The user's files come and go.
Move ==
    /\ present' \in SUBSET Paths
    /\ UNCHANGED <<accepted, answers, recorded, queued>>

\* An upload without a usable answer: it may have been accepted all the same.
Fail(x, h) ==
    /\ accepted' \in {accepted, accepted \cup {<<x, h>>}}
    /\ queued' \in {queued, queued \cup {x}}
    /\ UNCHANGED <<present, answers, recorded>>

Accept(x, h) ==
    /\ accepted' = accepted \cup {<<x, h>>}
    /\ answers' = answers \cup {<<x, h>>}
    /\ UNCHANGED <<present, recorded, queued>>

Record(x, h) ==
    /\ <<x, h>> \in answers
    /\ recorded' = [recorded EXCEPT ![x] = h]
    /\ UNCHANGED <<present, accepted, answers, queued>>

Settle(x, h) ==
    /\ <<x, h>> \in answers
    /\ recorded[x] = h
    /\ queued' = queued \ {x}
    /\ answers' = answers \ {<<x, h>>}
    /\ UNCHANGED <<present, accepted, recorded>>

\* An answer is forgotten before it is noted; the maps are not.
Forget ==
    /\ answers' = {}
    /\ UNCHANGED <<present, accepted, recorded, queued>>

\* The record or the queued item of a file that is gone is removed.
Clear(x) ==
    /\ x \notin present
    /\ \/ recorded' = [recorded EXCEPT ![x] = Nil] /\ UNCHANGED queued
       \/ queued' = queued \ {x} /\ UNCHANGED recorded
    /\ UNCHANGED <<present, accepted, answers>>

Next ==
    \/ Move \/ Forget
    \/ \E x \in Paths : Clear(x)
    \/ \E x \in Paths, h \in Contents :
         Fail(x, h) \/ Accept(x, h) \/ Record(x, h) \/ Settle(x, h)

Spec == Init /\ [][Next]_<<present, accepted, answers, recorded, queued>>
=============================================================================
