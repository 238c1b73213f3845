----------------------------- MODULE ServiceLoop -----------------------------
(***************************************************************************)
(* Run's loop over its three channels (two tickers and a signal), the      *)
(* rounds of files and the check-ins it starts, and the activity log that  *)
(* its rounds and those of `receptor sync` write to one file.  What a      *)
(* round does with a file is SyncEngine, what a check-in brings is CheckIn.*)
(***************************************************************************)
EXTENDS Naturals, Sequences

CONSTANTS
    Cap,       \* activityLogCap
    MaxEvents, \* bound: events logged in a behaviour
    FaultSets, \* the combinations of faults considered; see FaultKinds
    Unreadable \* the log file while it is truncated, or half of it

Procs == {"service", "sync"}

FaultKinds ==
    { "kill",    \* a process is killed anywhere
      "term",    \* the service is sent SIGTERM
      "overlap", \* receptor sync runs beside the service
      "disk",    \* the log cannot be opened or written
      "hang",    \* a request is never answered; the client has no timeout
      "zero" }   \* Memory pushes a sync interval of 0

ASSUME ConstantsAssumption ==
    /\ Cap \in Nat \ {0}
    /\ MaxEvents \in Nat
    /\ FaultSets \subseteq SUBSET FaultKinds
    /\ Unreadable \notin Seq(Nat)

VARIABLES
    faults,  \* what may happen in this behaviour
    pc,      \* process -> what it does
    looping, \* has Run created its tickers and called signal.Notify?
    due,     \* the channels that hold a value; each has room for one
    copy,    \* process -> its ActivityLog.entries
    logFile, \* activity.json
    clock    \* events so far; an entry is the number of its event

process == <<pc, looping, due, copy, logFile, clock>>
vars    == <<faults, process>>

Channels == {"sync", "checkin", "signal"}
Controls == {"down", "round", "write", "idle", "checkin", "hung"}
May(f)   == f \in faults

Init ==
    /\ faults \in FaultSets
    /\ pc = [p \in Procs |-> "down"]
    /\ looping = FALSE
    /\ due = {}
    /\ copy = [p \in Procs |-> <<>>]
    /\ logFile = <<>>
    /\ clock = 0

Go(p, where) == pc' = [pc EXCEPT ![p] = where]
-----------------------------------------------------------------------------
(* The activity log.                                                       *)

\* Mutant: every process starts a log of its own.
LoadedNothing == <<>>

\* NewActivityLog: what cannot be parsed counts as no entries.
Loaded == IF logFile = Unreadable THEN <<>> ELSE logFile

\* Mutants: nothing is cut off; the new entry goes to the end.
WithEntryUncut(entries, e) == <<e>> \o entries
WithEntryLast(entries, e) == SubSeq(entries, 1, IF Len(entries) < Cap THEN Len(entries) ELSE Cap - 1) \o <<e>>

WithEntry(entries, e) ==
    <<e>> \o SubSeq(entries, 1, IF Len(entries) < Cap THEN Len(entries) ELSE Cap - 1)

\* Mutant: the file is written only when the copy in memory is full.
LogEventBatched(p) ==
    /\ pc[p] = "round"
    /\ clock < MaxEvents
    /\ clock' = clock + 1
    /\ copy' = [copy EXCEPT ![p] = WithEntry(@, clock + 1)]
    /\ IF Len(copy[p]) + 1 >= Cap THEN Go(p, "write") /\ logFile' = Unreadable
       ELSE UNCHANGED <<pc, logFile>>
    /\ UNCHANGED <<looping, due>>

\* logEvent: a file was uploaded, found known, skipped or failed.  The entry
\* is added in memory; then os.WriteFile truncates the file ...
LogEvent(p) ==
    /\ pc[p] = "round"
    /\ clock < MaxEvents
    /\ clock' = clock + 1
    /\ copy' = [copy EXCEPT ![p] = WithEntry(@, clock + 1)]
    /\ \/ Go(p, "write") /\ logFile' = Unreadable
       \/ May("disk") /\ UNCHANGED <<pc, logFile>>
    /\ UNCHANGED <<looping, due>>

\* ... and writes it, perhaps over what another process wrote meanwhile,
\* whose tail may stay.  Errors are ignored.
WriteLog(p) ==
    /\ pc[p] = "write"
    /\ Go(p, "round")
    /\ \/ logFile' = copy[p]
       \/ (May("disk") \/ logFile # Unreadable) /\ logFile' = Unreadable
    /\ UNCHANGED <<looping, due, copy, clock>>
-----------------------------------------------------------------------------
(* Starting and ending.                                                    *)

\* Run and SyncOnce load the log and start with a round.
Boot(p) ==
    /\ pc[p] = "down"
    /\ May("overlap") \/ \A q \in Procs : pc[q] = "down"
    /\ Go(p, "round")
    /\ copy' = [copy EXCEPT ![p] = Loaded]
    /\ UNCHANGED <<looping, due, logFile, clock>>

End(p) ==
    /\ Go(p, "down")
    /\ copy' = [copy EXCEPT ![p] = <<>>]
    /\ IF p = "service" THEN looping' = FALSE /\ due' = {} ELSE UNCHANGED <<looping, due>>
    /\ UNCHANGED <<logFile, clock>>

Kill(p) == May("kill") /\ pc[p] # "down" /\ End(p)

\* Mutant: nobody listens to signals.
TermUnhandled == May("term") /\ pc["service"] # "down" /\ End("service")

\* Until Notify has been called, SIGTERM ends the process at once; then one
\* waits in the channel until the loop looks, others are dropped.
Term ==
    /\ May("term")
    /\ pc["service"] # "down"
    /\ IF looping
       THEN due' = due \cup {"signal"} /\ UNCHANGED <<pc, looping, copy, logFile, clock>>
       ELSE End("service")

Hang(p) ==
    /\ May("hang")
    /\ pc[p] \in {"round", "checkin"}
    /\ Go(p, "hung")
    /\ UNCHANGED <<looping, due, copy, logFile, clock>>
-----------------------------------------------------------------------------
(* The loop.                                                               *)

\* runOnce is done: SyncOnce returns; Run's first round is followed by the
\* tickers and Notify.
EndRound(p) ==
    /\ pc[p] = "round"
    /\ IF p = "sync"
       THEN End(p)
       ELSE /\ Go(p, "idle")
            /\ looping' = TRUE
            /\ UNCHANGED <<due, copy, logFile, clock>>

\* A ticker whose channel is full drops the tick.
Tick(c) ==
    /\ looping
    /\ due' = due \cup {c}
    /\ UNCHANGED <<pc, looping, copy, logFile, clock>>

\* Mutants: syncing goes first; checking in goes first; signals go last.
ReadySyncFirst    == IF "sync" \in due THEN {"sync"} ELSE due
ReadyCheckInFirst == IF "checkin" \in due THEN {"checkin"} ELSE due
ReadySignalLast   == IF due = {"signal"} THEN due ELSE due \ {"signal"}

\* select takes any case that is ready.
Ready == due

Select(c) ==
    /\ pc["service"] = "idle"
    /\ c \in Ready
    /\ IF c = "signal"
       THEN End("service")
       ELSE /\ Go("service", IF c = "sync" THEN "round" ELSE "checkin")
            /\ due' = due \ {c}
            /\ UNCHANGED <<looping, copy, logFile, clock>>

\* The check-in is over.  A changed interval takes a new ticker, with no
\* tick waiting; a new interval of 0 panics.
EndCheckIn ==
    /\ pc["service"] = "checkin"
    /\ \/ /\ Go("service", "idle")
          /\ due' \in {due, due \ {"sync"}}
          /\ UNCHANGED <<looping, copy, logFile, clock>>
       \/ May("zero") /\ End("service")
-----------------------------------------------------------------------------
Work(p) == LogEvent(p) \/ WriteLog(p) \/ EndRound(p)

Act ==
    \/ \E p \in Procs : Boot(p) \/ Work(p) \/ Kill(p) \/ Hang(p)
    \/ \E c \in {"sync", "checkin"} : Tick(c)
    \/ \E c \in Channels : Select(c)
    \/ EndCheckIn
    \/ Term

Next == Act /\ UNCHANGED faults

Spec == Init /\ [][Next]_vars

\* The service manager starts the service again, the tickers tick, rounds
\* and check-ins end unless they hang, and select chooses at random: a case
\* that is ready again and again is taken in the end.
FairSpec ==
    /\ Spec
    /\ SF_process(Boot("service"))
    /\ \A p \in Procs : WF_process(Work(p))
    /\ \A c \in {"sync", "checkin"} : WF_process(Tick(c))
    /\ \A c \in Channels : SF_process(Select(c))
    /\ WF_process(EndCheckIn)
-----------------------------------------------------------------------------
(* Properties.                                                             *)

Never(kinds) == faults \cap kinds = {}
Running      == pc["service"] # "down"

\* Every variable has its type, and no copy of the log outgrows its cap.
TypeOK ==
    /\ faults \in FaultSets
    /\ pc \in [Procs -> Controls]
    /\ looping \in BOOLEAN
    /\ due \subseteq Channels
    /\ clock \in 0..MaxEvents
    /\ \A p \in Procs : copy[p] \in Seq(1..clock) /\ Len(copy[p]) <= Cap
    /\ logFile = Unreadable \/ (logFile \in Seq(1..clock) /\ Len(logFile) <= Cap)

\* The log, where it can be read, is newest first and names no event twice,
\* however the writes of the service and of receptor sync mix.
LogNewestFirst ==
    \A i, j \in DOMAIN Loaded : i < j => Loaded[i] > Loaded[j]

\* As long as processes run one after another and are not killed, status
\* shows the latest events, of this process or an earlier one.
LogComplete ==
    Never({"kill", "term", "overlap", "disk"}) /\ (\A p \in Procs : pc[p] # "write") =>
        /\ Len(Loaded) = IF clock < Cap THEN clock ELSE Cap
        /\ \A i \in DOMAIN Loaded : Loaded[i] = clock + 1 - i

\* Once Run has entered its loop, SIGTERM interrupts neither a round nor a
\* check-in, and leaves all the service has logged in the file.
TermIsGraceful ==
    [][Never({"kill", "zero"}) /\ looping /\ ~looping' =>
          /\ pc["service"] = "idle"
          /\ Never({"overlap", "disk"}) => Loaded = copy["service"]]_vars

\* SIGTERM ends the service, whatever the tickers do, if requests end.
TermEnds == Never({"hang"}) => ("signal" \in due ~> ~Running)

\* Long rounds do not starve the check-ins, and neither does a pushed
\* interval of 0: the service is started again and goes on checking in.
CheckInsGoOn ==
    Never({"hang"}) =>
        []<>(pc["service"] = "checkin" \/ (~Running /\ ~Never({"kill", "term"})))

TickDropped == looping /\ looping' /\ "sync" \in due \ due' /\ pc'["service"] # "round"

\* Nor do check-ins starve the rounds, unless they bring a new interval, and
\* with it a new ticker, again and again before the old one is looked at.
RoundsGoOn ==
    Never({"hang"}) =>
        \/ []<><<TickDropped>>_vars
        \/ []<>(pc["service"] = "round" \/ (~Running /\ ~Never({"kill", "term"})))
=============================================================================
