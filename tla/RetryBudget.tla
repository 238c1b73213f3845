---------------------------- MODULE RetryBudget -----------------------------
(***************************************************************************)
(* SyncEngine with a history variable: for each file, how many attempts of *)
(* the service failed in a row since it changed, was accepted, or was      *)
(* forced by receptor sync.                                                *)
(***************************************************************************)
EXTENDS SyncEngine

VARIABLE failures

budgetVars == <<vars, failures>>

BudgetInit == Init /\ failures = [x \in Paths |-> 0]

FailedNow(x) == \E d \in Daemons : UploadFailed(d) /\ job[d].path = x

StreakEnds(x) ==
    \/ file'[x] # file[x]
    \/ \E p \in Procs : phase[p] = "upload" /\ phase'[p] # "upload" /\ job[p].path = x

\* Counted up to one past the limit.
Count(x) ==
    IF FailedNow(x) THEN IF failures[x] > MaxRetryAttempts THEN failures[x] ELSE failures[x] + 1
    ELSE IF StreakEnds(x) THEN 0 ELSE failures[x]

BudgetNext == Next /\ failures' = [x \in Paths |-> Count(x)]

BudgetSpec == BudgetInit /\ [][BudgetNext]_budgetVars

\* After MaxRetryAttempts failures the service no longer retries a file on
\* its own, as the comment on MaxRetryAttempts says.
AutomaticRetriesStop == \A x \in Paths : failures[x] <= MaxRetryAttempts
=============================================================================
