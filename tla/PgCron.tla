-------------------------------- MODULE PgCron --------------------------------
(***************************************************************************)
(* Durable cron custody: src/pg-cron.ts over the tables of                 *)
(* migrations/postgres/0030_cron.sql.  A planner coalesces the occurrences *)
(* that passed into one pending occurrence per schedule and accounts for   *)
(* the rest in skip receipts; runners of several processes claim pending   *)
(* or abandoned occurrences under a lease and settle them by token.        *)
(*                                                                         *)
(* Every transaction first locks the one row of jobs.cron_policy, so it is *)
(* an atomic step; the clock it reads is now.  now stops at Horizon, as if *)
(* no schedule occurred later, but leases go on expiring: left[s][t] is    *)
(* the rest of the lease of a running occurrence.  The token and the lease *)
(* of a row that stopped running are never read again and are forgotten.   *)
(***************************************************************************)
EXTENDS NativeCron

CONSTANTS
    Schedule,      \* registered definitions, one per owner and cron text
    OffsetsOf,     \* the minutes of the day of each schedule
    Boundaries,    \* start boundaries that processes are configured with
    Run,           \* the places of work.run("cron"), maxConcurrent per process
    Process,       \* processes that run the background loops
    ProcessOf,     \* the process of a place
    Token,         \* claim tokens (random UUIDs in the code)
    NoToken,
    Lease,         \* leaseMilliseconds
    MaxConcurrent, \* limits.maxConcurrent
    MaxAttempts,   \* limits.maxAttempts
    HistoryLimit,  \* limits.historyLimit
    Horizon        \* bound: the last instant the model plans for

ASSUME CronAssumption ==
    /\ OffsetsOf \in [Schedule -> (SUBSET Every(DayHours * HourMinutes)) \ {{}}]
    /\ Boundaries \subseteq 0 .. Horizon
    /\ ProcessOf \in [Run -> Process]
    /\ NoToken \notin Token
    /\ IsFiniteSet(Schedule)
    /\ Horizon \in Nat
    /\ {Lease, MaxConcurrent, MaxAttempts, HistoryLimit} \subseteq Nat \ {0}

VARIABLES
    now,      \* the database clock, up to Horizon
    start,    \* cron_schedules.start_at_ms, Never before registration
    cursor,   \* cron_schedules.cursor_ms
    pending,  \* cron_schedules.pending_at_ms
    skipped,  \* cron_schedules.skipped_count
    receipts, \* the rows of cron_skips
    rstate,   \* cron_runs.state; "none" before and "pruned" after the row
    attempts, \* cron_runs.attempts
    token,    \* cron_runs.token
    left,     \* cron_runs.lease_until_ms, relative to the clock
    pc,       \* what a place is doing
    claimed,  \* the claim it has in memory
    outcome,  \* the outcome it settles
    consumer  \* whether its handler is still executing

schedules == <<start, cursor, pending, skipped, receipts>>
runs == <<rstate, attempts, token, left>>
memory == <<pc, claimed, outcome>>
vars == <<now, schedules, runs, memory, consumer>>

Time == 0 .. Horizon
\* How a handler ends: it returns, in favour or not, or throws; or is aborted.
Outcomes == {"ended", "aborted"}
Finished == Outcomes \cup {"lease-exhausted"}
NoClaim == [schedule |-> Never, at |-> Never, token |-> NoToken]
Claims == [schedule : Schedule, at : Time, token : Token]

TypeOK ==
    /\ now \in Time
    /\ start \in Boundaries \cup {Never}
    /\ cursor \in [Schedule -> -1 .. Horizon]
    /\ pending \in [Schedule -> Time \cup {Never}]
    /\ skipped \in [Schedule -> Nat]
    /\ \A s \in Schedule :
         receipts[s] \subseteq [through : Time, first : Time, last : Time, count : Nat]
    /\ rstate \in [Schedule -> [Time -> {"none", "running", "pruned"} \cup Finished]]
    /\ attempts \in [Schedule -> [Time -> 0 .. MaxAttempts]]
    /\ token \in [Schedule -> [Time -> Token \cup {NoToken}]]
    /\ left \in [Schedule -> [Time -> 0 .. Lease]]
    /\ pc \in [Run -> {"idle", "consuming", "settling"}]
    /\ claimed \in [Run -> Claims \cup {NoClaim}]
    /\ outcome \in [Run -> Outcomes \cup {"none"}]
    /\ consumer \in [Run -> BOOLEAN]

Running(s) == {t \in Time : rstate[s][t] = "running"}

Init ==
    /\ now = 0
    /\ start = Never
    /\ cursor = [s \in Schedule |-> -1]
    /\ pending = [s \in Schedule |-> Never]
    /\ skipped = [s \in Schedule |-> 0]
    /\ receipts = [s \in Schedule |-> {}]
    /\ rstate = [s \in Schedule |-> [t \in Time |-> "none"]]
    /\ attempts = [s \in Schedule |-> [t \in Time |-> 0]]
    /\ token = [s \in Schedule |-> [t \in Time |-> NoToken]]
    /\ left = [s \in Schedule |-> [t \in Time |-> 0]]
    /\ pc = [r \in Run |-> "idle"]
    /\ claimed = [r \in Run |-> NoClaim]
    /\ outcome = [r \in Run |-> "none"]
    /\ consumer = [r \in Run |-> FALSE]

-----------------------------------------------------------------------------
(* Registration and planning.                                               *)

\* register(): the first boundary is stored for every schedule; a later call
\* inserts nothing, and is refused if it names another boundary.
Register(boundary) ==
    /\ start = Never
    /\ start' = boundary
    /\ cursor' = [s \in Schedule |-> boundary - 1]
    /\ UNCHANGED <<now, pending, skipped, receipts, runs, memory, consumer>>

\* prune(): the finished rows and the receipts beyond the newest HistoryLimit.
Oldest(S) == {t \in S : Cardinality({u \in S : u > t}) >= HistoryLimit}

Pruned(rows) ==
    LET finished == {t \in Time : rows[t] \in Finished} IN
    [t \in Time |-> IF t \in Oldest(finished) THEN "pruned" ELSE rows[t]]

RetainedReceipts(R) ==
    LET old == Oldest({receipt.through : receipt \in R}) IN
    {receipt \in R : receipt.through \notin old}

Due(s) == Window(OffsetsOf[s], cursor[s], now)

\* Slip: the pending occurrence that gives way is not counted.
SkippedByForgetting(s) == Due(s).count - 1

\* What a new pending occurrence leaves behind: all the others that passed,
\* and the one that was still pending.
SkippedBy(s) == Due(s).count - 1 + (IF pending[s] # Never THEN 1 ELSE 0)

Receipt(s) ==
    [through |-> now,
     first |-> IF pending[s] # Never THEN pending[s] ELSE Due(s).first,
     last |-> IF Due(s).previous # Never THEN Due(s).previous ELSE pending[s],
     count |-> SkippedBy(s)]

\* Schedules whose window holds an occurrence.
Occurring == {s \in Schedule : cursor[s] < now /\ Due(s).count > 0}

\* plan(): every window is closed at now in one transaction.
Plan ==
    /\ start # Never
    /\ cursor' = [s \in Schedule |-> IF cursor[s] < now THEN now ELSE cursor[s]]
    /\ pending' = [s \in Schedule |->
            IF s \in Occurring THEN Due(s).last ELSE pending[s]]
    /\ skipped' = [s \in Schedule |->
            IF s \in Occurring THEN skipped[s] + SkippedBy(s) ELSE skipped[s]]
    /\ receipts' = [s \in Schedule |->
            IF s \notin Occurring THEN receipts[s]
            ELSE RetainedReceipts(receipts[s]
                    \cup {receipt \in {Receipt(s)} : SkippedBy(s) > 0})]
    /\ rstate' = [s \in Schedule |->
            IF s \in Occurring THEN Pruned(rstate[s]) ELSE rstate[s]]
    /\ UNCHANGED <<now, start, attempts, token, left, memory, consumer>>
-----------------------------------------------------------------------------
(* run(): claim, invoke, settle.                                            *)

PlaceFree(r) == pc[r] = "idle" /\ ~consumer[r]

Active ==
    {run \in Schedule \X Time :
        rstate[run[1]][run[2]] = "running" /\ left[run[1]][run[2]] > 0}

\* Slip: an occurrence whose budget is spent is not looked for.
AbandonedWithinBudget ==
    {run \in Schedule \X Time :
        /\ rstate[run[1]][run[2]] = "running" /\ left[run[1]][run[2]] = 0
        /\ attempts[run[1]][run[2]] < MaxAttempts}

\* Runs whose lease is over.
Abandoned ==
    {run \in Schedule \X Time :
        rstate[run[1]][run[2]] = "running" /\ left[run[1]][run[2]] = 0}

\* Slip: a schedule that is running is claimed again.
WaitingWhileRunning == {run \in Schedule \X Time : pending[run[1]] = run[2]}

\* An occurrence waits while an earlier one of its schedule runs.
WaitingToRun ==
    {run \in Schedule \X Time : pending[run[1]] = run[2] /\ Running(run[1]) = {}}

\* claim() takes the earliest; ties fall by owner and cron text, either way.
IsNext(s, t) ==
    /\ <<s, t>> \in Abandoned \cup WaitingToRun
    /\ \A candidate \in Abandoned \cup WaitingToRun : t <= candidate[2]

\* Slip: one attempt more than the budget.
SpentTooLate(s, t) == attempts[s][t] > MaxAttempts

Spent(s, t) == attempts[s][t] >= MaxAttempts

\* claim() finds an abandoned occurrence without attempts left: its run is
\* closed and this turn ends.
Exhaust(r, s, t) ==
    /\ PlaceFree(r)
    /\ Cardinality(Active) < MaxConcurrent
    /\ IsNext(s, t)
    /\ rstate[s][t] = "running"
    /\ Spent(s, t)
    /\ rstate' = [rstate EXCEPT ![s] = Pruned([@ EXCEPT ![t] = "lease-exhausted"])]
    /\ token' = [token EXCEPT ![s][t] = NoToken]
    /\ UNCHANGED <<now, schedules, attempts, left, memory, consumer>>

\* claim() takes an abandoned or a pending occurrence under the fresh token k,
\* and the handler is invoked.
Claim(r, s, t, k) ==
    /\ PlaceFree(r)
    /\ Cardinality(Active) < MaxConcurrent
    /\ IsNext(s, t)
    /\ ~(rstate[s][t] = "running" /\ Spent(s, t))
    /\ \A u \in Schedule, v \in Time : token[u][v] # k
    /\ \A q \in Run : claimed[q].token # k
    /\ rstate' = [rstate EXCEPT ![s][t] = "running"]
    /\ attempts' = [attempts EXCEPT ![s][t] = @ + 1]
    /\ token' = [token EXCEPT ![s][t] = k]
    /\ left' = [left EXCEPT ![s][t] = Lease]
    /\ pending' = [pending EXCEPT ![s] = IF rstate[s][t] = "running" THEN @ ELSE Never]
    /\ pc' = [pc EXCEPT ![r] = "consuming"]
    /\ claimed' = [claimed EXCEPT ![r] = [schedule |-> s, at |-> t, token |-> k]]
    /\ consumer' = [consumer EXCEPT ![r] = TRUE]
    /\ UNCHANGED <<now, start, cursor, skipped, receipts, outcome>>

\* The handler returns or throws.
HandlerEnds(r) ==
    /\ pc[r] = "consuming"
    /\ pc' = [pc EXCEPT ![r] = "settling"]
    /\ outcome' = [outcome EXCEPT ![r] = "ended"]
    /\ consumer' = [consumer EXCEPT ![r] = FALSE]
    /\ UNCHANGED <<now, schedules, runs, claimed>>

\* The execution deadline or a drain aborts the run; the handler may go on.
Abort(r) ==
    /\ pc[r] = "consuming"
    /\ pc' = [pc EXCEPT ![r] = "settling"]
    /\ outcome' = [outcome EXCEPT ![r] = "aborted"]
    /\ UNCHANGED <<now, schedules, runs, claimed, consumer>>

\* A handler that outlived its deadline ends at last.
HandlerExits(r) ==
    /\ pc[r] # "consuming"
    /\ consumer[r]
    /\ consumer' = [consumer EXCEPT ![r] = FALSE]
    /\ UNCHANGED <<now, schedules, runs, memory>>

Forget(R) ==
    /\ pc' = [r \in Run |-> IF r \in R THEN "idle" ELSE pc[r]]
    /\ claimed' = [r \in Run |-> IF r \in R THEN NoClaim ELSE claimed[r]]
    /\ outcome' = [r \in Run |-> IF r \in R THEN "none" ELSE outcome[r]]

\* Slip: neither the token nor the lease is compared.
OwnedByAnyone(r) == rstate[claimed[r].schedule][claimed[r].at] = "running"

\* The settlement's WHERE clause: still running, under this token and lease.
Owned(r) ==
    LET s == claimed[r].schedule  t == claimed[r].at IN
    /\ token[s][t] = claimed[r].token
    /\ rstate[s][t] = "running"
    /\ left[s][t] > 0

\* The outcome is stored if the claim is still owned; history is pruned
\* either way.
Settle(r) ==
    LET s == claimed[r].schedule
        t == claimed[r].at
        row == [rstate[s] EXCEPT ![t] = IF Owned(r) THEN outcome[r] ELSE @]
    IN  /\ pc[r] = "settling"
        /\ rstate' = [rstate EXCEPT ![s] = Pruned(row)]
        /\ token' = [token EXCEPT ![s][t] = IF Owned(r) THEN NoToken ELSE @]
        /\ left' = [left EXCEPT ![s][t] = IF Owned(r) THEN 0 ELSE @]
        /\ Forget({r})
        /\ UNCHANGED <<now, schedules, attempts, consumer>>

\* The settlement's transaction fails; the run rejects, the row stays.
SettleFails(r) ==
    /\ pc[r] = "settling"
    /\ Forget({r})
    /\ UNCHANGED <<now, schedules, runs, consumer>>
-----------------------------------------------------------------------------
(* The environment.                                                         *)

Crash(p) ==
    LET R == {r \in Run : ProcessOf[r] = p} IN
    /\ Forget(R)
    /\ consumer' = [r \in Run |-> IF r \in R THEN FALSE ELSE consumer[r]]
    /\ UNCHANGED <<now, schedules, runs>>

Tick ==
    /\ now' = IF now < Horizon THEN now + 1 ELSE now
    /\ left' = [s \in Schedule |-> [t \in Time |->
            IF left[s][t] > 0 THEN left[s][t] - 1 ELSE 0]]
    /\ UNCHANGED <<schedules, rstate, attempts, token, memory, consumer>>

Next ==
    \/ \E boundary \in Boundaries : Register(boundary)
    \/ Plan
    \/ \E r \in Run, s \in Schedule, t \in Time :
          \/ Exhaust(r, s, t)
          \/ \E k \in Token : Claim(r, s, t, k)
    \/ \E r \in Run : \/ HandlerEnds(r)
                      \/ Abort(r)
                      \/ HandlerExits(r)
                      \/ Settle(r)
                      \/ SettleFails(r)
    \/ \E p \in Process : Crash(p)
    \/ Tick

Spec == Init /\ [][Next]_vars
-----------------------------------------------------------------------------
(* Safety.                                                                  *)

\* The occurrences of s that a planner has passed.
Passed(s) == IF start = Never THEN {} ELSE Between(OffsetsOf[s], start - 1, cursor[s])

\* Those that no longer wait and never ran.
SkippedOf(s) == {t \in Passed(s) : rstate[s][t] = "none" /\ pending[s] # t}

\* The lifetime count is the number of occurrences that passed without a run,
\* and the newest that passed is never one of them.
CountsExact ==
    \A s \in Schedule :
        /\ skipped[s] = Cardinality(SkippedOf(s))
        /\ \A t \in SkippedOf(s) : \E u \in Passed(s) : t < u

\* Each receipt names a range in which all occurrences were skipped, and
\* counts them; the ranges of two receipts are disjoint.
ReceiptsExact ==
    \A s \in Schedule : \A receipt \in receipts[s] :
        LET range == Between(OffsetsOf[s], receipt.first - 1, receipt.last) IN
        /\ range \subseteq SkippedOf(s)
        /\ receipt.count = Cardinality(range)
        /\ \A other \in receipts[s] \ {receipt} :
              receipt.last < other.first \/ other.last < receipt.first

\* "coalesces missed slots with exact skipped ranges and lifetime counts",
\* whatever was superseded, claimed, retried or pruned since.
SkipsAccounted == CountsExact /\ ReceiptsExact

\* The grid arithmetic is right for every window a planner closes.
WindowsExact ==
    \A s \in Schedule : cursor[s] < now => WindowAgrees(OffsetsOf[s], cursor[s], now)

\* A run ends with the outcome of the claim that holds its live lease, or is
\* given up when the lease of its last attempt is over: a late handler's outcome
\* counts nothing, and no attempt of the budget is taken away.
OnlyOwnersFinish ==
    [][\A s \in Schedule, t \in Time :
         rstate[s][t] = "running" /\ rstate'[s][t] # "running" =>
            \/ /\ left[s][t] = 0 /\ attempts[s][t] = MaxAttempts
               /\ rstate'[s][t] = "lease-exhausted"
            \/ /\ left[s][t] > 0
               /\ \E r \in Run : /\ pc[r] = "settling"
                                 /\ claimed[r].schedule = s
                                 /\ claimed[r].at = t
                                 /\ claimed[r].token = token[s][t]
                                 /\ rstate'[s][t] = outcome[r]]_vars
-----------------------------------------------------------------------------
(* The tables implement CronOccurrences.                                    *)

Occurrences == [s \in Schedule |-> Between(OffsetsOf[s], -1, Horizon)]

FateOf(s, t) ==
    IF start = Never \/ t < start \/ t > cursor[s] THEN "ahead"
    ELSE CASE pending[s] = t -> "due"
           [] rstate[s][t] = "running" -> "running"
           [] rstate[s][t] = "none" /\ pending[s] # t -> "skipped"
           [] rstate[s][t] \in Finished \cup {"pruned"} -> "done"

HolderOf(s, t) == IF left[s][t] > 0 THEN token[s][t] ELSE NoToken

Fates == INSTANCE CronOccurrences WITH
    Grid <- Occurrences,
    Holder <- Token,
    Nobody <- NoToken,
    MaxHolders <- MaxConcurrent,
    fate <- [s \in Schedule |-> [t \in Occurrences[s] |-> FateOf(s, t)]],
    holder <- [s \in Schedule |-> [t \in Occurrences[s] |-> HolderOf(s, t)]]

\* No occurrence is run twice to its end, run after it was skipped, run while
\* an earlier one is, or held by two; and at most MaxConcurrent are held.
ImplementsOccurrences == Fates!Spec
-----------------------------------------------------------------------------
(* Liveness.                                                                *)

\* The loops plan and run again after every turn, the execution deadline ends
\* every run, settlement is attempted, and an aborted handler returns at last.
Fairness ==
    /\ WF_vars(Tick)
    /\ WF_vars(Plan)
    /\ WF_vars(\E boundary \in Boundaries : Register(boundary))
    /\ \A r \in Run :
         /\ WF_vars(\E s \in Schedule, t \in Time :
                \/ Exhaust(r, s, t)
                \/ \E k \in Token : Claim(r, s, t, k))
         /\ WF_vars(Abort(r))
         /\ WF_vars(Settle(r))
         /\ WF_vars(HandlerExits(r))

FairSpec == Spec /\ Fairness

\* Every occurrence after the boundary ends as skipped or as a finished run,
\* whatever crashes and whichever settlements fail.
EveryOccurrenceSettled ==
    \A s \in Schedule : \A t \in Occurrences[s] :
        (start # Never /\ start <= t) ~> (FateOf(s, t) \in {"skipped", "done"})
===============================================================================
