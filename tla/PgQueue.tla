------------------------------- MODULE PgQueue -------------------------------
(***************************************************************************)
(* The durable queue of the native runtime: src/pg-queue.ts over the       *)
(* tables of migrations/postgres/0026_jobs.sql, together with the decision *)
(* record a consumer fills in (queue-delivery.ts) and the run slots that   *)
(* native-work-group.ts and native-background-loops.ts keep per process.   *)
(*                                                                         *)
(* Every transport transaction first locks the single row of jobs.capacity *)
(* and reads the database clock afterwards, so a transaction is one atomic *)
(* step here.  Times are kept relative to that clock: left[d] is the rest  *)
(* of the lease of delivery d (0 once it has expired) and avail[m] is the  *)
(* time until message m is due (0 or less when it is due; the floor        *)
(* -BatchTimeout is all that the batch timeout can tell apart).            *)
(*                                                                         *)
(* Definitions introduced as a slip are variants of the one that follows   *)
(* them, as a plausible mistake would make it; no specification uses them. *)
(***************************************************************************)
EXTENDS Integers, FiniteSets

CONSTANTS
    Message,        \* message identities, one per row ever inserted
    Delivery,       \* delivery identities (random UUIDs in the code)
    Queue,          \* queue names
    Run,            \* consumer slots: one per process, queue and loop index
    Process,        \* processes that poll the queues
    Sources,        \* the queues a producer is bound to
    QueueOf,        \* the queue a slot polls
    ProcessOf,      \* the process a slot lives in
    DeadLetter,     \* policy: the dead letter queue of a queue, or NoQueue
    MaxRetries,     \* policy: max_retries
    BatchSize,      \* policy: max_batch_size
    BatchTimeout,   \* policy: max_batch_timeout, the same for every queue
    MaxConcurrency, \* policy: max_concurrency
    Delays,         \* delays a producer or a consumer may ask for
    Lease,          \* leaseMilliseconds
    MaxMessages,    \* jobs.capacity.max_messages
    NoQueue, NoDelivery

ASSUME PolicyAssumption ==
    /\ Sources \subseteq Queue
    /\ QueueOf \in [Run -> Queue]
    /\ ProcessOf \in [Run -> Process]
    /\ DeadLetter \in [Queue -> Queue \cup {NoQueue}]
    /\ NoQueue \notin Queue
    /\ \A q \in Queue : DeadLetter[q] # q
    /\ MaxRetries \in [Queue -> Nat]
    /\ BatchSize \in [Queue -> Nat \ {0}]
    /\ MaxConcurrency \in [Queue -> Nat \ {0}]

ASSUME TimeAssumption ==
    /\ BatchTimeout \in Nat
    /\ \A delay \in Delays : delay \in Nat
    /\ Lease \in Nat \ {0}

ASSUME IdentityAssumption ==
    /\ IsFiniteSet(Message)
    /\ IsFiniteSet(Delivery)
    /\ NoDelivery \notin Delivery
    /\ MaxMessages \in Nat

VARIABLES
    state,             \* jobs.messages: "unsent", "pending", "parked" or "deleted"
    queue,             \* jobs.messages.queue
    attempts,          \* jobs.messages.attempts
    original_attempts, \* jobs.messages.original_attempts
    member,            \* jobs.messages.delivery_id
    avail,             \* jobs.messages.available_at_ms, relative to the clock
    deliveries,        \* the rows of jobs.deliveries
    dqueue,            \* jobs.deliveries.queue
    left,              \* jobs.deliveries.expires_at_ms, relative to the clock
    pc,                \* what the run in a slot is doing
    held,              \* the delivery identity the run has in memory
    seen,              \* the attempts of each row of its batch (0: not in it)
    decision,          \* the consumer's decision on each message
    batchDecision,     \* its decision for the rest of the batch
    consumer           \* whether its consumer is still executing

table == <<state, queue, attempts, original_attempts, member, avail>>
lease == <<deliveries, dqueue, left>>
memory == <<held, seen, decision, batchDecision>>
vars == <<table, lease, pc, memory, consumer>>

MessageStates == {"unsent", "pending", "parked", "deleted"}
Decisions == {"none", "ack", "retry"}

Stored(m) == state[m] \in {"pending", "parked"}

TypeOK ==
    /\ state \in [Message -> MessageStates]
    /\ queue \in [Message -> Queue \cup {NoQueue}]
    /\ attempts \in [Message -> Nat]
    /\ original_attempts \in [Message -> Nat]
    /\ member \in [Message -> Delivery \cup {NoDelivery}]
    /\ avail \in [Message -> Int]
    /\ deliveries \in SUBSET Delivery
    /\ dqueue \in [Delivery -> Queue \cup {NoQueue}]
    /\ left \in [Delivery -> 0 .. Lease]
    /\ pc \in [Run -> {"idle", "consuming", "settling"}]
    /\ held \in [Run -> Delivery \cup {NoDelivery}]
    /\ seen \in [Run -> [Message -> Nat]]
    /\ decision \in [Run -> [Message -> Decisions]]
    /\ batchDecision \in [Run -> Decisions]
    /\ consumer \in [Run -> BOOLEAN]
    /\ \A m \in Message : Stored(m) => queue[m] \in Queue

Members(d) == {m \in Message : member[m] = d}
Rows(r) == {m \in Message : seen[r][m] > 0}
Live(d) == d \in deliveries /\ left[d] > 0

Init ==
    /\ state = [m \in Message |-> "unsent"]
    /\ queue = [m \in Message |-> NoQueue]
    /\ attempts = [m \in Message |-> 0]
    /\ original_attempts = [m \in Message |-> 0]
    /\ member = [m \in Message |-> NoDelivery]
    /\ avail = [m \in Message |-> 0]
    /\ deliveries = {}
    /\ dqueue = [d \in Delivery |-> NoQueue]
    /\ left = [d \in Delivery |-> 0]
    /\ pc = [r \in Run |-> "idle"]
    /\ held = [r \in Run |-> NoDelivery]
    /\ seen = [r \in Run |-> [m \in Message |-> 0]]
    /\ decision = [r \in Run |-> [m \in Message |-> "none"]]
    /\ batchDecision = [r \in Run |-> "none"]
    /\ consumer = [r \in Run |-> FALSE]

-----------------------------------------------------------------------------
(* exhausted(): a message that has spent its attempts goes to the dead      *)
(* letter queue with a new budget, or is parked where there is none.  The   *)
(* operators below give each column after the set A of queue q went.        *)

\* Slip: the missing dead letter queue is not noticed.
ForwardedUnchecked(q, A) == A

Forwarded(q, A) == IF DeadLetter[q] = NoQueue THEN {} ELSE A
Parked(q, A) == IF DeadLetter[q] = NoQueue THEN A ELSE {}

QueueAfter(q, A) ==
    [m \in Message |-> IF m \in Forwarded(q, A) THEN DeadLetter[q] ELSE queue[m]]
OriginalAfter(q, A) ==
    [m \in Message |->
        IF m \in Forwarded(q, A) THEN attempts[m] ELSE original_attempts[m]]
AttemptsAfter(q, A) ==
    [m \in Message |-> IF m \in Forwarded(q, A) THEN 0 ELSE attempts[m]]
StateAfter(q, A) ==
    [m \in Message |-> IF m \in Parked(q, A) THEN "parked" ELSE state[m]]
MemberAfter(A) ==
    [m \in Message |-> IF m \in A THEN NoDelivery ELSE member[m]]
AvailAfter(A) == [m \in Message |-> IF m \in A THEN 0 ELSE avail[m]]

\* The first n of S in the order of available_at; ties fall either way,
\* because the code breaks them by a random identity.
OldestOf(S, n) ==
    {T \in SUBSET S :
        /\ Cardinality(T) <= n
        /\ T = S \/ Cardinality(T) = n
        /\ \A x \in T, y \in S \ T : avail[x] <= avail[y]}

\* The messages of q whose last lease expired after their last attempt.
Abandoned(q) ==
    {m \in Message : /\ queue[m] = q
                     /\ member[m] # NoDelivery
                     /\ left[member[m]] = 0
                     /\ attempts[m] > MaxRetries[q]}

\* cleanup(): what remains of jobs.deliveries once A has left its deliveries.
DeliveriesAfter(A) ==
    {d \in deliveries : \E m \in Message \ A : member[m] = d}

\* The columns of a deleted delivery are forgotten with it.
QueuesOf(D) == [d \in Delivery |-> IF d \in D THEN dqueue[d] ELSE NoQueue]

\* Slip: one delivery too many is admitted.
AtCapacityOffByOne(q, A) ==
    Cardinality({d \in DeliveriesAfter(A) : dqueue[d] = q /\ left[d] > 0})
        > MaxConcurrency[q]

\* max_concurrency counts the unexpired deliveries of the queue.
AtCapacity(q, A) ==
    Cardinality({d \in DeliveriesAfter(A) : dqueue[d] = q /\ left[d] > 0})
        >= MaxConcurrency[q]

\* Slip: messages of unexpired deliveries are taken too.
ReadyIgnoringLeases(q, A) ==
    {m \in Message \ A : queue[m] = q /\ state[m] = "pending" /\ avail[m] <= 0}

\* The messages of q that a claim may take after A has gone.
Ready(q, A) ==
    {m \in Message \ A : /\ queue[m] = q
                         /\ state[m] = "pending"
                         /\ avail[m] <= 0
                         /\ member[m] = NoDelivery \/ left[member[m]] = 0}

\* Slip: a partial batch waits whatever its age.
WaitingForFull(q, B) == Cardinality(B) < BatchSize[q]

\* A partial batch waits until its oldest message is BatchTimeout old.
Waiting(q, B) ==
    /\ Cardinality(B) < BatchSize[q]
    /\ \A m \in B : avail[m] > -BatchTimeout
-----------------------------------------------------------------------------
(* The producer's transaction.                                              *)

\* sendBatch: all rows or none; the capacity trigger refuses the whole batch.
Send(q, S) ==
    /\ S # {}
    /\ \A m \in S : state[m] = "unsent"
    /\ Cardinality({m \in Message : Stored(m)} \cup S) <= MaxMessages
    /\ \E delay \in [S -> Delays] :
         avail' = [m \in Message |-> IF m \in S THEN delay[m] ELSE avail[m]]
    /\ state' = [m \in Message |-> IF m \in S THEN "pending" ELSE state[m]]
    /\ queue' = [m \in Message |-> IF m \in S THEN q ELSE queue[m]]
    /\ UNCHANGED <<attempts, original_attempts, member, lease, pc, memory, consumer>>
-----------------------------------------------------------------------------
(* run(): claim, consume, settle.                                           *)

SlotFree(r) == pc[r] = "idle" /\ ~consumer[r]

\* claim() that finds the queue at capacity, empty, or waiting for more: the
\* abandoned messages it moved (A) and the cleanup are committed all the same.
GiveUp(r, A) ==
    LET q == QueueOf[r] IN
    /\ \/ AtCapacity(q, A)
       \/ \E B \in OldestOf(Ready(q, A), BatchSize[q]) : Waiting(q, B)
    /\ state' = StateAfter(q, A)
    /\ queue' = QueueAfter(q, A)
    /\ attempts' = AttemptsAfter(q, A)
    /\ original_attempts' = OriginalAfter(q, A)
    /\ member' = MemberAfter(A)
    /\ avail' = AvailAfter(A)
    /\ deliveries' = DeliveriesAfter(A)
    /\ dqueue' = QueuesOf(DeliveriesAfter(A))
    /\ UNCHANGED <<left, pc, memory, consumer>>

PollIdle(r) ==
    /\ SlotFree(r)
    /\ \E A \in OldestOf(Abandoned(QueueOf[r]), BatchSize[QueueOf[r]]) :
         GiveUp(r, A)

\* claim() that moves A and takes the batch B under the new delivery d.
ClaimBatch(r, d, A, B) ==
    LET q == QueueOf[r] IN
    /\ ~AtCapacity(q, A)
    /\ B # {}
    /\ ~Waiting(q, B)
    /\ state' = StateAfter(q, A)
    /\ queue' = QueueAfter(q, A)
    /\ attempts' = [m \in Message |->
            IF m \in B THEN attempts[m] + 1 ELSE AttemptsAfter(q, A)[m]]
    /\ original_attempts' = OriginalAfter(q, A)
    /\ member' = [m \in Message |-> IF m \in B THEN d ELSE MemberAfter(A)[m]]
    /\ avail' = AvailAfter(A)
    /\ deliveries' = DeliveriesAfter(A) \cup {d}
    /\ dqueue' = [QueuesOf(DeliveriesAfter(A)) EXCEPT ![d] = q]
    /\ left' = [left EXCEPT ![d] = Lease]
    /\ held' = [held EXCEPT ![r] = d]
    /\ seen' = [seen EXCEPT ![r] =
            [m \in Message |-> IF m \in B THEN attempts[m] + 1 ELSE 0]]
    /\ pc' = [pc EXCEPT ![r] = "consuming"]
    /\ consumer' = [consumer EXCEPT ![r] = TRUE]
    /\ UNCHANGED <<decision, batchDecision>>

\* A delivery's identity is fresh: no row and no run has it.
Fresh(d) == d \notin deliveries /\ \A s \in Run : held[s] # d

PollClaim(r, d) ==
    /\ SlotFree(r)
    /\ Fresh(d)
    /\ \E A \in OldestOf(Abandoned(QueueOf[r]), BatchSize[QueueOf[r]]) :
       \E B \in OldestOf(Ready(QueueOf[r], A), BatchSize[QueueOf[r]]) :
         ClaimBatch(r, d, A, B)

\* message.ack() or message.retry() while the delivery is open: the first
\* call on a message counts.
Decide(r, m, choice) ==
    /\ pc[r] = "consuming"
    /\ m \in Rows(r)
    /\ decision[r][m] = "none"
    /\ decision' = [decision EXCEPT ![r][m] = choice]
    /\ UNCHANGED <<table, lease, pc, held, seen, batchDecision, consumer>>

\* batch.ackAll() or batch.retryAll(): the first call counts.
DecideAll(r, choice) ==
    /\ pc[r] = "consuming"
    /\ batchDecision[r] = "none"
    /\ batchDecision' = [batchDecision EXCEPT ![r] = choice]
    /\ UNCHANGED <<table, lease, pc, held, seen, decision, consumer>>

\* finish(failed): the decisions are frozen; the message's own, else the
\* batch's, else retry after a failure and ack after a normal return.
Finish(r, failed) ==
    /\ decision' = [decision EXCEPT ![r] = [m \in Message |->
            IF m \notin Rows(r) THEN "none"
            ELSE IF decision[r][m] # "none" THEN decision[r][m]
            ELSE IF batchDecision[r] # "none" THEN batchDecision[r]
            ELSE IF failed THEN "retry" ELSE "ack"]]
    /\ batchDecision' = [batchDecision EXCEPT ![r] = "none"]
    /\ pc' = [pc EXCEPT ![r] = "settling"]
    /\ UNCHANGED <<table, lease, held, seen>>

\* The consumer returns (failed = FALSE) or throws (failed = TRUE).
ConsumerEnds(r, failed) ==
    /\ pc[r] = "consuming"
    /\ Finish(r, failed)
    /\ consumer' = [consumer EXCEPT ![r] = FALSE]

\* The execution or the drain deadline aborts the run; the consumer goes on.
Abort(r) ==
    /\ pc[r] = "consuming"
    /\ Finish(r, TRUE)
    /\ UNCHANGED consumer

\* A consumer that outlived its deadline ends at last.
ConsumerExits(r) ==
    /\ pc[r] # "consuming"
    /\ consumer[r]
    /\ consumer' = [consumer EXCEPT ![r] = FALSE]
    /\ UNCHANGED <<table, lease, pc, memory>>

\* What a run leaves behind when it ends: nothing but, perhaps, its consumer.
Forget(R) ==
    /\ pc' = [r \in Run |-> IF r \in R THEN "idle" ELSE pc[r]]
    /\ held' = [r \in Run |-> IF r \in R THEN NoDelivery ELSE held[r]]
    /\ seen' = [r \in Run |-> IF r \in R THEN [m \in Message |-> 0] ELSE seen[r]]
    /\ decision' = [r \in Run |->
            IF r \in R THEN [m \in Message |-> "none"] ELSE decision[r]]
    /\ batchDecision' = [r \in Run |->
            IF r \in R THEN "none" ELSE batchDecision[r]]

\* decode() throws on a stored body: the run rejects before any consumer
\* runs, and the delivery stays until its lease expires.
DecodeFails(r) ==
    /\ pc[r] = "consuming"
    /\ batchDecision[r] = "none"
    /\ \A m \in Message : decision[r][m] = "none"
    /\ Forget({r})
    /\ consumer' = [consumer EXCEPT ![r] = FALSE]
    /\ UNCHANGED <<table, lease>>

\* Slip: the expiry is not compared when the run settles.
OwnedWithoutExpiry(r) ==
    /\ held[r] \in deliveries
    /\ dqueue[held[r]] = QueueOf[r]
    /\ Members(held[r]) = Rows(r)

\* settle() goes through only under a lease that is still owned and intact.
Owned(r) ==
    /\ held[r] \in deliveries
    /\ dqueue[held[r]] = QueueOf[r]
    /\ left[held[r]] > 0
    /\ Members(held[r]) = Rows(r)

\* The rows by what happens to them: deleted, given up, or due again later.
Acked(r) == {m \in Rows(r) : decision[r][m] = "ack"}
SpentTooSoon(r) ==  \* slip: the last attempt is not granted
    {m \in Rows(r) \ Acked(r) : seen[r][m] >= MaxRetries[QueueOf[r]]}
Spent(r) == {m \in Rows(r) \ Acked(r) : seen[r][m] > MaxRetries[QueueOf[r]]}
Retried(r) == Rows(r) \ (Acked(r) \cup Spent(r))

Settle(r) ==
    LET q == QueueOf[r] IN
    /\ pc[r] = "settling"
    /\ Owned(r)
    /\ state' = [m \in Message |->
            IF m \in Acked(r) THEN "deleted" ELSE StateAfter(q, Spent(r))[m]]
    /\ queue' = QueueAfter(q, Spent(r))
    /\ attempts' = AttemptsAfter(q, Spent(r))
    /\ original_attempts' = OriginalAfter(q, Spent(r))
    /\ member' = MemberAfter(Rows(r))
    /\ \E delay \in [Retried(r) -> Delays] :
         avail' = [m \in Message |->
            IF m \in Retried(r) THEN delay[m] ELSE AvailAfter(Rows(r))[m]]
    /\ deliveries' = deliveries \ {held[r]}
    /\ dqueue' = [dqueue EXCEPT ![held[r]] = NoQueue]
    /\ left' = [left EXCEPT ![held[r]] = 0]
    /\ Forget({r})
    /\ UNCHANGED consumer

\* "lease is no longer owned" or "lease membership differs": nothing is written.
SettleRefused(r) ==
    /\ pc[r] = "settling"
    /\ ~Owned(r)
    /\ Forget({r})
    /\ UNCHANGED <<table, lease, consumer>>

\* The settlement's transaction fails and rolls back; the run rejects.
SettleFails(r) ==
    /\ pc[r] = "settling"
    /\ Forget({r})
    /\ UNCHANGED <<table, lease, consumer>>
-----------------------------------------------------------------------------
(* The environment.                                                         *)

\* A process dies with everything its runs had in memory.
Crash(p) ==
    LET R == {r \in Run : ProcessOf[r] = p} IN
    /\ Forget(R)
    /\ consumer' = [r \in Run |-> IF r \in R THEN FALSE ELSE consumer[r]]
    /\ UNCHANGED <<table, lease>>

Tick ==
    /\ left' = [d \in Delivery |-> IF left[d] > 0 THEN left[d] - 1 ELSE 0]
    /\ avail' = [m \in Message |->
            IF state[m] = "pending" /\ avail[m] > -BatchTimeout
            THEN avail[m] - 1 ELSE avail[m]]
    /\ UNCHANGED <<state, queue, attempts, original_attempts, member,
                   deliveries, dqueue, pc, memory, consumer>>

Next ==
    \/ \E q \in Sources, S \in SUBSET Message : Send(q, S)
    \/ \E r \in Run : \/ PollIdle(r)
                      \/ \E d \in Delivery : PollClaim(r, d)
    \/ \E r \in Run, choice \in {"ack", "retry"} :
          \/ \E m \in Message : Decide(r, m, choice)
          \/ DecideAll(r, choice)
    \/ \E r \in Run : \/ \E failed \in BOOLEAN : ConsumerEnds(r, failed)
                      \/ Abort(r)
                      \/ ConsumerExits(r)
                      \/ DecodeFails(r)
    \/ \E r \in Run : Settle(r) \/ SettleRefused(r) \/ SettleFails(r)
    \/ \E p \in Process : Crash(p)
    \/ Tick

Spec == Init /\ [][Next]_vars
-----------------------------------------------------------------------------
(* Safety.                                                                  *)

\* Two runs never own the same message: while both leases are live their
\* batches are disjoint.  This is what keeps a redelivered message and the
\* handler that lost it apart (the FOR UPDATE claims and the settle fence).
LeaseExclusion ==
    \A r, s \in Run :
        r # s /\ Live(held[r]) /\ Live(held[s]) => Rows(r) \cap Rows(s) = {}

\* Nobody but its owner touches a delivery before its lease expires: the rows
\* are the ones that were claimed, pending, in the polled queue, at the
\* attempt the consumer was told.  So "lease membership differs" cannot be
\* raised under a live lease and the snapshot settle() reasons with is current.
LiveLeaseIntact ==
    \A r \in Run : Live(held[r]) =>
        /\ Members(held[r]) = Rows(r)
        /\ \A m \in Rows(r) : /\ state[m] = "pending"
                              /\ queue[m] = QueueOf[r]
                              /\ attempts[m] = seen[r][m]

\* A message reaches the dead letter queue, or is parked, only after it spent
\* every attempt its policy grants: a crash or a lost lease takes none away.
DeadOnlyWhenSpent ==
    \A m \in Message :
        /\ Stored(m) /\ queue[m] \notin Sources =>
              \E q \in Queue : /\ DeadLetter[q] = queue[m]
                               /\ original_attempts[m] > MaxRetries[q]
        /\ state[m] = "parked" => /\ DeadLetter[queue[m]] = NoQueue
                                  /\ attempts[m] > MaxRetries[queue[m]]

\* A queue that admits one delivery at a time grants no attempt beyond its
\* budget.
SerialWithinPolicy ==
    \A m \in Message :
        state[m] = "pending" /\ MaxConcurrency[queue[m]] = 1 =>
            attempts[m] <= MaxRetries[queue[m]] + 1

\* The two tests of attempts > max_retries, the one of claim() for what was
\* abandoned and the one of settle(), agree on when a message is dead, neither
\* too early nor, in a serial queue, too late (the CHECK of 101 on
\* jobs.messages.attempts depends on it for sync-batches-dlq).
AttemptsAccounted == DeadOnlyWhenSpent /\ SerialWithinPolicy

\* The policy's budget: no message is delivered more than max_retries + 1
\* times from one queue ("exhausted messages must not run").
AttemptsWithinPolicy ==
    \A m \in Message :
        state[m] = "pending" => attempts[m] <= MaxRetries[queue[m]] + 1

\* A stored message disappears only by an ack that the owner of its live
\* lease settles, for the attempt it is at; never by a stale handler.
OnlyOwnersAckDeletes ==
    [][\A m \in Message :
         Stored(m) /\ ~Stored(m)' =>
            \E r \in Run : /\ pc[r] = "settling"
                           /\ decision[r][m] = "ack"
                           /\ Live(held[r])
                           /\ member[m] = held[r]
                           /\ seen[r][m] = attempts[m]]_vars

-----------------------------------------------------------------------------
(* The tables and the runs implement the custody of QueueCustody: a message *)
(* is held by the delivery it belongs to for as long as the lease is live.  *)

PlaceOf(m) ==
    CASE state[m] = "unsent"  -> "unsent"
      [] state[m] = "deleted" -> "gone"
      [] state[m] = "parked"  -> "parked"
      [] state[m] = "pending" -> queue[m]

HolderOf(m) ==
    IF member[m] # NoDelivery /\ left[member[m]] > 0 THEN member[m] ELSE NoDelivery

Custody == INSTANCE QueueCustody WITH
    Holder <- Delivery,
    MaxHolders <- MaxConcurrency,
    Nobody <- NoDelivery,
    place <- [m \in Message |-> PlaceOf(m)],
    holder <- [m \in Message |-> HolderOf(m)]

\* Every step of the queue, crashes, lost leases and failed settlements
\* included, is a step of the abstract custody or leaves it as it is.
ImplementsCustody == Custody!Spec
-----------------------------------------------------------------------------
(* Liveness.                                                                *)

\* Each slot's loop polls again after every run (native-background-loops.ts),
\* the execution deadline ends every run, its settlement is attempted, and a
\* consumer whose signal was aborted returns at last.  Processes may crash
\* and settlements may fail any number of times.
Fairness ==
    /\ WF_vars(Tick)
    /\ \A r \in Run :
         /\ WF_vars(PollIdle(r) \/ \E d \in Delivery : PollClaim(r, d))
         /\ WF_vars(Abort(r))
         /\ WF_vars(Settle(r) \/ SettleRefused(r))
         /\ WF_vars(ConsumerExits(r))

FairSpec == Spec /\ Fairness

\* No message is stuck: whatever crashes, it is acknowledged or parked in the
\* end, because every claim spends an attempt before the consumer runs.
EventuallyResolved ==
    \A m \in Message :
        state[m] = "pending" ~> state[m] \in {"deleted", "parked"}
==============================================================================
