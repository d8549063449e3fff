---------------------------- MODULE PgQueueProofs ----------------------------
(***************************************************************************)
(* The durable queue, for any number of messages, deliveries, queues,      *)
(* slots and processes and any policy: the fence around a live lease, the  *)
(* custody the tables implement, the budget of attempts and the limit on   *)
(* live deliveries.                                                        *)
(***************************************************************************)
EXTENDS PgQueue, FiniteSetTheorems, TLAPS

\* What the tables say of each other: a member row is pending, its delivery
\* is there, and both name the same queue.
TableInv ==
    \A m \in Message : member[m] # NoDelivery =>
        /\ state[m] = "pending"
        /\ member[m] \in deliveries
        /\ queue[m] = dqueue[member[m]]

\* What a run has in memory: a delivery of its own while it is busy.
MemoryInv ==
    /\ \A r \in Run : held[r] = NoDelivery <=> pc[r] = "idle"
    /\ \A r \in Run : pc[r] = "idle" => \A m \in Message : seen[r][m] = 0
    /\ \A r, s \in Run : r # s /\ held[r] # NoDelivery => held[r] # held[s]

\* What ties the two: as long as a run's lease is live, the rows of its
\* delivery are the rows it claimed, untouched.
FenceInv ==
    \A r \in Run : Live(held[r]) =>
        /\ dqueue[held[r]] = QueueOf[r]
        /\ \A m \in Message :
             /\ member[m] = held[r] <=> seen[r][m] > 0
             /\ seen[r][m] > 0 => attempts[m] = seen[r][m]

IInv == TypeOK /\ TableInv /\ MemoryInv /\ FenceInv
-----------------------------------------------------------------------------
(* Types.                                                                   *)

\* The columns exhausted() leaves behind have their types.
LEMMA ExhaustTypes ==
    ASSUME TypeOK, NEW q \in Queue, NEW A \in SUBSET Message,
           \A m \in A : Stored(m)
    PROVE  /\ StateAfter(q, A) \in [Message -> MessageStates]
           /\ QueueAfter(q, A) \in [Message -> Queue \cup {NoQueue}]
           /\ AttemptsAfter(q, A) \in [Message -> Nat]
           /\ OriginalAfter(q, A) \in [Message -> Nat]
           /\ MemberAfter(A) \in [Message -> Delivery \cup {NoDelivery}]
           /\ AvailAfter(A) \in [Message -> Int]
           /\ \A D \in SUBSET Delivery :
                 QueuesOf(D) \in [Delivery -> Queue \cup {NoQueue}]
           /\ \A m \in Message :
                 StateAfter(q, A)[m] \in {"pending", "parked"} =>
                    QueueAfter(q, A)[m] \in Queue
<1> USE PolicyAssumption DEF TypeOK, Stored, MessageStates
<1>1. StateAfter(q, A) \in [Message -> MessageStates]
  BY DEF StateAfter, Parked
<1>2. QueueAfter(q, A) \in [Message -> Queue \cup {NoQueue}]
  BY DEF QueueAfter, Forwarded
<1>3. AttemptsAfter(q, A) \in [Message -> Nat] /\ OriginalAfter(q, A) \in [Message -> Nat]
  BY DEF AttemptsAfter, OriginalAfter
<1>4. MemberAfter(A) \in [Message -> Delivery \cup {NoDelivery}]
  BY DEF MemberAfter
<1>5. AvailAfter(A) \in [Message -> Int]
  BY DEF AvailAfter
<1>6. \A D \in SUBSET Delivery : QueuesOf(D) \in [Delivery -> Queue \cup {NoQueue}]
  BY DEF QueuesOf
<1>7. \A m \in Message : StateAfter(q, A)[m] \in {"pending", "parked"} =>
                            QueueAfter(q, A)[m] \in Queue
  BY DEF StateAfter, QueueAfter, Parked, Forwarded
<1> QED BY <1>1, <1>2, <1>3, <1>4, <1>5, <1>6, <1>7

\* A run that ends leaves well-typed memory.
LEMMA ForgetTypes ==
    ASSUME TypeOK, NEW R \in SUBSET Run, Forget(R)
    PROVE  /\ pc' \in [Run -> {"idle", "consuming", "settling"}]
           /\ held' \in [Run -> Delivery \cup {NoDelivery}]
           /\ seen' \in [Run -> [Message -> Nat]]
           /\ decision' \in [Run -> [Message -> Decisions]]
           /\ batchDecision' \in [Run -> Decisions]
BY DEF Forget, TypeOK, Decisions

\* Frozen decisions are decisions.
LEMMA FinishTypes ==
    ASSUME TypeOK, NEW r \in Run, NEW failed \in BOOLEAN, Finish(r, failed)
    PROVE  /\ pc' \in [Run -> {"idle", "consuming", "settling"}]
           /\ decision' \in [Run -> [Message -> Decisions]]
           /\ batchDecision' \in [Run -> Decisions]
BY DEF Finish, TypeOK, Decisions, memory, Rows

\* What a claim picks from: messages of the queue that a live lease does not
\* hold, and, to be given up, only messages of deliveries that expired.
LEMMA Picks ==
    ASSUME IInv, NEW q \in Queue,
           NEW A \in OldestOf(Abandoned(q), BatchSize[q]),
           NEW B \in OldestOf(Ready(q, A), BatchSize[q])
    PROVE  /\ A \in SUBSET Message /\ B \in SUBSET Message
           /\ \A m \in A : /\ member[m] \in Delivery
                           /\ left[member[m]] = 0
                           /\ state[m] = "pending"
                           /\ queue[m] = q
                           /\ attempts[m] > MaxRetries[q]
           /\ \A m \in B : /\ m \notin A
                           /\ member[m] = NoDelivery \/ left[member[m]] = 0
                           /\ state[m] = "pending"
                           /\ queue[m] = q
BY DEF OldestOf, Abandoned, Ready, IInv, TypeOK, TableInv

\* The same of the exhausted set alone, for a poll that claims nothing.
LEMMA PicksToGiveUp ==
    ASSUME IInv, NEW q \in Queue,
           NEW A \in OldestOf(Abandoned(q), BatchSize[q])
    PROVE  /\ A \in SUBSET Message
           /\ \A m \in A : /\ member[m] \in Delivery
                           /\ left[member[m]] = 0
                           /\ state[m] = "pending"
                           /\ queue[m] = q
                           /\ attempts[m] > MaxRetries[q]
BY DEF OldestOf, Abandoned, IInv, TypeOK, TableInv

\* The rows a run settles are the pending members of the delivery it owns.
LEMMA SettledRows ==
    ASSUME IInv, NEW r \in Run, pc[r] = "settling", Owned(r)
    PROVE  /\ held[r] \in Delivery
           /\ Live(held[r])
           /\ Rows(r) \in SUBSET Message
           /\ Acked(r) \in SUBSET Rows(r)
           /\ Spent(r) \in SUBSET (Rows(r) \ Acked(r))
           /\ \A m \in Message : m \in Rows(r) <=> member[m] = held[r]
           /\ \A m \in Rows(r) : /\ state[m] = "pending"
                                 /\ queue[m] = QueueOf[r]
                                 /\ attempts[m] = seen[r][m]
<1>1. held[r] \in deliveries /\ held[r] \in Delivery /\ Live(held[r])
  BY DEF Owned, Live, IInv, TypeOK
<1>2. \A m \in Message : m \in Rows(r) <=> member[m] = held[r]
  BY DEF Owned, Members
<1>3. \A m \in Rows(r) : state[m] = "pending" /\ queue[m] = QueueOf[r]
  BY <1>1, <1>2, IdentityAssumption DEF IInv, TableInv, Owned, Rows
<1>4. \A m \in Rows(r) : attempts[m] = seen[r][m]
  BY <1>1 DEF IInv, FenceInv, Rows
<1> QED BY <1>1, <1>2, <1>3, <1>4 DEF Rows, Acked, Spent

\* Every step keeps the types.
LEMMA TypeStep == IInv /\ [Next]_vars => TypeOK'
<1> SUFFICES ASSUME IInv, [Next]_vars PROVE TypeOK'
  OBVIOUS
<1> USE PolicyAssumption, TimeAssumption, IdentityAssumption DEF IInv
<1>1. ASSUME NEW q \in Sources, NEW S \in SUBSET Message, Send(q, S)
      PROVE  TypeOK'
  <2>1. avail' \in [Message -> Int]
    <3>1. PICK delay \in [S -> Delays] :
             avail' = [m \in Message |-> IF m \in S THEN delay[m] ELSE avail[m]]
      BY <1>1 DEF Send
    <3>2. \A m \in S : delay[m] \in Delays
      OBVIOUS
    <3>3. \A m \in S : delay[m] \in Int
      BY <3>2
    <3> QED BY <3>1, <3>3 DEF TypeOK
  <2>2. /\ state' \in [Message -> MessageStates]
        /\ queue' \in [Message -> Queue \cup {NoQueue}]
        /\ \A m \in Message : Stored(m)' => queue'[m] \in Queue
    BY <1>1 DEF Send, TypeOK, Stored, MessageStates
  <2> QED BY <1>1, <2>1, <2>2 DEF Send, TypeOK, lease, memory
<1>2. ASSUME NEW r \in Run, PollIdle(r) PROVE TypeOK'
  <2> DEFINE q == QueueOf[r]
  <2>1. q \in Queue
    OBVIOUS
  <2>2. PICK A \in OldestOf(Abandoned(q), BatchSize[q]) : GiveUp(r, A)
    BY <1>2 DEF PollIdle
  <2>3. DeliveriesAfter(A) \in SUBSET Delivery
    BY DEF DeliveriesAfter, TypeOK
  <2>4. A \in SUBSET Message /\ \A m \in A : Stored(m)
    BY <2>1, PicksToGiveUp DEF Stored
  <2> QED
    BY <2>1, <2>2, <2>3, <2>4, ExhaustTypes DEF GiveUp, TypeOK, Stored, memory
<1>3. ASSUME NEW r \in Run, NEW d \in Delivery, PollClaim(r, d) PROVE TypeOK'
  <2> DEFINE q == QueueOf[r]
  <2>1. q \in Queue
    OBVIOUS
  <2>2. PICK A \in OldestOf(Abandoned(q), BatchSize[q]) :
        \E B \in OldestOf(Ready(q, A), BatchSize[q]) : ClaimBatch(r, d, A, B)
    BY <1>3 DEF PollClaim
  <2>3. PICK B \in OldestOf(Ready(q, A), BatchSize[q]) : ClaimBatch(r, d, A, B)
    BY <2>2
  <2>4. DeliveriesAfter(A) \in SUBSET Delivery
    BY DEF DeliveriesAfter, TypeOK
  <2>5. A \in SUBSET Message /\ \A m \in A : Stored(m)
    BY <2>1, PicksToGiveUp DEF Stored
  <2>6. /\ attempts' \in [Message -> Nat]
        /\ member' \in [Message -> Delivery \cup {NoDelivery}]
    <3>1. /\ AttemptsAfter(q, A) \in [Message -> Nat]
          /\ MemberAfter(A) \in [Message -> Delivery \cup {NoDelivery}]
      BY <2>1, <2>5, ExhaustTypes
    <3> QED BY <2>3, <3>1 DEF ClaimBatch, TypeOK
  <2>7. seen' \in [Run -> [Message -> Nat]]
    BY <2>3 DEF ClaimBatch, TypeOK
  <2>8. /\ dqueue' \in [Delivery -> Queue \cup {NoQueue}]
        /\ deliveries' \in SUBSET Delivery
    BY <2>1, <2>3, <2>4, <2>5, ExhaustTypes DEF ClaimBatch
  <2>9. /\ left' \in [Delivery -> 0 .. Lease]
        /\ held' \in [Run -> Delivery \cup {NoDelivery}]
        /\ pc' \in [Run -> {"idle", "consuming", "settling"}]
        /\ consumer' \in [Run -> BOOLEAN]
        /\ decision' \in [Run -> [Message -> Decisions]]
        /\ batchDecision' \in [Run -> Decisions]
    BY <2>3 DEF ClaimBatch, TypeOK
  <2>10. /\ state' \in [Message -> MessageStates]
         /\ queue' \in [Message -> Queue \cup {NoQueue}]
         /\ original_attempts' \in [Message -> Nat]
         /\ avail' \in [Message -> Int]
         /\ \A m \in Message : Stored(m)' => queue'[m] \in Queue
    BY <2>1, <2>3, <2>5, ExhaustTypes DEF ClaimBatch, Stored
  <2> QED
    BY <2>6, <2>7, <2>8, <2>9, <2>10 DEF TypeOK
<1>4. ASSUME NEW r \in Run, NEW choice \in {"ack", "retry"},
             (\E m \in Message : Decide(r, m, choice)) \/ DecideAll(r, choice)
      PROVE  TypeOK'
  <2>1. CASE DecideAll(r, choice)
    BY <2>1 DEF DecideAll, TypeOK, Stored, Decisions, table, lease
  <2>2. ASSUME NEW m \in Message, Decide(r, m, choice) PROVE TypeOK'
    <3>1. decision' \in [Run -> [Message -> Decisions]]
      BY <2>2 DEF Decide, TypeOK, Decisions
    <3> QED BY <2>2, <3>1 DEF Decide, TypeOK, Stored, table, lease
  <2> QED BY <1>4, <2>1, <2>2
<1>5. ASSUME NEW r \in Run, NEW failed \in BOOLEAN,
             ConsumerEnds(r, failed) \/ Abort(r)
      PROVE  TypeOK'
  <2>1. Finish(r, failed) \/ Finish(r, TRUE)
    BY <1>5 DEF ConsumerEnds, Abort
  <2>2. /\ pc' \in [Run -> {"idle", "consuming", "settling"}]
        /\ decision' \in [Run -> [Message -> Decisions]]
        /\ batchDecision' \in [Run -> Decisions]
    BY <2>1, FinishTypes
  <2>3. consumer' \in [Run -> BOOLEAN]
    BY <1>5 DEF ConsumerEnds, Abort, TypeOK
  <2> QED BY <2>1, <2>2, <2>3 DEF Finish, TypeOK, Stored, table, lease
<1>6. ASSUME NEW r \in Run, ConsumerExits(r) PROVE TypeOK'
  BY <1>6 DEF ConsumerExits, TypeOK, Stored, table, lease, memory
<1>7. ASSUME NEW r \in Run, DecodeFails(r) \/ SettleRefused(r) \/ SettleFails(r)
      PROVE  TypeOK'
  BY <1>7, ForgetTypes
  DEF DecodeFails, SettleRefused, SettleFails, TypeOK, Stored, table, lease
<1>8. ASSUME NEW r \in Run, Settle(r) PROVE TypeOK'
  <2> DEFINE q == QueueOf[r]
  <2>1. q \in Queue
    OBVIOUS
  <2>2. /\ Spent(r) \in SUBSET Message
        /\ \A m \in Spent(r) : Stored(m)
        /\ Rows(r) \in SUBSET Message
        /\ \A m \in Rows(r) : Stored(m)
    BY <1>8, SettledRows DEF Settle, Stored
  <2>3. /\ state' \in [Message -> MessageStates]
        /\ queue' \in [Message -> Queue \cup {NoQueue}]
        /\ attempts' \in [Message -> Nat]
        /\ original_attempts' \in [Message -> Nat]
        /\ \A m \in Message : Stored(m)' => queue'[m] \in Queue
    BY <1>8, <2>1, <2>2, ExhaustTypes DEF Settle, Stored, MessageStates
  <2>4. member' \in [Message -> Delivery \cup {NoDelivery}]
    BY <1>8, <2>1, <2>2, ExhaustTypes DEF Settle
  <2>5. avail' \in [Message -> Int]
    <3>1. AvailAfter(Rows(r)) \in [Message -> Int]
      BY <2>1, <2>2, ExhaustTypes
    <3>2. PICK delay \in [Retried(r) -> Delays] :
             avail' = [m \in Message |->
                IF m \in Retried(r) THEN delay[m] ELSE AvailAfter(Rows(r))[m]]
      BY <1>8 DEF Settle
    <3>3. \A m \in Retried(r) : delay[m] \in Delays
      OBVIOUS
    <3>4. \A m \in Retried(r) : delay[m] \in Int
      BY <3>3
    <3> QED BY <3>1, <3>2, <3>4
  <2>6. /\ deliveries' \in SUBSET Delivery
        /\ dqueue' \in [Delivery -> Queue \cup {NoQueue}]
        /\ left' \in [Delivery -> 0 .. Lease]
        /\ consumer' \in [Run -> BOOLEAN]
    BY <1>8, SettledRows DEF Settle, TypeOK
  <2> QED BY <1>8, <2>3, <2>4, <2>5, <2>6, ForgetTypes DEF Settle, TypeOK
<1>9. ASSUME NEW p \in Process, Crash(p) PROVE TypeOK'
  BY <1>9, ForgetTypes DEF Crash, TypeOK, Stored, table, lease
<1>10. CASE Tick
  BY <1>10 DEF Tick, TypeOK, Stored, memory
<1>11. CASE UNCHANGED vars
  BY <1>11 DEF vars, table, lease, memory, TypeOK, Stored
<1> QED
  BY <1>1, <1>2, <1>3, <1>4, <1>5, <1>6, <1>7, <1>8, <1>9, <1>10, <1>11 DEF Next
-----------------------------------------------------------------------------
(* The tables, the memory and the fence between them are preserved.         *)

\* A poll that claims nothing frees only what no live lease holds.
LEMMA PollIdleStep ==
    ASSUME IInv, NEW r \in Run, PollIdle(r)
    PROVE  TableInv' /\ MemoryInv' /\ FenceInv'
<1> DEFINE q == QueueOf[r]
<1>1. q \in Queue
  BY PolicyAssumption
<1>2. PICK A \in OldestOf(Abandoned(q), BatchSize[q]) : GiveUp(r, A)
  BY DEF PollIdle
<1>3. /\ A \in SUBSET Message
      /\ \A m \in A : left[member[m]] = 0 /\ member[m] \in Delivery
  BY <1>1, PicksToGiveUp
<1>4. TableInv'
  <2> SUFFICES ASSUME NEW m \in Message, member'[m] # NoDelivery
               PROVE  /\ state'[m] = "pending"
                      /\ member'[m] \in deliveries'
                      /\ queue'[m] = dqueue'[member'[m]]
    BY DEF TableInv
  <2>1. m \notin A /\ member'[m] = member[m]
    BY <1>2 DEF GiveUp, MemberAfter
  <2>2. member[m] \in deliveries' /\ member[m] \in Delivery
    BY <1>2, <2>1 DEF GiveUp, DeliveriesAfter, IInv, TypeOK, TableInv
  <2> QED
    BY <1>2, <2>1, <2>2
    DEF GiveUp, StateAfter, QueueAfter, QueuesOf, Parked, Forwarded, IInv, TableInv
<1>5. MemoryInv'
  BY <1>2 DEF GiveUp, memory, IInv, MemoryInv
<1>6. FenceInv'
  <2> SUFFICES ASSUME NEW s \in Run, Live(held[s])'
               PROVE  /\ dqueue'[held[s]] = QueueOf[s]
                      /\ \A m \in Message :
                           /\ member'[m] = held[s] <=> seen[s][m] > 0
                           /\ seen[s][m] > 0 => attempts'[m] = seen[s][m]
    BY <1>2 DEF FenceInv, GiveUp, memory
  <2>1. Live(held[s]) /\ held[s] \in deliveries' /\ held[s] \in Delivery
    BY <1>2 DEF Live, GiveUp, DeliveriesAfter, memory, IInv, TypeOK
  <2>2. dqueue'[held[s]] = QueueOf[s]
    BY <1>2, <2>1 DEF GiveUp, QueuesOf, IInv, FenceInv
  <2>3. \A m \in A : member[m] # held[s]
    BY <1>3, <2>1 DEF Live
  <2>4. \A m \in Message : member'[m] = held[s] <=> member[m] = held[s]
    BY <1>2, <2>1, <2>3, IdentityAssumption DEF GiveUp, MemberAfter
  <2>5. \A m \in Message \ A : attempts'[m] = attempts[m]
    BY <1>2 DEF GiveUp, AttemptsAfter, Forwarded
  <2> QED
    BY <2>1, <2>2, <2>3, <2>4, <2>5 DEF IInv, FenceInv
<1> QED BY <1>4, <1>5, <1>6

\* A claim takes only what no live lease holds, under an identity of its own.
LEMMA PollClaimStep ==
    ASSUME IInv, NEW r \in Run, NEW d \in Delivery, PollClaim(r, d)
    PROVE  TableInv' /\ MemoryInv' /\ FenceInv'
<1> DEFINE q == QueueOf[r]
<1>1. q \in Queue
  BY PolicyAssumption
<1>2. PICK A \in OldestOf(Abandoned(q), BatchSize[q]) :
      \E B \in OldestOf(Ready(q, A), BatchSize[q]) : ClaimBatch(r, d, A, B)
  BY DEF PollClaim
<1>3. PICK B \in OldestOf(Ready(q, A), BatchSize[q]) : ClaimBatch(r, d, A, B)
  BY <1>2
<1>4. /\ A \in SUBSET Message
      /\ B \in SUBSET Message
      /\ \A m \in A : left[member[m]] = 0 /\ member[m] \in Delivery
      /\ \A m \in B : /\ m \notin A
                      /\ member[m] = NoDelivery \/ left[member[m]] = 0
                      /\ state[m] = "pending"
                      /\ queue[m] = q
  BY <1>1, Picks
<1>5. /\ d \notin deliveries
      /\ \A s \in Run : held[s] # d
      /\ d # NoDelivery
      /\ \A m \in Message : member[m] # d
  BY IdentityAssumption DEF PollClaim, Fresh, IInv, TableInv
<1>6. TableInv'
  <2> SUFFICES ASSUME NEW m \in Message, member'[m] # NoDelivery
               PROVE  /\ state'[m] = "pending"
                      /\ member'[m] \in deliveries'
                      /\ queue'[m] = dqueue'[member'[m]]
    BY DEF TableInv
  <2>1. CASE m \in B
    <3>1. member'[m] = d /\ d \in deliveries' /\ dqueue'[d] = q
      BY <1>3, <2>1 DEF ClaimBatch, QueuesOf
    <3>2. state'[m] = "pending" /\ queue'[m] = q
      BY <1>3, <1>4, <2>1 DEF ClaimBatch, StateAfter, QueueAfter, Parked, Forwarded
    <3> QED BY <3>1, <3>2
  <2>2. CASE m \notin B
    <3>1. m \notin A /\ member'[m] = member[m]
      BY <1>3, <2>2 DEF ClaimBatch, MemberAfter
    <3>2. member[m] \in DeliveriesAfter(A) /\ member[m] \in Delivery
      BY <3>1 DEF DeliveriesAfter, IInv, TypeOK, TableInv
    <3>3. member[m] \in deliveries' /\ dqueue'[member[m]] = dqueue[member[m]]
      BY <1>3, <1>5, <3>2 DEF ClaimBatch, QueuesOf
    <3>4. state'[m] = state[m] /\ queue'[m] = queue[m]
      BY <1>3, <3>1 DEF ClaimBatch, StateAfter, QueueAfter, Parked, Forwarded
    <3> QED BY <3>1, <3>3, <3>4 DEF IInv, TableInv
  <2> QED BY <2>1, <2>2
<1>7. MemoryInv'
  <2>1. /\ held' = [held EXCEPT ![r] = d]
        /\ pc' = [pc EXCEPT ![r] = "consuming"]
    BY <1>3 DEF ClaimBatch
  <2>2. \A s \in Run : s # r => seen'[s] = seen[s]
    BY <1>3 DEF ClaimBatch, IInv, TypeOK
  <2> QED BY <1>5, <2>1, <2>2 DEF IInv, MemoryInv, TypeOK
<1>8. FenceInv'
  <2> SUFFICES ASSUME NEW s \in Run, Live(held[s])'
               PROVE  /\ dqueue'[held'[s]] = QueueOf[s]
                      /\ \A m \in Message :
                           /\ member'[m] = held'[s] <=> seen'[s][m] > 0
                           /\ seen'[s][m] > 0 => attempts'[m] = seen'[s][m]
    BY DEF FenceInv
  <2>1. CASE s = r
    <3>1. held'[r] = d /\ dqueue'[d] = q
      BY <1>3 DEF ClaimBatch, QueuesOf, IInv, TypeOK
    <3>2. \A m \in Message : member'[m] = d <=> m \in B
      BY <1>3, <1>5 DEF ClaimBatch, MemberAfter
    <3>3. \A m \in Message :
             seen'[r][m] = IF m \in B THEN attempts[m] + 1 ELSE 0
      BY <1>3 DEF ClaimBatch, IInv, TypeOK
    <3>4. \A m \in B : attempts'[m] = attempts[m] + 1 /\ attempts[m] + 1 > 0
      BY <1>3, <1>4 DEF ClaimBatch, IInv, TypeOK
    <3> QED BY <2>1, <3>1, <3>2, <3>3, <3>4
  <2>2. CASE s # r
    <3>1. held'[s] = held[s] /\ held[s] # d /\ seen'[s] = seen[s]
      BY <1>3, <1>5, <2>2 DEF ClaimBatch, IInv, TypeOK
    <3>2. held[s] \in DeliveriesAfter(A) /\ left'[held[s]] = left[held[s]]
      BY <1>3, <3>1 DEF ClaimBatch, Live, DeliveriesAfter, IInv, TypeOK
    <3>3. Live(held[s]) /\ held[s] \in Delivery
      BY <3>1, <3>2 DEF Live, DeliveriesAfter, IInv, TypeOK
    <3>4. dqueue'[held[s]] = dqueue[held[s]]
      BY <1>3, <3>1, <3>2, <3>3 DEF ClaimBatch, QueuesOf
    <3>5. \A m \in A \cup B : member[m] # held[s]
      BY <1>4, <3>3, IdentityAssumption DEF Live
    <3>6. \A m \in Message : member'[m] = held[s] <=> member[m] = held[s]
      BY <1>3, <3>1, <3>3, <3>5, IdentityAssumption DEF ClaimBatch, MemberAfter
    <3>7. \A m \in Message : m \notin A \cup B => attempts'[m] = attempts[m]
      BY <1>3 DEF ClaimBatch, AttemptsAfter, Forwarded
    <3> QED BY <3>1, <3>3, <3>4, <3>5, <3>6, <3>7 DEF IInv, FenceInv
  <2> QED BY <2>1, <2>2
<1> QED BY <1>6, <1>7, <1>8

\* A run that ends leaves the other runs' memory alone and owns nothing.
LEMMA ForgetStep ==
    ASSUME IInv, NEW R \in SUBSET Run, Forget(R)
    PROVE  /\ MemoryInv'
           /\ \A s \in Run : s \in R => held'[s] = NoDelivery
           /\ \A s \in Run : s \notin R => held'[s] = held[s] /\ seen'[s] = seen[s]
<1>1. \A s \in Run : s \in R =>
         /\ held'[s] = NoDelivery
         /\ pc'[s] = "idle"
         /\ \A m \in Message : seen'[s][m] = 0
  BY DEF Forget
<1>2. \A s \in Run : s \notin R =>
         held'[s] = held[s] /\ pc'[s] = pc[s] /\ seen'[s] = seen[s]
  BY DEF Forget
<1>3. MemoryInv'
  BY <1>1, <1>2 DEF IInv, MemoryInv
<1> QED BY <1>1, <1>2, <1>3

\* Ending runs while the tables stay as they are keeps every fence.
LEMMA ForgetAloneStep ==
    ASSUME IInv, NEW R \in SUBSET Run, Forget(R), UNCHANGED <<table, lease>>
    PROVE  TableInv' /\ MemoryInv' /\ FenceInv'
<1>1. TableInv'
  BY DEF table, lease, IInv, TableInv
<1>2. FenceInv'
  <2> SUFFICES ASSUME NEW s \in Run, Live(held[s])'
               PROVE  /\ dqueue'[held'[s]] = QueueOf[s]
                      /\ \A m \in Message :
                           /\ member'[m] = held'[s] <=> seen'[s][m] > 0
                           /\ seen'[s][m] > 0 => attempts'[m] = seen'[s][m]
    BY DEF FenceInv
  <2>1. held'[s] \in deliveries /\ held'[s] # NoDelivery
    BY IdentityAssumption DEF Live, lease, IInv, TypeOK
  <2>2. held'[s] = held[s] /\ seen'[s] = seen[s]
    BY <2>1, ForgetStep
  <2>3. Live(held[s])
    BY <2>2 DEF Live, lease
  <2> QED BY <2>2, <2>3 DEF table, lease, IInv, FenceInv
<1> QED BY <1>1, <1>2, ForgetStep

\* An accepted settlement frees the rows of its own delivery and no others.
LEMMA SettleStep ==
    ASSUME IInv, NEW r \in Run, Settle(r)
    PROVE  TableInv' /\ MemoryInv' /\ FenceInv'
<1> DEFINE q == QueueOf[r]
<1>1. /\ held[r] \in Delivery
      /\ Live(held[r])
      /\ Rows(r) \in SUBSET Message
      /\ Acked(r) \in SUBSET Rows(r)
      /\ Spent(r) \in SUBSET (Rows(r) \ Acked(r))
      /\ \A m \in Message : m \in Rows(r) <=> member[m] = held[r]
  BY SettledRows DEF Settle
<1>2. \A m \in Message \ Rows(r) :
         /\ state'[m] = state[m]
         /\ queue'[m] = queue[m]
         /\ attempts'[m] = attempts[m]
         /\ member'[m] = member[m]
  BY <1>1 DEF Settle, StateAfter, QueueAfter, AttemptsAfter, MemberAfter, Parked, Forwarded
<1>3. \A m \in Rows(r) : member'[m] = NoDelivery
  BY <1>1 DEF Settle, MemberAfter
<1>4. \A d \in Delivery : d # held[r] =>
         /\ d \in deliveries' <=> d \in deliveries
         /\ dqueue'[d] = dqueue[d]
         /\ left'[d] = left[d]
  BY DEF Settle, IInv, TypeOK
<1>5. held[r] \notin deliveries'
  BY DEF Settle
<1>6. TableInv'
  <2> SUFFICES ASSUME NEW m \in Message, member'[m] # NoDelivery
               PROVE  /\ state'[m] = "pending"
                      /\ member'[m] \in deliveries'
                      /\ queue'[m] = dqueue'[member'[m]]
    BY DEF TableInv
  <2>1. m \in Message \ Rows(r) /\ member'[m] = member[m] /\ member[m] # held[r]
    BY <1>1, <1>2, <1>3
  <2>2. member[m] \in Delivery /\ member[m] \in deliveries
    BY <2>1 DEF IInv, TypeOK, TableInv
  <2> QED BY <1>2, <1>4, <2>1, <2>2 DEF IInv, TableInv
<1>7. MemoryInv'
  BY ForgetStep DEF Settle
<1>8. FenceInv'
  <2> SUFFICES ASSUME NEW s \in Run, Live(held[s])'
               PROVE  /\ dqueue'[held'[s]] = QueueOf[s]
                      /\ \A m \in Message :
                           /\ member'[m] = held'[s] <=> seen'[s][m] > 0
                           /\ seen'[s][m] > 0 => attempts'[m] = seen'[s][m]
    BY DEF FenceInv
  <2>1. Forget({r})
    BY DEF Settle
  <2>2. held'[s] \in deliveries' /\ held'[s] # NoDelivery
    <3>1. held'[s] \in deliveries' /\ deliveries' \in SUBSET Delivery
      BY DEF Live, Settle, IInv, TypeOK
    <3> QED BY <3>1, IdentityAssumption
  <2>3. s # r /\ held'[s] = held[s] /\ seen'[s] = seen[s]
    BY <2>1, <2>2, ForgetStep
  <2>4. held[s] # held[r] /\ held[s] \in Delivery
    BY <1>5, <2>2, <2>3 DEF IInv, TypeOK
  <2>5. Live(held[s]) /\ dqueue'[held[s]] = dqueue[held[s]]
    BY <1>4, <2>2, <2>3, <2>4 DEF Live
  <2>6. \A m \in Message : member'[m] = held[s] <=> member[m] = held[s]
    BY <1>1, <1>2, <1>3, <2>2, <2>3, <2>4
  <2>7. \A m \in Message : member[m] = held[s] => attempts'[m] = attempts[m]
    BY <1>1, <1>2, <2>4
  <2> QED BY <2>3, <2>5, <2>6, <2>7 DEF IInv, FenceInv
<1> QED BY <1>6, <1>7, <1>8

\* The tables are empty at first.
LEMMA InitIInv == Init => IInv
<1> SUFFICES ASSUME Init PROVE IInv
  OBVIOUS
<1> USE PolicyAssumption, TimeAssumption, IdentityAssumption
<1>1. TypeOK
  BY DEF Init, TypeOK, MessageStates, Decisions, Stored
<1>2. TableInv
  BY DEF Init, TableInv
<1>3. MemoryInv
  BY DEF Init, MemoryInv
<1>4. FenceInv
  BY DEF Init, FenceInv, Live
<1> QED BY <1>1, <1>2, <1>3, <1>4 DEF IInv

\* Every step keeps the invariant.
LEMMA NextIInv == IInv /\ [Next]_vars => IInv'
<1> SUFFICES ASSUME IInv, [Next]_vars PROVE TableInv' /\ MemoryInv' /\ FenceInv'
  BY TypeStep DEF IInv
<1>1. ASSUME NEW q \in Sources, NEW S \in SUBSET Message, Send(q, S)
      PROVE  TableInv' /\ MemoryInv' /\ FenceInv'
  <2>1. \A m \in S : member[m] = NoDelivery
    BY <1>1 DEF Send, IInv, TableInv
  <2>2. TableInv'
    BY <1>1, <2>1 DEF Send, lease, IInv, TableInv
  <2>3. MemoryInv' /\ FenceInv'
    BY <1>1 DEF Send, lease, memory, IInv, MemoryInv, FenceInv, Live
  <2> QED BY <2>2, <2>3
<1>2. ASSUME NEW r \in Run, PollIdle(r) PROVE TableInv' /\ MemoryInv' /\ FenceInv'
  BY <1>2, PollIdleStep
<1>3. ASSUME NEW r \in Run, NEW d \in Delivery, PollClaim(r, d)
      PROVE  TableInv' /\ MemoryInv' /\ FenceInv'
  BY <1>3, PollClaimStep
<1>4. ASSUME UNCHANGED <<table, lease, held, seen>>,
             \A r \in Run : pc'[r] = "idle" <=> pc[r] = "idle"
      PROVE  TableInv' /\ MemoryInv' /\ FenceInv'
  BY <1>4 DEF table, lease, IInv, TableInv, MemoryInv, FenceInv, Live
<1>5. ASSUME NEW r \in Run, NEW choice \in {"ack", "retry"},
             (\E m \in Message : Decide(r, m, choice)) \/ DecideAll(r, choice)
      PROVE  TableInv' /\ MemoryInv' /\ FenceInv'
  BY <1>4, <1>5 DEF Decide, DecideAll
<1>6. ASSUME NEW r \in Run, NEW failed \in BOOLEAN,
             ConsumerEnds(r, failed) \/ Abort(r)
      PROVE  TableInv' /\ MemoryInv' /\ FenceInv'
  <2>1. \A s \in Run : pc'[s] = "idle" <=> pc[s] = "idle"
    BY <1>6 DEF ConsumerEnds, Abort, Finish, IInv, TypeOK
  <2> QED BY <1>4, <1>6, <2>1 DEF ConsumerEnds, Abort, Finish
<1>7. ASSUME NEW r \in Run, ConsumerExits(r)
      PROVE  TableInv' /\ MemoryInv' /\ FenceInv'
  BY <1>4, <1>7 DEF ConsumerExits, memory
<1>8. ASSUME NEW r \in Run, DecodeFails(r) \/ SettleRefused(r) \/ SettleFails(r)
      PROVE  TableInv' /\ MemoryInv' /\ FenceInv'
  BY <1>8, ForgetAloneStep DEF DecodeFails, SettleRefused, SettleFails
<1>9. ASSUME NEW r \in Run, Settle(r) PROVE TableInv' /\ MemoryInv' /\ FenceInv'
  BY <1>9, SettleStep
<1>10. ASSUME NEW p \in Process, Crash(p)
       PROVE  TableInv' /\ MemoryInv' /\ FenceInv'
  BY <1>10, ForgetAloneStep DEF Crash
<1>11. CASE Tick
  <2>1. \A d \in Delivery : left'[d] > 0 => left[d] > 0
    BY <1>11, TimeAssumption DEF Tick, IInv, TypeOK
  <2>2. \A d : Live(d)' => Live(d)
    BY <1>11, <2>1 DEF Tick, Live, IInv, TypeOK
  <2>3. TableInv' /\ MemoryInv'
    BY <1>11 DEF Tick, memory, IInv, TableInv, MemoryInv
  <2>4. FenceInv'
    BY <1>11, <2>2 DEF Tick, memory, IInv, FenceInv
  <2> QED BY <2>3, <2>4
<1>12. CASE UNCHANGED vars
  BY <1>12, <1>4 DEF vars, memory
<1> QED
  BY <1>1, <1>2, <1>3, <1>5, <1>6, <1>7, <1>8, <1>9, <1>10, <1>11, <1>12 DEF Next
-----------------------------------------------------------------------------
(* The results.                                                             *)

\* In every reachable state the tables, the runs' memory and the fences fit.
THEOREM Fenced == Spec => []IInv
<1>1. Init => IInv
  BY InitIInv
<1>2. IInv /\ [Next]_vars => IInv'
  BY NextIInv
<1> QED BY <1>1, <1>2, PTL DEF Spec

\* Every variable keeps its type.
THEOREM TypeCorrect == Spec => []TypeOK
<1>1. IInv => TypeOK
  BY DEF IInv
<1> QED BY <1>1, Fenced, PTL

\* Nobody but the owner touches the rows of a live delivery (claim() and
\* settle() of pg-queue.ts, for any number of processes and messages).
THEOREM LiveLeaseIsIntact == Spec => []LiveLeaseIntact
<1>1. IInv => LiveLeaseIntact
  <2> SUFFICES ASSUME IInv, NEW r \in Run, Live(held[r])
               PROVE  /\ Members(held[r]) = Rows(r)
                      /\ \A m \in Rows(r) : /\ state[m] = "pending"
                                            /\ queue[m] = QueueOf[r]
                                            /\ attempts[m] = seen[r][m]
    BY DEF LiveLeaseIntact
  <2>1. held[r] # NoDelivery
    BY IdentityAssumption DEF Live, IInv, TypeOK
  <2>2. \A m \in Message : m \in Rows(r) <=> member[m] = held[r]
    BY DEF Rows, IInv, FenceInv
  <2> QED BY <2>1, <2>2 DEF Members, Rows, IInv, TableInv, FenceInv
<1> QED BY <1>1, Fenced, PTL

\* No message is ever owned by two runs (the claim fence of pg-queue.ts).
THEOREM ExclusiveLeases == Spec => []LeaseExclusion
<1>1. IInv => LeaseExclusion
  <2> SUFFICES ASSUME IInv, NEW r \in Run, NEW s \in Run, r # s,
                      Live(held[r]), Live(held[s]),
                      NEW m \in Rows(r) \cap Rows(s)
               PROVE  FALSE
    BY DEF LeaseExclusion
  <2>1. held[r] # NoDelivery
    BY IdentityAssumption DEF Live, IInv, TypeOK
  <2>2. member[m] = held[r] /\ member[m] = held[s]
    BY DEF Rows, IInv, FenceInv
  <2> QED BY <2>1, <2>2 DEF IInv, MemoryInv
<1> QED BY <1>1, Fenced, PTL

\* A message disappears only by the ack of the owner of its live lease, for
\* the attempt it is at (the settle fence of pg-queue.ts).
THEOREM OnlyOwnersAck == Spec => OnlyOwnersAckDeletes
<1> DEFINE Deletion == \A m \in Message :
         Stored(m) /\ ~Stored(m)' =>
            \E r \in Run : /\ pc[r] = "settling"
                           /\ decision[r][m] = "ack"
                           /\ Live(held[r])
                           /\ member[m] = held[r]
                           /\ seen[r][m] = attempts[m]
<1>1. IInv /\ [Next]_vars => [Deletion]_vars
  <2> SUFFICES ASSUME IInv, [Next]_vars, NEW m \in Message, Stored(m), ~Stored(m)'
               PROVE  \E r \in Run : /\ pc[r] = "settling"
                                     /\ decision[r][m] = "ack"
                                     /\ Live(held[r])
                                     /\ member[m] = held[r]
                                     /\ seen[r][m] = attempts[m]
    OBVIOUS
  <2>1. ASSUME NEW r \in Run, Settle(r)
        PROVE  \E s \in Run : /\ pc[s] = "settling"
                              /\ decision[s][m] = "ack"
                              /\ Live(held[s])
                              /\ member[m] = held[s]
                              /\ seen[s][m] = attempts[m]
    <3>1. pc[r] = "settling" /\ Owned(r)
      BY <2>1 DEF Settle
    <3>2. m \in Acked(r)
      BY <2>1 DEF Settle, StateAfter, Stored
    <3>3. m \in Rows(r) /\ decision[r][m] = "ack"
      BY <3>2 DEF Acked
    <3> QED BY <3>1, <3>3, SettledRows
  <2>2. ASSUME NEW q \in Sources, NEW S \in SUBSET Message, Send(q, S)
        PROVE  FALSE
    BY <2>2 DEF Send, Stored
  <2>3. ASSUME NEW r \in Run, PollIdle(r) PROVE FALSE
    BY <2>3 DEF PollIdle, GiveUp, StateAfter, Stored
  <2>4. ASSUME NEW r \in Run, NEW d \in Delivery, PollClaim(r, d) PROVE FALSE
    BY <2>4 DEF PollClaim, ClaimBatch, StateAfter, Stored
  <2>5. ASSUME UNCHANGED state PROVE FALSE
    BY <2>5 DEF Stored
  <2> QED
    BY <2>1, <2>2, <2>3, <2>4, <2>5
    DEF Next, vars, table, Decide, DecideAll, ConsumerEnds, Abort, Finish,
        ConsumerExits, DecodeFails, SettleRefused, SettleFails, Crash, Tick
<1> QED BY <1>1, Fenced, PTL DEF Spec, OnlyOwnersAckDeletes
-----------------------------------------------------------------------------
(* The tables implement the custody: a message is held by the delivery it   *)
(* belongs to while its lease is live.                                      *)

\* What the custody sees of a message.
SameForCustody(m) == PlaceOf(m)' = PlaceOf(m) /\ HolderOf(m)' = HolderOf(m)

\* A place follows from the row alone, and so does a holder.
LEMMA RowsAlone ==
    ASSUME NEW m \in Message, state'[m] = state[m], queue'[m] = queue[m]
    PROVE  PlaceOf(m)' = PlaceOf(m)
BY DEF PlaceOf

\* A held message is pending under a live delivery of its queue.
LEMMA HeldMeans ==
    ASSUME IInv, NEW m \in Message, HolderOf(m) # NoDelivery
    PROVE  /\ HolderOf(m) = member[m] /\ member[m] \in deliveries /\ left[member[m]] > 0
           /\ state[m] = "pending" /\ queue[m] = dqueue[member[m]]
BY DEF HolderOf, IInv, TableInv

\* Where no message changes place or holder the custody stands still.
LEMMA CustodyStutters ==
    ASSUME \A m \in Message : SameForCustody(m)
    PROVE  UNCHANGED Custody!custody
BY DEF SameForCustody, Custody!custody

\* A send is a deposit.
LEMMA SendIsDeposit ==
    ASSUME NEW q \in Sources, NEW S \in SUBSET Message, Send(q, S)
    PROVE  Custody!Next
<1>1. \A m \in S : PlaceOf(m) = "unsent"
  BY DEF Send, PlaceOf
<1>2. \A m \in Message : PlaceOf(m)' = IF m \in S THEN q ELSE PlaceOf(m)
  <2>1. ASSUME NEW m \in S PROVE PlaceOf(m)' = q
    <3>1. state'[m] = "pending" /\ queue'[m] = q
      BY DEF Send
    <3> QED BY <3>1 DEF PlaceOf
  <2>2. ASSUME NEW m \in Message \ S PROVE PlaceOf(m)' = PlaceOf(m)
    BY RowsAlone DEF Send
  <2> QED BY <2>1, <2>2
<1>3. \A m \in Message : HolderOf(m)' = HolderOf(m)
  BY DEF Send, HolderOf, lease
<1>4. Custody!Deposit(q, S)
  BY <1>1, <1>2, <1>3 DEF Custody!Deposit
<1> QED BY <1>4 DEF Custody!Next

\* Where a set that is given up goes, as the custody says it.
LEMMA GivenUpPlaces ==
    ASSUME NEW q \in Queue, NEW A \in SUBSET Message, \A m \in A : state[m] = "pending",
           NEW m \in Message, state'[m] = StateAfter(q, A)[m], queue'[m] = QueueAfter(q, A)[m]
    PROVE  PlaceOf(m)' = IF m \in A THEN Custody!Escalated(q) ELSE PlaceOf(m)
<1>1. CASE m \notin A
  <2>1. state'[m] = state[m] /\ queue'[m] = queue[m]
    BY <1>1 DEF StateAfter, QueueAfter, Parked, Forwarded
  <2> QED BY <1>1, <2>1, RowsAlone
<1>2. CASE m \in A /\ DeadLetter[q] = NoQueue
  <2>1. state'[m] = "parked"
    BY <1>2 DEF StateAfter, Parked
  <2> QED BY <1>2, <2>1 DEF PlaceOf, Custody!Escalated
<1>3. CASE m \in A /\ DeadLetter[q] # NoQueue
  <2>1. state'[m] = "pending" /\ queue'[m] = DeadLetter[q]
    BY <1>3 DEF StateAfter, QueueAfter, Parked, Forwarded
  <2> QED BY <1>3, <2>1 DEF PlaceOf, Custody!Escalated
<1> QED BY <1>1, <1>2, <1>3

\* What a claim may take or give up nobody holds.
LEMMA FreeMeans ==
    ASSUME NEW q \in Queue, NEW A \in SUBSET Message,
           \A m \in A : /\ state[m] = "pending" /\ queue[m] = q
                        /\ member[m] = NoDelivery \/ left[member[m]] = 0
    PROVE  A \subseteq Custody!Free(q)
BY DEF Custody!Free, PlaceOf, HolderOf

\* A claim that finds nothing takes nothing, but gives up what is dead.
LEMMA PollIdleIsTake ==
    ASSUME IInv, NEW r \in Run, PollIdle(r)
    PROVE  [Custody!Next]_(Custody!custody)
<1> DEFINE q == QueueOf[r]
<1>1. q \in Queue
  BY PolicyAssumption
<1>2. PICK A \in OldestOf(Abandoned(q), BatchSize[q]) : GiveUp(r, A)
  BY DEF PollIdle
<1>3. /\ A \in SUBSET Message
      /\ \A m \in A : /\ member[m] \in Delivery
                      /\ left[member[m]] = 0
                      /\ state[m] = "pending"
                      /\ queue[m] = q
  BY <1>1, PicksToGiveUp
<1>4. \A m \in Message : PlaceOf(m)' = IF m \in A THEN Custody!Escalated(q) ELSE PlaceOf(m)
  BY <1>1, <1>2, <1>3, GivenUpPlaces DEF GiveUp
<1>5. \A m \in Message : HolderOf(m)' = HolderOf(m)
  BY <1>2, <1>3 DEF GiveUp, HolderOf, MemberAfter
<1>6. CASE A = {}
  BY <1>4, <1>5, <1>6, CustodyStutters DEF SameForCustody
<1>7. CASE A # {}
  <2>1. PICK m \in A : TRUE
    BY <1>7
  <2> DEFINE h == member[m]
  <2>2. h \in Delivery /\ left[h] = 0
    BY <1>3
  <2>3. Custody!HeldBy(h) = {}
    BY <2>2, IdentityAssumption DEF Custody!HeldBy, HolderOf
  <2>4. A \subseteq Custody!Free(q)
    BY <1>1, <1>3, FreeMeans
  <2>5. Custody!Take(q, h, A, {})
    BY <1>4, <1>5, <2>3, <2>4 DEF Custody!Take
  <2>6. {} \in SUBSET Message
    OBVIOUS
  <2> QED BY <1>1, <1>3, <2>2, <2>5, <2>6 DEF Custody!Next
<1> QED BY <1>6, <1>7

\* The custody counts as the tables do.
LEMMA SameCount == \A S : Custody!Cardinality(S) = Cardinality(S)
BY DEF Custody!Cardinality, Cardinality

\* Below the capacity of claim() the custody has room for one more holder.
LEMMA RoomForHolder ==
    ASSUME IInv, NEW q \in Queue, NEW A \in SUBSET Message,
           \A m \in A : left[member[m]] = 0, ~AtCapacity(q, A)
    PROVE  Custody!Cardinality(Custody!Holders(q)) < MaxConcurrency[q]
<1> DEFINE D == {d \in DeliveriesAfter(A) : dqueue[d] = q /\ left[d] > 0}
<1>1. IsFiniteSet(D)
  <2>1. D \in SUBSET Delivery
    BY DEF DeliveriesAfter, IInv, TypeOK
  <2> QED BY <2>1, IdentityAssumption, FS_Subset
<1>2. Custody!Holders(q) \subseteq D
  <2> SUFFICES ASSUME NEW m \in Message, PlaceOf(m) = q, HolderOf(m) # NoDelivery
               PROVE  HolderOf(m) \in D
    BY DEF Custody!Holders
  <2>1. /\ HolderOf(m) = member[m] /\ member[m] \in deliveries /\ left[member[m]] > 0
        /\ state[m] = "pending" /\ queue[m] = dqueue[member[m]]
    BY HeldMeans
  <2>2. m \notin A
    BY <2>1
  <2>3. queue[m] = q
    BY <2>1 DEF PlaceOf
  <2> QED BY <2>1, <2>2, <2>3 DEF DeliveriesAfter
<1>3. /\ Cardinality(D) \in Nat
      /\ Cardinality(Custody!Holders(q)) \in Nat
      /\ Cardinality(Custody!Holders(q)) <= Cardinality(D)
  BY <1>1, <1>2, FS_Subset, FS_CardinalityType
<1>4. MaxConcurrency[q] \in Nat /\ ~(Cardinality(D) >= MaxConcurrency[q])
  BY PolicyAssumption DEF AtCapacity
<1> QED BY <1>3, <1>4, SameCount

\* A claim is a take by a new holder.
LEMMA PollClaimIsTake ==
    ASSUME IInv, NEW r \in Run, NEW d \in Delivery, PollClaim(r, d)
    PROVE  Custody!Next
<1> DEFINE q == QueueOf[r]
<1>1. q \in Queue
  BY PolicyAssumption
<1>2. PICK A \in OldestOf(Abandoned(q), BatchSize[q]) :
      \E B \in OldestOf(Ready(q, A), BatchSize[q]) : ClaimBatch(r, d, A, B)
  BY DEF PollClaim
<1>3. PICK B \in OldestOf(Ready(q, A), BatchSize[q]) : ClaimBatch(r, d, A, B)
  BY <1>2
<1>4. /\ A \in SUBSET Message
      /\ B \in SUBSET Message
      /\ \A m \in A : /\ left[member[m]] = 0 /\ member[m] \in Delivery
                      /\ state[m] = "pending" /\ queue[m] = q
      /\ \A m \in B : /\ m \notin A
                      /\ member[m] = NoDelivery \/ left[member[m]] = 0
                      /\ state[m] = "pending"
                      /\ queue[m] = q
  BY <1>1, Picks
<1>5. d # NoDelivery /\ \A m \in Message : member[m] # d
  BY IdentityAssumption DEF PollClaim, Fresh, IInv, TableInv
<1>6. \A m \in Message : PlaceOf(m)' = IF m \in A THEN Custody!Escalated(q) ELSE PlaceOf(m)
  BY <1>1, <1>3, <1>4, GivenUpPlaces DEF ClaimBatch
<1>7. \A m \in Message : HolderOf(m)' = IF m \in B THEN d ELSE HolderOf(m)
  <2> SUFFICES ASSUME NEW m \in Message
               PROVE  HolderOf(m)' = IF m \in B THEN d ELSE HolderOf(m)
    OBVIOUS
  <2>1. left'[d] = Lease /\ Lease > 0
    BY <1>3, TimeAssumption DEF ClaimBatch, IInv, TypeOK
  <2>2. CASE m \in B
    BY <1>3, <1>5, <2>1, <2>2 DEF ClaimBatch, HolderOf
  <2>3. CASE m \in A
    <3>1. m \notin B /\ member'[m] = NoDelivery /\ HolderOf(m) = NoDelivery
      BY <1>3, <1>4, <2>3 DEF ClaimBatch, MemberAfter, HolderOf
    <3> QED BY <3>1 DEF HolderOf
  <2>4. CASE m \notin A \cup B
    <3>1. member'[m] = member[m]
      BY <1>3, <2>4 DEF ClaimBatch, MemberAfter
    <3>2. member[m] # NoDelivery => left'[member[m]] = left[member[m]]
      BY <1>3, <1>5 DEF ClaimBatch, IInv, TypeOK
    <3> QED BY <2>4, <3>1, <3>2 DEF HolderOf
  <2> QED BY <2>2, <2>3, <2>4
<1>8. A \subseteq Custody!Free(q) /\ B \subseteq Custody!Free(q) \ A
  BY <1>1, <1>4, FreeMeans
<1>9. Custody!HeldBy(d) = {}
  BY <1>5 DEF Custody!HeldBy, HolderOf
<1>10. Custody!Cardinality(Custody!Holders(q)) < MaxConcurrency[q]
  BY <1>1, <1>3, <1>4, RoomForHolder DEF ClaimBatch
<1>11. Custody!Take(q, d, A, B)
  BY <1>6, <1>7, <1>8, <1>9, <1>10 DEF Custody!Take
<1>12. \E E, L \in SUBSET Message : Custody!Take(q, d, E, L)
  BY <1>4, <1>11
<1> QED BY <1>1, <1>12 DEF Custody!Next

\* A settlement is a resolution, unless the batch was empty.
LEMMA SettleIsResolve ==
    ASSUME IInv, NEW r \in Run, Settle(r)
    PROVE  [Custody!Next]_(Custody!custody)
<1> DEFINE q == QueueOf[r]
           h == held[r]
<1>1. q \in Queue
  BY PolicyAssumption
<1>2. /\ h \in Delivery /\ Live(h)
      /\ Rows(r) \in SUBSET Message
      /\ Acked(r) \in SUBSET Rows(r)
      /\ Spent(r) \in SUBSET (Rows(r) \ Acked(r))
      /\ \A m \in Message : m \in Rows(r) <=> member[m] = h
      /\ \A m \in Rows(r) : state[m] = "pending" /\ queue[m] = q
  BY SettledRows DEF Settle
<1>3. h # NoDelivery
  BY <1>2, IdentityAssumption
<1>4. \A m \in Message : HolderOf(m) = h <=> m \in Rows(r)
  BY <1>2, <1>3 DEF HolderOf, Live
<1>5. Custody!HeldBy(h) = Rows(r)
  BY <1>2, <1>4 DEF Custody!HeldBy
<1>6. \A m \in Message :
         PlaceOf(m)' = IF m \in Acked(r) THEN "gone"
                       ELSE IF m \in Spent(r) THEN Custody!Escalated(q) ELSE PlaceOf(m)
  <2> SUFFICES ASSUME NEW m \in Message
               PROVE  PlaceOf(m)' = IF m \in Acked(r) THEN "gone"
                         ELSE IF m \in Spent(r) THEN Custody!Escalated(q) ELSE PlaceOf(m)
    OBVIOUS
  <2>1. CASE m \in Acked(r)
    BY <2>1 DEF Settle, PlaceOf
  <2>2. CASE m \notin Acked(r)
    <3>1. state'[m] = StateAfter(q, Spent(r))[m] /\ queue'[m] = QueueAfter(q, Spent(r))[m]
      BY <2>2 DEF Settle
    <3>2. Spent(r) \in SUBSET Message /\ \A n \in Spent(r) : state[n] = "pending"
      BY <1>2
    <3> QED BY <1>1, <2>2, <3>1, <3>2, GivenUpPlaces
  <2> QED BY <2>1, <2>2
<1>7. \A m \in Message : HolderOf(m)' = IF HolderOf(m) = h THEN NoDelivery ELSE HolderOf(m)
  <2> SUFFICES ASSUME NEW m \in Message
               PROVE  HolderOf(m)' = IF m \in Rows(r) THEN NoDelivery ELSE HolderOf(m)
    BY <1>4
  <2>1. CASE m \in Rows(r)
    BY <2>1 DEF Settle, MemberAfter, HolderOf
  <2>2. CASE m \notin Rows(r)
    <3>1. member'[m] = member[m] /\ member[m] # h
      BY <1>2, <2>2 DEF Settle, MemberAfter
    <3>2. member[m] # NoDelivery => left'[member[m]] = left[member[m]]
      BY <3>1 DEF Settle, IInv, TypeOK
    <3> QED BY <2>2, <3>1, <3>2 DEF HolderOf
  <2> QED BY <2>1, <2>2
<1>8. CASE Rows(r) = {}
  <2>1. \A m \in Message : SameForCustody(m)
    BY <1>2, <1>4, <1>6, <1>7, <1>8 DEF SameForCustody
  <2> QED BY <2>1, CustodyStutters
<1>9. CASE Rows(r) # {}
  <2>1. \A m \in Rows(r) : PlaceOf(m) = q
    BY <1>2 DEF PlaceOf
  <2>2. Custody!Resolve(q, h, Acked(r), Spent(r))
    BY <1>2, <1>5, <1>6, <1>7, <1>9, <2>1 DEF Custody!Resolve
  <2> QED BY <1>1, <1>2, <2>2 DEF Custody!Next
<1> QED BY <1>8, <1>9

\* The leases that run out lapse.
LEMMA TickIsLapse ==
    ASSUME IInv, Tick
    PROVE  Custody!Next
<1> DEFINE H == {d \in Delivery : left[d] = 1}
<1>1. \A m \in Message : PlaceOf(m)' = PlaceOf(m)
  BY RowsAlone DEF Tick
<1>2. \A m \in Message :
         HolderOf(m)' = IF HolderOf(m) \in H THEN NoDelivery ELSE HolderOf(m)
  <2> SUFFICES ASSUME NEW m \in Message
               PROVE  HolderOf(m)' = IF HolderOf(m) \in H THEN NoDelivery ELSE HolderOf(m)
    OBVIOUS
  <2>1. CASE member[m] = NoDelivery
    BY <2>1, IdentityAssumption DEF HolderOf, Tick
  <2>2. CASE member[m] # NoDelivery
    <3>1. member[m] \in Delivery /\ left[member[m]] \in Nat /\ member'[m] = member[m]
      BY <2>2, TimeAssumption DEF IInv, TypeOK, Tick
    <3>2. left'[member[m]] = IF left[member[m]] > 0 THEN left[member[m]] - 1 ELSE 0
      BY <3>1 DEF Tick
    <3> QED BY <2>2, <3>1, <3>2, IdentityAssumption DEF HolderOf
  <2> QED BY <2>1, <2>2
<1>3. Custody!Lapse(H)
  BY <1>1, <1>2 DEF Custody!Lapse
<1> QED BY <1>3 DEF Custody!Next

\* Every step of the transport is a step of the custody, or none for it.
LEMMA StepIsCustodyStep ==
    ASSUME IInv, [Next]_vars
    PROVE  [Custody!Next]_(Custody!custody)
<1>1. ASSUME UNCHANGED <<table, lease>>
      PROVE  [Custody!Next]_(Custody!custody)
  <2>1. \A m \in Message : SameForCustody(m)
    BY <1>1 DEF table, lease, SameForCustody, PlaceOf, HolderOf
  <2> QED BY <2>1, CustodyStutters
<1>2. ASSUME NEW r \in Run,
             \/ DecodeFails(r) \/ SettleRefused(r) \/ SettleFails(r) \/ Abort(r)
             \/ ConsumerExits(r)
      PROVE  UNCHANGED <<table, lease>>
  BY <1>2 DEF DecodeFails, SettleRefused, SettleFails, Abort, ConsumerExits, Finish
<1>3. ASSUME NEW r \in Run, NEW failed \in BOOLEAN, ConsumerEnds(r, failed)
      PROVE  UNCHANGED <<table, lease>>
  BY <1>3 DEF ConsumerEnds, Finish
<1>4. ASSUME NEW r \in Run, NEW choice \in {"ack", "retry"},
             (\E m \in Message : Decide(r, m, choice)) \/ DecideAll(r, choice)
      PROVE  UNCHANGED <<table, lease>>
  BY <1>4 DEF Decide, DecideAll
<1>5. ASSUME NEW p \in Process, Crash(p)
      PROVE  UNCHANGED <<table, lease>>
  BY <1>5 DEF Crash
<1>6. CASE UNCHANGED vars
  BY <1>1, <1>6 DEF vars
<1> QED
  BY <1>1, <1>2, <1>3, <1>4, <1>5, <1>6, SendIsDeposit, PollIdleIsTake, PollClaimIsTake,
     SettleIsResolve, TickIsLapse DEF Next

\* The tables of the queue keep what the custody promises: one place and at
\* most one holder for every message, no more holders than the policy admits,
\* and no way out of a queue but an acknowledgment or an escalation.
THEOREM QueueIsCustody == Spec => ImplementsCustody
<1>1. Init => Custody!Init
  BY DEF Init, Custody!Init, PlaceOf, HolderOf
<1>2. IInv /\ [Next]_vars => [Custody!Next]_(Custody!custody)
  BY StepIsCustodyStep
<1> QED BY <1>1, <1>2, Fenced, PTL DEF Spec, ImplementsCustody, Custody!Spec
-----------------------------------------------------------------------------
(* The budget of attempts.  What one message owes its policy is kept by     *)
(* every step but a claim on its own; a claim in a serial queue needs that  *)
(* whatever is spent there fits in one batch of claim(), so that all of it  *)
(* is given up before anything is taken again.                              *)

\* The messages of q that have been delivered once too often to be retried.
SpentIn(q) ==
    {m \in Message : state[m] = "pending" /\ queue[m] = q /\ attempts[m] > MaxRetries[q]}

Owed(m) ==
    /\ state[m] = "unsent" => attempts[m] = 0
    /\ state[m] = "pending" /\ member[m] = NoDelivery => attempts[m] <= MaxRetries[queue[m]]
    /\ Stored(m) /\ queue[m] \notin Sources =>
          \E q \in Queue : DeadLetter[q] = queue[m] /\ original_attempts[m] > MaxRetries[q]
    /\ state[m] = "parked" =>
          DeadLetter[queue[m]] = NoQueue /\ attempts[m] > MaxRetries[queue[m]]
    /\ state[m] = "pending" /\ MaxConcurrency[queue[m]] = 1 =>
          attempts[m] <= MaxRetries[queue[m]] + 1

SerialSpent ==
    \A q \in Queue : MaxConcurrency[q] = 1 => Cardinality(SpentIn(q)) <= BatchSize[q]

AttemptsInv == (\A m \in Message : Owed(m)) /\ SerialSpent

\* What a step may do to a message, other than claim it.
SameRow(m) ==
    /\ state'[m] = state[m] /\ queue'[m] = queue[m] /\ member'[m] = member[m]
    /\ attempts'[m] = attempts[m] /\ original_attempts'[m] = original_attempts[m]
Sent(m) ==
    /\ state[m] = "unsent" /\ state'[m] = "pending" /\ queue'[m] \in Sources
    /\ attempts'[m] = attempts[m]
GivenUp(m) ==
    /\ state[m] = "pending" /\ attempts[m] > MaxRetries[queue[m]]
    /\ \/ /\ DeadLetter[queue[m]] = NoQueue
          /\ state'[m] = "parked" /\ queue'[m] = queue[m]
          /\ attempts'[m] = attempts[m] /\ original_attempts'[m] = original_attempts[m]
       \/ /\ DeadLetter[queue[m]] # NoQueue
          /\ state'[m] = "pending" /\ queue'[m] = DeadLetter[queue[m]]
          /\ attempts'[m] = 0 /\ original_attempts'[m] = attempts[m]
Returned(m) ==
    /\ state'[m] = state[m] /\ queue'[m] = queue[m]
    /\ attempts'[m] = attempts[m] /\ original_attempts'[m] = original_attempts[m]
    /\ state[m] = "pending" /\ attempts[m] <= MaxRetries[queue[m]]
Dropped(m) == state'[m] = "deleted"

Ordinary(m) == SameRow(m) \/ Sent(m) \/ GivenUp(m) \/ Returned(m) \/ Dropped(m)

\* Whatever that is, the message owes nothing and does not become spent.
LEMMA OrdinaryKeeps ==
    ASSUME TypeOK, NEW m \in Message, Owed(m), Ordinary(m)
    PROVE  Owed(m)' /\ \A q \in Queue : m \in SpentIn(q)' => m \in SpentIn(q)
<1> USE PolicyAssumption
<1>0. attempts[m] \in Nat /\ (Stored(m) => queue[m] \in Queue)
  BY DEF TypeOK
<1>1. CASE SameRow(m)
  <2>1. Owed(m)'
    BY <1>1 DEF SameRow, Owed, Stored
  <2> QED BY <1>1, <2>1 DEF SameRow, SpentIn
<1>2. CASE Sent(m)
  <2>1. attempts'[m] = 0 /\ queue'[m] \in Queue /\ queue'[m] \in Sources /\ state'[m] = "pending"
    BY <1>2 DEF Sent, Owed
  <2>2. MaxRetries[queue'[m]] \in Nat
    BY <2>1
  <2>3. Owed(m)'
    BY <2>1, <2>2 DEF Owed, Stored
  <2>4. \A q \in Queue : ~(m \in SpentIn(q)')
    BY <2>1, <2>2 DEF SpentIn
  <2> QED BY <2>3, <2>4
<1>3. CASE GivenUp(m)
  <2>1. queue[m] \in Queue /\ MaxRetries[queue[m]] \in Nat
    BY <1>0, <1>3 DEF GivenUp, Stored
  <2>2. CASE DeadLetter[queue[m]] = NoQueue
    BY <1>3, <2>1, <2>2 DEF GivenUp, Owed, Stored, SpentIn
  <2>3. CASE DeadLetter[queue[m]] # NoQueue
    <3>1. /\ state'[m] = "pending" /\ queue'[m] = DeadLetter[queue[m]] /\ queue'[m] \in Queue
          /\ attempts'[m] = 0 /\ original_attempts'[m] > MaxRetries[queue[m]]
      BY <1>3, <2>1, <2>3 DEF GivenUp
    <3>2. MaxRetries[queue'[m]] \in Nat
      BY <3>1
    <3>3. Owed(m)'
      BY <2>1, <3>1, <3>2 DEF Owed, Stored
    <3>4. \A q \in Queue : ~(m \in SpentIn(q)')
      BY <3>1, <3>2 DEF SpentIn
    <3> QED BY <3>3, <3>4
  <2> QED BY <2>2, <2>3
<1>4. CASE Returned(m)
  <2>1. Owed(m)'
    BY <1>4 DEF Returned, Owed, Stored
  <2> QED BY <1>4, <2>1 DEF Returned, SpentIn
<1>5. CASE Dropped(m)
  BY <1>5 DEF Dropped, Owed, Stored, SpentIn
<1> QED BY <1>1, <1>2, <1>3, <1>4, <1>5 DEF Ordinary

\* Nothing that is given up is spent where it goes.
LEMMA GivenUpIsFresh ==
    ASSUME TypeOK, NEW m \in Message, GivenUp(m), NEW q \in Queue
    PROVE  ~(m \in SpentIn(q)')
<1> USE PolicyAssumption
<1>1. queue[m] \in Queue
  BY DEF TypeOK, GivenUp, Stored
<1>2. state'[m] = "parked" \/ attempts'[m] = 0
  BY DEF GivenUp
<1> QED BY <1>2 DEF SpentIn

\* A step that spends no budget keeps the bound on what is spent.
LEMMA SpentShrinks ==
    ASSUME NEW q \in Queue, SpentIn(q)' \subseteq SpentIn(q),
           Cardinality(SpentIn(q)) <= BatchSize[q]
    PROVE  Cardinality(SpentIn(q)') <= BatchSize[q]
<1>1. IsFiniteSet(SpentIn(q))
  BY FS_Subset, IdentityAssumption DEF SpentIn
<1>2. /\ Cardinality(SpentIn(q)) \in Nat /\ Cardinality(SpentIn(q)') \in Nat
      /\ Cardinality(SpentIn(q)') <= Cardinality(SpentIn(q))
  BY <1>1, FS_Subset, FS_CardinalityType
<1> QED BY <1>2, PolicyAssumption

\* Steps that are ordinary for every message keep the account.
LEMMA AllOrdinary ==
    ASSUME TypeOK, AttemptsInv, \A m \in Message : Ordinary(m)
    PROVE  AttemptsInv'
<1>1. \A m \in Message : Owed(m)'
  BY OrdinaryKeeps DEF AttemptsInv
<1>2. \A q \in Queue : SpentIn(q)' \subseteq SpentIn(q)
  <2> SUFFICES ASSUME NEW q \in Queue, NEW m \in SpentIn(q)' PROVE m \in SpentIn(q)
    OBVIOUS
  <2>1. m \in Message
    BY DEF SpentIn
  <2> QED BY <2>1, OrdinaryKeeps DEF AttemptsInv
<1>3. SerialSpent'
  BY <1>2, SpentShrinks DEF AttemptsInv, SerialSpent
<1> QED BY <1>1, <1>3 DEF AttemptsInv

\* The rows after exhausted(): what is given up, and the rest as it was.
LEMMA ExhaustedRows ==
    ASSUME NEW q \in Queue, NEW A \in SUBSET Message, NEW m \in Message,
           \A n \in A : state[n] = "pending" /\ queue[n] = q /\ attempts[n] > MaxRetries[q],
           state'[m] = StateAfter(q, A)[m], queue'[m] = QueueAfter(q, A)[m],
           attempts'[m] = AttemptsAfter(q, A)[m],
           original_attempts'[m] = OriginalAfter(q, A)[m]
    PROVE  IF m \in A THEN GivenUp(m)
           ELSE /\ state'[m] = state[m] /\ queue'[m] = queue[m]
                /\ attempts'[m] = attempts[m] /\ original_attempts'[m] = original_attempts[m]
<1>1. CASE m \notin A
  BY <1>1 DEF StateAfter, QueueAfter, AttemptsAfter, OriginalAfter, Parked, Forwarded
<1>2. CASE m \in A
  BY <1>2 DEF GivenUp, StateAfter, QueueAfter, AttemptsAfter, OriginalAfter, Parked, Forwarded
<1> QED BY <1>1, <1>2

\* A claim that finds nothing is ordinary.
LEMMA PollIdleIsOrdinary ==
    ASSUME IInv, NEW r \in Run, PollIdle(r), NEW m \in Message
    PROVE  Ordinary(m)
<1> DEFINE q == QueueOf[r]
<1>1. q \in Queue
  BY PolicyAssumption
<1>2. PICK A \in OldestOf(Abandoned(q), BatchSize[q]) : GiveUp(r, A)
  BY DEF PollIdle
<1>3. /\ A \in SUBSET Message
      /\ \A n \in A : state[n] = "pending" /\ queue[n] = q /\ attempts[n] > MaxRetries[q]
  BY <1>1, PicksToGiveUp
<1>4. member'[m] = MemberAfter(A)[m]
  BY <1>2 DEF GiveUp
<1>5. m \notin A => member'[m] = member[m]
  BY <1>4 DEF MemberAfter
<1>6. IF m \in A THEN GivenUp(m)
      ELSE /\ state'[m] = state[m] /\ queue'[m] = queue[m]
           /\ attempts'[m] = attempts[m] /\ original_attempts'[m] = original_attempts[m]
  BY <1>1, <1>2, <1>3, ExhaustedRows DEF GiveUp
<1> QED BY <1>5, <1>6 DEF Ordinary, SameRow

\* So is a settlement.
LEMMA SettleIsOrdinary ==
    ASSUME IInv, NEW r \in Run, Settle(r), NEW m \in Message
    PROVE  Ordinary(m)
<1> DEFINE q == QueueOf[r]
<1>1. q \in Queue
  BY PolicyAssumption
<1>2. /\ Rows(r) \in SUBSET Message
      /\ Acked(r) \in SUBSET Rows(r)
      /\ Spent(r) \in SUBSET (Rows(r) \ Acked(r))
      /\ \A n \in Rows(r) : /\ state[n] = "pending" /\ queue[n] = q
                            /\ attempts[n] = seen[r][n]
  BY SettledRows DEF Settle
<1>3. \A n \in Spent(r) : state[n] = "pending" /\ queue[n] = q /\ attempts[n] > MaxRetries[q]
  BY <1>2 DEF Spent
<1>4. CASE m \in Acked(r)
  BY <1>4 DEF Settle, Ordinary, Dropped
<1>5. CASE m \notin Acked(r)
  <2>1. IF m \in Spent(r) THEN GivenUp(m)
        ELSE /\ state'[m] = state[m] /\ queue'[m] = queue[m]
             /\ attempts'[m] = attempts[m] /\ original_attempts'[m] = original_attempts[m]
    BY <1>1, <1>2, <1>3, <1>5, ExhaustedRows DEF Settle
  <2>2. CASE m \in Spent(r)
    BY <2>1, <2>2 DEF Ordinary
  <2>3. CASE m \in Rows(r) \ Spent(r)
    <3>1. attempts[m] \in Nat /\ MaxRetries[q] \in Nat
      BY <1>1, PolicyAssumption DEF IInv, TypeOK
    <3>2. attempts[m] <= MaxRetries[queue[m]]
      BY <1>2, <1>5, <2>3, <3>1 DEF Spent
    <3> QED BY <1>2, <2>1, <2>3, <3>2 DEF Ordinary, Returned
  <2>4. CASE m \notin Rows(r)
    <3>1. member'[m] = member[m]
      BY <2>4 DEF Settle, MemberAfter
    <3> QED BY <1>2, <2>1, <2>4, <3>1 DEF Ordinary, SameRow
  <2> QED BY <2>2, <2>3, <2>4
<1> QED BY <1>4, <1>5

\* A claim in a serial queue gives up everything that is spent there.
LEMMA SerialClaimGivesUp ==
    ASSUME IInv, AttemptsInv, NEW q \in Queue, MaxConcurrency[q] = 1,
           NEW A \in OldestOf(Abandoned(q), BatchSize[q]), ~AtCapacity(q, A)
    PROVE  SpentIn(q) \subseteq A
<1> USE PolicyAssumption
<1> DEFINE D == {d \in DeliveriesAfter(A) : dqueue[d] = q /\ left[d] > 0}
<1>1. A \in SUBSET Message /\ \A m \in A : left[member[m]] = 0
  BY PicksToGiveUp
<1>2. D = {}
  <2>1. D \in SUBSET Delivery
    BY DEF DeliveriesAfter, IInv, TypeOK
  <2>2. IsFiniteSet(D) /\ Cardinality(D) \in Nat
    BY <2>1, IdentityAssumption, FS_Subset, FS_CardinalityType
  <2>3. ~(Cardinality(D) >= 1)
    BY DEF AtCapacity
  <2>4. Cardinality(D) = 0
    BY <2>2, <2>3
  <2> QED BY <2>2, <2>4, FS_EmptySet
<1>3. SpentIn(q) = Abandoned(q)
  <2>1. ASSUME NEW m \in SpentIn(q) PROVE m \in Abandoned(q)
    <3>1. m \in Message /\ state[m] = "pending" /\ queue[m] = q /\ attempts[m] > MaxRetries[q]
      BY <2>1 DEF SpentIn
    <3>2. attempts[m] \in Nat /\ MaxRetries[q] \in Nat
      BY <3>1 DEF IInv, TypeOK
    <3>3. member[m] # NoDelivery
      BY <3>1, <3>2 DEF AttemptsInv, Owed
    <3>4. member[m] \in deliveries /\ dqueue[member[m]] = q /\ member[m] \in Delivery
      BY <3>1, <3>3 DEF IInv, TableInv, TypeOK
    <3>5. CASE left[member[m]] > 0
      <4>1. m \notin A
        BY <1>1, <3>5
      <4>2. member[m] \in D
        BY <3>1, <3>4, <3>5, <4>1 DEF DeliveriesAfter
      <4> QED BY <1>2, <4>2
    <3>6. CASE ~(left[member[m]] > 0)
      <4>1. left[member[m]] = 0
        BY <3>4, <3>6, TimeAssumption DEF IInv, TypeOK
      <4> QED BY <3>1, <3>3, <4>1 DEF Abandoned
    <3> QED BY <3>5, <3>6
  <2>2. ASSUME NEW m \in Abandoned(q) PROVE m \in SpentIn(q)
    BY <2>2 DEF Abandoned, SpentIn, IInv, TableInv
  <2> QED BY <2>1, <2>2
<1>4. Cardinality(Abandoned(q)) <= BatchSize[q]
  BY <1>3 DEF AttemptsInv, SerialSpent
<1>5. A = Abandoned(q)
  <2>1. A \subseteq Abandoned(q) /\ (A = Abandoned(q) \/ Cardinality(A) = BatchSize[q])
    BY DEF OldestOf
  <2>2. IsFiniteSet(Abandoned(q))
    BY FS_Subset, IdentityAssumption DEF Abandoned
  <2>3. CASE Cardinality(A) = BatchSize[q]
    <3>1. /\ Cardinality(A) \in Nat /\ Cardinality(Abandoned(q)) \in Nat
          /\ Cardinality(A) <= Cardinality(Abandoned(q))
      BY <2>1, <2>2, FS_Subset, FS_CardinalityType
    <3>2. Cardinality(A) = Cardinality(Abandoned(q))
      BY <1>4, <2>3, <3>1
    <3> QED BY <2>1, <2>2, <3>2, FS_Subset
  <2> QED BY <2>1, <2>3
<1> QED BY <1>3, <1>5

\* A claim spends one attempt, after it gave up what had none left.
LEMMA ClaimKeepsAttempts ==
    ASSUME IInv, AttemptsInv, NEW r \in Run, NEW d \in Delivery, PollClaim(r, d)
    PROVE  AttemptsInv'
<1> USE PolicyAssumption
<1> DEFINE q == QueueOf[r]
<1>1. q \in Queue /\ MaxRetries[q] \in Nat /\ TypeOK
  BY DEF IInv
<1>2. PICK A \in OldestOf(Abandoned(q), BatchSize[q]) :
      \E B \in OldestOf(Ready(q, A), BatchSize[q]) : ClaimBatch(r, d, A, B)
  BY DEF PollClaim
<1>3. PICK B \in OldestOf(Ready(q, A), BatchSize[q]) : ClaimBatch(r, d, A, B)
  BY <1>2
<1>4. /\ A \in SUBSET Message /\ B \in SUBSET Message
      /\ \A m \in A : state[m] = "pending" /\ queue[m] = q /\ attempts[m] > MaxRetries[q]
      /\ \A m \in B : m \notin A /\ state[m] = "pending" /\ queue[m] = q
  BY <1>1, Picks
<1>5. ASSUME NEW m \in Message \ B
      PROVE  Ordinary(m) /\ (m \in A => GivenUp(m))
  <2>1. IF m \in A THEN GivenUp(m)
        ELSE /\ state'[m] = state[m] /\ queue'[m] = queue[m]
             /\ attempts'[m] = attempts[m] /\ original_attempts'[m] = original_attempts[m]
    BY <1>1, <1>3, <1>4, ExhaustedRows DEF ClaimBatch
  <2>2. m \notin A => member'[m] = member[m]
    BY <1>3 DEF ClaimBatch, MemberAfter
  <2> QED BY <2>1, <2>2 DEF Ordinary, SameRow
<1>6. ASSUME NEW m \in B
      PROVE  /\ state'[m] = "pending" /\ queue'[m] = q /\ member'[m] = d
             /\ attempts'[m] = attempts[m] + 1 /\ original_attempts'[m] = original_attempts[m]
  BY <1>3, <1>4 DEF ClaimBatch, StateAfter, QueueAfter, OriginalAfter, Parked, Forwarded
<1>7. MaxConcurrency[q] = 1 => SpentIn(q) \subseteq A
  BY <1>1, <1>3, SerialClaimGivesUp DEF ClaimBatch
<1>8. ASSUME NEW m \in Message PROVE Owed(m)'
  <2>1. CASE m \in B
    <3>1. /\ Owed(m) /\ attempts[m] \in Nat /\ d # NoDelivery
          /\ state[m] = "pending" /\ queue[m] = q
      BY <1>4, <2>1, IdentityAssumption DEF AttemptsInv, IInv, TypeOK
    <3>2. MaxConcurrency[q] = 1 => attempts[m] <= MaxRetries[q]
      BY <1>1, <1>4, <1>7, <2>1, <3>1 DEF SpentIn
    <3> QED BY <1>1, <1>6, <2>1, <3>1, <3>2 DEF Owed, Stored
  <2>2. CASE m \notin B
    BY <1>1, <1>5, <2>2, OrdinaryKeeps DEF AttemptsInv
  <2> QED BY <2>1, <2>2
<1>9. ASSUME NEW p \in Queue, MaxConcurrency[p] = 1
      PROVE  Cardinality(SpentIn(p)') <= BatchSize[p]
  <2>1. CASE p # q
    <3>1. SpentIn(p)' \subseteq SpentIn(p)
      <4> SUFFICES ASSUME NEW m \in SpentIn(p)' PROVE m \in SpentIn(p)
        OBVIOUS
      <4>1. m \in Message /\ queue'[m] = p
        BY DEF SpentIn
      <4>2. m \notin B
        BY <1>6, <2>1, <4>1
      <4> QED BY <1>1, <1>5, <4>1, <4>2, OrdinaryKeeps DEF AttemptsInv
    <3> QED BY <1>9, <3>1, SpentShrinks DEF AttemptsInv, SerialSpent
  <2>2. CASE p = q
    <3>1. SpentIn(q)' \subseteq B
      <4> SUFFICES ASSUME NEW m \in SpentIn(q)', m \notin B PROVE FALSE
        OBVIOUS
      <4>1. m \in Message
        BY DEF SpentIn
      <4>2. m \in SpentIn(q)
        BY <1>1, <1>5, <4>1, OrdinaryKeeps DEF AttemptsInv
      <4>3. GivenUp(m)
        BY <1>5, <1>7, <1>9, <2>2, <4>1, <4>2
      <4> QED BY <1>1, <4>1, <4>3, GivenUpIsFresh
    <3>2. IsFiniteSet(B) /\ Cardinality(B) <= BatchSize[q]
      BY <1>4, FS_Subset, IdentityAssumption DEF OldestOf
    <3>3. /\ Cardinality(B) \in Nat /\ Cardinality(SpentIn(q)') \in Nat
          /\ Cardinality(SpentIn(q)') <= Cardinality(B)
      BY <3>1, <3>2, FS_Subset, FS_CardinalityType
    <3> QED BY <1>1, <2>2, <3>2, <3>3
  <2> QED BY <2>1, <2>2
<1> QED BY <1>8, <1>9 DEF AttemptsInv, SerialSpent

\* Every step keeps the account of the attempts.
LEMMA AttemptsStep == IInv /\ AttemptsInv /\ [Next]_vars => AttemptsInv'
<1> SUFFICES ASSUME IInv, AttemptsInv, [Next]_vars PROVE AttemptsInv'
  OBVIOUS
<1>0. TypeOK
  BY DEF IInv
<1>1. ASSUME UNCHANGED <<state, queue, attempts, original_attempts, member>>
      PROVE  AttemptsInv'
  <2>1. \A m \in Message : Ordinary(m)
    BY <1>1 DEF Ordinary, SameRow
  <2> QED BY <1>0, <2>1, AllOrdinary
<1>2. ASSUME UNCHANGED table PROVE AttemptsInv'
  BY <1>1, <1>2 DEF table
<1>3. ASSUME NEW q \in Sources, NEW S \in SUBSET Message, Send(q, S)
      PROVE  AttemptsInv'
  <2>1. \A m \in Message : Ordinary(m)
    BY <1>3 DEF Send, Ordinary, SameRow, Sent
  <2> QED BY <1>0, <2>1, AllOrdinary
<1>4. ASSUME NEW r \in Run, PollIdle(r) \/ Settle(r) PROVE AttemptsInv'
  BY <1>0, <1>4, PollIdleIsOrdinary, SettleIsOrdinary, AllOrdinary
<1>5. ASSUME NEW r \in Run, NEW choice \in {"ack", "retry"},
             (\E m \in Message : Decide(r, m, choice)) \/ DecideAll(r, choice)
      PROVE  UNCHANGED table
  BY <1>5 DEF Decide, DecideAll
<1>6. ASSUME NEW r \in Run,
             \/ \E failed \in BOOLEAN : ConsumerEnds(r, failed)
             \/ Abort(r) \/ ConsumerExits(r) \/ DecodeFails(r)
             \/ SettleRefused(r) \/ SettleFails(r)
      PROVE  UNCHANGED table
  BY <1>6 DEF ConsumerEnds, Abort, Finish, ConsumerExits, DecodeFails, SettleRefused, SettleFails
<1>7. ASSUME NEW p \in Process, Crash(p) PROVE UNCHANGED table
  BY <1>7 DEF Crash
<1>8. CASE Tick
  BY <1>1, <1>8 DEF Tick
<1>9. CASE UNCHANGED vars
  BY <1>2, <1>9 DEF vars
<1> QED
  BY <1>2, <1>3, <1>4, <1>5, <1>6, <1>7, <1>8, <1>9, ClaimKeepsAttempts DEF Next

\* A message is dead only when it has spent every attempt its policy grants,
\* and in a serial queue never gets one more (the two comparisons with
\* max_retries, in claim() and in settle() of pg-queue.ts).
THEOREM AttemptsAreAccounted == Spec => []AttemptsAccounted
<1>1. Init => AttemptsInv
  <2> SUFFICES ASSUME Init PROVE AttemptsInv
    OBVIOUS
  <2>1. \A m \in Message : Owed(m)
    BY DEF Init, Owed, Stored
  <2>2. \A q \in Queue : SpentIn(q) = {}
    BY DEF Init, SpentIn
  <2>3. \A q \in Queue : Cardinality(SpentIn(q)) = 0 /\ BatchSize[q] \in Nat
    BY <2>2, FS_EmptySet, PolicyAssumption
  <2> QED BY <2>1, <2>3 DEF AttemptsInv, SerialSpent
<1>2. IInv /\ AttemptsInv /\ [Next]_vars => AttemptsInv'
  BY AttemptsStep
<1>3. AttemptsInv => AttemptsAccounted
  BY DEF AttemptsInv, Owed, AttemptsAccounted, DeadOnlyWhenSpent, SerialWithinPolicy
<1> QED BY <1>1, <1>2, <1>3, Fenced, PTL DEF Spec
-----------------------------------------------------------------------------
(* The limit on deliveries.  The claims count before they take, and nothing *)
(* else brings a delivery to life.                                          *)

LiveOf(q) == {d \in deliveries : dqueue[d] = q /\ left[d] > 0}

WithinConcurrency == \A q \in Queue : Cardinality(LiveOf(q)) <= MaxConcurrency[q]

\* The live deliveries are finitely many, then and now.
LEMMA LiveFinite ==
    ASSUME TypeOK, NEW q
    PROVE  IsFiniteSet(LiveOf(q)) /\ Cardinality(LiveOf(q)) \in Nat
<1>1. LiveOf(q) \in SUBSET Delivery
  BY DEF LiveOf, TypeOK
<1> QED BY <1>1, IdentityAssumption, FS_Subset, FS_CardinalityType

\* A step that brings none to life keeps the limit.
LEMMA FewerIsWithin ==
    ASSUME TypeOK, WithinConcurrency, \A q \in Queue : LiveOf(q)' \subseteq LiveOf(q)
    PROVE  WithinConcurrency'
<1> SUFFICES ASSUME NEW q \in Queue
             PROVE  Cardinality(LiveOf(q)') <= MaxConcurrency[q]
  BY DEF WithinConcurrency
<1>1. IsFiniteSet(LiveOf(q)) /\ Cardinality(LiveOf(q)) \in Nat
  BY LiveFinite
<1>2. LiveOf(q)' \in SUBSET LiveOf(q)
  OBVIOUS
<1>3. IsFiniteSet(LiveOf(q)') /\ Cardinality(LiveOf(q)') <= Cardinality(LiveOf(q))
  BY <1>1, <1>2, FS_Subset
<1>4. Cardinality(LiveOf(q)') \in Nat
  BY <1>3, FS_CardinalityType
<1>5. Cardinality(LiveOf(q)) <= MaxConcurrency[q] /\ MaxConcurrency[q] \in Nat
  BY PolicyAssumption DEF WithinConcurrency
<1> QED BY <1>1, <1>3, <1>4, <1>5

\* The deliveries that are left when a message is moved are of the same queues.
LEMMA CleanupKeepsQueues ==
    ASSUME TypeOK, NEW A, NEW d \in DeliveriesAfter(A)
    PROVE  d \in deliveries /\ d \in Delivery /\ QueuesOf(DeliveriesAfter(A))[d] = dqueue[d]
BY DEF TypeOK, DeliveriesAfter, QueuesOf

\* A claim adds one delivery to its queue, below the limit.
LEMMA ClaimIsWithin ==
    ASSUME TypeOK, WithinConcurrency, NEW r \in Run, NEW d \in Delivery, PollClaim(r, d)
    PROVE  WithinConcurrency'
<1>1. PICK A \in OldestOf(Abandoned(QueueOf[r]), BatchSize[QueueOf[r]]) :
      \E B \in OldestOf(Ready(QueueOf[r], A), BatchSize[QueueOf[r]]) : ClaimBatch(r, d, A, B)
  BY DEF PollClaim
<1>2. /\ deliveries' = DeliveriesAfter(A) \cup {d}
      /\ dqueue' = [QueuesOf(DeliveriesAfter(A)) EXCEPT ![d] = QueueOf[r]]
      /\ left' = [left EXCEPT ![d] = Lease]
      /\ ~AtCapacity(QueueOf[r], A)
  BY <1>1 DEF ClaimBatch
<1>3. ASSUME NEW q \in Queue
      PROVE  LiveOf(q)' \subseteq {x \in DeliveriesAfter(A) : dqueue[x] = q /\ left[x] > 0}
                                   \cup (IF q = QueueOf[r] THEN {d} ELSE {})
  <2> SUFFICES ASSUME NEW x \in deliveries', dqueue'[x] = q, left'[x] > 0, x # d
               PROVE  x \in DeliveriesAfter(A) /\ dqueue[x] = q /\ left[x] > 0
    <3>1. d \in LiveOf(q)' => q = QueueOf[r]
      BY <1>2 DEF LiveOf, QueuesOf
    <3> QED BY <3>1 DEF LiveOf
  <2>1. x \in DeliveriesAfter(A)
    BY <1>2
  <2>2. x \in Delivery /\ QueuesOf(DeliveriesAfter(A))[x] = dqueue[x]
    BY <2>1, CleanupKeepsQueues
  <2>3. dqueue'[x] = dqueue[x]
    BY <1>2, <2>2 DEF QueuesOf
  <2>4. left'[x] = left[x]
    BY <1>2, <2>2 DEF TypeOK
  <2> QED BY <2>1, <2>3, <2>4
<1> SUFFICES ASSUME NEW q \in Queue
             PROVE  Cardinality(LiveOf(q)') <= MaxConcurrency[q]
  BY DEF WithinConcurrency
<1> DEFINE D == {x \in DeliveriesAfter(A) : dqueue[x] = q /\ left[x] > 0}
<1>4. D \in SUBSET LiveOf(q)
  BY CleanupKeepsQueues DEF LiveOf
<1>5. IsFiniteSet(LiveOf(q)) /\ Cardinality(LiveOf(q)) \in Nat
  BY LiveFinite
<1>6. IsFiniteSet(D) /\ Cardinality(D) <= Cardinality(LiveOf(q))
  BY <1>4, <1>5, FS_Subset
<1>7. Cardinality(D) \in Nat
  BY <1>6, FS_CardinalityType
<1>8. MaxConcurrency[q] \in Nat /\ Cardinality(LiveOf(q)) <= MaxConcurrency[q]
  BY PolicyAssumption DEF WithinConcurrency
<1>9. CASE q = QueueOf[r]
  <2>1. Cardinality(D) + 1 <= MaxConcurrency[q]
    <3>1. ~(Cardinality(D) >= MaxConcurrency[q])
      BY <1>2, <1>9 DEF AtCapacity
    <3> QED BY <3>1, <1>7, <1>8
  <2>2. LiveOf(q)' \in SUBSET (D \cup {d})
    BY <1>3, <1>9
  <2>3. IsFiniteSet(D \cup {d}) /\ Cardinality(D \cup {d}) <= Cardinality(D) + 1
        /\ Cardinality(D \cup {d}) \in Nat
    <3>1. /\ IsFiniteSet(D \cup {d})
          /\ Cardinality(D \cup {d}) = IF d \in D THEN Cardinality(D) ELSE Cardinality(D) + 1
      BY <1>6, FS_AddElement
    <3> HIDE DEF D
    <3> QED BY <3>1, <1>7
  <2>4. IsFiniteSet(LiveOf(q)') /\ Cardinality(LiveOf(q)') <= Cardinality(D \cup {d})
    BY <2>2, <2>3, FS_Subset
  <2>5. Cardinality(LiveOf(q)') \in Nat
    BY <2>4, FS_CardinalityType
  <2> HIDE DEF D
  <2> QED BY <2>1, <2>3, <2>4, <2>5, <1>7, <1>8
<1>10. CASE q # QueueOf[r]
  <2>1. LiveOf(q)' \in SUBSET LiveOf(q)
    BY <1>3, <1>4, <1>10
  <2>2. IsFiniteSet(LiveOf(q)') /\ Cardinality(LiveOf(q)') <= Cardinality(LiveOf(q))
    BY <2>1, <1>5, FS_Subset
  <2>3. Cardinality(LiveOf(q)') \in Nat
    BY <2>2, FS_CardinalityType
  <2> QED BY <2>2, <2>3, <1>5, <1>8
<1> QED BY <1>9, <1>10

\* Every step keeps the limit.
LEMMA WithinStep ==
    ASSUME TypeOK, WithinConcurrency, [Next]_vars
    PROVE  WithinConcurrency'
<1>1. CASE UNCHANGED lease
  <2>1. \A q \in Queue : LiveOf(q)' = LiveOf(q)
    BY <1>1 DEF lease, LiveOf
  <2> QED BY <2>1, FewerIsWithin
<1>2. ASSUME NEW r \in Run, PollIdle(r)
      PROVE  WithinConcurrency'
  <2>1. PICK A \in OldestOf(Abandoned(QueueOf[r]), BatchSize[QueueOf[r]]) : GiveUp(r, A)
    BY <1>2 DEF PollIdle
  <2>2. /\ deliveries' = DeliveriesAfter(A)
        /\ dqueue' = QueuesOf(DeliveriesAfter(A))
        /\ left' = left
    BY <2>1 DEF GiveUp
  <2>3. \A q \in Queue : LiveOf(q)' \subseteq LiveOf(q)
    BY <2>2, CleanupKeepsQueues DEF LiveOf
  <2> QED BY <2>3, FewerIsWithin
<1>3. ASSUME NEW r \in Run, Settle(r)
      PROVE  WithinConcurrency'
  <2>1. /\ deliveries' = deliveries \ {held[r]}
        /\ dqueue' = [dqueue EXCEPT ![held[r]] = NoQueue]
        /\ left' = [left EXCEPT ![held[r]] = 0]
    BY <1>3 DEF Settle
  <2>2. \A q \in Queue : LiveOf(q)' \subseteq LiveOf(q)
    BY <2>1 DEF LiveOf, TypeOK
  <2> QED BY <2>2, FewerIsWithin
<1>4. CASE Tick
  <2>1. deliveries' = deliveries /\ dqueue' = dqueue
    BY <1>4 DEF Tick
  <2>2. \A d \in Delivery : left'[d] > 0 => left[d] > 0
    BY <1>4 DEF Tick
  <2>3. \A q \in Queue : LiveOf(q)' \subseteq LiveOf(q)
    BY <2>1, <2>2 DEF LiveOf, TypeOK
  <2> QED BY <2>3, FewerIsWithin
<1>5. ASSUME NEW q \in Sources, NEW S \in SUBSET Message, Send(q, S)
      PROVE  UNCHANGED lease
  BY <1>5 DEF Send
<1>6. ASSUME NEW r \in Run,
             \/ \E failed \in BOOLEAN : ConsumerEnds(r, failed)
             \/ Abort(r) \/ ConsumerExits(r) \/ DecodeFails(r)
             \/ SettleRefused(r) \/ SettleFails(r)
      PROVE  UNCHANGED lease
  BY <1>6 DEF ConsumerEnds, Abort, Finish, ConsumerExits, DecodeFails, SettleRefused, SettleFails
<1>7. ASSUME NEW r \in Run, NEW choice \in {"ack", "retry"},
             (\E m \in Message : Decide(r, m, choice)) \/ DecideAll(r, choice)
      PROVE  UNCHANGED lease
  BY <1>7 DEF Decide, DecideAll
<1>8. ASSUME NEW p \in Process, Crash(p)
      PROVE  UNCHANGED lease
  BY <1>8 DEF Crash
<1>9. CASE UNCHANGED vars
  BY <1>1, <1>9 DEF vars
<1> QED
  BY <1>1, <1>2, <1>3, <1>4, <1>5, <1>6, <1>7, <1>8, <1>9, ClaimIsWithin DEF Next

\* No queue ever has more live deliveries than its policy admits, whichever
\* processes poll it and however many die (max_concurrency in claim()).
THEOREM ConcurrencyIsBounded == Spec => []WithinConcurrency
<1>1. Init => WithinConcurrency
  <2> SUFFICES ASSUME Init, NEW q \in Queue PROVE Cardinality(LiveOf(q)) <= MaxConcurrency[q]
    BY DEF WithinConcurrency
  <2>1. LiveOf(q) = {}
    BY DEF Init, LiveOf
  <2> QED BY <2>1, FS_EmptySet, PolicyAssumption
<1>2. TypeOK /\ WithinConcurrency /\ [Next]_vars => WithinConcurrency'
  BY WithinStep
<1> QED BY <1>1, <1>2, TypeCorrect, PTL DEF Spec
===============================================================================
