------------------------------ MODULE SyncLane ------------------------------
(***************************************************************************)
(* The ledger lanes behind the queue sync-batches: producers enqueue the   *)
(* chunks of a pass (sync-batch-queue.ts), a consumer lands the rows of a  *)
(* chunk and then adds its row count to the tally of the pass              *)
(* (ledger-neon-write.ts, pass-completeness.ts), and a chunk that spends   *)
(* its attempts is preserved by the consumer of the dead letter queue      *)
(* (dead-letter.ts, sync-dead-letter-store.ts).                            *)
(*                                                                         *)
(* The queue itself is QueueCustody, which PgQueue implements: a delivery  *)
(* is a holder, and it may be settled (deadline) or lapse (lease) while    *)
(* the consumer goes on with the messages it was given.                    *)
(*                                                                         *)
(* Definitions introduced as a slip are variants of the one that follows   *)
(* them, as a plausible mistake would make it; no specification uses them. *)
(***************************************************************************)
EXTENDS Integers, FiniteSets

CONSTANTS
    Message, Holder, Queue, Sources, DeadLetter, MaxHolders,
    NoQueue, Nobody, \* as in QueueCustody; a holder is a delivery
    Pass,        \* a captured_at of a lane
    Chunk,       \* the payloads of the messages a pass is packed into
    PassOf,      \* the pass of a chunk
    Rows,        \* syncBatchRowCount of a chunk
    ChunkOf,     \* the chunk a message carries; a resent one is a new message
    Lanes,       \* the writers to consider, see lane
    BatchSize,   \* policy: max_batch_size
    MaxRetries,  \* policy: max_retries of a queue
    Main, Dead,  \* sync-batches and sync-batches-dlq
    NoMessage

ASSUME LaneAssumption ==
    /\ PassOf \in [Chunk -> Pass] /\ IsFiniteSet(Chunk)
    /\ Rows \in [Chunk -> Nat \ {0}]
    /\ ChunkOf \in [Message -> Chunk]
    /\ Lanes \subseteq {"ledger", "positions", "transaction"}
    /\ NoMessage \notin Message
    /\ Nobody \notin Holder
    /\ Queue = {Main, Dead} /\ Main # Dead /\ Sources = {Main}
    /\ Queue \cap {NoQueue, "unsent", "parked", "gone"} = {}
    /\ DeadLetter = [q \in Queue |-> IF q = Main THEN Dead ELSE NoQueue]
    /\ MaxRetries \in [Queue -> Nat]

VARIABLES
    place,      \* where a message is
    holder,     \* and the delivery that has it
    lane,       \* the writer: "ledger" and "positions" land rows and tally in
                \* separate statements, "transaction" in one
    tries,      \* jobs.messages.attempts
    landed,     \* chunks whose rows the store has
    counted,    \* how often a chunk's rows were added to received_rows
    complete,   \* passes with a completed_at
    custodied,  \* messages whose custody envelope is in the key-value store
    observed,   \* the attempts of a message with a stored observation
    attempt,    \* message.attempts of the messages a consumer has yet to decide
    current,    \* the message it works on, or NoMessage
    from,       \* batch.queue, NoQueue without a consumer
    acks        \* the messages of its delivery it acknowledged

custody == <<place, holder>>
store == <<landed, counted, complete>>
quarantine == <<custodied, observed>>
consumer == <<attempt, current, from, acks>>
vars == <<custody, lane, tries, store, quarantine, consumer>>

Custody == INSTANCE QueueCustody

ChunksOf(p) == {c \in Chunk : PassOf[c] = p}
\* The rows of a pass whose chunks were counted n times, as often as they were:
\* received_rows is their number.
RowsOf(p, n) == UNION {{c} \X (1..(n[c] * Rows[c])) : c \in ChunksOf(p)}
ExpectedRows(p) == Cardinality(RowsOf(p, [c \in Chunk |-> 1]))
ReceivedRows(p, n) == Cardinality(RowsOf(p, n))
Batch(h) == {m \in Message : attempt[h][m] > 0}
Preserved(m) == m \in custodied /\ observed[m] # {}

\* Type correctness; and a consumer works only on messages of its batch that it
\* has not decided.
TypeOK ==
    /\ place \in [Message -> {"unsent", Main, Dead, "parked", "gone"}]
    /\ holder \in [Message -> Holder \cup {Nobody}]
    /\ lane \in Lanes
    /\ tries \in [Message -> Nat]
    /\ landed \subseteq Chunk
    /\ counted \in [Chunk -> Nat]
    /\ complete \subseteq Pass
    /\ custodied \subseteq Message
    /\ observed \in [Message -> SUBSET (Nat \ {0})]
    /\ attempt \in [Holder -> [Message -> Nat]]
    /\ current \in [Holder -> Message \cup {NoMessage}]
    /\ from \in [Holder -> Queue \cup {NoQueue}]
    /\ acks \in [Holder -> SUBSET Message]
    /\ \A h \in Holder : current[h] \in Batch(h) \cup {NoMessage}

Init ==
    /\ Custody!Init
    /\ lane \in Lanes
    /\ tries = [m \in Message |-> 0]
    /\ landed = {} /\ complete = {}
    /\ counted = [c \in Chunk |-> 0]
    /\ custodied = {}
    /\ observed = [m \in Message |-> {}]
    /\ attempt = [h \in Holder |-> [m \in Message |-> 0]]
    /\ current = [h \in Holder |-> NoMessage]
    /\ from = [h \in Holder |-> NoQueue]
    /\ acks = [h \in Holder |-> {}]

(***************************************************************************)
(* The queue.                                                              *)
(***************************************************************************)
\* A chunk is posted and stored as a message.  A producer that is not told so
\* sends it again, as another message.
Post(m) ==
    /\ Custody!Deposit(Main, {m})
    /\ UNCHANGED <<lane, tries, store, quarantine, consumer>>

\* claim(): messages whose last attempt was abandoned are given up for dead,
\* others are delivered to an idle consumer.
Claim(q, h, L) ==
    LET E == {m \in Custody!Free(q) : tries[m] > MaxRetries[q]} IN
    /\ Batch(h) = {}
    /\ Cardinality(L) <= BatchSize
    /\ E \cup L # {}
    /\ Custody!Take(q, h, E, L)
    /\ tries' = [m \in Message |->
            IF m \in L THEN tries[m] + 1
            ELSE IF m \in E THEN 0 ELSE tries[m]]
    /\ attempt' = [attempt EXCEPT ![h] =
            [m \in Message |-> IF m \in L THEN tries[m] + 1 ELSE 0]]
    /\ from' = IF L = {} THEN from ELSE [from EXCEPT ![h] = q]
    /\ UNCHANGED <<lane, store, quarantine, current, acks>>

\* settle(): the decisions made so far count, whether the consumer has come to
\* its end or its execution deadline has; what it has not acknowledged is
\* retried, or dead once its attempts are spent.
Settle(h) ==
    LET q == from[h]
        held == Custody!HeldBy(h)
        K == acks[h] \cap held
        E == {m \in held \ K : tries[m] > MaxRetries[q]}
    IN
    /\ q \in Queue
    /\ Custody!Resolve(q, h, K, E)
    /\ tries' = [m \in Message |-> IF m \in K \cup E THEN 0 ELSE tries[m]]
    /\ acks' = [acks EXCEPT ![h] = {}]
    /\ from' = IF Batch(h) = {} THEN [from EXCEPT ![h] = NoQueue] ELSE from
    /\ UNCHANGED <<lane, store, quarantine, attempt, current>>

\* The lease of a delivery runs out; its consumer may not have noticed.
Expire(h) ==
    /\ Custody!HeldBy(h) # {}
    /\ Custody!Lapse({h})
    /\ acks' = [acks EXCEPT ![h] = {}]
    /\ from' = IF Batch(h) = {} THEN [from EXCEPT ![h] = NoQueue] ELSE from
    /\ UNCHANGED <<lane, tries, store, quarantine, attempt, current>>

\* The process of a consumer dies: all it knew is lost.
Die(h) ==
    /\ from[h] \in Queue
    /\ from' = [from EXCEPT ![h] = NoQueue]
    /\ attempt' = [attempt EXCEPT ![h] = [m \in Message |-> 0]]
    /\ current' = [current EXCEPT ![h] = NoMessage]
    /\ acks' = [acks EXCEPT ![h] = {}]
    /\ UNCHANGED <<custody, lane, tries, store, quarantine>>

(***************************************************************************)
(* The consumer: one message of the batch after the other.                 *)
(***************************************************************************)
\* A slip: the message in hand is not put down.
DecideHolding(h, m, decision) ==
    /\ attempt' = [attempt EXCEPT ![h][m] = 0]
    /\ acks' = IF decision = "ack" /\ holder[m] = h
               THEN [acks EXCEPT ![h] = @ \cup {m}] ELSE acks
    /\ UNCHANGED <<current, from>>

\* A message is decided: acknowledged or retried.  A consumer that has decided
\* everything and has lost its delivery is through.
Decide(h, m, decision) ==
    /\ attempt' = [attempt EXCEPT ![h][m] = 0]
    /\ current' = [current EXCEPT ![h] = NoMessage]
    /\ acks' = IF decision = "ack" /\ holder[m] = h
               THEN [acks EXCEPT ![h] = @ \cup {m}] ELSE acks
    /\ from' = IF Batch(h) = {m} /\ Custody!HeldBy(h) = {}
               THEN [from EXCEPT ![h] = NoQueue] ELSE from

\* A slip: the sum is compared with the rows of the request, not of the pass.
TalliedPerChunk(c) ==
    LET p == PassOf[c]
        n == [counted EXCEPT ![c] = @ + 1]
    IN  /\ counted' = n
        /\ complete' = IF ReceivedRows(p, n) >= Rows[c]
                       THEN complete \cup {p} ELSE complete

\* writePassTallyToNeon and passStatement: one upsert adds the rows of a chunk
\* and stamps the pass once the sum reaches what was declared.
Tallied(c) ==
    LET p == PassOf[c]
        n == [counted EXCEPT ![c] = @ + 1]
    IN  /\ counted' = n
        /\ complete' = IF ReceivedRows(p, n) >= ExpectedRows(p)
                       THEN complete \cup {p} ELSE complete

\* A slip: the result of the write is not read.
LandUnread(h, m) ==
    /\ lane # "transaction" /\ from[h] = Main
    /\ current[h] = NoMessage /\ m \in Batch(h)
    /\ landed' \in {landed, landed \cup {ChunkOf[m]}}
    /\ Decide(h, m, "ack")
    /\ UNCHANGED <<custody, lane, tries, counted, complete, quarantine>>

\* The rows of a chunk land, in one or more statements (for positions with the
\* prune and the scan receipts); a failure may come after they were stored.
Land(h, m) ==
    /\ lane # "transaction" /\ from[h] = Main
    /\ current[h] = NoMessage /\ m \in Batch(h)
    /\ \/ /\ landed' = landed \cup {ChunkOf[m]}
          /\ current' = [current EXCEPT ![h] = m]
          /\ UNCHANGED <<attempt, acks, from>>
       \/ /\ landed' \in {landed, landed \cup {ChunkOf[m]}}
          /\ Decide(h, m, "retry")
    /\ UNCHANGED <<custody, lane, tries, counted, complete, quarantine>>

\* A slip: the positions writer does not report its tally either.
TallyUnreported(h) ==
    LET m == current[h] IN
    /\ from[h] = Main /\ m # NoMessage
    /\ Tallied(ChunkOf[m]) \/ UNCHANGED <<counted, complete>>
    /\ Decide(h, m, "ack")
    /\ UNCHANGED <<custody, lane, tries, landed, quarantine>>

\* The tally goes last.  Only the positions writer makes its failure a failure
\* of the message; mirrorLedgerToNeon records it and answers for the rows.
Tally(h) ==
    LET m == current[h] IN
    /\ from[h] = Main /\ m # NoMessage
    /\ \/ Tallied(ChunkOf[m]) /\ Decide(h, m, "ack")
       \/ /\ Tallied(ChunkOf[m]) \/ UNCHANGED <<counted, complete>>
          /\ Decide(h, m, IF lane = "ledger" THEN "ack" ELSE "retry")
    /\ UNCHANGED <<custody, lane, tries, landed, quarantine>>

\* writeLedgerD1 and writeNominatorPositionsD1: rows and tally in a transaction.
Transact(h, m) ==
    /\ lane = "transaction" /\ from[h] = Main /\ m \in Batch(h)
    /\ \/ /\ landed' = landed \cup {ChunkOf[m]}
          /\ Tallied(ChunkOf[m])
          /\ \E decision \in {"ack", "retry"} : Decide(h, m, decision)
       \/ UNCHANGED store /\ Decide(h, m, "retry")
    /\ UNCHANGED <<custody, lane, tries, quarantine>>

(***************************************************************************)
(* The consumer of the dead letter queue: preserveSyncDeadLetter reads the *)
(* custody envelope, lists for an observation (the first it is shown, else *)
(* that of this attempt), reads it, puts what it did not see, the envelope *)
(* first, and reads that back.  Records are never changed or removed and   *)
(* any read may miss what was stored, so whoever runs between these awaits *)
(* adds nothing to what the steps can do together: they are one action.    *)
(***************************************************************************)
Preserve(h, m) ==
    /\ from[h] = Dead /\ m \in Batch(h)
    /\ \E key \in observed[m] \cup {attempt[h][m]} :
        /\ custodied' \in {custodied, custodied \cup {m}}
        /\ observed' \in IF m \in custodied'
                         THEN {observed, [observed EXCEPT ![m] = @ \cup {key}]}
                         ELSE {observed}
        /\ \/ m \in custodied' /\ key \in observed'[m] /\ Decide(h, m, "ack")
           \/ Decide(h, m, "retry")
    /\ UNCHANGED <<custody, lane, tries, store>>

Next ==
    \/ \E m \in Message : Post(m)
    \/ \E q \in Queue, h \in Holder, L \in SUBSET Message : Claim(q, h, L)
    \/ \E h \in Holder : Settle(h) \/ Expire(h) \/ Die(h) \/ Tally(h)
    \/ \E h \in Holder, m \in Message :
        Land(h, m) \/ Transact(h, m) \/ Preserve(h, m)

Spec == Init /\ [][Next]_vars

(***************************************************************************)
(* The runtime as a whole does not stop while a consumer has something to  *)
(* do, a delivery is decided or abandoned, or a message can be claimed.    *)
(***************************************************************************)
Progress ==
    \/ \E h \in Holder :
        \/ Tally(h)
        \/ \E m \in Message : Land(h, m) \/ Transact(h, m) \/ Preserve(h, m)
        \/ Batch(h) = {} /\ Settle(h)
        \/ from[h] = NoQueue /\ Expire(h)
    \/ \E q \in Queue, h \in Holder, L \in SUBSET Message : Claim(q, h, L)

FairSpec == Spec /\ WF_vars(Progress)

(***************************************************************************)
(* Properties.                                                             *)
(***************************************************************************)
\* A message leaves the queues only when the rows of its chunk are stored or it
\* is preserved with an observation of its delivery: across redeliveries, late
\* consumers, failed or half-done writes, lost answers and missed reads nothing
\* a producer handed over disappears (sync-batches and sync-batches-dlq).
NothingLost ==
    \A m \in Message : place[m] = "gone" => ChunkOf[m] \in landed \/ Preserved(m)

\* A pass is stamped complete only when every chunk's rows are stored, unless
\* one of its chunks was counted more than once (the tally of a ledger lane).
CompleteUnlessRepeated ==
    \A p \in complete :
        \/ ChunksOf(p) \subseteq landed
        \/ \E c \in ChunksOf(p) : counted[c] > 1

Posted(p) ==
    \A c \in ChunksOf(p) : \E m \in Message : ChunkOf[m] = c /\ place[m] # "unsent"
Escalated(m) == place[m] \in {Dead, "parked"} \/ m \in custodied
Closes(p) ==
    \/ p \in complete
    \/ \E m \in Message : PassOf[ChunkOf[m]] = p /\ Escalated(m)

\* A pass whose chunks are all posted is completed, unless one of them was given
\* up for dead, for the writers that answer for their tally.
PassCloses == \A p \in Pass : (lane # "ledger" /\ Posted(p)) ~> Closes(p)
=============================================================================
