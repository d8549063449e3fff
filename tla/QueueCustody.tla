---------------------------- MODULE QueueCustody ----------------------------
(***************************************************************************)
(* What a durable queue promises, with no clock, no tables and no          *)
(* processes: every message is in exactly one place, at most one holder    *)
(* has it, a holder gives all its messages up at once, and a message       *)
(* leaves a queue only by its holder's acknowledgment or by escalation to  *)
(* the dead letter queue or the parking place.                             *)
(***************************************************************************)
EXTENDS Integers, FiniteSets

CONSTANTS Message, Holder, Queue, Sources, DeadLetter, MaxHolders,
          NoQueue, Nobody

VARIABLES
    place,  \* "unsent", a queue, "parked" or "gone"
    holder  \* who has the message, or Nobody

custody == <<place, holder>>

HeldBy(h) == {m \in Message : holder[m] = h}
Free(q) == {m \in Message : place[m] = q /\ holder[m] = Nobody}
Holders(q) == {holder[m] : m \in {n \in Message : place[n] = q}} \ {Nobody}
Escalated(q) == IF DeadLetter[q] = NoQueue THEN "parked" ELSE DeadLetter[q]

Init ==
    /\ place = [m \in Message |-> "unsent"]
    /\ holder = [m \in Message |-> Nobody]

\* A producer entrusts the queue with a set of messages, all or none.
Deposit(q, S) ==
    /\ \A m \in S : place[m] = "unsent"
    /\ place' = [m \in Message |-> IF m \in S THEN q ELSE place[m]]
    /\ UNCHANGED holder

\* Messages nobody holds are given up for dead (E), and others (L) are taken
\* by a new holder if the queue admits one more.
Take(q, h, E, L) ==
    /\ E \subseteq Free(q)
    /\ L \subseteq Free(q) \ E
    /\ HeldBy(h) = {}
    /\ L # {} => Cardinality(Holders(q)) < MaxHolders[q]
    /\ place' = [m \in Message |-> IF m \in E THEN Escalated(q) ELSE place[m]]
    /\ holder' = [m \in Message |-> IF m \in L THEN h ELSE holder[m]]

\* A holder settles all it holds: some messages are acknowledged (K), some
\* have spent their attempts (E), the rest go back to the queue.
Resolve(q, h, K, E) ==
    /\ HeldBy(h) # {}
    /\ \A m \in HeldBy(h) : place[m] = q
    /\ K \subseteq HeldBy(h)
    /\ E \subseteq HeldBy(h) \ K
    /\ place' = [m \in Message |->
            IF m \in K THEN "gone"
            ELSE IF m \in E THEN Escalated(q) ELSE place[m]]
    /\ holder' = [m \in Message |-> IF holder[m] = h THEN Nobody ELSE holder[m]]

\* Holders lose their messages, unacknowledged.
Lapse(H) ==
    /\ holder' = [m \in Message |-> IF holder[m] \in H THEN Nobody ELSE holder[m]]
    /\ UNCHANGED place

Next ==
    \/ \E q \in Sources, S \in SUBSET Message : Deposit(q, S)
    \/ \E q \in Queue, h \in Holder, E, L \in SUBSET Message : Take(q, h, E, L)
    \/ \E q \in Queue, h \in Holder, K, E \in SUBSET Message : Resolve(q, h, K, E)
    \/ \E H \in SUBSET Holder : Lapse(H)

Spec == Init /\ [][Next]_custody
=============================================================================
