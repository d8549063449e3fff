--------------------------- MODULE NativeWorkGroup ---------------------------
(***************************************************************************)
(* The lifetime of native work (native-work-group.ts): operations take a   *)
(* slot of their key, each may start one consumer under a deadline, and a  *)
(* slot is given back when both are over, so that a consumer that outlives *)
(* its deadline keeps it.  close() admits nothing more and waits for all   *)
(* of them; at its own deadline it tells every consumer to stop, those     *)
(* that start later included, and fails, and may be called again.          *)
(*                                                                         *)
(* Between a consumer's end and the continuation of its operation, and     *)
(* between invoke() and the consumer's first instruction, only microtasks  *)
(* run: each pair is one step here.                                        *)
(***************************************************************************)
EXTENDS Integers, FiniteSets

CONSTANTS
    Op,             \* identities for calls of run()
    Key,            \* queues, or the one key of the scheduler
    KeyOf,
    MaxConcurrent,  \* of a key
    Call            \* identities for calls of track() that have no slot

ASSUME OpAssumption == IsFiniteSet(Op) /\ KeyOf \in [Op -> Key]
ASSUME SlotAssumption == MaxConcurrent \in [Key -> Nat \ {0}]

VARIABLES
    task,       \* "none"; "operating" before its consumer, "consuming" while it
                \* awaits it, "finishing" after
    running,    \* operations whose consumer has not returned
    aborted,    \* of these, the ones whose signal is aborted
    deaf,       \* and the ones that do not heed it
    counts,     \* slots taken, by key
    calls,      \* tracked calls in progress
    group,      \* "ready", "closing", "closed"
    closing,    \* the promise of close(): "none", "pending", "resolved"
    overdue     \* whether drainReason is set: "no", "yes"

work == <<task, running, aborted, deaf, counts>>
shutdown == <<group, closing, overdue>>
groupVars == <<work, calls, shutdown>>

Occupied(o) == task[o] # "none" \/ o \in running
SlotsOf(k) == {o \in Op : KeyOf[o] = k /\ Occupied(o)}

GroupInit ==
    /\ task = [o \in Op |-> "none"]
    /\ running = {} /\ aborted = {} /\ deaf = {}
    /\ counts = [k \in Key |-> 0]
    /\ calls = {}
    /\ group = "ready" /\ closing = "none" /\ overdue = "no"

-----------------------------------------------------------------------------
(* Operations and their consumers.                                         *)

\* run(): a slot is taken, or the answer is that there is none.
Admit(o) ==
    /\ group = "ready"
    /\ ~Occupied(o)
    /\ counts[KeyOf[o]] < MaxConcurrent[KeyOf[o]]
    /\ counts' = [counts EXCEPT ![KeyOf[o]] = @ + 1]
    /\ task' = [task EXCEPT ![o] = "operating"]
    /\ UNCHANGED <<running, aborted, deaf, calls, shutdown>>

\* A slip: a drain deadline that has passed is not looked at.
InvokeLate(o) ==
    /\ task[o] = "operating"
    /\ task' = [task EXCEPT ![o] = "consuming"]
    /\ running' = running \cup {o}
    /\ deaf' \in {deaf, deaf \cup {o}}
    /\ UNCHANGED <<aborted, counts, calls, shutdown>>

\* scope.invoke(): after the drain deadline the consumer is not started.
Invoke(o) ==
    /\ task[o] = "operating"
    /\ IF overdue = "yes"
       THEN /\ task' = [task EXCEPT ![o] = "finishing"]
            /\ UNCHANGED <<running, deaf>>
       ELSE /\ task' = [task EXCEPT ![o] = "consuming"]
            /\ running' = running \cup {o}
            /\ deaf' \in {deaf, deaf \cup {o}}
    /\ UNCHANGED <<aborted, counts, calls, shutdown>>

\* The consumer cannot be started: its owner admits no job.
InvokeRefused(o) ==
    /\ task[o] = "operating"
    /\ task' = [task EXCEPT ![o] = "finishing"]
    /\ UNCHANGED <<running, aborted, deaf, counts, calls, shutdown>>

\* A slip: the slot is given back with the operation.
ReleasedEarly(o, t, R) ==
    IF t = "none" /\ task[o] # "none" THEN [counts EXCEPT ![KeyOf[o]] = @ - 1] ELSE counts

\* release(): the slot is given back when operation and consumer are over.
Released(o, t, R) ==
    IF t = "none" /\ o \notin R THEN [counts EXCEPT ![KeyOf[o]] = @ - 1] ELSE counts

\* A consumer returns, in time or long after its operation.
Return(o) ==
    /\ o \in running
    /\ running' = running \ {o}
    /\ aborted' = aborted \ {o}
    /\ deaf' = deaf \ {o}
    /\ task' = [task EXCEPT ![o] = IF @ = "consuming" THEN "finishing" ELSE @]
    /\ counts' = Released(o, task'[o], running')
    /\ UNCHANGED <<calls, shutdown>>

\* The execution deadline: the operation goes on without its consumer.
Expire(o) ==
    /\ task[o] = "consuming"
    /\ task' = [task EXCEPT ![o] = "finishing"]
    /\ aborted' = aborted \cup {o}
    /\ UNCHANGED <<running, deaf, counts, calls, shutdown>>

\* An operation ends, after its consumer or without one.
End(o) ==
    /\ task[o] \in {"operating", "finishing"}
    /\ task' = [task EXCEPT ![o] = "none"]
    /\ counts' = Released(o, "none", running)
    /\ UNCHANGED <<running, aborted, deaf, calls, shutdown>>

\* track() of something short, as enqueueing: a transaction.
AdmitCall(c) ==
    /\ group = "ready" /\ c \notin calls
    /\ calls' = calls \cup {c}
    /\ UNCHANGED <<work, shutdown>>

AnswerCall(c) ==
    /\ c \in calls
    /\ calls' = calls \ {c}
    /\ UNCHANGED <<work, shutdown>>

-----------------------------------------------------------------------------
(* close().                                                                *)

CloseGroup ==
    /\ closing = "none"
    /\ group' = IF group = "closed" THEN "closed" ELSE "closing"
    /\ closing' = IF group = "closed" THEN "resolved" ELSE "pending"
    /\ UNCHANGED <<work, calls, overdue>>

Quiet == (\A o \in Op : ~Occupied(o)) /\ calls = {}

\* The drain loop finds nothing active and no consumer.
DrainGroup ==
    /\ group = "closing" /\ Quiet
    /\ group' = "closed"
    /\ closing' = IF closing = "pending" THEN "resolved" ELSE closing
    /\ UNCHANGED <<work, calls, overdue>>

\* The drain deadline: every controller is aborted, close() fails and is
\* forgotten; the drain loop goes on.
GroupDeadline ==
    /\ closing = "pending"
    /\ closing' = "none"
    /\ overdue' = "yes"
    /\ aborted' = running
    /\ task' = [o \in Op |-> IF task[o] = "consuming" THEN "finishing" ELSE task[o]]
    /\ UNCHANGED <<running, deaf, counts, calls, group>>

-----------------------------------------------------------------------------
\* The types; and the count of a key is the number of its slots in use, which
\* never exceeds what the key admits, however operations and consumers end.
GroupTypeOK ==
    /\ task \in [Op -> {"none", "operating", "consuming", "finishing"}]
    /\ running \subseteq Op /\ aborted \subseteq running /\ deaf \subseteq running
    /\ calls \subseteq Call
    /\ group \in {"ready", "closing", "closed"}
    /\ closing \in {"none", "pending", "resolved"}
    /\ overdue \in {"no", "yes"}
    /\ \A k \in Key : /\ counts[k] = Cardinality(SlotsOf(k))
                      /\ counts[k] <= MaxConcurrent[k]
    /\ counts \in [Key -> Nat]
=============================================================================
