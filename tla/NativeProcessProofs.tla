------------------------- MODULE NativeProcessProofs -------------------------
(* Proofs about NativeProcess: the slots are counted, the drain deadline    *)
(* reaches every consumer, and the pool outlives all work, for any numbers  *)
(* of operations, queues, loops, calls and requests.                        *)
EXTENDS NativeProcess, FiniteSetTheorems, TLAPS

GroupTypes ==
    /\ task \in [Op -> {"none", "operating", "consuming", "finishing"}]
    /\ running \subseteq Op /\ aborted \subseteq running /\ deaf \subseteq running
    /\ calls \subseteq Call
    /\ group \in {"ready", "closing", "closed"}
    /\ closing \in {"none", "pending", "resolved"}
    /\ overdue \in {"no", "yes"}
    /\ counts \in [Key -> Nat]

SlotsCounted ==
    \A k \in Key : counts[k] = Cardinality(SlotsOf(k)) /\ counts[k] <= MaxConcurrent[k]

\* An awaited consumer runs; a group that reports itself closed is.
GroupShape ==
    /\ \A o \in Op : task[o] = "consuming" => o \in running
    /\ closing = "resolved" => group = "closed"
    /\ group = "closed" => Quiet
    /\ OverdueReachesAll

GroupInv == GroupTypes /\ GroupShape /\ SlotsCounted

LoopsInv ==
    /\ LoopsTypeOK
    /\ loops \in {"ready", "starting"} => \A l \in Loop : turn[l] = NoOp
    /\ loops = "stopped" => Inactive

ProcessTypes ==
    /\ owner \in {"process", "direct"}
    /\ process \in {"ready", "closing", "closed"}
    /\ drain \in {"none", "stop", "wait", "close"}
    /\ attempt \in {"none", "pending"}
    /\ requests \subseteq Request
    /\ cancelled \subseteq Invocations

\* How far a drain has come is true of the layers, and stays true.
ProcessShape ==
    /\ drain # "none" => process = "closing"
    /\ drain \in {"wait", "close"} \/ process = "closed" => loops = "stopped"
    /\ drain = "close" \/ process = "closed" => requests = {}
    /\ process = "closed" => group = "closed"

IInv == GroupInv /\ LoopsInv /\ ProcessTypes /\ ProcessShape

\* What any step does to the group, and to the loops.
GroupStep ==
    \/ \E o \in Op : Admit(o) \/ Invoke(o) \/ InvokeRefused(o) \/ Return(o) \/ Expire(o) \/ End(o)
    \/ \E c \in Call : AdmitCall(c) \/ AnswerCall(c)
    \/ CloseGroup \/ DrainGroup \/ GroupDeadline
    \/ UNCHANGED groupVars

LoopsStep ==
    \/ Start \/ Registered \/ Stop \/ LoopsDrained \/ StopDeadline
    \/ \E o \in Op : TurnOver(o) \/ \E l \in Loop : Turn(l, o)
    \/ UNCHANGED loopVars

-----------------------------------------------------------------------------
(* The group.                                                              *)

\* The slots of a key are finitely many.
LEMMA SlotsFinite == \A k \in Key : IsFiniteSet(SlotsOf(k))
BY OpAssumption, FS_Subset DEF SlotsOf

\* A count that takes a slot, gives one back, or stays, keeps to its slots.
LEMMA SlotTaken ==
    ASSUME GroupTypes, SlotsCounted, NEW o \in Op, Admit(o)
    PROVE  SlotsCounted'
<1> SUFFICES ASSUME NEW k \in Key
             PROVE  counts'[k] = Cardinality(SlotsOf(k)') /\ counts'[k] <= MaxConcurrent[k]
    BY DEF SlotsCounted
<1>1. IsFiniteSet(SlotsOf(k)) /\ counts[k] = Cardinality(SlotsOf(k)) /\ counts[k] <= MaxConcurrent[k]
    BY SlotsFinite DEF SlotsCounted
<1>2. CASE k = KeyOf[o]
    <2>1. SlotsOf(k)' = SlotsOf(k) \cup {o} /\ o \notin SlotsOf(k)
        BY <1>2 DEF Admit, SlotsOf, Occupied, GroupTypes
    <2>2. Cardinality(SlotsOf(k)') = counts[k] + 1
        BY <1>1, <2>1, FS_AddElement
    <2>3. counts'[k] = counts[k] + 1 /\ counts[k] < MaxConcurrent[k]
        BY <1>2 DEF Admit, GroupTypes
    <2> QED
        BY <2>2, <2>3, SlotAssumption DEF GroupTypes
<1>3. CASE k # KeyOf[o]
    <2>1. SlotsOf(k)' = SlotsOf(k)
        BY <1>3 DEF Admit, SlotsOf, Occupied, GroupTypes
    <2>2. counts'[k] = counts[k]
        BY <1>3 DEF Admit, GroupTypes
    <2> QED
        BY <1>1, <2>1, <2>2
<1> QED
    BY <1>2, <1>3

\* A released slot is one less, and counted as one less.
LEMMA SlotReleased ==
    ASSUME GroupTypes, SlotsCounted, NEW o \in Op, Occupied(o),
           counts' = Released(o, task'[o], running'),
           \A q \in Op \ {o} : Occupied(q)' <=> Occupied(q)
    PROVE  SlotsCounted'
<1> SUFFICES ASSUME NEW k \in Key
             PROVE  counts'[k] = Cardinality(SlotsOf(k)') /\ counts'[k] <= MaxConcurrent[k]
    BY DEF SlotsCounted
<1>1. IsFiniteSet(SlotsOf(k)) /\ counts[k] = Cardinality(SlotsOf(k)) /\ counts[k] <= MaxConcurrent[k]
    BY SlotsFinite DEF SlotsCounted
<1>2. CASE Occupied(o)'
    <2>1. SlotsOf(k)' = SlotsOf(k)
        BY <1>2 DEF SlotsOf
    <2>2. counts' = counts
        BY <1>2 DEF Released, Occupied
    <2> QED
        BY <1>1, <2>1, <2>2
<1>3. CASE ~Occupied(o)' /\ k = KeyOf[o]
    <2>1. SlotsOf(k)' = SlotsOf(k) \ {o} /\ o \in SlotsOf(k)
        BY <1>3 DEF SlotsOf
    <2>2. Cardinality(SlotsOf(k)') = counts[k] - 1
        BY <1>1, <2>1, FS_RemoveElement
    <2>3. counts'[k] = counts[k] - 1
        BY <1>3 DEF Released, Occupied, GroupTypes
    <2> QED
        BY <1>1, <2>2, <2>3, SlotAssumption DEF GroupTypes
<1>4. CASE ~Occupied(o)' /\ k # KeyOf[o]
    <2>1. SlotsOf(k)' = SlotsOf(k)
        BY <1>4 DEF SlotsOf
    <2>2. counts'[k] = counts[k]
        BY <1>4 DEF Released, Occupied, GroupTypes
    <2> QED
        BY <1>1, <2>1, <2>2
<1> QED
    BY <1>2, <1>3, <1>4

\* A slot that is given back was counted.
LEMMA ReleasedNat ==
    ASSUME GroupTypes, SlotsCounted, NEW o \in Op, Occupied(o)
    PROVE  Released(o, task'[o], running') \in [Key -> Nat]
<1>1. KeyOf[o] \in Key /\ o \in SlotsOf(KeyOf[o])
    BY OpAssumption DEF SlotsOf
<1>2. Cardinality(SlotsOf(KeyOf[o])) \in Nat /\ Cardinality(SlotsOf(KeyOf[o])) # 0
    BY <1>1, SlotsFinite, FS_CardinalityType, FS_EmptySet
<1>3. counts[KeyOf[o]] - 1 \in Nat
    BY <1>1, <1>2 DEF SlotsCounted
<1> QED
    BY <1>3 DEF Released, GroupTypes

\* Counts stay right while no slot changes hands.
LEMMA SlotsKept ==
    ASSUME SlotsCounted, counts' = counts, \A q \in Op : Occupied(q)' <=> Occupied(q)
    PROVE  SlotsCounted'
<1>1. \A k \in Key : SlotsOf(k)' = SlotsOf(k)
    BY DEF SlotsOf
<1> QED
    BY <1>1 DEF SlotsCounted

\* The group keeps its invariant.
LEMMA GroupKept ==
    ASSUME GroupInv, GroupStep
    PROVE  GroupInv'
<1> USE DEF GroupInv
<1>1. ASSUME NEW o \in Op, Admit(o) PROVE GroupInv'
    <2> counts' \in [Key -> Nat]
        <3>1. KeyOf[o] \in Key /\ counts[KeyOf[o]] + 1 \in Nat
            BY OpAssumption DEF GroupTypes
        <3> QED
            BY <1>1, <3>1 DEF Admit, GroupTypes
    <2>1. GroupTypes'
        BY <1>1 DEF Admit, GroupTypes, shutdown
    <2>2. GroupShape'
        BY <1>1 DEF Admit, GroupTypes, GroupShape, OverdueReachesAll, shutdown
    <2> QED
        BY <1>1, <2>1, <2>2, SlotTaken
<1>2. ASSUME NEW o \in Op, Invoke(o) PROVE GroupInv'
    <2>1. GroupTypes'
        BY <1>2 DEF Invoke, GroupTypes, shutdown
    <2>2. GroupShape'
        BY <1>2 DEF Invoke, GroupTypes, GroupShape, OverdueReachesAll, Quiet, Occupied, shutdown
    <2>3. counts' = counts /\ \A q \in Op : Occupied(q)' <=> Occupied(q)
        BY <1>2 DEF Invoke, GroupTypes, Occupied
    <2> QED
        BY <2>1, <2>2, <2>3, SlotsKept
<1>3. ASSUME NEW o \in Op, InvokeRefused(o) PROVE GroupInv'
    <2>1. GroupTypes'
        BY <1>3 DEF InvokeRefused, GroupTypes, shutdown
    <2>2. GroupShape'
        BY <1>3 DEF InvokeRefused, GroupTypes, GroupShape, OverdueReachesAll, Quiet, Occupied, shutdown
    <2>3. counts' = counts /\ \A q \in Op : Occupied(q)' <=> Occupied(q)
        BY <1>3 DEF InvokeRefused, GroupTypes, Occupied
    <2> QED
        BY <2>1, <2>2, <2>3, SlotsKept
<1>4. ASSUME NEW o \in Op, Return(o) PROVE GroupInv'
    <2>1. Occupied(o) /\ \A q \in Op \ {o} : Occupied(q)' <=> Occupied(q)
        BY <1>4 DEF Return, GroupTypes, Occupied
    <2>2. counts' = Released(o, task'[o], running')
        BY <1>4 DEF Return
    <2>3. SlotsCounted'
        BY <2>1, <2>2, SlotReleased
    <2>4. counts' \in [Key -> Nat]
        BY <1>4, <2>1, <2>2, ReleasedNat
    <2>5. GroupTypes'
        BY <1>4, <2>4 DEF Return, GroupTypes, shutdown
    <2>6. GroupShape'
        BY <1>4 DEF Return, GroupTypes, GroupShape, OverdueReachesAll, Quiet, Occupied, shutdown
    <2> QED
        BY <2>3, <2>5, <2>6
<1>5. ASSUME NEW o \in Op, Expire(o) PROVE GroupInv'
    <2>1. GroupTypes'
        BY <1>5 DEF Expire, GroupTypes, GroupShape, shutdown
    <2>2. GroupShape'
        BY <1>5 DEF Expire, GroupTypes, GroupShape, OverdueReachesAll, Quiet, Occupied, shutdown
    <2>3. counts' = counts /\ \A q \in Op : Occupied(q)' <=> Occupied(q)
        BY <1>5 DEF Expire, GroupTypes, Occupied
    <2> QED
        BY <2>1, <2>2, <2>3, SlotsKept
<1>6. ASSUME NEW o \in Op, End(o) PROVE GroupInv'
    <2>1. Occupied(o) /\ \A q \in Op \ {o} : Occupied(q)' <=> Occupied(q)
        BY <1>6 DEF End, GroupTypes, Occupied
    <2>2. counts' = Released(o, task'[o], running')
        BY <1>6 DEF End, Released, GroupTypes
    <2>3. SlotsCounted'
        BY <2>1, <2>2, SlotReleased
    <2>4. counts' \in [Key -> Nat]
        BY <2>1, <2>2, ReleasedNat
    <2>5. GroupTypes'
        BY <1>6, <2>4 DEF End, GroupTypes, shutdown
    <2>6. GroupShape'
        BY <1>6 DEF End, GroupTypes, GroupShape, OverdueReachesAll, Quiet, Occupied, shutdown
    <2> QED
        BY <2>3, <2>5, <2>6
<1>7. ASSUME NEW c \in Call, AdmitCall(c) \/ AnswerCall(c) PROVE GroupInv'
    <2>1. GroupTypes'
        BY <1>7 DEF AdmitCall, AnswerCall, GroupTypes, shutdown, work
    <2>2. GroupShape'
        BY <1>7 DEF AdmitCall, AnswerCall, GroupShape, OverdueReachesAll, Quiet, Occupied, shutdown, work
    <2>3. counts' = counts /\ \A q \in Op : Occupied(q)' <=> Occupied(q)
        BY <1>7 DEF AdmitCall, AnswerCall, Occupied, work
    <2> QED
        BY <2>1, <2>2, <2>3, SlotsKept
<1>8. ASSUME CloseGroup \/ DrainGroup \/ UNCHANGED groupVars PROVE GroupInv'
    <2>1. GroupTypes'
        BY <1>8 DEF CloseGroup, DrainGroup, GroupTypes, groupVars, shutdown, work
    <2>2. GroupShape'
        BY <1>8 DEF CloseGroup, DrainGroup, GroupTypes, GroupShape, OverdueReachesAll, Quiet, Occupied, groupVars, shutdown, work
    <2>3. counts' = counts /\ \A q \in Op : Occupied(q)' <=> Occupied(q)
        BY <1>8 DEF CloseGroup, DrainGroup, Occupied, groupVars, shutdown, work
    <2> QED
        BY <2>1, <2>2, <2>3, SlotsKept
<1>9. ASSUME GroupDeadline PROVE GroupInv'
    <2>1. GroupTypes'
        BY <1>9 DEF GroupDeadline, GroupTypes
    <2>2. GroupShape'
        BY <1>9 DEF GroupDeadline, GroupTypes, GroupShape, OverdueReachesAll, Quiet, Occupied
    <2>3. counts' = counts /\ \A q \in Op : Occupied(q)' <=> Occupied(q)
        BY <1>9 DEF GroupDeadline, GroupTypes, Occupied
    <2> QED
        BY <2>1, <2>2, <2>3, SlotsKept
<1> QED
    BY <1>1, <1>2, <1>3, <1>4, <1>5, <1>6, <1>7, <1>8, <1>9 DEF GroupStep

-----------------------------------------------------------------------------
(* The loops and the process.                                              *)

\* The loops keep theirs.
LEMMA LoopsKept ==
    ASSUME LoopsInv, LoopsStep
    PROVE  LoopsInv'
<1> USE DEF LoopsInv, LoopsTypeOK, Inactive
<1>1. ASSUME Start \/ Registered \/ Stop \/ LoopsDrained \/ StopDeadline PROVE LoopsInv'
    BY <1>1 DEF Start, Registered, Stop, LoopsDrained, StopDeadline
<1>2. ASSUME NEW o \in Op, TurnOver(o) PROVE LoopsInv'
    BY <1>2 DEF TurnOver
<1>3. ASSUME NEW o \in Op, NEW l \in Loop, Turn(l, o) PROVE LoopsInv'
    BY <1>3 DEF Turn
<1>4. ASSUME UNCHANGED loopVars PROVE LoopsInv'
    BY <1>4 DEF loopVars
<1> QED
    BY <1>1, <1>2, <1>3, <1>4 DEF LoopsStep

\* A step of the process is one of each layer, or none of it.
LEMMA StepIsLocal ==
    ASSUME [Next]_vars
    PROVE  GroupStep /\ LoopsStep
<1>1. CASE Next
    <2> USE DEF GroupStep, LoopsStep
    <2>1. ASSUME NEW r \in Request, Fetch(r) \/ Respond(r) PROVE GroupStep /\ LoopsStep
        BY <2>1 DEF Fetch, Respond
    <2>2. ASSUME NEW l \in Loop, NEW o \in Op, TakeTurn(l, o) PROVE GroupStep /\ LoopsStep
        BY <2>2 DEF TakeTurn
    <2>3. ASSUME NEW o \in Op, RunDirect(o) \/ Consume(o) \/ ConsumerReturns(o)
                 \/ OperationExpires(o) \/ OperationEnds(o)
          PROVE  GroupStep /\ LoopsStep
        BY <2>3 DEF RunDirect, Consume, ConsumerReturns, OperationExpires, OperationEnds
    <2>4. ASSUME NEW c \in Call, CallGroup(c) \/ CallEnds(c) PROVE GroupStep /\ LoopsStep
        BY <2>4 DEF CallGroup, CallEnds
    <2>5. ASSUME StartLoops \/ SchedulesRegistered \/ Close \/ TurnsOver \/ TurnsOverdue
                 \/ Stopped \/ Waited
          PROVE  GroupStep /\ LoopsStep
        BY <2>5 DEF StartLoops, SchedulesRegistered, Close, TurnsOver, TurnsOverdue, Stopped, Waited
    <2>6. ASSUME CloseDirect \/ WorkOver \/ WorkOverdue \/ EndPool \/ ProcessOverdue
          PROVE  GroupStep /\ LoopsStep
        BY <2>6 DEF CloseDirect, WorkOver, WorkOverdue, EndPool, ProcessOverdue
    <2> QED
        BY <1>1, <2>1, <2>2, <2>3, <2>4, <2>5, <2>6 DEF Next
<1>2. CASE UNCHANGED vars
    BY <1>2 DEF vars, GroupStep, LoopsStep
<1> QED
    BY <1>1, <1>2

\* Nothing is undone: loops that have stopped stay so, a closed group too.
LEMMA LayersStayDown ==
    ASSUME GroupInv, LoopsInv, GroupStep, LoopsStep
    PROVE  /\ loops = "stopped" => loops' = "stopped"
           /\ group = "closed" => group' = "closed"
<1>1. loops = "stopped" => loops' = "stopped"
    BY DEF LoopsInv, LoopsTypeOK, Inactive, LoopsStep, Start, Registered, Stop, LoopsDrained,
           StopDeadline, TurnOver, Turn, loopVars
<1>2. group = "closed" => group' = "closed"
    BY DEF GroupStep, Admit, Invoke, InvokeRefused, Return, Expire, End, AdmitCall, AnswerCall,
           CloseGroup, DrainGroup, GroupDeadline, groupVars, shutdown
<1> QED
    BY <1>1, <1>2

\* How far the drain has come stays true of the layers.
LEMMA ProcessKept ==
    ASSUME IInv, [Next]_vars, GroupInv', LoopsInv'
    PROVE  ProcessTypes' /\ ProcessShape'
<1> DEFINE Goal == ProcessTypes' /\ ProcessShape'
<1> USE DEF ProcessTypes, ProcessShape, Invocations
<1>0. ProcessTypes /\ ProcessShape /\ GroupInv /\ LoopsInv
    BY DEF IInv
<1>1. /\ loops = "stopped" => loops' = "stopped"
      /\ group = "closed" => group' = "closed"
    BY <1>0, StepIsLocal, LayersStayDown
<1>2. ASSUME NEW r \in Request, Fetch(r) \/ Respond(r) PROVE Goal
    BY <1>0, <1>2 DEF Fetch, Respond, groupVars, loopVars, work, shutdown
<1>3. ASSUME NEW l \in Loop, NEW o \in Op, TakeTurn(l, o) PROVE Goal
    BY <1>0, <1>1, <1>3 DEF TakeTurn, Admit, processVars
<1>4. ASSUME NEW o \in Op, RunDirect(o) PROVE Goal
    BY <1>0, <1>1, <1>4 DEF RunDirect, Admit, processVars
<1>5. ASSUME NEW o \in Op, Consume(o) PROVE Goal
    BY <1>0, <1>1, <1>5 DEF Consume, Invoke, InvokeRefused, processVars
<1>6. ASSUME NEW o \in Op, ConsumerReturns(o) PROVE Goal
    BY <1>0, <1>1, <1>6 DEF ConsumerReturns, Return
<1>7. ASSUME NEW o \in Op, OperationExpires(o) \/ OperationEnds(o) PROVE Goal
    BY <1>0, <1>1, <1>7 DEF OperationExpires, OperationEnds, Expire, End, processVars
<1>8. ASSUME NEW c \in Call, CallGroup(c) \/ CallEnds(c) PROVE Goal
    BY <1>0, <1>1, <1>8 DEF CallGroup, CallEnds, AdmitCall, AnswerCall, processVars, work
<1>9. ASSUME StartLoops \/ SchedulesRegistered PROVE Goal
    BY <1>0, <1>1, <1>9 DEF StartLoops, SchedulesRegistered, groupVars, processVars, work
<1>10. ASSUME Close PROVE Goal
    BY <1>0, <1>1, <1>10 DEF Close, groupVars, work
<1>11. ASSUME TurnsOver \/ TurnsOverdue \/ Stopped PROVE Goal
    BY <1>0, <1>1, <1>11 DEF TurnsOver, TurnsOverdue, Stopped, DrainFails, groupVars, processVars, work
<1>12. ASSUME Waited PROVE Goal
    <2>1. running' = running
        BY <1>12 DEF Waited, CloseGroup, groupVars, work
    <2> QED
        BY <1>0, <1>1, <1>12, <2>1 DEF Waited
<1>13. ASSUME CloseDirect \/ WorkOver PROVE Goal
    BY <1>0, <1>1, <1>13 DEF CloseDirect, WorkOver, CloseGroup, DrainGroup, processVars, work
<1>14. ASSUME WorkOverdue PROVE Goal
    BY <1>0, <1>1, <1>14 DEF WorkOverdue, DrainFails, GroupDeadline
<1>15. ASSUME EndPool PROVE Goal
    <2>1. group = "closed"
        BY <1>0, <1>15 DEF EndPool, GroupInv, GroupShape
    <2> QED
        BY <1>0, <1>1, <1>15, <2>1 DEF EndPool, groupVars, work
<1>16. ASSUME ProcessOverdue PROVE Goal
    BY <1>0, <1>1, <1>16 DEF ProcessOverdue, groupVars, work
<1>17. ASSUME UNCHANGED vars PROVE Goal
    BY <1>0, <1>1, <1>17 DEF vars, processVars, groupVars, work
<1> QED
    BY <1>2, <1>3, <1>4, <1>5, <1>6, <1>7, <1>8, <1>9, <1>10, <1>11, <1>12, <1>13, <1>14, <1>15,
       <1>16, <1>17 DEF Next

-----------------------------------------------------------------------------
(* Theorems.                                                               *)

\* What the drains rely on is inductive: slots and shapes of the three layers.
THEOREM InductiveInvariant == Spec => []IInv
<1>1. Init => IInv
    <2> SUFFICES ASSUME Init PROVE IInv
        OBVIOUS
    <2> USE DEF Init, GroupInit, LoopsInit
    <2>1. GroupTypes /\ GroupShape
        BY DEF GroupTypes, GroupShape, OverdueReachesAll
    <2>2. SlotsCounted
        <3>1. \A k \in Key : SlotsOf(k) = {}
            BY DEF SlotsOf, Occupied
        <3> QED
            BY <3>1, FS_EmptySet, SlotAssumption DEF SlotsCounted
    <2>3. LoopsInv
        BY DEF LoopsInv, LoopsTypeOK
    <2>4. ProcessTypes /\ ProcessShape
        BY OwnerAssumption DEF ProcessTypes, ProcessShape
    <2> QED
        BY <2>1, <2>2, <2>3, <2>4 DEF IInv, GroupInv
<1>2. IInv /\ [Next]_vars => IInv'
    <2> SUFFICES ASSUME IInv, [Next]_vars PROVE IInv'
        OBVIOUS
    <2>1. GroupInv' /\ LoopsInv'
        BY StepIsLocal, GroupKept, LoopsKept DEF IInv
    <2>2. ProcessTypes' /\ ProcessShape'
        BY <2>1, ProcessKept
    <2> QED
        BY <2>1, <2>2 DEF IInv
<1> QED
    BY <1>1, <1>2, PTL DEF Spec

\* Types, and every queue's count is the number of slots that operations and
\* consumers which outlived them hold, and never above what the queue admits.
THEOREM TypeCorrect == Spec => []TypeOK
<1>1. IInv => TypeOK
    BY DEF IInv, GroupInv, GroupTypes, SlotsCounted, LoopsInv, ProcessTypes, TypeOK, GroupTypeOK
<1> QED
    BY <1>1, InductiveInvariant, PTL

\* No work is left when a group reports itself closed or a process ends its
\* pool, whichever deadlines have passed and however often close() was called.
THEOREM PoolIsLast == Spec => []PoolOutlivesWork
<1>1. IInv => PoolOutlivesWork
    BY DEF IInv, GroupInv, GroupShape, LoopsInv, ProcessShape, PoolOutlivesWork
<1> QED
    BY <1>1, InductiveInvariant, PTL

\* The drain deadline of a group reaches every consumer, before and after it.
THEOREM DeadlineReachesAll == Spec => []OverdueReachesAll
<1>1. IInv => OverdueReachesAll
    BY DEF IInv, GroupInv, GroupShape
<1> QED
    BY <1>1, InductiveInvariant, PTL
=============================================================================
