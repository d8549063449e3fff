---------------------------- MODULE NativeProcess ----------------------------
(***************************************************************************)
(* The native process around its loops and work groups                     *)
(* (native-api-process.ts, native-environment.ts).  Requests and consumers *)
(* are invocations; close() admits no more of them, stops the loops, waits *)
(* for the invocations, closes the adapters (the work group) and then the  *)
(* pool.  Each layer has its own deadline, at which its close fails while  *)
(* the work goes on; the process is then closed again by its operator.     *)
(*                                                                         *)
(* A work group also has owners without loops that close it at any time:   *)
(* these are modelled by "direct".                                         *)
(***************************************************************************)
EXTENDS BackgroundLoops

CONSTANTS
    Request,    \* identities for requests
    Owners      \* who owns the group: subset of {"process", "direct"}

ASSUME OwnerAssumption == Owners \subseteq {"process", "direct"}

VARIABLES
    owner,      \* never changes
    process,    \* "ready", "closing", "closed": then the pool is ended
    drain,      \* where the drain of the process is: "none", "stop", "wait",
                \* "close"
    attempt,    \* the promise of close(): "none", "pending"
    requests,   \* requests and their background work in progress
    cancelled   \* invocations the process has told to stop

processVars == <<process, drain, attempt, requests, cancelled>>
vars == <<groupVars, loopVars, owner, processVars>>

Invocations == running \cup requests

Init ==
    /\ GroupInit /\ LoopsInit
    /\ owner \in Owners
    /\ process = "ready" /\ drain = "none" /\ attempt = "none"
    /\ requests = {} /\ cancelled = {}

-----------------------------------------------------------------------------
(* Work.                                                                   *)

Fetch(r) ==
    /\ owner = "process" /\ process = "ready"
    /\ r \notin requests
    /\ requests' = requests \cup {r}
    /\ UNCHANGED <<groupVars, loopVars, owner, process, drain, attempt, cancelled>>

\* The response is read or cancelled and the background work has ended.
Respond(r) ==
    /\ r \in requests
    /\ requests' = requests \ {r}
    /\ cancelled' = cancelled \ {r}
    /\ UNCHANGED <<groupVars, loopVars, owner, process, drain, attempt>>

TakeTurn(l, o) ==
    /\ owner = "process"
    /\ Admit(o) /\ Turn(l, o)
    /\ UNCHANGED <<owner, processVars>>

RunDirect(o) ==
    /\ owner = "direct"
    /\ Admit(o)
    /\ UNCHANGED <<loopVars, owner, processVars>>

\* The consumer of a process is one of its jobs, refused unless it is ready.
Consume(o) ==
    /\ IF process = "ready" THEN Invoke(o) ELSE InvokeRefused(o)
    /\ UNCHANGED <<loopVars, owner, processVars>>

ConsumerReturns(o) ==
    /\ Return(o)
    /\ cancelled' = cancelled \ {o}
    /\ UNCHANGED <<loopVars, owner, process, drain, attempt, requests>>

OperationExpires(o) ==
    /\ Expire(o)
    /\ UNCHANGED <<loopVars, owner, processVars>>

OperationEnds(o) ==
    /\ End(o) /\ TurnOver(o)
    /\ UNCHANGED <<owner, processVars>>

\* An invocation, or a direct caller, uses the group; it need not wait.
CallGroup(c) ==
    /\ owner = "process" => Invocations # {}
    /\ AdmitCall(c)
    /\ UNCHANGED <<loopVars, owner, processVars>>

CallEnds(c) ==
    /\ AnswerCall(c)
    /\ UNCHANGED <<loopVars, owner, processVars>>

StartLoops ==
    /\ owner = "process" /\ process = "ready"
    /\ Start
    /\ UNCHANGED <<groupVars, owner, processVars>>

SchedulesRegistered ==
    /\ Registered
    /\ UNCHANGED <<groupVars, owner, processVars>>

-----------------------------------------------------------------------------
(* Shutdown.                                                               *)

\* close() of the process: a drain starts unless one is under way.
Close ==
    /\ owner = "process" /\ process # "closed"
    /\ attempt = "none"
    /\ attempt' = "pending"
    /\ process' = "closing"
    /\ IF drain = "none"
       THEN drain' = "stop" /\ Stop
       ELSE UNCHANGED <<drain, loopVars>>
    /\ UNCHANGED <<groupVars, owner, requests, cancelled>>

TurnsOver ==
    /\ LoopsDrained
    /\ UNCHANGED <<groupVars, owner, processVars>>

\* What a failed step of the drain does to the attempt that waits for it.
DrainFails == drain' = "none" /\ attempt' = "none"

TurnsOverdue ==
    /\ StopDeadline
    /\ IF drain = "stop" THEN DrainFails ELSE UNCHANGED <<drain, attempt>>
    /\ UNCHANGED <<groupVars, owner, process, requests, cancelled>>

Stopped ==
    /\ drain = "stop" /\ loops = "stopped"
    /\ drain' = "wait"
    /\ UNCHANGED <<groupVars, loopVars, owner, process, attempt, requests, cancelled>>

\* A slip: the adapters are closed while invocations go on.
WaitedNot ==
    /\ drain = "wait"
    /\ drain' = "close"
    /\ IF closing = "none" THEN CloseGroup ELSE UNCHANGED groupVars
    /\ UNCHANGED <<loopVars, owner, process, attempt, requests, cancelled>>

\* The invocations are over; the adapters are closed.
Waited ==
    /\ drain = "wait" /\ Invocations = {}
    /\ drain' = "close"
    /\ IF closing = "none" THEN CloseGroup ELSE UNCHANGED groupVars
    /\ UNCHANGED <<loopVars, owner, process, attempt, requests, cancelled>>

CloseDirect ==
    /\ owner = "direct"
    /\ CloseGroup
    /\ UNCHANGED <<loopVars, owner, processVars>>

WorkOver ==
    /\ DrainGroup
    /\ UNCHANGED <<loopVars, owner, processVars>>

WorkOverdue ==
    /\ GroupDeadline
    /\ IF drain = "close" THEN DrainFails ELSE UNCHANGED <<drain, attempt>>
    /\ UNCHANGED <<loopVars, owner, process, requests, cancelled>>

\* The adapters are closed: the pool is ended.
EndPool ==
    /\ drain = "close" /\ closing = "resolved"
    /\ process' = "closed"
    /\ drain' = "none" /\ attempt' = "none"
    /\ UNCHANGED <<groupVars, loopVars, owner, requests, cancelled>>

\* A slip: the invocations are not told.
ProcessOverdueSilently ==
    /\ attempt = "pending"
    /\ attempt' = "none"
    /\ UNCHANGED <<groupVars, loopVars, owner, process, drain, requests, cancelled>>

\* The drain deadline of the process: all invocations are told to stop and
\* the attempt fails; the drain goes on.
ProcessOverdue ==
    /\ attempt = "pending"
    /\ attempt' = "none"
    /\ cancelled' = Invocations
    /\ UNCHANGED <<groupVars, loopVars, owner, process, drain, requests>>

Next ==
    \/ \E r \in Request : Fetch(r) \/ Respond(r)
    \/ \E l \in Loop, o \in Op : TakeTurn(l, o)
    \/ \E o \in Op :
        \/ RunDirect(o) \/ Consume(o) \/ ConsumerReturns(o)
        \/ OperationExpires(o) \/ OperationEnds(o)
    \/ \E c \in Call : CallGroup(c) \/ CallEnds(c)
    \/ StartLoops \/ SchedulesRegistered
    \/ Close \/ TurnsOver \/ TurnsOverdue \/ Stopped \/ Waited
    \/ CloseDirect \/ WorkOver \/ WorkOverdue \/ EndPool \/ ProcessOverdue

Spec == Init /\ [][Next]_vars

\* What runs without an operator: timers fire, transactions and calls end, and
\* a consumer that heeds its signal, or a request that was cancelled, ends; the
\* operator closes again what did not close.
Fairness ==
    /\ \A o \in Op :
        /\ WF_vars(OperationExpires(o))
        /\ WF_vars(Consume(o) \/ OperationEnds(o))
        /\ WF_vars(o \in (aborted \cup cancelled) \ deaf /\ ConsumerReturns(o))
    /\ \A r \in Request : WF_vars(r \in cancelled /\ Respond(r))
    /\ \A c \in Call : WF_vars(CallEnds(c))
    /\ WF_vars(SchedulesRegistered)
    /\ WF_vars(TurnsOver) /\ WF_vars(TurnsOverdue) /\ WF_vars(Stopped)
    /\ WF_vars(Waited) /\ WF_vars(WorkOver) /\ WF_vars(WorkOverdue)
    /\ WF_vars(EndPool) /\ WF_vars(ProcessOverdue)
    /\ WF_vars(process = "closing" /\ Close)
    /\ WF_vars(group = "closing" /\ CloseDirect)

FairSpec == Spec /\ Fairness

-----------------------------------------------------------------------------
(* Properties.                                                             *)

TypeOK ==
    /\ GroupTypeOK /\ LoopsTypeOK
    /\ owner \in {"process", "direct"}
    /\ process \in {"ready", "closing", "closed"}
    /\ drain \in {"none", "stop", "wait", "close"}
    /\ attempt \in {"none", "pending"}
    /\ requests \subseteq Request
    /\ cancelled \subseteq Invocations

\* A group reports itself closed, and a process ends its pool, only when
\* nothing is left that could use them: no operation, no consumer that outlived
\* its deadline, no call nobody waits for, no request and no turn of a loop,
\* whichever deadlines have passed and however often close() was called.
PoolOutlivesWork ==
    /\ group = "closed" => Quiet
    /\ process = "closed" => Quiet /\ Inactive /\ requests = {}

\* After the drain deadline of a group every consumer that runs has been told
\* to stop, those of operations that had not come to it included.
OverdueReachesAll == overdue = "yes" => running \subseteq aborted

\* The slot of an operation comes back, and a group or a process that is being
\* closed gets closed, unless a consumer that does not heed its signal is in the
\* way for ever: the drains of the layers never wait for one another.
ShutdownEnds ==
    /\ \A o \in Op : (Occupied(o) ~> ~Occupied(o)) \/ <>[](o \in deaf)
    /\ (group = "closing" ~> group = "closed") \/ <>[](deaf # {})
    /\ (process = "closing" ~> process = "closed") \/ <>[](deaf # {})
=============================================================================
