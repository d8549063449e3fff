--------------------------- MODULE BackgroundLoops ---------------------------
(***************************************************************************)
(* The owner of the recurring work (native-background-loops.ts).  After a  *)
(* registration every loop takes its turn, waits for it, and sets a timer  *)
(* for the next; stop() clears the timers, waits for the turns under a     *)
(* deadline, and may be called again when that has passed.  A turn of a    *)
(* queue's loop is an operation of the work group; a turn that finds no    *)
(* slot or a closed group changes nothing.                                 *)
(***************************************************************************)
EXTENDS NativeWorkGroup

CONSTANTS
    Loop,       \* as many for a queue as its concurrency
    LoopKey,    \* the queue of a loop
    NoOp

ASSUME LoopAssumption == LoopKey \in [Loop -> Key] /\ NoOp \notin Op

VARIABLES
    loops,      \* "ready", "starting", "running", "stopping", "stopped"
    register,   \* the registration of the schedules: "none", "pending", "over"
    turn,       \* the operation of a loop's turn, or NoOp
    stopping    \* the promise of stop(): "none", "pending"

loopVars == <<loops, register, turn, stopping>>

Inactive == register # "pending" /\ \A l \in Loop : turn[l] = NoOp

LoopsInit ==
    /\ loops = "ready" /\ register = "none"
    /\ turn = [l \in Loop |-> NoOp]
    /\ stopping = "none"

Start ==
    /\ loops = "ready"
    /\ loops' = "starting" /\ register' = "pending"
    /\ UNCHANGED <<turn, stopping>>

\* The registration ends; it starts the loops unless stop() came first.
Registered ==
    /\ register = "pending"
    /\ register' = "over"
    /\ loops' \in IF loops = "starting" THEN {"running", "stopped"} ELSE {loops}
    /\ UNCHANGED <<turn, stopping>>

\* A timer that was already due is stopped by the state.
Turn(l, o) ==
    /\ loops = "running"
    /\ turn[l] = NoOp
    /\ KeyOf[o] = LoopKey[l]
    /\ turn' = [turn EXCEPT ![l] = o]
    /\ UNCHANGED <<loops, register, stopping>>

TurnOver(o) ==
    /\ turn' = [l \in Loop |-> IF turn[l] = o THEN NoOp ELSE turn[l]]
    /\ UNCHANGED <<loops, register, stopping>>

Stop ==
    /\ loops' = IF loops = "stopped" THEN loops ELSE "stopping"
    /\ stopping' = IF loops = "stopped" THEN stopping ELSE "pending"
    /\ UNCHANGED <<register, turn>>

LoopsDrained ==
    /\ loops = "stopping" /\ Inactive
    /\ loops' = "stopped" /\ stopping' = "none"
    /\ UNCHANGED <<register, turn>>

StopDeadline ==
    /\ stopping = "pending"
    /\ stopping' = "none"
    /\ UNCHANGED <<loops, register, turn>>

LoopsTypeOK ==
    /\ loops \in {"ready", "starting", "running", "stopping", "stopped"}
    /\ register \in {"none", "pending", "over"}
    /\ turn \in [Loop -> Op \cup {NoOp}]
    /\ stopping \in {"none", "pending"}
=============================================================================
