----------------------------- MODULE HeadPoller -----------------------------
(***************************************************************************)
(* The head poller of the chain firehose hub: a chain of alarms, each of   *)
(* which reads the head of the chain, broadcasts the blocks it has not     *)
(* broadcast and writes blocks_head rows from a cursor of its own.         *)
(*                                                                         *)
(* Two cursors are stored.  head:last_seen is the progress of the live     *)
(* stream and may jump over heights; head:write_next is the next height    *)
(* that must be written and may not.  Every storage call, block read and   *)
(* sink write of the handler can fail, and the object can be reset between *)
(* any two of them.                                                        *)
(***************************************************************************)
EXTENDS Integers, FiniteSets

CONSTANTS
    Null,       \* an absent or invalid stored cursor
    Window,     \* block reads one alarm may spend; 25 in the code
    MaxHead,    \* bound: the chain grows up to this height
    MaxFaults   \* bound: failed calls, lagging answers and resets

ASSUME NullAssumption   == Null \notin Int
ASSUME WindowAssumption == Window \in Nat \ {0}
ASSUME BoundAssumption  == MaxHead \in Nat /\ MaxFaults \in Nat

VARIABLES
    lastSeen,   \* head:last_seen
    writeNext,  \* head:write_next
    sink,       \* the heights that have a row in blocks_head
    alarm,      \* the stored alarm: "none", "set", or "lost" (it never fires)
    age,        \* "overdue" once its time lies a grace period in the past
    chain,      \* the height the chain has reached
    pc,         \* the place the running handler has reached
    head,       \* the head this run was told
    live,       \* the heights of plan.live
    writes,     \* the heights of plan.writes
    todo,       \* the heights of the loop over plan.live still to come
    read,       \* the blocks this run holds
    faults,     \* how many faults have happened
    emitted,    \* history: the heights broadcast by these alarms
    base        \* history: where the write cursor was adopted

cursors == <<lastSeen, writeNext>>
plan    == <<head, live, writes>>
clock   == <<alarm, age>>
history == <<emitted, base>>
vars    == <<cursors, sink, clock, chain, pc, plan, todo, read, faults, history>>

-----------------------------------------------------------------------------
(* What an alarm plans.                                                    *)

\* The loops of the handler take their heights in ascending order.
Lowest(S) == {h \in S : \A n \in S : h <= n}

\* The write cursor: the stored one, or one that starts after the live
\* position of an earlier deployment, or at the head.
Intent(h) ==
    IF writeNext # Null THEN writeNext
    ELSE IF lastSeen = Null THEN h ELSE lastSeen + 1

\* A slip: the live position does not bound the window from below.
HeightsUnfloored(seen, h) ==
    IF seen = Null THEN {h} ELSE (h - Window + 1)..h

\* heightsToEmit: the new heights, at most Window of them, the newest ones.
HeightsToEmit(seen, h) ==
    IF seen = Null THEN {h}
    ELSE {n \in 0..h : n > seen /\ n > h - Window}

\* A full live window gives its oldest height up for an older retry.
PlanLive(seen, next, h) ==
    LET new == HeightsToEmit(seen, h)
    IN  IF Cardinality(new) = Window /\ next <= h /\ next \notin new
        THEN new \ Lowest(new)
        ELSE new

\* The heights from the write cursor on that fit in the budget they share
\* with the live ones.
PlanWrites(alive, next, h) ==
    {n \in next..h : Cardinality(alive \cup (next..n)) <= Window}

-----------------------------------------------------------------------------
(* The initial state is the one a deployment finds: cursors that an        *)
(* earlier version may or may not have left, and no alarm.                 *)

Init ==
    /\ chain \in 0..MaxHead
    /\ lastSeen \in {Null} \cup 0..chain
    /\ writeNext = Null
    /\ sink = {} /\ emitted = {} /\ base = Null
    /\ alarm = "none" /\ age = "fresh"
    /\ pc = "idle" /\ head = 0
    /\ live = {} /\ writes = {} /\ todo = {} /\ read = {}
    /\ faults = 0

Grow ==
    /\ chain < MaxHead
    /\ chain' = chain + 1
    /\ UNCHANGED <<cursors, sink, clock, pc, plan, todo, read, faults, history>>

-----------------------------------------------------------------------------
(* The alarm and what repairs it.                                          *)

\* A slip: only a missing alarm is armed.
PollStartIfMissing ==
    /\ alarm = "none"
    /\ alarm' = "set" /\ age' = "fresh"
    /\ UNCHANGED <<cursors, sink, chain, pc, plan, todo, read, faults, history>>

\* The cron's /poll-start: arm an alarm that is missing or long overdue.
PollStart ==
    /\ alarm = "none" \/ age = "overdue"
    /\ alarm' = "set" /\ age' = "fresh"
    /\ UNCHANGED <<cursors, sink, chain, pc, plan, todo, read, faults, history>>

\* The grace period passes over an alarm that has not fired.
Age ==
    /\ alarm # "none" /\ age = "fresh"
    /\ age' = "overdue"
    /\ UNCHANGED <<cursors, sink, alarm, chain, pc, plan, todo, read, faults, history>>

Fire ==
    /\ pc = "idle" /\ alarm = "set"
    /\ pc' = "head" /\ alarm' = "none" /\ age' = "fresh"
    /\ UNCHANGED <<cursors, sink, chain, plan, todo, read, faults, history>>

\* The finally block arms the next alarm whatever happened before.
Finish ==
    /\ pc = "end"
    /\ alarm' = "set" /\ age' = "fresh"
    /\ pc' = "idle" /\ head' = 0
    /\ live' = {} /\ writes' = {} /\ todo' = {} /\ read' = {}
    /\ UNCHANGED <<cursors, sink, chain, faults, history>>

-----------------------------------------------------------------------------
(* One alarm, call by call.                                                *)

ReadHead ==
    /\ pc = "head"
    /\ head' = chain /\ pc' = "pin"
    /\ UNCHANGED <<cursors, sink, clock, chain, live, writes, todo, read, faults, history>>

\* A slip: the write cursor stays in memory.
PinInMemory ==
    /\ pc = "pin"
    /\ live' = PlanLive(lastSeen, Intent(head), head)
    /\ writes' = PlanWrites(live', Intent(head), head)
    /\ todo' = live'
    /\ pc' = "live"
    /\ UNCHANGED <<cursors, sink, clock, chain, head, read, faults, history>>

\* The write cursor is stored before live progress moves, then the plan is
\* drawn.
Pin ==
    /\ pc = "pin"
    /\ writeNext' = Intent(head)
    /\ base' = IF base = Null THEN Intent(head) ELSE base
    /\ live' = PlanLive(lastSeen, Intent(head), head)
    /\ writes' = PlanWrites(live', Intent(head), head)
    /\ todo' = live'
    /\ pc' = "live"
    /\ UNCHANGED <<lastSeen, sink, clock, chain, head, read, faults, emitted>>

\* Read and broadcast the next live block.
Broadcast ==
    /\ pc = "live" /\ todo # {}
    /\ emitted' = emitted \cup Lowest(todo)
    /\ read' = read \cup Lowest(todo)
    /\ pc' = "seen"
    /\ UNCHANGED <<cursors, sink, clock, chain, plan, todo, faults, base>>

PutSeen ==
    /\ pc = "seen"
    /\ lastSeen' \in Lowest(todo)
    /\ todo' = todo \ Lowest(todo)
    /\ pc' = "live"
    /\ UNCHANGED <<writeNext, sink, clock, chain, plan, read, faults, history>>

LiveDone ==
    /\ pc = "live" /\ todo = {}
    /\ todo' = live
    /\ pc' = "write"
    /\ UNCHANGED <<cursors, sink, clock, chain, plan, read, faults, history>>

\* Read and write the block at the write cursor; a live block written here
\* is not written again.
Write ==
    /\ pc = "write" /\ writeNext \in writes
    /\ read' = read \cup {writeNext}
    /\ sink' = sink \cup {writeNext}
    /\ todo' = todo \ {writeNext}
    /\ pc' = "receipt"
    /\ UNCHANGED <<cursors, clock, chain, plan, faults, history>>

Receipt ==
    /\ pc = "receipt"
    /\ writeNext' = writeNext + 1
    /\ pc' = "write"
    /\ UNCHANGED <<lastSeen, sink, clock, chain, plan, todo, read, faults, history>>

WritesDone ==
    /\ pc = "write" /\ writeNext \notin writes
    /\ pc' = "rewrite"
    /\ UNCHANGED <<cursors, sink, clock, chain, plan, todo, read, faults, history>>

\* The live blocks that were not in the writes still reach the sink; the
\* cursor does not move for them.
WriteLive ==
    /\ pc = "rewrite" /\ todo # {}
    /\ sink' = sink \cup Lowest(todo)
    /\ todo' = todo \ Lowest(todo)
    /\ UNCHANGED <<cursors, clock, chain, pc, plan, read, faults, history>>

WriteLiveDone ==
    /\ pc = "rewrite" /\ todo = {}
    /\ pc' = "end"
    /\ UNCHANGED <<cursors, sink, clock, chain, plan, todo, read, faults, history>>

-----------------------------------------------------------------------------
(* Faults.                                                                 *)

Fault ==
    /\ faults < MaxFaults
    /\ faults' = faults + 1

\* A call throws and the handler goes to its finally block.
Throw(from) ==
    /\ pc = from
    /\ Fault
    /\ pc' = "end"
    /\ UNCHANGED <<clock, chain, plan, todo, read>>

\* An endpoint behind the chain answers.
LaggingHead ==
    /\ pc = "head" /\ Fault
    /\ head' \in 0..(chain - 1)
    /\ pc' = "pin"
    /\ UNCHANGED <<cursors, sink, clock, chain, live, writes, todo, read, history>>

HeadFails ==
    /\ Throw("head")
    /\ UNCHANGED <<cursors, sink, history>>

\* A storage call of the prologue fails; a failed put may have been stored.
PinFails ==
    /\ Throw("pin")
    /\ \/ UNCHANGED <<writeNext, base>>
       \/ /\ writeNext' = Intent(head)
          /\ base' = IF base = Null THEN Intent(head) ELSE base
    /\ UNCHANGED <<lastSeen, sink, emitted>>

\* The block cannot be read.
LiveReadFails ==
    /\ Throw("live") /\ todo # {}
    /\ UNCHANGED <<cursors, sink, history>>

SeenFails ==
    /\ Throw("seen")
    /\ lastSeen' \in {lastSeen} \cup Lowest(todo)
    /\ UNCHANGED <<writeNext, sink, history>>

\* An older block cannot be read: the repair stops, live blocks go on.
RepairReadFails ==
    /\ pc = "write" /\ writeNext \in writes \ read
    /\ Fault
    /\ pc' = "rewrite"
    /\ UNCHANGED <<cursors, sink, clock, chain, plan, todo, read, history>>

\* A slip: a write that is not acknowledged moves the cursor all the same.
WriteFailureIgnored ==
    /\ pc = "write" /\ writeNext \in writes
    /\ Fault
    /\ sink' \in {sink, sink \cup {writeNext}}
    /\ pc' = "receipt"
    /\ UNCHANGED <<cursors, clock, chain, plan, todo, read, history>>

\* The sink refuses the row, or stores it and the answer is lost.
WriteFails ==
    /\ writeNext \in writes
    /\ Throw("write")
    /\ sink' \in {sink, sink \cup {writeNext}}
    /\ UNCHANGED <<cursors, history>>

ReceiptFails ==
    /\ Throw("receipt")
    /\ writeNext' \in {writeNext, writeNext + 1}
    /\ UNCHANGED <<lastSeen, sink, history>>

WriteLiveFails ==
    /\ Throw("rewrite") /\ todo # {}
    /\ sink' \in {sink, sink \cup Lowest(todo)}
    /\ UNCHANGED <<cursors, history>>

\* The object is reset: the run is gone, and its alarm may be retried,
\* missing, or stored and never run.
Reset ==
    /\ Fault
    /\ alarm' \in IF pc = "idle" THEN {alarm, "lost"} ELSE {alarm, "set", "lost"}
    /\ age' = "fresh"
    /\ pc' = "idle" /\ head' = 0
    /\ live' = {} /\ writes' = {} /\ todo' = {} /\ read' = {}
    /\ UNCHANGED <<cursors, sink, chain, history>>

-----------------------------------------------------------------------------
Work ==
    \/ ReadHead \/ Pin
    \/ Broadcast \/ PutSeen \/ LiveDone
    \/ Write \/ Receipt \/ WritesDone
    \/ WriteLive \/ WriteLiveDone \/ Finish

Trouble ==
    \/ LaggingHead \/ HeadFails \/ PinFails \/ LiveReadFails \/ SeenFails
    \/ RepairReadFails \/ WriteFails \/ ReceiptFails \/ WriteLiveFails \/ Reset

Next == Grow \/ PollStart \/ Age \/ Fire \/ Work \/ Trouble

\* The cron calls /poll-start for ever, time passes, an alarm that is set
\* fires, and a handler that started runs on.
Fairness ==
    /\ WF_vars(PollStart) /\ WF_vars(Age)
    /\ WF_vars(Fire) /\ WF_vars(Work)

Spec == Init /\ [][Next]_vars /\ Fairness

-----------------------------------------------------------------------------
(* Properties.                                                             *)

Cursor == {Null} \cup Nat

\* The stored cursors and the run's plan hold heights or nothing, and a run
\* that is not under way leaves nothing behind in memory.
TypeOK ==
    /\ lastSeen \in Cursor /\ writeNext \in Cursor /\ base \in Cursor
    /\ sink \subseteq Nat /\ emitted \subseteq Nat
    /\ alarm \in {"none", "set", "lost"} /\ age \in {"fresh", "overdue"}
    /\ chain \in Nat /\ head \in Nat
    /\ pc \in {"idle", "head", "pin", "live", "seen", "write", "receipt", "rewrite", "end"}
    /\ live \subseteq Nat /\ writes \subseteq Nat
    /\ todo \subseteq live /\ read \subseteq Nat
    /\ faults \in 0..MaxFaults

\* The write cursor is a receipt: every height from the adoption up to it
\* has a row, however many runs failed on the way and wherever.
CursorIsReceipt ==
    writeNext # Null => /\ base # Null
                        /\ \A n \in base..(writeNext - 1) : n \in sink

\* A height that was broadcast has its row, or the stored cursor has not
\* passed it, so that a later alarm still owes it; nothing is broadcast
\* before the cursor is stored.  The promise starts where the cursor was
\* adopted: a hub without a live cursor that is told an older head after it
\* stored its write cursor broadcasts one height below.
EmittedIsOwed ==
    \A n \in emitted :
        \/ n \in sink
        \/ writeNext # Null /\ (writeNext <= n \/ n < base)

\* A lagging endpoint, a repair or a retried put never moves a stored
\* cursor back.
CursorsMoveForward ==
    [][ /\ lastSeen # Null => lastSeen' >= lastSeen
        /\ writeNext # Null => writeNext' >= writeNext ]_cursors

\* Once the faults cease every height that was broadcast gets its row, even
\* when the alarm was lost in a reset.
EmittedIsWritten ==
    \A n \in 0..MaxHead :
        (n \in emitted /\ base # Null /\ n >= base) ~> (n \in sink)
=============================================================================
