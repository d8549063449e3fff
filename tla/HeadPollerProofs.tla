-------------------------- MODULE HeadPollerProofs --------------------------
(***************************************************************************)
(* What the head poller's cursors certify, for every chain, window and     *)
(* number of faults.  The cursor is a receipt only together with the facts *)
(* IInv adds: a run that got past Pin has the cursor in storage, and a run *)
(* about to advance it has seen the row committed.                         *)
(***************************************************************************)
EXTENDS HeadPoller, TLAPS

\* The handler is past the point where the write cursor was stored.
Pinned == pc \in {"live", "seen", "write", "receipt", "rewrite"}

CursorInv ==
    /\ Pinned => writeNext # Null
    /\ base # Null => writeNext # Null
    /\ emitted # {} => writeNext # Null
    /\ pc = "receipt" => writeNext \in sink

\* The live loop only has heights above the stored live position to go.
LiveInv == pc \in {"live", "seen"} => \A n \in todo : lastSeen = Null \/ n > lastSeen

IInv == TypeOK /\ CursorIsReceipt /\ CursorInv /\ LiveInv

-----------------------------------------------------------------------------
(* The plan.                                                               *)

\* The cursor an alarm adopts is a height.
LEMMA IntentIsHeight ==
    ASSUME TypeOK, NEW h \in Nat
    PROVE  Intent(h) \in Nat
BY NullAssumption DEF TypeOK, Cursor, Intent

\* The live plan holds heights up to the head, above the live position.
LEMMA LivePlanIsAhead ==
    ASSUME NEW seen \in Cursor, NEW next \in Nat, NEW h \in Nat
    PROVE  /\ PlanLive(seen, next, h) \subseteq 0..h
           /\ \A n \in PlanLive(seen, next, h) : seen = Null \/ n > seen
<1>1. HeightsToEmit(seen, h) \subseteq 0..h
    BY DEF HeightsToEmit
<1>2. \A n \in HeightsToEmit(seen, h) : seen = Null \/ n > seen
    BY DEF HeightsToEmit
<1>3. PlanLive(seen, next, h) \subseteq HeightsToEmit(seen, h)
    BY DEF PlanLive
<1> QED BY <1>1, <1>2, <1>3

\* The repairs lie between the write cursor and the head.
LEMMA WritePlanIsBounded ==
    ASSUME NEW alive, NEW next \in Nat, NEW h \in Nat
    PROVE  PlanWrites(alive, next, h) \subseteq 0..h
BY DEF PlanWrites

-----------------------------------------------------------------------------
\* The invariant holds when a deployment starts.
LEMMA InitInv == Init => IInv
BY NullAssumption, BoundAssumption
   DEF Init, IInv, TypeOK, CursorIsReceipt, CursorInv, LiveInv, Cursor, Pinned

\* The numbers of the state: the chain, the head a run was told, the faults.
Numbers == chain \in Nat /\ head \in Nat /\ faults \in 0..MaxFaults

\* No step leaves the numbers' ranges.
LEMMA NumberStep == TypeOK /\ [Next]_vars => Numbers'
<1> SUFFICES ASSUME TypeOK, [Next]_vars PROVE Numbers'
    OBVIOUS
<1> USE BoundAssumption DEF Numbers, TypeOK
<1>1. CASE Grow \/ PollStart \/ Age \/ Fire
    BY <1>1 DEF Grow, PollStart, Age, Fire, plan
<1>2. CASE Work
    BY <1>2 DEF Work, Finish, ReadHead, Pin, Broadcast, PutSeen, LiveDone, Write, Receipt, WritesDone, WriteLive,
                WriteLiveDone, plan
<1>3. CASE Trouble
    <2>1. faults' \in 0..MaxFaults
        BY <1>3 DEF Trouble, LaggingHead, HeadFails, PinFails, LiveReadFails, SeenFails, RepairReadFails, WriteFails,
                    ReceiptFails, WriteLiveFails, Reset, Throw, Fault
    <2>2. chain' = chain /\ (head' = head \/ head' = 0 \/ head' \in 0..(chain - 1))
        BY <1>3 DEF Trouble, LaggingHead, HeadFails, PinFails, LiveReadFails, SeenFails, RepairReadFails, WriteFails,
                    ReceiptFails, WriteLiveFails, Reset, Throw, plan
    <2> QED BY <2>1, <2>2
<1>4. CASE UNCHANGED vars
    BY <1>4 DEF vars, plan
<1> QED BY <1>1, <1>2, <1>3, <1>4 DEF Next

\* Types survive every step.
LEMMA TypeStep == TypeOK /\ CursorInv /\ [Next]_vars => TypeOK'
<1> SUFFICES ASSUME TypeOK, CursorInv, [Next]_vars PROVE TypeOK'
    OBVIOUS
<1> USE NumberStep DEF Numbers, TypeOK
<1>1. CASE Grow \/ PollStart \/ Age \/ Fire
    BY <1>1 DEF Grow, PollStart, Age, Fire, cursors, plan, clock, history
<1>2. CASE Finish \/ ReadHead \/ LiveDone \/ WritesDone \/ WriteLiveDone
    BY <1>2 DEF Finish, ReadHead, LiveDone, WritesDone, WriteLiveDone, cursors, plan, clock, history
<1>3. CASE Pin
    <2>1. Intent(head) \in Nat
        BY IntentIsHeight
    <2>2. live' \subseteq Nat
        BY <1>3, <2>1, LivePlanIsAhead DEF Pin
    <2>3. writes' \subseteq Nat
        BY <1>3, <2>1, WritePlanIsBounded DEF Pin
    <2> QED BY <1>3, <2>1, <2>2, <2>3 DEF Pin, Cursor, clock
<1>4. CASE Broadcast \/ PutSeen \/ WriteLive
    <2>1. Lowest(todo) \subseteq Nat
        BY DEF Lowest
    <2> QED BY <1>4, <2>1 DEF Broadcast, PutSeen, WriteLive, Cursor, cursors, plan, clock, history
<1>5. CASE Write \/ Receipt
    <2>1. writeNext \in Nat /\ writeNext + 1 \in Nat
        BY <1>5 DEF Write, Receipt, CursorInv, Pinned, Cursor
    <2> QED BY <1>5, <2>1 DEF Write, Receipt, Cursor, cursors, plan, clock, history
<1>6. CASE LaggingHead \/ HeadFails \/ LiveReadFails \/ RepairReadFails
    BY <1>6 DEF LaggingHead, HeadFails, LiveReadFails, RepairReadFails, Throw, cursors, plan, clock, history
<1>7. CASE PinFails
    <2>1. Intent(head) \in Nat
        BY IntentIsHeight
    <2> QED BY <1>7, <2>1 DEF PinFails, Throw, Cursor, plan, clock
<1>8. CASE SeenFails \/ WriteLiveFails
    <2>1. Lowest(todo) \subseteq Nat
        BY DEF Lowest
    <2> QED BY <1>8, <2>1 DEF SeenFails, WriteLiveFails, Throw, Cursor, cursors, plan, clock, history
<1>9. CASE WriteFails \/ ReceiptFails
    <2>1. writeNext \in Nat /\ writeNext + 1 \in Nat
        BY <1>9 DEF WriteFails, ReceiptFails, Throw, CursorInv, Pinned, Cursor
    <2> QED BY <1>9, <2>1 DEF WriteFails, ReceiptFails, Throw, Cursor, cursors, plan, clock, history
<1>10. CASE Reset
    BY <1>10 DEF Reset, cursors, history
<1>11. CASE UNCHANGED vars
    BY <1>11 DEF vars, cursors, plan, clock, history
<1> QED BY <1>1, <1>2, <1>3, <1>4, <1>5, <1>6, <1>7, <1>8, <1>9, <1>10, <1>11 DEF Next, Work, Trouble

\* Where a step leaves the write cursor and the rows: the cursor is adopted
\* once, or moves over one height whose row is committed, and no row goes.
CursorStep ==
    /\ sink \subseteq sink'
    /\ \/ UNCHANGED <<writeNext, base>>
       \/ /\ writeNext = Null /\ base = Null
          /\ writeNext' \in Nat /\ base' = writeNext'
       \/ /\ writeNext \in sink /\ writeNext \in Nat
          /\ writeNext' = writeNext + 1 /\ base' = base

\* Every step of the poller is a cursor step.
LEMMA StepsMoveCursors == IInv /\ [Next]_vars => CursorStep
<1> SUFFICES ASSUME IInv, [Next]_vars PROVE CursorStep
    OBVIOUS
<1> USE NullAssumption
<1>1. CASE Pin \/ PinFails
    <2>1. Intent(head) \in Nat
        BY IntentIsHeight DEF IInv, TypeOK
    <2>2. writeNext # Null => Intent(head) = writeNext
        BY DEF Intent
    <2>3. base = Null <=> writeNext = Null
        BY DEF IInv, CursorIsReceipt, CursorInv
    <2> QED BY <1>1, <2>1, <2>2, <2>3 DEF Pin, PinFails, Throw, CursorStep
<1>2. CASE Receipt \/ ReceiptFails
    <2>1. writeNext \in sink /\ writeNext \in Nat
        BY <1>2 DEF Receipt, ReceiptFails, Throw, IInv, TypeOK, CursorInv
    <2> QED BY <1>2, <2>1 DEF Receipt, ReceiptFails, Throw, CursorStep, history
<1>3. CASE Grow \/ PollStart \/ Age \/ Fire \/ Finish \/ ReadHead \/ Broadcast \/ PutSeen \/ LiveDone
    BY <1>3 DEF Grow, PollStart, Age, Fire, Finish, ReadHead, Broadcast, PutSeen, LiveDone, CursorStep, cursors, history
<1>4. CASE Write \/ WritesDone \/ WriteLive \/ WriteLiveDone
    BY <1>4 DEF Write, WritesDone, WriteLive, WriteLiveDone, CursorStep, cursors, history
<1>5. CASE LaggingHead \/ HeadFails \/ LiveReadFails \/ SeenFails \/ RepairReadFails \/ WriteFails \/ WriteLiveFails \/ Reset
    BY <1>5 DEF LaggingHead, HeadFails, LiveReadFails, SeenFails, RepairReadFails, WriteFails, WriteLiveFails, Reset,
                Throw, CursorStep, cursors, history
<1>6. CASE UNCHANGED vars
    BY <1>6 DEF vars, CursorStep, cursors, history
<1> QED BY <1>1, <1>2, <1>3, <1>4, <1>5, <1>6 DEF Next, Work, Trouble

\* Cursor steps keep the receipt.
LEMMA ReceiptStep == IInv /\ CursorStep => CursorIsReceipt'
<1> SUFFICES ASSUME IInv, CursorStep, writeNext' # Null
             PROVE  base' # Null /\ \A n \in base'..(writeNext' - 1) : n \in sink'
    BY DEF CursorIsReceipt
<1> USE NullAssumption
<1>1. CASE UNCHANGED <<writeNext, base>>
    BY <1>1 DEF IInv, CursorIsReceipt, CursorStep
<1>2. CASE /\ writeNext = Null /\ base = Null
           /\ writeNext' \in Nat /\ base' = writeNext'
    <2>1. \A k \in Nat : k # Null /\ k..(k - 1) = {}
        OBVIOUS
    <2> QED BY <1>2, <2>1
<1>3. CASE /\ writeNext \in sink /\ writeNext \in Nat
           /\ writeNext' = writeNext + 1 /\ base' = base
    <2>1. writeNext # Null /\ base # Null /\ base \in Nat
        BY <1>3 DEF IInv, TypeOK, Cursor, CursorIsReceipt
    <2>2. ASSUME NEW n \in base..writeNext PROVE n \in sink
        BY <1>3, <2>1, <2>2 DEF IInv, CursorIsReceipt
    <2> QED BY <1>3, <2>1, <2>2 DEF CursorStep
<1> QED BY <1>1, <1>2, <1>3 DEF CursorStep

\* The control points keep what they say about the cursor.
LEMMA CursorInvStep == IInv /\ [Next]_vars => CursorInv'
<1> SUFFICES ASSUME IInv, [Next]_vars PROVE CursorInv'
    OBVIOUS
<1> USE NullAssumption DEF CursorInv, Pinned
<1>1. CASE Pin \/ PinFails
    <2>1. Intent(head) \in Nat
        BY IntentIsHeight DEF IInv, TypeOK
    <2> QED BY <1>1, <2>1 DEF Pin, PinFails, Throw, IInv
<1>2. CASE Receipt \/ ReceiptFails
    <2>1. writeNext \in Nat
        BY <1>2 DEF Receipt, ReceiptFails, Throw, IInv, TypeOK
    <2> QED BY <1>2, <2>1 DEF Receipt, ReceiptFails, Throw, IInv, history
<1>3. CASE Grow \/ PollStart \/ Age \/ Fire \/ Finish \/ ReadHead \/ Broadcast \/ PutSeen \/ LiveDone
    BY <1>3 DEF Grow, PollStart, Age, Fire, Finish, ReadHead, Broadcast, PutSeen, LiveDone, IInv, cursors, history
<1>4. CASE Write \/ WritesDone \/ WriteLive \/ WriteLiveDone
    BY <1>4 DEF Write, WritesDone, WriteLive, WriteLiveDone, IInv, cursors, history
<1>5. CASE LaggingHead \/ HeadFails \/ LiveReadFails \/ SeenFails \/ RepairReadFails \/ WriteFails \/ WriteLiveFails \/ Reset
    BY <1>5 DEF LaggingHead, HeadFails, LiveReadFails, SeenFails, RepairReadFails, WriteFails, WriteLiveFails, Reset,
                Throw, IInv, cursors, history
<1>6. CASE UNCHANGED vars
    BY <1>6 DEF vars, IInv, cursors, history
<1> QED BY <1>1, <1>2, <1>3, <1>4, <1>5, <1>6 DEF Next, Work, Trouble

\* The live loop runs upwards.
LEMMA LiveStep == IInv /\ [Next]_vars => LiveInv'
<1> SUFFICES ASSUME IInv, [Next]_vars PROVE LiveInv'
    OBVIOUS
<1> USE NullAssumption DEF LiveInv
<1>1. CASE Pin
    <2>1. Intent(head) \in Nat
        BY IntentIsHeight DEF IInv, TypeOK
    <2> QED BY <1>1, <2>1, LivePlanIsAhead DEF Pin, IInv, TypeOK
<1>2. CASE PutSeen
    <2>1. \A n \in todo' : n \in Nat /\ lastSeen' \in Nat /\ n > lastSeen'
        BY <1>2 DEF PutSeen, Lowest, IInv, TypeOK
    <2> QED BY <2>1
<1>3. CASE Grow \/ PollStart \/ Age \/ Fire \/ Finish \/ ReadHead \/ Broadcast \/ LiveDone
    BY <1>3 DEF Grow, PollStart, Age, Fire, Finish, ReadHead, Broadcast, LiveDone, IInv, cursors
<1>4. CASE Write \/ Receipt \/ WritesDone \/ WriteLive \/ WriteLiveDone
    BY <1>4 DEF Write, Receipt, WritesDone, WriteLive, WriteLiveDone, IInv, cursors
<1>5. CASE Trouble
    BY <1>5 DEF Trouble, LaggingHead, HeadFails, PinFails, LiveReadFails, SeenFails, RepairReadFails, WriteFails,
                ReceiptFails, WriteLiveFails, Reset, Throw, IInv, cursors
<1>6. CASE UNCHANGED vars
    BY <1>6 DEF vars, IInv, cursors
<1> QED BY <1>1, <1>2, <1>3, <1>4, <1>5, <1>6 DEF Next, Work

\* The invariant holds in every reachable state.
LEMMA Inv == Spec => []IInv
<1>1. IInv /\ [Next]_vars => IInv'
    BY TypeStep, StepsMoveCursors, ReceiptStep, CursorInvStep, LiveStep DEF IInv
<1> QED BY InitInv, <1>1, PTL DEF Spec

-----------------------------------------------------------------------------
\* The poller's state is always well formed.
THEOREM TypeCorrect == Spec => []TypeOK
<1>1. IInv => TypeOK
    BY DEF IInv
<1> QED BY Inv, <1>1, PTL

\* head:write_next certifies every height from the adoption up to it,
\* whatever calls of the handler fail and wherever the hub is reset.
THEOREM WriteCursorCertifies == Spec => []CursorIsReceipt
<1>1. IInv => CursorIsReceipt
    BY DEF IInv
<1> QED BY Inv, <1>1, PTL

\* No height that was broadcast is forgotten before its row is committed.
THEOREM BroadcastIsOwed == Spec => []EmittedIsOwed
<1>1. IInv => EmittedIsOwed
    <2> SUFFICES ASSUME IInv, NEW n \in emitted
                 PROVE  n \in sink \/ (writeNext # Null /\ (writeNext <= n \/ n < base))
        BY DEF EmittedIsOwed
    <2>1. writeNext # Null /\ base # Null
        BY DEF IInv, CursorInv, CursorIsReceipt
    <2>2. n \in Nat /\ writeNext \in Nat /\ base \in Nat
        BY <2>1 DEF IInv, TypeOK, Cursor
    <2>3. CASE n \in base..(writeNext - 1)
        BY <2>1, <2>3 DEF IInv, CursorIsReceipt
    <2>4. CASE n \notin base..(writeNext - 1)
        BY <2>1, <2>2, <2>4
    <2> QED BY <2>3, <2>4
<1> QED BY Inv, <1>1, PTL

\* Neither cursor ever moves back.
THEOREM CursorsForward == Spec => CursorsMoveForward
<1>1. IInv /\ [Next]_vars =>
        [ /\ lastSeen # Null => lastSeen' >= lastSeen
          /\ writeNext # Null => writeNext' >= writeNext ]_cursors
    <2> SUFFICES ASSUME IInv, [Next]_vars
                 PROVE  /\ lastSeen # Null => lastSeen' >= lastSeen
                        /\ writeNext # Null => writeNext' >= writeNext
        OBVIOUS
    <2>1. writeNext # Null => writeNext' >= writeNext
        BY StepsMoveCursors DEF CursorStep, IInv, TypeOK, Cursor
    <2>2. lastSeen # Null => lastSeen' >= lastSeen
        <3> SUFFICES ASSUME lastSeen # Null PROVE lastSeen' >= lastSeen
            OBVIOUS
        <3>1. lastSeen \in Nat
            BY DEF IInv, TypeOK, Cursor
        <3>2. CASE PutSeen \/ SeenFails
            <4>1. pc = "seen" /\ (lastSeen' = lastSeen \/ lastSeen' \in todo)
                BY <3>2 DEF PutSeen, SeenFails, Throw, Lowest
            <4>2. \A n \in todo : n \in Nat /\ n > lastSeen
                BY <4>1 DEF IInv, LiveInv, TypeOK
            <4> QED BY <3>1, <4>1, <4>2
        <3>3. CASE UNCHANGED lastSeen
            BY <3>1, <3>3
        <3>4. PutSeen \/ SeenFails \/ UNCHANGED lastSeen
            BY DEF Next, Work, Trouble, vars, cursors, Grow, PollStart, Age, Fire, Finish, ReadHead, Pin, Broadcast,
                   LiveDone, Write, Receipt, WritesDone, WriteLive, WriteLiveDone, LaggingHead, HeadFails, PinFails,
                   LiveReadFails, RepairReadFails, WriteFails, ReceiptFails, WriteLiveFails, Reset, Throw
        <3> QED BY <3>2, <3>3, <3>4
    <2> QED BY <2>1, <2>2
<1> QED BY Inv, <1>1, PTL DEF Spec, CursorsMoveForward
=============================================================================
