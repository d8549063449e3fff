--------------------------- MODULE ChainOwnerProofs ---------------------------
(***************************************************************************)
(* The single owner of the firehose, for any number of processes, tokens,  *)
(* documents and faults, and any lease.  What a process believes follows   *)
(* from what an operation in flight may still tell it: a lease that was    *)
(* granted and not yet heard of, a renewal on its way, a save that has not *)
(* been carried out.                                                       *)
(***************************************************************************)
EXTENDS ChainOwner, TLAPS

\* Tokens tell processes apart.
OneToken == \A p, q \in Process : token[p] # NoToken /\ token[p] = token[q] => p = q

\* A lease has an owner, and a run claimed at the current version was counted.
RowInv ==
    /\ left > 0 => owner # NoToken
    /\ claimVersion # Null => claimVersion <= version
    /\ claimVersion = version => runs > 0

\* A process is its own until it is ready, and starts with nothing claimed.
Shape(p) ==
    /\ status[p] = "ready" => op[p] # "acquire"
    /\ status[p] = "down" => op[p] \in {"none", "acquire"} /\ claim[p] = Null

\* The row was taken and the answer will come in time.
Starting(p) ==
    op[p] = "acquire" /\ stage[p] = "done" /\ status[p] = "down" /\ Remaining(p) > 0

\* What a process believes, or is about to be told, of its lease is no more
\* than the row says; a save it is about to hear of is what is stored.
Holds(p) ==
    /\ Active(p) => owner = token[p] /\ rest[p] <= left
    /\ Active(p) /\ op[p] = "renew" /\ stage[p] = "done" => Remaining(p) <= left
    /\ Active(p) /\ op[p] = "save" /\ stage[p] = "done" => arg[p] = saved
    /\ Starting(p) => owner = token[p] /\ Remaining(p) <= left /\ record[p] = saved

Pending(p, kind) == op[p] = kind /\ stage[p] = "sent" /\ Owned(p)

\* A write that may still be carried out would replace what its sender saw,
\* retired or dead as it may be.
Writes(p) ==
    /\ Pending(p, "save") => record[p] = saved
    /\ Pending(p, "setAlarm") => version < MaxVersion

Current(p) == Active(p) => RecordCurrent(p) /\ RunCurrent(p)

IInv ==
    /\ TypeOK /\ OneToken /\ RowInv
    /\ \A p \in Process : Shape(p) /\ Holds(p) /\ Writes(p) /\ Current(p)

\* The steps of one process.
Starts(p) == AcquireSend(p) \/ AcquireCommit(p) \/ AcquireReply(p)
Ends(p) == Retire(p) \/ Expire(p) \/ Drain(p) \/ Release(p) \/ Lose(p) \/ Crash(p) \/ Restart(p)
Sends(p) ==
    \/ RenewSend(p) \/ SetAlarmSend(p) \/ ClaimSend(p) \/ SettleSend(p)
    \/ \E value \in Values : SaveSend(p, value)
Commits(p) ==
    \/ RenewCommit(p) \/ SaveCommit(p) \/ SetAlarmCommit(p)
    \/ ClaimCommit(p) \/ SettleCommit(p) \/ Refuse(p)
Replies(p) ==
    RenewReply(p) \/ SaveReply(p) \/ SetAlarmReply(p) \/ ClaimReply(p) \/ SettleReply(p)
Turns(p) ==
    BeginCall(p) \/ BeginAlarm(p) \/ EndCall(p) \/ AlarmReturns(p) \/ AlarmThrows(p)

StepOf(p) == Starts(p) \/ Ends(p) \/ Sends(p) \/ Commits(p) \/ Replies(p) \/ Turns(p)

\* The steps of the system are those of one process, and the clock's.
LEMMA NextIsStepOf == Next <=> (\E p \in Process : StepOf(p)) \/ Tick
BY DEF Next, StepOf, Starts, Ends, Sends, Commits, Replies, Turns

-----------------------------------------------------------------------------
(* Types.                                                                  *)

ProcessTypes ==
    /\ status \in [Process -> {"down", "ready", "closing", "dead"}]
    /\ token \in [Process -> Token \cup {NoToken}]
    /\ rest \in [Process -> 0 .. Lease]
    /\ record \in [Process -> Values]
    /\ task \in [Process -> {"none", "call", "claiming", "alarm", "completing", "failing"}]
    /\ claim \in [Process -> (0 .. MaxVersion) \cup {Null}]

OperationTypes ==
    /\ op \in [Process -> {"none", "acquire", "renew", "save", "setAlarm",
                           "claimAlarm", "settleAlarm"}]
    /\ stage \in [Process -> {"sent", "done", "refused"}]
    /\ since \in [Process -> 0 .. Lease]
    /\ arg \in [Process -> Values]

\* What an answer grants is a lease at most.
LEMMA RemainingTyped ==
    ASSUME TypeOK, NEW p \in Process
    PROVE  Remaining(p) \in 0 .. Lease
BY OwnerAssumption DEF TypeOK, Remaining

\* What went wrong is counted, and nothing else counts.
LEMMA FaultsTyped ==
    ASSUME TypeOK, Fault \/ UNCHANGED faults
    PROVE  faults' \in 0 .. MaxFaults
BY OwnerAssumption DEF TypeOK, Fault

\* An operation that is over leaves the operations typed.
LEMMA OverTyped ==
    ASSUME TypeOK, NEW p \in Process, Over(p)
    PROVE  OperationTypes'
BY OwnerAssumption DEF TypeOK, Over, OperationTypes

\* A process that closes keeps its type.
LEMMA ClosingTyped ==
    ASSUME TypeOK, NEW p \in Process, Closing(p)
    PROVE  ProcessTypes'
BY OwnerAssumption DEF TypeOK, Closing, ProcessTypes

\* Types, for requests.
LEMMA SendTyped ==
    ASSUME TypeOK, NEW p \in Process, Sends(p)
    PROVE  TypeOK'
<1> DEFINE Kinds == {"renew", "save", "setAlarm", "claimAlarm", "settleAlarm"}
<1>0. PICK kind \in Kinds : Send(p, kind)
    BY DEF Sends, RenewSend, SetAlarmSend, ClaimSend, SettleSend, SaveSend
<1>1. /\ op' \in [Process -> {"none", "acquire", "renew", "save", "setAlarm",
                           "claimAlarm", "settleAlarm"}]
      /\ stage' \in [Process -> {"sent", "done", "refused"}]
      /\ since' \in [Process -> 0 .. Lease]
      /\ UNCHANGED <<row, alarmRow, process, faults>>
    BY <1>0, OwnerAssumption DEF Send, TypeOK
<1>2. arg' \in [Process -> Values]
    BY DEF Sends, RenewSend, SetAlarmSend, ClaimSend, SettleSend, SaveSend, TypeOK
<1>3. UNCHANGED <<owner, left, saved, alarm, version, runs, claimOwner, claimVersion,
                  status, token, rest, record, task, claim, faults>>
    BY <1>1 DEF row, alarmRow, process
<1> QED BY <1>1, <1>2, <1>3 DEF TypeOK

\* Types, for transactions.
LEMMA CommitTyped ==
    ASSUME IInv, NEW p \in Process, Commits(p)
    PROVE  TypeOK'
<1> USE OwnerAssumption DEF IInv
<1>1. ASSUME NEW kind, Commit(p, kind)
      PROVE  /\ stage' \in [Process -> {"sent", "done", "refused"}]
             /\ UNCHANGED <<status, token, rest, record, task, op, since, arg, faults>>
    BY <1>1 DEF Commit, TypeOK
<1>2. CASE RenewCommit(p)
    BY <1>1, <1>2 DEF RenewCommit, TypeOK, alarmRow
<1>3. CASE SaveCommit(p)
    BY <1>1, <1>3 DEF SaveCommit, TypeOK, alarmRow
<1>4. CASE SetAlarmCommit(p)
    <2>1. version < MaxVersion
        BY <1>4 DEF SetAlarmCommit, Commit, Writes, Pending
    <2>2. version' \in 0 .. MaxVersion /\ runs' \in 0 .. MaxRuns /\ alarm' \in Nat \cup {Null}
        BY <1>4, <2>1 DEF SetAlarmCommit, TypeOK
    <2> QED BY <1>1, <1>4, <2>2 DEF SetAlarmCommit, TypeOK, row
<1>5. CASE ClaimCommit(p)
    <2>1. Commit(p, "claimAlarm") /\ UNCHANGED row
        BY <1>5 DEF ClaimCommit
    <2>2. /\ alarm' \in Nat \cup {Null}
          /\ version' \in 0 .. MaxVersion
          /\ runs' \in 0 .. MaxRuns
          /\ claimOwner' \in Token \cup {NoToken}
          /\ claimVersion' \in (0 .. MaxVersion) \cup {Null}
          /\ claim' \in [Process -> (0 .. MaxVersion) \cup {Null}]
        <3>1. CASE UNCHANGED <<alarmRow, claim>>
            BY <3>1 DEF TypeOK, alarmRow
        <3>2. CASE alarm' = Null /\ claimOwner' = NoToken /\ claimVersion' = Null
                   /\ UNCHANGED <<version, runs, claim>>
            BY <3>2 DEF TypeOK
        <3>3. CASE /\ AttemptsLeft /\ runs' = runs + 1
                   /\ claimOwner' = token[p] /\ claimVersion' = version
                   /\ claim' = [claim EXCEPT ![p] = version]
                   /\ UNCHANGED <<alarm, version>>
            BY <3>3 DEF AttemptsLeft, TypeOK
        <3> QED BY <1>5, <3>1, <3>2, <3>3 DEF ClaimCommit
    <2>3. UNCHANGED <<owner, left, saved, status, token, rest, record, task, op, since, arg, faults>>
        BY <1>1, <2>1 DEF row
    <2>4. stage' \in [Process -> {"sent", "done", "refused"}]
        BY <1>1, <2>1
    <2> QED BY <2>2, <2>3, <2>4 DEF TypeOK
<1>6. CASE SettleCommit(p)
    <2>1. alarm' \in Nat \cup {Null}
        <3>1. CASE Superseded(p) \/ Rearmed(p)
            BY <1>6, <3>1 DEF SettleCommit, TypeOK
        <3>2. CASE ~Superseded(p) /\ ~Rearmed(p)
            <4>1. runs > 0
                BY <3>2 DEF Superseded, Rearmed, RowInv
            <4>2. AttemptsLeft => Backoff[runs] \in Nat
                BY <4>1 DEF AttemptsLeft, TypeOK
            <4> QED BY <1>6, <3>2, <4>2 DEF SettleCommit
        <3> QED BY <3>1, <3>2
    <2>2. /\ stage' \in [Process -> {"sent", "done", "refused"}]
          /\ claimOwner' \in Token \cup {NoToken}
          /\ claimVersion' \in (0 .. MaxVersion) \cup {Null}
        BY <1>6 DEF SettleCommit, TypeOK
    <2> QED BY <1>6, <2>1, <2>2 DEF SettleCommit, TypeOK, row, process
<1>7. CASE Refuse(p)
    BY <1>7 DEF Refuse, TypeOK, row, alarmRow, process
<1> QED BY <1>2, <1>3, <1>4, <1>5, <1>6, <1>7 DEF Commits

\* Types, for answers.
LEMMA ReplyTyped ==
    ASSUME TypeOK, NEW p \in Process, Replies(p)
    PROVE  TypeOK'
<1> USE OwnerAssumption
<1>1. Over(p) /\ UNCHANGED <<row, alarmRow, faults>>
    BY DEF Replies, RenewReply, SaveReply, SetAlarmReply, ClaimReply, SettleReply, Answered
<1>2. OperationTypes'
    BY <1>1, OverTyped
<1>3. ProcessTypes'
    <2>1. CASE RenewReply(p)
        BY <2>1, RemainingTyped DEF RenewReply, Answered, TypeOK, ProcessTypes
    <2>2. CASE SaveReply(p) \/ SetAlarmReply(p) \/ ClaimReply(p)
        BY <2>2 DEF SaveReply, SetAlarmReply, ClaimReply, Answered, TypeOK, ProcessTypes
    <2>3. CASE SettleReply(p)
        BY <2>3, ClosingTyped DEF SettleReply, TypeOK, ProcessTypes
    <2> QED BY <2>1, <2>2, <2>3 DEF Replies
<1> QED BY <1>1, <1>2, <1>3 DEF TypeOK, OperationTypes, ProcessTypes, row, alarmRow

\* Types, for the way into ownership.
LEMMA StartTyped ==
    ASSUME TypeOK, NEW p \in Process, Starts(p)
    PROVE  TypeOK'
<1> USE OwnerAssumption
<1>1. CASE AcquireSend(p)
    BY <1>1 DEF AcquireSend, TypeOK, row, alarmRow, process
<1>2. CASE AcquireCommit(p)
    <2>1. UNCHANGED <<alarmRow, status, rest, task, claim, op, since, arg, faults>>
        BY <1>2 DEF AcquireCommit
    <2>2. /\ owner' \in Token \cup {NoToken} /\ left' \in 0 .. Lease /\ saved' \in Values
          /\ token' \in [Process -> Token \cup {NoToken}]
          /\ record' \in [Process -> Values]
          /\ stage' \in [Process -> {"sent", "done", "refused"}]
        <3>1. CASE owner # NoToken /\ left > 0
            BY <1>2, <3>1 DEF AcquireCommit, TypeOK, row
        <3>2. CASE ~(owner # NoToken /\ left > 0)
            <4>1. PICK k \in Token : /\ owner' = k /\ left' = Lease
                                     /\ token' = [token EXCEPT ![p] = k]
                                     /\ record' = [record EXCEPT ![p] = saved]
                                     /\ stage' = [stage EXCEPT ![p] = "done"]
                                     /\ UNCHANGED saved
                BY <1>2, <3>2 DEF AcquireCommit
            <4> QED BY <4>1 DEF TypeOK
        <3> QED BY <3>1, <3>2
    <2>3. UNCHANGED <<alarm, version, runs, claimOwner, claimVersion>>
        BY <2>1 DEF alarmRow
    <2> QED BY <2>1, <2>2, <2>3 DEF TypeOK
<1>3. CASE AcquireReply(p)
    <2>1. OperationTypes' /\ UNCHANGED <<row, alarmRow, token, record, task, claim, faults>>
        BY <1>3, OverTyped DEF AcquireReply
    <2>2. /\ status' \in [Process -> {"down", "ready", "closing", "dead"}]
          /\ rest' \in [Process -> 0 .. Lease]
        BY <1>3, RemainingTyped DEF AcquireReply, TypeOK
    <2> QED BY <2>1, <2>2 DEF TypeOK, OperationTypes, row, alarmRow
<1> QED BY <1>1, <1>2, <1>3 DEF Starts

\* Types, for the ways out of it.
LEMMA EndTyped ==
    ASSUME TypeOK, NEW p \in Process, Ends(p)
    PROVE  TypeOK'
<1> USE OwnerAssumption
<1>1. CASE Retire(p) \/ Expire(p)
    BY <1>1, ClosingTyped, FaultsTyped
    DEF Retire, Expire, TypeOK, ProcessTypes, row, alarmRow, operation
<1>2. CASE Drain(p)
    BY <1>2, OverTyped DEF Drain, TypeOK, OperationTypes, row, alarmRow, process
<1>3. CASE Release(p)
    BY <1>3 DEF Release, TypeOK, alarmRow, operation
<1>4. CASE Lose(p)
    <2>1. OperationTypes' /\ faults' \in 0 .. MaxFaults /\ UNCHANGED <<row, alarmRow>>
        BY <1>4, OverTyped, FaultsTyped DEF Lose
    <2>2. ProcessTypes'
        BY <1>4, ClosingTyped DEF Lose, TypeOK, ProcessTypes, process
    <2> QED BY <2>1, <2>2 DEF TypeOK, OperationTypes, ProcessTypes, row, alarmRow
<1>5. CASE Crash(p)
    BY <1>5, FaultsTyped DEF Crash, TypeOK, row, alarmRow, operation
<1>6. CASE Restart(p)
    BY <1>6, OverTyped DEF Restart, TypeOK, OperationTypes, row, alarmRow
<1> QED BY <1>1, <1>2, <1>3, <1>4, <1>5, <1>6 DEF Ends

\* Types, for calls and alarm runs.
LEMMA TurnTyped ==
    ASSUME TypeOK, NEW p \in Process, Turns(p)
    PROVE  TypeOK'
<1>1. faults' \in 0 .. MaxFaults
    BY FaultsTyped
    DEF Turns, BeginCall, BeginAlarm, Begin, EndCall, AlarmReturns, AlarmThrows, EndAlarm
<1>2. /\ task' \in [Process -> {"none", "call", "claiming", "alarm", "completing", "failing"}]
      /\ UNCHANGED <<row, alarmRow, status, token, rest, record, claim, operation>>
    BY DEF Turns, BeginCall, BeginAlarm, Begin, EndCall, AlarmReturns, AlarmThrows, EndAlarm, TypeOK
<1> QED BY <1>1, <1>2 DEF TypeOK, row, alarmRow, operation

\* Types, for the clock.
LEMMA TickTyped == TypeOK /\ Tick => TypeOK'
<1> SUFFICES ASSUME TypeOK, Tick PROVE TypeOK'
    OBVIOUS
<1> USE OwnerAssumption
<1>1. faults' \in 0 .. MaxFaults
    BY FaultsTyped DEF Tick
<1>2. left' \in 0 .. Lease /\ alarm' \in Nat \cup {Null}
    BY DEF Tick, TypeOK
<1>3. rest' \in [Process -> 0 .. Lease] /\ since' \in [Process -> 0 .. Lease]
    BY DEF Tick, TypeOK
<1> QED BY <1>1, <1>2, <1>3 DEF Tick, TypeOK

\* Types, for every step.
LEMMA TypeStep == IInv /\ [Next]_vars => TypeOK'
<1> SUFFICES ASSUME IInv, [Next]_vars PROVE TypeOK'
    OBVIOUS
<1>1. ASSUME NEW p \in Process, StepOf(p) PROVE TypeOK'
    BY <1>1, StartTyped, EndTyped, SendTyped, CommitTyped, ReplyTyped, TurnTyped
    DEF StepOf, IInv
<1>2. CASE UNCHANGED vars
    BY <1>2 DEF vars, row, alarmRow, process, operation, IInv, TypeOK
<1> QED BY <1>1, <1>2, NextIsStepOf, TickTyped DEF IInv

-----------------------------------------------------------------------------
(* A step of one process changes nothing that another one owns.            *)

Same(q) ==
    /\ status'[q] = status[q] /\ token'[q] = token[q] /\ rest'[q] = rest[q]
    /\ record'[q] = record[q] /\ task'[q] = task[q] /\ claim'[q] = claim[q]
    /\ op'[q] = op[q] /\ stage'[q] = stage[q] /\ since'[q] = since[q] /\ arg'[q] = arg[q]

\* A step of one process leaves the memory of the others alone.
LEMMA OthersAreSame ==
    ASSUME TypeOK, NEW p \in Process, NEW q \in Process, q # p, StepOf(p)
    PROVE  Same(q)
<1>1. CASE Starts(p)
    BY <1>1
    DEF Starts, AcquireSend, AcquireCommit, AcquireReply, Over, TypeOK, Same, process
<1>2. CASE Retire(p) \/ Expire(p) \/ Drain(p)
    BY <1>2 DEF Retire, Expire, Drain, Closing, Over, TypeOK, Same, process, operation
<1>3. CASE Release(p) \/ Crash(p) \/ Restart(p)
    BY <1>3 DEF Release, Crash, Restart, Over, TypeOK, Same, operation
<1>4. CASE Lose(p)
    BY <1>4 DEF Lose, Closing, Over, TypeOK, Same, process
<1>5. CASE Sends(p)
    BY <1>5
    DEF Sends, RenewSend, SetAlarmSend, ClaimSend, SettleSend, SaveSend, Send, TypeOK, Same, process
<1>6. CASE RenewCommit(p) \/ SaveCommit(p) \/ SetAlarmCommit(p)
    BY <1>6 DEF RenewCommit, SaveCommit, SetAlarmCommit, Commit, TypeOK, Same
<1>7. CASE ClaimCommit(p)
    BY <1>7 DEF ClaimCommit, Commit, TypeOK, Same
<1>8. CASE SettleCommit(p) \/ Refuse(p)
    BY <1>8 DEF SettleCommit, Refuse, TypeOK, Same, process
<1>9. CASE Replies(p)
    BY <1>9
    DEF Replies, RenewReply, SaveReply, SetAlarmReply, ClaimReply, SettleReply, Answered,
        Closing, Over, TypeOK, Same
<1>10. CASE Turns(p)
    BY <1>10
    DEF Turns, BeginCall, BeginAlarm, Begin, EndCall, AlarmReturns, AlarmThrows, EndAlarm,
        TypeOK, Same, operation
<1> QED BY <1>1, <1>2, <1>3, <1>4, <1>5, <1>6, <1>7, <1>8, <1>9, <1>10
        DEF StepOf, Ends, Commits

\* The row changes hands when it is taken or released; else its owner writes.
LEMMA WhoWrites ==
    ASSUME NEW p \in Process, StepOf(p)
    PROVE  \/ UNCHANGED <<row, alarmRow>>
           \/ Owned(p) /\ UNCHANGED owner
           \/ owner = token[p] /\ owner' = NoToken /\ left' = 0
           \/ /\ owner = NoToken \/ ~(left > 0)
              /\ owner' \in Token /\ \A q \in Process : token[q] # owner'
<1>1. CASE Starts(p)
    <2>1. CASE AcquireCommit(p)
        BY <2>1 DEF AcquireCommit, row
    <2> QED BY <1>1, <2>1 DEF Starts, AcquireSend, AcquireReply
<1>2. CASE Ends(p)
    <2>1. CASE Release(p)
        BY <2>1 DEF Release, row
    <2> QED BY <1>2, <2>1 DEF Ends, Retire, Expire, Drain, Lose, Crash, Restart
<1>3. CASE Commits(p)
    BY <1>3
    DEF Commits, RenewCommit, SaveCommit, SetAlarmCommit, ClaimCommit, SettleCommit, Refuse,
        Commit, row
<1>4. CASE Sends(p) \/ Replies(p) \/ Turns(p)
    BY <1>4
    DEF Sends, RenewSend, SetAlarmSend, ClaimSend, SettleSend, SaveSend, Send,
        Replies, RenewReply, SaveReply, SetAlarmReply, ClaimReply, SettleReply, Answered,
        Turns, BeginCall, BeginAlarm, Begin, EndCall, AlarmReturns, AlarmThrows, EndAlarm
<1> QED BY <1>1, <1>2, <1>3, <1>4 DEF StepOf

\* While a process owns the row no other writes or takes it.
LEMMA OwnersAreSafe ==
    ASSUME IInv, NEW p \in Process, NEW q \in Process, q # p, StepOf(p)
    PROVE  /\ Owned(q) => UNCHANGED <<row, alarmRow>>
           /\ Owned(q)' => Owned(q)
<1>1. token'[q] = token[q]
    BY OthersAreSame DEF IInv, Same
<1>2. Owned(q) => owner # NoToken /\ owner # token[p]
    BY DEF Owned, IInv, RowInv, OneToken
<1>3. Owned(p) => owner # NoToken /\ owner # token[q]
    BY DEF Owned, IInv, RowInv, OneToken
<1>4. left' \in 0 .. Lease
    BY TypeStep, NextIsStepOf DEF TypeOK
<1>5. CASE UNCHANGED <<row, alarmRow>>
    BY <1>1, <1>5 DEF Owned, row
<1>6. CASE Owned(p) /\ UNCHANGED owner
    BY <1>1, <1>2, <1>3, <1>6 DEF Owned
<1>7. CASE owner = token[p] /\ owner' = NoToken /\ left' = 0
    BY <1>2, <1>7 DEF Owned
<1>8. CASE /\ owner = NoToken \/ ~(left > 0)
           /\ owner' \in Token /\ \A r \in Process : token[r] # owner'
    BY <1>1, <1>2, <1>8 DEF Owned
<1> QED BY WhoWrites, <1>5, <1>6, <1>7, <1>8

\* Who believes to own the row, or is about to, owns it.
LEMMA BelieverOwns ==
    ASSUME IInv, NEW p \in Process, Active(p) \/ Starting(p)
    PROVE  Owned(p)
BY RemainingTyped, OwnerAssumption DEF IInv, Holds, Active, Starting, Owned, TypeOK

\* The invariant of one process survives the steps of the others.
LEMMA OthersKeep ==
    ASSUME IInv, NEW p \in Process, NEW q \in Process, q # p, StepOf(p)
    PROVE  Shape(q)' /\ Holds(q)' /\ Writes(q)' /\ Current(q)'
<1>1. Same(q)
    BY OthersAreSame DEF IInv
<1>2. /\ Active(q)' <=> Active(q)
      /\ Starting(q)' <=> Starting(q)
      /\ Remaining(q)' = Remaining(q)
    BY <1>1 DEF Same, Active, Starting, Remaining
<1>3. Shape(q)'
    BY <1>1 DEF Same, Shape, IInv
<1>4. CASE ~Owned(q)
    <2>1. ~Active(q) /\ ~Starting(q) /\ ~Owned(q)'
        BY <1>4, BelieverOwns, OwnersAreSafe
    <2> QED BY <1>2, <1>3, <2>1 DEF Holds, Writes, Pending, Current
<1>5. CASE Owned(q)
    <2>1. UNCHANGED <<owner, left, saved, alarm, version, runs, claimOwner, claimVersion>>
        BY <1>5, OwnersAreSafe DEF row, alarmRow
    <2>2. Holds(q) /\ Writes(q) /\ Current(q)
        BY DEF IInv
    <2>3. Holds(q)'
        BY <1>1, <1>2, <2>1, <2>2 DEF Holds, Same
    <2>4. Writes(q)'
        BY <1>1, <2>1, <2>2 DEF Writes, Pending, Owned, Same
    <2>5. Current(q)'
        BY <1>1, <1>2, <2>1, <2>2 DEF Current, RecordCurrent, RunCurrent, Same
    <2> QED BY <1>3, <2>3, <2>4, <2>5
<1> QED BY <1>4, <1>5

-----------------------------------------------------------------------------
(* What a step does to the process that takes it.                          *)

Kept(p) == Shape(p)' /\ Holds(p)' /\ Writes(p)' /\ Current(p)'

\* The process is not an owner after the step and has nothing in flight.
LEMMA IdleKeeps ==
    ASSUME NEW p \in Process, op'[p] = "none", status'[p] # "ready",
           status'[p] = "down" => claim'[p] = Null
    PROVE  Kept(p)
BY DEF Kept, Shape, Holds, Writes, Current, Active, Starting, Pending

\* It is not an owner after the step, and what it sent goes on.
LEMMA LeavingKeeps ==
    ASSUME IInv, NEW p \in Process, status'[p] \in {"closing", "dead"},
           UNCHANGED <<row, alarmRow>>, token'[p] = token[p], record'[p] = record[p],
           op'[p] = op[p], stage'[p] = stage[p], arg'[p] = arg[p]
    PROVE  Kept(p)
<1>1. ~Active(p)' /\ ~Starting(p)'
    BY DEF Active, Starting
<1>2. Writes(p)'
    BY DEF IInv, Writes, Pending, Owned, row, alarmRow
<1> QED BY <1>1, <1>2 DEF Kept, Shape, Holds, Current

\* The way into ownership keeps the invariant of its process.
LEMMA StartKeeps ==
    ASSUME IInv, NEW p \in Process, Starts(p)
    PROVE  Kept(p)
<1> USE OwnerAssumption
<1>0. TypeOK /\ Shape(p) /\ Holds(p) /\ Remaining(p) \in 0 .. Lease
    BY RemainingTyped DEF IInv
<1>1. CASE AcquireSend(p)
    <2>1. /\ op'[p] = "acquire" /\ stage'[p] = "sent" /\ status'[p] = "down"
          /\ claim'[p] = claim[p]
        BY <1>0, <1>1 DEF AcquireSend, TypeOK, process
    <2> QED BY <1>0, <1>1, <2>1
            DEF AcquireSend, Kept, Shape, Holds, Writes, Current, Active, Starting, Pending
<1>2. CASE AcquireCommit(p)
    <2>1. /\ op[p] = "acquire" /\ op'[p] = "acquire" /\ status'[p] = status[p]
          /\ claim'[p] = claim[p] /\ since'[p] = since[p]
        BY <1>2 DEF AcquireCommit
    <2>2. stage'[p] = "refused" \/
             (stage'[p] = "done" /\ owner' = token'[p] /\ left' = Lease /\ record'[p] = saved')
        BY <1>0, <1>2 DEF AcquireCommit, TypeOK
    <2>3. Remaining(p)' = Remaining(p)
        BY <2>1 DEF Remaining
    <2> QED BY <1>0, <2>1, <2>2, <2>3
            DEF Kept, Shape, Holds, Writes, Current, Active, Starting, Pending
<1>3. CASE AcquireReply(p)
    <2>1. /\ op'[p] = "none" /\ claim'[p] = claim[p] /\ claim[p] = Null
          /\ UNCHANGED <<owner, left, saved>> /\ token'[p] = token[p] /\ record'[p] = record[p]
        BY <1>0, <1>3 DEF AcquireReply, Over, TypeOK, Shape, row
    <2>2. CASE Starting(p)
        <3>1. rest'[p] = Remaining(p)
            BY <1>0, <1>3, <2>2 DEF AcquireReply, Starting, TypeOK
        <3>2. owner' = token'[p] /\ rest'[p] <= left' /\ record'[p] = saved'
            BY <1>0, <2>1, <2>2, <3>1 DEF Holds
        <3> QED BY <2>1, <3>2
                DEF Kept, Shape, Holds, Writes, Current, RecordCurrent, RunCurrent, Starting, Pending
    <2>3. CASE ~Starting(p)
        <3>1. status'[p] # "ready"
            BY <1>0, <1>3, <2>3 DEF AcquireReply, Starting, TypeOK
        <3> QED BY <2>1, <3>1, IdleKeeps
    <2> QED BY <2>2, <2>3
<1> QED BY <1>1, <1>2, <1>3 DEF Starts

\* So do the ways out.
LEMMA EndKeeps ==
    ASSUME IInv, NEW p \in Process, Ends(p)
    PROVE  Kept(p)
<1>0. TypeOK /\ Shape(p)
    BY DEF IInv
<1>1. CASE Retire(p) \/ Expire(p)
    BY <1>0, <1>1, LeavingKeeps DEF Retire, Expire, Closing, TypeOK, operation
<1>2. CASE Crash(p)
    BY <1>0, <1>2, LeavingKeeps DEF Crash, TypeOK, operation
<1>3. CASE Drain(p)
    BY <1>0, <1>3, IdleKeeps DEF Drain, Over, TypeOK, process
<1>4. CASE Release(p)
    BY <1>0, <1>4, IdleKeeps DEF Release, TypeOK, operation
<1>5. CASE Lose(p)
    BY <1>0, <1>5, IdleKeeps DEF Lose, Closing, Over, TypeOK, process
<1>6. CASE Restart(p)
    BY <1>0, <1>6, IdleKeeps DEF Restart, Over, TypeOK
<1> QED BY <1>1, <1>2, <1>3, <1>4, <1>5, <1>6 DEF Ends

\* So do requests.
LEMMA SendKeeps ==
    ASSUME IInv, NEW p \in Process, Sends(p)
    PROVE  Kept(p)
<1>0. TypeOK /\ Holds(p) /\ Current(p)
    BY DEF IInv
<1> DEFINE Kinds == {"renew", "save", "setAlarm", "claimAlarm", "settleAlarm"}
<1>1. PICK kind \in Kinds : Send(p, kind) /\ (kind = "setAlarm" => version < MaxVersion)
    BY DEF Sends, RenewSend, SetAlarmSend, ClaimSend, SettleSend, SaveSend
<1>2. /\ Active(p) /\ op[p] = "none" /\ op'[p] = kind /\ stage'[p] = "sent"
      /\ UNCHANGED <<row, alarmRow, process>>
    BY <1>0, <1>1 DEF Send, TypeOK
<1>3. UNCHANGED <<owner, left, saved, version, claimOwner, claimVersion,
                  status, token, rest, record, claim>>
    BY <1>2 DEF row, alarmRow, process
<1>4. record[p] = saved /\ RunCurrent(p)
    BY <1>0, <1>2 DEF Current, RecordCurrent
<1>5. Shape(p)' /\ Holds(p)'
    BY <1>0, <1>2, <1>3 DEF Shape, Holds, Active, Starting
<1>6. Writes(p)'
    BY <1>1, <1>2, <1>3, <1>4 DEF Writes, Pending
<1>7. Current(p)'
    BY <1>2, <1>3, <1>4 DEF Current, RecordCurrent, RunCurrent
<1> QED BY <1>5, <1>6, <1>7 DEF Kept

\* The operation is carried out: what its sender knows was true of the row.
LEMMA CommitKeeps ==
    ASSUME IInv, NEW p \in Process, Commits(p)
    PROVE  Kept(p)
<1> USE OwnerAssumption
<1>0. TypeOK /\ Shape(p) /\ Holds(p) /\ Current(p) /\ Remaining(p) \in 0 .. Lease
    BY RemainingTyped DEF IInv
<1>1. /\ stage[p] = "sent" /\ stage'[p] # "sent" /\ op[p] \notin {"none", "acquire"}
      /\ status'[p] = status[p] /\ token'[p] = token[p] /\ rest'[p] = rest[p]
      /\ record'[p] = record[p] /\ op'[p] = op[p] /\ since'[p] = since[p] /\ arg'[p] = arg[p]
    BY <1>0
    DEF Commits, RenewCommit, SaveCommit, SetAlarmCommit, ClaimCommit, SettleCommit, Refuse,
        Commit, TypeOK, process
<1>2. Active(p)' <=> Active(p)
    BY <1>1 DEF Active
<1>3. ~Starting(p)' /\ Remaining(p)' = Remaining(p)
    BY <1>1 DEF Starting, Remaining
<1>4. Writes(p)'
    BY <1>1 DEF Writes, Pending
<1>5. Shape(p)'
    BY <1>0, <1>1 DEF Shape
<1>6. CASE RenewCommit(p)
    <2>1. /\ UNCHANGED <<owner, saved, claimOwner, claimVersion>> /\ claim'[p] = claim[p]
          /\ left' = Lease /\ op[p] = "renew"
        BY <1>6 DEF RenewCommit, Commit, alarmRow
    <2>2. Holds(p)'
        BY <1>0, <1>1, <1>2, <1>3, <2>1 DEF Holds, TypeOK
    <2>3. Current(p)'
        BY <1>0, <1>1, <1>2, <2>1 DEF Current, RecordCurrent, RunCurrent
    <2> QED BY <1>4, <1>5, <2>2, <2>3 DEF Kept
<1>7. CASE SaveCommit(p)
    <2>1. /\ UNCHANGED <<owner, left, claimOwner, claimVersion>> /\ claim'[p] = claim[p]
          /\ op[p] = "save" /\ stage'[p] = "done" /\ saved' = arg[p]
        BY <1>0, <1>7 DEF SaveCommit, Commit, alarmRow, TypeOK
    <2>2. Holds(p)'
        BY <1>0, <1>1, <1>2, <1>3, <2>1 DEF Holds
    <2>3. Current(p)'
        BY <1>0, <1>1, <1>2, <2>1 DEF Current, RecordCurrent, RunCurrent
    <2> QED BY <1>4, <1>5, <2>2, <2>3 DEF Kept
<1>8. ASSUME UNCHANGED <<owner, left, saved>>, op[p] \notin {"renew", "save"},
             Active(p) => RunCurrent(p)'
      PROVE  Kept(p)
    <2>1. Holds(p)'
        BY <1>0, <1>1, <1>2, <1>3, <1>8 DEF Holds
    <2>2. Current(p)'
        BY <1>0, <1>1, <1>2, <1>8 DEF Current, RecordCurrent
    <2> QED BY <1>4, <1>5, <2>1, <2>2 DEF Kept
<1>9. CASE SetAlarmCommit(p)
    <2>1. /\ UNCHANGED <<owner, left, saved, claimOwner, claimVersion, claim>>
          /\ op[p] = "setAlarm"
        BY <1>9 DEF SetAlarmCommit, Commit, row
    <2>2. Active(p) => RunCurrent(p)'
        BY <1>0, <1>1, <2>1 DEF Current, RunCurrent
    <2> QED BY <1>8, <2>1, <2>2
<1>10. CASE ClaimCommit(p)
    <2>1. UNCHANGED <<owner, left, saved>> /\ op[p] = "claimAlarm"
        BY <1>10 DEF ClaimCommit, Commit, row
    <2>2. Active(p) => RunCurrent(p)'
        <3> SUFFICES ASSUME Active(p) PROVE RunCurrent(p)'
            OBVIOUS
        <3>1. RunCurrent(p)
            BY <1>0 DEF Current
        <3>2. CASE UNCHANGED <<alarmRow, claim>>
            BY <1>1, <2>1, <3>1, <3>2 DEF RunCurrent, alarmRow
        <3>3. CASE Claimable(p) /\ UNCHANGED claim
            BY <2>1, <3>1, <3>3 DEF RunCurrent, Claimable
        <3>4. CASE claimOwner' = token[p] /\ claimVersion' = version
                   /\ claim' = [claim EXCEPT ![p] = version]
            BY <1>0, <1>1, <3>4 DEF RunCurrent, TypeOK
        <3> QED BY <1>10, <3>2, <3>3, <3>4 DEF ClaimCommit
    <2> QED BY <1>8, <2>1, <2>2
<1>11. CASE SettleCommit(p)
    <2>1. UNCHANGED <<owner, left, saved, claim>> /\ op[p] = "settleAlarm"
        BY <1>11 DEF SettleCommit, row, process
    <2>2. Active(p) => RunCurrent(p)'
        <3> SUFFICES ASSUME Active(p), claim[p] # Null PROVE stage'[p] = "done"
            BY <1>1, <2>1 DEF RunCurrent
        <3>1. ~Superseded(p)
            BY <1>0, <1>1 DEF Current, RunCurrent, Superseded
        <3> QED BY <1>0, <1>11, <3>1 DEF SettleCommit, TypeOK
    <2> QED BY <1>8, <2>1, <2>2
<1>12. CASE Refuse(p)
    <2>1. UNCHANGED <<owner, left, saved, claimOwner, claimVersion, claim>> /\ ~Owned(p)
        BY <1>12 DEF Refuse, row, alarmRow, process
    <2>2. ~Active(p)
        BY <2>1, BelieverOwns
    <2> QED BY <1>2, <1>3, <1>4, <1>5, <2>2 DEF Kept, Holds, Current
<1> QED BY <1>6, <1>7, <1>9, <1>10, <1>11, <1>12 DEF Commits

\* So do answers, which tell no more than the row says.
LEMMA ReplyKeeps ==
    ASSUME IInv, NEW p \in Process, Replies(p)
    PROVE  Kept(p)
<1> USE OwnerAssumption
<1>0. TypeOK /\ Shape(p) /\ Holds(p) /\ Current(p) /\ Remaining(p) \in 0 .. Lease
    BY RemainingTyped DEF IInv
<1>1. /\ Active(p) /\ stage[p] = "done" /\ op'[p] = "none" /\ status[p] = "ready"
      /\ UNCHANGED <<owner, left, saved, claimOwner, claimVersion>> /\ token'[p] = token[p]
    BY <1>0
    DEF Replies, RenewReply, SaveReply, SetAlarmReply, ClaimReply, SettleReply, Answered,
        Over, Closing, Active, TypeOK, row, alarmRow
<1>2. RecordCurrent(p) /\ RunCurrent(p)
    BY <1>0, <1>1 DEF Current
<1>3. ASSUME rest'[p] <= left, record'[p] = saved, status'[p] = "ready",
             \/ claim'[p] = claim[p] /\ op[p] # "settleAlarm"
             \/ claim'[p] = Null
      PROVE  Kept(p)
    <2>1. Current(p)'
        BY <1>1, <1>2, <1>3 DEF Current, RecordCurrent, RunCurrent
    <2>2. Holds(p)'
        BY <1>0, <1>1, <1>3 DEF Holds, Active, Starting
    <2> QED BY <1>1, <1>3, <2>1, <2>2 DEF Kept, Shape, Writes, Pending
<1>4. rest[p] <= left
    BY <1>0, <1>1 DEF Holds
<1>5. CASE RenewReply(p)
    <2>1. /\ op[p] = "renew" /\ rest'[p] = Remaining(p) /\ record'[p] = record[p]
          /\ status'[p] = status[p] /\ claim'[p] = claim[p]
        BY <1>0, <1>5 DEF RenewReply, Answered, TypeOK
    <2>2. Remaining(p) <= left
        BY <1>0, <1>1, <2>1 DEF Holds
    <2> QED BY <1>1, <1>2, <1>3, <2>1, <2>2 DEF RecordCurrent
<1>6. CASE SaveReply(p)
    <2>1. /\ op[p] = "save" /\ rest'[p] = rest[p] /\ record'[p] = arg[p]
          /\ status'[p] = status[p] /\ claim'[p] = claim[p]
        BY <1>0, <1>6 DEF SaveReply, Answered, TypeOK
    <2>2. arg[p] = saved
        BY <1>0, <1>1, <2>1 DEF Holds
    <2> QED BY <1>1, <1>3, <1>4, <2>1, <2>2
<1>7. CASE SetAlarmReply(p) \/ ClaimReply(p)
    <2>1. /\ op[p] \in {"setAlarm", "claimAlarm"} /\ rest'[p] = rest[p] /\ record'[p] = record[p]
          /\ status'[p] = status[p] /\ claim'[p] = claim[p]
        BY <1>7 DEF SetAlarmReply, ClaimReply, Answered
    <2> QED BY <1>1, <1>2, <1>3, <1>4, <2>1 DEF RecordCurrent
<1>8. CASE SettleReply(p)
    <2>1. CASE Closing(p)
        BY <1>0, <1>1, <2>1, IdleKeeps DEF Closing, TypeOK
    <2>2. CASE ~Closing(p)
        <3>1. /\ op[p] = "settleAlarm" /\ rest'[p] = rest[p] /\ record'[p] = record[p]
              /\ status'[p] = status[p] /\ claim'[p] = Null
            BY <1>0, <1>8, <2>2 DEF SettleReply, TypeOK
        <3> QED BY <1>1, <1>2, <1>3, <1>4, <3>1 DEF RecordCurrent
    <2> QED BY <2>1, <2>2
<1> QED BY <1>5, <1>6, <1>7, <1>8 DEF Replies

\* So do calls and alarm runs.
LEMMA TurnKeeps ==
    ASSUME IInv, NEW p \in Process, Turns(p)
    PROVE  Kept(p)
<1>1. UNCHANGED <<owner, left, saved, version, claimOwner, claimVersion,
                  status, token, rest, record, claim, op, stage, since, arg>>
    BY DEF Turns, BeginCall, BeginAlarm, Begin, EndCall, AlarmReturns, AlarmThrows, EndAlarm,
        row, alarmRow, operation
<1>2. Shape(p) /\ Holds(p) /\ Writes(p) /\ Current(p)
    BY DEF IInv
<1>3. Shape(p)' /\ Holds(p)'
    BY <1>1, <1>2 DEF Shape, Holds, Active, Starting, Remaining
<1>4. Writes(p)' /\ Current(p)'
    BY <1>1, <1>2 DEF Writes, Pending, Owned, Current, Active, RecordCurrent, RunCurrent
<1> QED BY <1>3, <1>4 DEF Kept

\* Time takes as much from a process as from the row.
LEMMA TickKeeps ==
    ASSUME IInv, NEW p \in Process, Tick
    PROVE  Kept(p)
<1> USE OwnerAssumption
<1>1. UNCHANGED <<owner, saved, version, claimOwner, claimVersion, status,
                  token, record, claim, op, stage, arg>>
    BY DEF Tick
<1>2. Shape(p) /\ Holds(p) /\ Writes(p) /\ Current(p) /\ TypeOK
    BY DEF IInv
<1>3. /\ left' = IF left > 0 THEN left - 1 ELSE 0
      /\ rest'[p] = IF rest[p] > 0 THEN rest[p] - 1 ELSE 0
      /\ since'[p] = IF op[p] # "none" /\ since[p] < Lease THEN since[p] + 1 ELSE since[p]
    BY <1>2 DEF Tick
<1>4. left \in 0 .. Lease /\ rest[p] \in 0 .. Lease /\ since[p] \in 0 .. Lease
    BY <1>2 DEF TypeOK
<1>5. /\ Active(p)' => Active(p)
      /\ Starting(p)' => Starting(p)
      /\ Owned(p)' => Owned(p)
    BY <1>1, <1>3, <1>4 DEF Active, Starting, Remaining, Owned
<1>6. Remaining(p) \in 0 .. Lease
      /\ (op[p] # "none" => Remaining(p)' = IF Remaining(p) > 0 THEN Remaining(p) - 1 ELSE 0)
    BY <1>3, <1>4 DEF Remaining
<1>7. Shape(p)' /\ Writes(p)'
    BY <1>1, <1>2, <1>5 DEF Shape, Writes, Pending
<1>8. Holds(p)'
    <2>1. ASSUME op[p] # "none", Remaining(p) <= left PROVE Remaining(p)' <= left'
        BY <1>3, <1>4, <1>6, <2>1
    <2>2. rest[p] <= left => rest'[p] <= left'
        BY <1>3, <1>4
    <2>3. Active(p)' => owner' = token'[p] /\ rest'[p] <= left'
        BY <1>1, <1>2, <1>5, <2>2 DEF Holds
    <2>4. Active(p)' /\ op'[p] = "renew" /\ stage'[p] = "done" => Remaining(p)' <= left'
        BY <1>1, <1>2, <1>5, <2>1 DEF Holds
    <2>5. Starting(p)' => owner' = token'[p] /\ Remaining(p)' <= left' /\ record'[p] = saved'
        BY <1>1, <1>2, <1>5, <2>1 DEF Holds, Starting
    <2> QED BY <1>1, <1>2, <1>5, <2>3, <2>4, <2>5 DEF Holds
<1>9. Current(p)'
    BY <1>1, <1>2, <1>5 DEF Current, RecordCurrent, RunCurrent
<1> QED BY <1>7, <1>8, <1>9 DEF Kept

-----------------------------------------------------------------------------
(* The invariant.                                                          *)

\* A new token is nobody else's.
LEMMA OneTokenStep ==
    ASSUME IInv, NEW p \in Process, StepOf(p)
    PROVE  OneToken'
<1>0. TypeOK /\ OneToken
    BY DEF IInv
<1>1. \/ token'[p] \in {token[p], NoToken}
      \/ \A q \in Process : token[q] # token'[p]
    <2>1. CASE AcquireCommit(p)
        BY <1>0, <2>1 DEF AcquireCommit, TypeOK
    <2>2. CASE Release(p) \/ Restart(p)
        BY <1>0, <2>2 DEF Release, Restart, TypeOK
    <2>3. CASE /\ ~AcquireCommit(p) /\ ~Release(p) /\ ~Restart(p)
        <3>1. UNCHANGED token
            BY <2>3
            DEF StepOf, Starts, AcquireSend, AcquireReply, Ends, Retire, Expire, Drain, Lose, Crash,
                Closing, Sends, RenewSend, SetAlarmSend, ClaimSend, SettleSend, SaveSend, Send,
                Commits, RenewCommit, SaveCommit, SetAlarmCommit, ClaimCommit, SettleCommit, Refuse,
                Commit, Replies, RenewReply, SaveReply, SetAlarmReply, ClaimReply, SettleReply,
                Answered, Turns, BeginCall, BeginAlarm, Begin, EndCall, AlarmReturns, AlarmThrows,
                EndAlarm, process
        <3> QED BY <3>1
    <2> QED BY <2>1, <2>2, <2>3
<1>2. \A q \in Process \ {p} : token'[q] = token[q]
    BY <1>0, OthersAreSame DEF Same
<1> QED BY <1>0, <1>1, <1>2 DEF OneToken

\* The row keeps its own invariant.
LEMMA RowStep ==
    ASSUME IInv, NEW p \in Process, StepOf(p)
    PROVE  RowInv'
<1> USE OwnerAssumption
<1>0. TypeOK /\ RowInv
    BY DEF IInv
<1>1. left' > 0 => owner' # NoToken
    <2>1. CASE UNCHANGED <<row, alarmRow>>
        BY <1>0, <2>1 DEF RowInv, row
    <2>2. CASE Owned(p) /\ UNCHANGED owner
        BY <1>0, <2>2 DEF RowInv, Owned
    <2> QED BY <2>1, <2>2, WhoWrites
<1>2. CASE SetAlarmCommit(p)
    <2>1. version' = version + 1 /\ UNCHANGED claimVersion
        BY <1>2 DEF SetAlarmCommit
    <2> QED BY <1>0, <1>1, <2>1 DEF RowInv, TypeOK
<1>3. CASE ClaimCommit(p)
    BY <1>0, <1>1, <1>3 DEF ClaimCommit, RowInv, TypeOK, alarmRow
<1>4. CASE SettleCommit(p)
    BY <1>0, <1>1, <1>4 DEF SettleCommit, RowInv, TypeOK
<1>5. CASE ~SetAlarmCommit(p) /\ ~ClaimCommit(p) /\ ~SettleCommit(p)
    <2>1. UNCHANGED alarmRow
        BY <1>5
        DEF StepOf, Starts, AcquireSend, AcquireCommit, AcquireReply, Ends, Retire, Expire, Drain,
            Release, Lose, Crash, Restart, Sends, RenewSend, SetAlarmSend, ClaimSend, SettleSend,
            SaveSend, Send, Commits, RenewCommit, SaveCommit, Refuse, Replies, RenewReply, SaveReply,
            SetAlarmReply, ClaimReply, SettleReply, Answered, Turns, BeginCall, BeginAlarm, Begin,
            EndCall, AlarmReturns, AlarmThrows, EndAlarm
    <2> QED BY <1>0, <1>1, <2>1 DEF RowInv, alarmRow
<1> QED BY <1>2, <1>3, <1>4, <1>5

\* Nobody owns the row at first.
LEMMA InitInv == Init => IInv
<1> SUFFICES ASSUME Init PROVE IInv
    OBVIOUS
<1> USE OwnerAssumption DEF Init
<1>1. TypeOK
    BY DEF TypeOK
<1>2. OneToken /\ RowInv
    BY DEF OneToken, RowInv
<1>3. ASSUME NEW p \in Process PROVE Shape(p) /\ Holds(p) /\ Writes(p) /\ Current(p)
    BY DEF Shape, Holds, Writes, Current, Active, Starting, Pending
<1> QED BY <1>1, <1>2, <1>3 DEF IInv

\* Every step keeps the invariant: its process, the others and the row.
LEMMA NextInv == IInv /\ [Next]_vars => IInv'
<1> SUFFICES ASSUME IInv, [Next]_vars PROVE IInv'
    OBVIOUS
<1>0. TypeOK'
    BY TypeStep
<1>1. ASSUME NEW p \in Process, StepOf(p) PROVE IInv'
    <2>1. Kept(p)
        BY <1>1, StartKeeps, EndKeeps, SendKeeps, CommitKeeps, ReplyKeeps, TurnKeeps DEF StepOf
    <2>2. \A q \in Process \ {p} : Shape(q)' /\ Holds(q)' /\ Writes(q)' /\ Current(q)'
        BY <1>1, OthersKeep
    <2>3. OneToken' /\ RowInv'
        BY <1>1, OneTokenStep, RowStep
    <2> QED BY <1>0, <2>1, <2>2, <2>3 DEF IInv, Kept
<1>2. CASE Tick
    <2>1. \A p \in Process : Shape(p)' /\ Holds(p)' /\ Writes(p)' /\ Current(p)'
        BY <1>2, TickKeeps DEF Kept
    <2>2. OneToken'
        BY <1>2 DEF Tick, IInv, OneToken
    <2>3. RowInv'
        BY <1>2, OwnerAssumption DEF Tick, IInv, RowInv, TypeOK
    <2> QED BY <1>0, <2>1, <2>2, <2>3 DEF IInv
<1>3. CASE UNCHANGED vars
    <2>1. UNCHANGED <<owner, left, saved, version, runs, claimOwner, claimVersion, status, token,
                      rest, record, claim, op, stage, since, arg>>
        BY <1>3 DEF vars, row, alarmRow, process, operation
    <2>2. OneToken' /\ RowInv'
        BY <2>1 DEF IInv, OneToken, RowInv
    <2>3. ASSUME NEW p \in Process PROVE Shape(p)' /\ Holds(p)' /\ Writes(p)' /\ Current(p)'
        <3>1. Shape(p) /\ Holds(p) /\ Writes(p) /\ Current(p)
            BY DEF IInv
        <3>2. Shape(p)' /\ Holds(p)'
            BY <2>1, <3>1 DEF Shape, Holds, Active, Starting, Remaining
        <3> QED BY <2>1, <3>1, <3>2
                DEF Writes, Pending, Owned, Current, Active, RecordCurrent, RunCurrent
    <2> QED BY <1>0, <2>2, <2>3 DEF IInv
<1> QED BY <1>1, <1>2, <1>3, NextIsStepOf

\* What the processes believe about the row follows from the row at every
\* moment of every operation in flight (acquire, renew, issue of
\* src/native-chain-firehose.ts over the transactions of the store).
THEOREM InductiveInvariant == Spec => []IInv
<1> QED BY InitInv, NextInv, PTL DEF Spec

\* The values of the row and of every process stay in their ranges; the
\* counters of alarm attempts and versions among them.
THEOREM TypeCorrect == Spec => []TypeOK
<1>1. IInv => TypeOK
    BY DEF IInv
<1> QED BY <1>1, InductiveInvariant, PTL

\* Whoever passes assertOwner owns the row, for at least as long as it thinks,
\* whatever was late, lost, retired or restarted: no two owners at a time.
THEOREM BelieversAreOwners == Spec => []BelieversOwn
<1>1. IInv => BelieversOwn
    BY DEF IInv, Holds, BelieversOwn
<1> QED BY <1>1, InductiveInvariant, PTL

\* Under a live lease the document in memory and the claimed alarm run are the
\* stored ones.
THEOREM KnowledgeIsCurrent == Spec => []OwnerIsCurrent
<1>1. IInv => OwnerIsCurrent
    BY DEF IInv, Current, OwnerIsCurrent
<1> QED BY <1>1, InductiveInvariant, PTL

\* A stored document is replaced only by the owner that has it in memory, also
\* when its transaction is carried out after it retired or died.
THEOREM UpdatesAreKept == Spec => NoLostUpdate
<1> DEFINE Kind == saved' # saved =>
                     \E p \in Process : /\ op[p] = "save" /\ owner = token[p] /\ left > 0
                                        /\ record[p] = saved
<1>1. IInv /\ [Next]_vars => [Kind]_vars
    <2> SUFFICES ASSUME IInv, Next, saved' # saved PROVE Kind
        BY DEF vars, row
    <2>1. PICK p \in Process : StepOf(p)
        BY NextIsStepOf DEF Tick
    <2>2. SaveCommit(p)
        BY <2>1
        DEF StepOf, Starts, AcquireSend, AcquireCommit, AcquireReply, Ends, Retire, Expire, Drain,
            Release, Lose, Crash, Restart, Sends, RenewSend, SetAlarmSend, ClaimSend, SettleSend,
            SaveSend, Send, Commits, RenewCommit, SetAlarmCommit, ClaimCommit, SettleCommit, Refuse,
            Replies, RenewReply, SaveReply, SetAlarmReply, ClaimReply, SettleReply, Answered, Turns,
            BeginCall, BeginAlarm, Begin, EndCall, AlarmReturns, AlarmThrows, EndAlarm, row
    <2>3. Pending(p, "save")
        BY <2>2 DEF SaveCommit, Commit, Pending
    <2> QED BY <2>3 DEF IInv, Writes, Pending, Owned
<1> QED BY <1>1, InductiveInvariant, PTL DEF Spec, NoLostUpdate

\* An alarm disappears when a run claimed at its own version is over, or when
\* its attempts are spent; one that was set during a run stands.
THEOREM AlarmIsKept == Spec => AlarmNotLost
<1> DEFINE Kind == alarm # Null /\ alarm' = Null =>
         \/ runs = MaxRuns /\ version' = version
         \/ /\ version' = version /\ claimVersion = version
            /\ \E p \in Process : claim[p] = version /\ owner = token[p]
<1>1. IInv /\ [Next]_vars => [Kind]_vars
    <2> SUFFICES ASSUME IInv, Next, alarm # Null, alarm' = Null PROVE Kind
        BY DEF vars, alarmRow
    <2> USE OwnerAssumption
    <2>0. TypeOK
        BY DEF IInv
    <2>1. PICK p \in Process : StepOf(p)
        BY <2>0, NextIsStepOf DEF Tick, TypeOK
    <2>2. ~SetAlarmCommit(p)
        BY DEF SetAlarmCommit
    <2>3. ClaimCommit(p) \/ SettleCommit(p)
        BY <2>1, <2>2
        DEF StepOf, Starts, AcquireSend, AcquireCommit, AcquireReply, Ends, Retire, Expire, Drain,
            Release, Lose, Crash, Restart, Sends, RenewSend, SetAlarmSend, ClaimSend, SettleSend,
            SaveSend, Send, Commits, RenewCommit, SaveCommit, Refuse,
            Replies, RenewReply, SaveReply, SetAlarmReply, ClaimReply, SettleReply, Answered, Turns,
            BeginCall, BeginAlarm, Begin, EndCall, AlarmReturns, AlarmThrows, EndAlarm, alarmRow
    <2>4. CASE ClaimCommit(p)
        BY <2>0, <2>4 DEF ClaimCommit, AttemptsLeft, TypeOK, alarmRow
    <2>5. CASE SettleCommit(p)
        <3>1. ~Superseded(p) /\ ~Rearmed(p)
            BY <2>5 DEF SettleCommit
        <3> QED BY <2>5, <3>1 DEF SettleCommit, Superseded, Rearmed, Owned
    <2> QED BY <2>3, <2>4, <2>5
<1> QED BY <1>1, InductiveInvariant, PTL DEF Spec, AlarmNotLost

===============================================================================
