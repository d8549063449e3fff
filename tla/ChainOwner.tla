------------------------------ MODULE ChainOwner ------------------------------
(***************************************************************************)
(* The single owner of the chain firehose: src/native-chain-firehose.ts    *)
(* in every process, over the one row of realtime.chain_firehose_actor     *)
(* that src/pg-chain-firehose-store.ts guards.  A process holds the        *)
(* row under a lease it renews, keeps the stored document in memory, and   *)
(* runs the row's alarm.                                                   *)
(*                                                                         *)
(* A storage operation has three moments: it is sent, the database does or *)
(* refuses it in one transaction, and the answer arrives; time passes and  *)
(* processes die in between.  Time is relative: left is the rest of the    *)
(* lease in the database, rest[p] what process p believes is left of it.   *)
(* Both clocks are assumed to advance at the same rate.                    *)
(***************************************************************************)
EXTENDS Integers, FiniteSets

CONSTANTS
    Process,
    Token,      \* owner tokens (random UUIDs in the code)
    NoToken,
    Values,     \* what the stored document may be
    FirstValue, \* what it is in a new row
    Delays,     \* how far ahead setAlarm asks for
    Null,
    Lease,      \* leaseMilliseconds
    MaxRuns,    \* attempts an alarm has (6 in the code)
    Backoff,    \* the retry delay after a number of attempts
    MaxVersion, \* bound: how many times the alarm is set
    MaxFaults   \* bound: how many things go wrong in a behaviour

ASSUME OwnerAssumption ==
    /\ NoToken \notin Token
    /\ FirstValue \in Values
    /\ \A delay \in Delays : delay \in Nat
    /\ Null \notin Int
    /\ Lease \in Nat \ {0}
    /\ MaxRuns \in Nat \ {0}
    /\ Backoff \in [1 .. MaxRuns -> Nat]
    /\ {MaxVersion, MaxFaults} \subseteq Nat

VARIABLES
    owner,        \* owner_token
    left,         \* lease_until_ms, relative to the clock; 0 when it is over
    saved,        \* state
    alarm,        \* alarm_at_ms, relative to the clock; 0 when it is due
    version,      \* alarm_version
    runs,         \* alarm_attempts
    claimOwner,   \* alarm_owner_token
    claimVersion, \* alarm_run_version
    status,       \* "down", "ready" or "closing"; "dead" after a crash
    token,        \* lease.token
    rest,         \* the time until deadline
    record,       \* the document in memory
    task,         \* what the serial call of a process is at
    claim,        \* the alarm version it claimed
    op,           \* its storage operation, "none" between operations
    stage,        \* "sent", "done" or "refused"
    since,        \* the time since the operation was sent
    arg,          \* the document it saves
    faults        \* how many things went wrong

row == <<owner, left, saved>>
alarmRow == <<alarm, version, runs, claimOwner, claimVersion>>
process == <<status, token, rest, record, task, claim>>
operation == <<op, stage, since, arg>>
vars == <<row, alarmRow, process, operation, faults>>

TypeOK ==
    /\ owner \in Token \cup {NoToken}
    /\ left \in 0 .. Lease
    /\ saved \in Values
    /\ alarm \in Nat \cup {Null}
    /\ version \in 0 .. MaxVersion
    /\ runs \in 0 .. MaxRuns
    /\ claimOwner \in Token \cup {NoToken}
    /\ claimVersion \in (0 .. MaxVersion) \cup {Null}
    /\ status \in [Process -> {"down", "ready", "closing", "dead"}]
    /\ token \in [Process -> Token \cup {NoToken}]
    /\ rest \in [Process -> 0 .. Lease]
    /\ record \in [Process -> Values]
    /\ task \in [Process -> {"none", "call", "claiming", "alarm", "completing", "failing"}]
    /\ claim \in [Process -> (0 .. MaxVersion) \cup {Null}]
    /\ op \in [Process -> {"none", "acquire", "renew", "save", "setAlarm",
                           "claimAlarm", "settleAlarm"}]
    /\ stage \in [Process -> {"sent", "done", "refused"}]
    /\ since \in [Process -> 0 .. Lease]
    /\ arg \in [Process -> Values]
    /\ faults \in 0 .. MaxFaults

Init ==
    /\ owner = NoToken /\ left = 0 /\ saved = FirstValue
    /\ alarm = Null /\ version = 0 /\ runs = 0
    /\ claimOwner = NoToken /\ claimVersion = Null
    /\ status = [p \in Process |-> "down"]
    /\ token = [p \in Process |-> NoToken]
    /\ rest = [p \in Process |-> 0]
    /\ record = [p \in Process |-> FirstValue]
    /\ task = [p \in Process |-> "none"]
    /\ claim = [p \in Process |-> Null]
    /\ op = [p \in Process |-> "none"]
    /\ stage = [p \in Process |-> "sent"]
    /\ since = [p \in Process |-> 0]
    /\ arg = [p \in Process |-> FirstValue]
    /\ faults = 0

-----------------------------------------------------------------------------
(* Ownership.                                                               *)

\* assertOwner() passes.
Active(p) == status[p] = "ready" /\ rest[p] > 0

\* Slip: the lease must be live, whosever it is.
OwnedWithoutToken(p) == left > 0

\* owned(): the row is still this lease's.
Owned(p) == owner = token[p] /\ left > 0

\* retire(): the process does nothing more as owner; what it sent goes on.
Closing(p) ==
    /\ status' = [status EXCEPT ![p] = "closing"]
    /\ rest' = [rest EXCEPT ![p] = 0]
    /\ UNCHANGED <<token, record, task, claim>>

\* What goes wrong by itself is bounded by MaxFaults.
Fault == faults < MaxFaults /\ faults' = faults + 1

\* A caller's signal is aborted, an operation throws, or close() is called.
Retire(p) ==
    /\ status[p] = "ready"
    /\ Closing(p)
    /\ Fault
    /\ UNCHANGED <<row, alarmRow, operation>>

\* The expiry timer, or the next assertOwner, or the answer of an operation
\* that was refused.
Expire(p) ==
    /\ status[p] = "ready"
    /\ rest[p] = 0 \/ (op[p] # "none" /\ stage[p] = "refused")
    /\ Closing(p)
    /\ UNCHANGED <<row, alarmRow, operation, faults>>

\* The operation of p is over; what it was is forgotten.
Over(p) ==
    /\ op' = [op EXCEPT ![p] = "none"]
    /\ stage' = [stage EXCEPT ![p] = "sent"]
    /\ since' = [since EXCEPT ![p] = 0]
    /\ arg' = [arg EXCEPT ![p] = FirstValue]

\* store.acquire() is sent by a process that starts.
AcquireSend(p) ==
    /\ status[p] = "down" /\ op[p] = "none"
    /\ op' = [op EXCEPT ![p] = "acquire"]
    /\ stage' = [stage EXCEPT ![p] = "sent"]
    /\ since' = [since EXCEPT ![p] = 0]
    /\ UNCHANGED <<row, alarmRow, process, arg, faults>>

\* Its transaction takes a free or expired row under a fresh token and reads
\* the document, or finds the row owned.
AcquireCommit(p) ==
    /\ op[p] = "acquire" /\ stage[p] = "sent"
    /\ IF owner # NoToken /\ left > 0
       THEN /\ stage' = [stage EXCEPT ![p] = "refused"]
            /\ UNCHANGED <<row, token, record>>
       ELSE \E k \in Token :
            /\ k # owner /\ k # claimOwner
            /\ \A q \in Process : token[q] # k
            /\ owner' = k
            /\ left' = Lease
            /\ token' = [token EXCEPT ![p] = k]
            /\ record' = [record EXCEPT ![p] = saved]
            /\ stage' = [stage EXCEPT ![p] = "done"]
            /\ UNCHANGED saved
    /\ UNCHANGED <<alarmRow, status, rest, task, claim, op, since, arg, faults>>

\* Slip: the lease counts from the arrival of the answer.
RemainingFromArrival(p) == Lease

\* arm(): the lease counts from the moment before it was asked for.
Remaining(p) == Lease - since[p]

\* The answer arrives.  A lease that is already over is given back.
AcquireReply(p) ==
    /\ op[p] = "acquire" /\ stage[p] # "sent" /\ status[p] = "down"
    /\ Over(p)
    /\ status' = [status EXCEPT ![p] =
            IF stage[p] = "refused" THEN "down"
            ELSE IF Remaining(p) > 0 THEN "ready" ELSE "closing"]
    /\ rest' = [rest EXCEPT ![p] = IF stage[p] = "done" THEN Remaining(p) ELSE 0]
    /\ UNCHANGED <<row, alarmRow, token, record, task, claim, faults>>

\* close(): once nothing is in flight the row is given back; release() writes
\* only under the process's own token.
Release(p) ==
    /\ status[p] = "closing" /\ op[p] = "none"
    /\ owner' = IF owner = token[p] THEN NoToken ELSE owner
    /\ left' = IF owner = token[p] THEN 0 ELSE left
    /\ status' = [status EXCEPT ![p] = "down"]
    /\ token' = [token EXCEPT ![p] = NoToken]
    /\ task' = [task EXCEPT ![p] = "none"]
    /\ claim' = [claim EXCEPT ![p] = Null]
    /\ record' = [record EXCEPT ![p] = FirstValue]
    /\ UNCHANGED <<saved, alarmRow, rest, operation, faults>>

-----------------------------------------------------------------------------
(* Storage operations of an owner: issue() lets one at a time go to the     *)
(* database, and asks assertOwner before and after.                         *)

Send(p, kind) ==
    /\ Active(p)
    /\ op[p] = "none"
    /\ op' = [op EXCEPT ![p] = kind]
    /\ stage' = [stage EXCEPT ![p] = "sent"]
    /\ since' = [since EXCEPT ![p] = 0]
    /\ UNCHANGED <<row, alarmRow, process, faults>>

\* The renewal timer fires.
RenewSend(p) == Send(p, "renew") /\ UNCHANGED arg

\* The hub saves a document or sets the alarm during a call or an alarm.
SaveSend(p, value) ==
    /\ task[p] \in {"call", "alarm"}
    /\ Send(p, "save")
    /\ arg' = [arg EXCEPT ![p] = value]

SetAlarmSend(p) ==
    /\ task[p] \in {"call", "alarm"}
    /\ version < MaxVersion
    /\ Send(p, "setAlarm")
    /\ UNCHANGED arg

ClaimSend(p) == task[p] = "claiming" /\ Send(p, "claimAlarm") /\ UNCHANGED arg

SettleSend(p) ==
    /\ task[p] \in {"completing", "failing"}
    /\ Send(p, "settleAlarm")
    /\ UNCHANGED arg

\* Whatever it is, an operation of a lease that was lost is refused.
Refuse(p) ==
    /\ op[p] \notin {"none", "acquire"} /\ stage[p] = "sent"
    /\ ~Owned(p)
    /\ stage' = [stage EXCEPT ![p] = "refused"]
    /\ UNCHANGED <<row, alarmRow, process, op, since, arg, faults>>

Commit(p, kind) ==
    /\ op[p] = kind /\ stage[p] = "sent"
    /\ Owned(p)
    /\ stage' = [stage EXCEPT ![p] = "done"]
    /\ UNCHANGED <<status, token, rest, record, task, op, since, arg, faults>>

RenewCommit(p) ==
    /\ Commit(p, "renew")
    /\ left' = Lease
    /\ UNCHANGED <<owner, saved, alarmRow, claim>>

SaveCommit(p) ==
    /\ Commit(p, "save")
    /\ saved' = arg[p]
    /\ UNCHANGED <<owner, left, alarmRow, claim>>

\* setAlarm(): a new version with a new budget; a run in progress is not
\* touched and finds out when it settles.
SetAlarmCommit(p) ==
    /\ Commit(p, "setAlarm")
    /\ \E delay \in Delays : alarm' = delay
    /\ version' = version + 1
    /\ runs' = 0
    /\ UNCHANGED <<row, claimOwner, claimVersion, claim>>

\* Slip: a run that a lost owner left open is respected.
ClaimableWhenClosed(p) == alarm = 0 /\ claimOwner = NoToken

\* The alarm is due and the owner has no open run; an open run of a former
\* owner is taken over.
Claimable(p) == alarm = 0 /\ claimOwner # token[p]

\* Slip: one attempt too many.
AttemptsLeftOneMore == runs <= MaxRuns

AttemptsLeft == runs < MaxRuns

\* claimAlarm(): nothing is due, the budget is spent, or the run is claimed.
ClaimCommit(p) ==
    /\ Commit(p, "claimAlarm")
    /\ \/ /\ ~Claimable(p)
          /\ UNCHANGED <<alarmRow, claim>>
       \/ /\ Claimable(p) /\ ~AttemptsLeft
          /\ alarm' = Null
          /\ claimOwner' = NoToken
          /\ claimVersion' = Null
          /\ UNCHANGED <<version, runs, claim>>
       \/ /\ Claimable(p) /\ AttemptsLeft
          /\ runs' = runs + 1
          /\ claimOwner' = token[p]
          /\ claimVersion' = version
          /\ claim' = [claim EXCEPT ![p] = version]
          /\ UNCHANGED <<alarm, version>>
    /\ UNCHANGED row

\* Slip: the version is not compared, an alarm set meanwhile is settled too.
RearmedNever(p) == FALSE

\* The alarm was set again while it ran.
Rearmed(p) == version # claim[p]

\* settleAlarm() for a claim that is no longer the row's.
Superseded(p) == claimOwner # token[p] \/ claimVersion # claim[p]

\* settleAlarm(): the new alarm stands, or the run is over, or it is retried
\* later while the budget lasts.
SettleCommit(p) ==
    /\ op[p] = "settleAlarm" /\ stage[p] = "sent" /\ Owned(p)
    /\ stage' = [stage EXCEPT ![p] = IF Superseded(p) THEN "refused" ELSE "done"]
    /\ alarm' = IF Superseded(p) \/ Rearmed(p) THEN alarm
                ELSE IF task[p] = "failing" /\ AttemptsLeft THEN Backoff[runs]
                ELSE Null
    /\ claimOwner' = IF Superseded(p) THEN claimOwner ELSE NoToken
    /\ claimVersion' = IF Superseded(p) THEN claimVersion ELSE Null
    /\ UNCHANGED <<row, version, runs, process, op, since, arg, faults>>

\* The transaction fails, or its answer is lost after it took effect: an
\* owner retires, a process that is starting fails to start.
Lose(p) ==
    /\ op[p] # "none"
    /\ Over(p)
    /\ Fault
    /\ \/ status[p] = "ready" /\ Closing(p)
       \/ /\ status[p] = "down"
          /\ status' = [status EXCEPT ![p] = "dead"]
          /\ UNCHANGED <<token, rest, record, task, claim>>
       \/ status[p] = "closing" /\ UNCHANGED process
    /\ UNCHANGED <<row, alarmRow>>

\* drain(): an owner that retired waits for what it had sent.
Drain(p) ==
    /\ status[p] = "closing"
    /\ op[p] # "none" /\ stage[p] # "sent"
    /\ Over(p)
    /\ UNCHANGED <<row, alarmRow, process, faults>>

\* The answer arrives in time at a process that is still the owner.
Answered(p, kind) ==
    /\ op[p] = kind /\ stage[p] = "done"
    /\ Active(p)
    /\ Over(p)
    /\ UNCHANGED <<row, alarmRow, status, token, faults>>

RenewReply(p) ==
    /\ Answered(p, "renew")
    /\ Remaining(p) > 0
    /\ rest' = [rest EXCEPT ![p] = Remaining(p)]
    /\ UNCHANGED <<record, task, claim>>

\* Slip: the document in memory is not replaced.
SaveReplyForgetting(p) ==
    /\ Answered(p, "save")
    /\ UNCHANGED <<rest, record, task, claim>>

SaveReply(p) ==
    /\ Answered(p, "save")
    /\ record' = [record EXCEPT ![p] = arg[p]]
    /\ UNCHANGED <<rest, task, claim>>

SetAlarmReply(p) == Answered(p, "setAlarm") /\ UNCHANGED <<rest, record, task, claim>>

ClaimReply(p) ==
    /\ Answered(p, "claimAlarm")
    /\ task' = [task EXCEPT ![p] = IF claim[p] = Null THEN "none" ELSE "alarm"]
    /\ UNCHANGED <<rest, record, claim>>

\* A failed run is thrown on once it is settled, and the owner retires.
SettleReply(p) ==
    /\ op[p] = "settleAlarm" /\ stage[p] = "done"
    /\ Active(p)
    /\ Over(p)
    /\ \/ task[p] = "failing" /\ Closing(p)
       \/ /\ task[p] = "completing"
          /\ task' = [task EXCEPT ![p] = "none"]
          /\ claim' = [claim EXCEPT ![p] = Null]
          /\ UNCHANGED <<status, token, rest, record>>
    /\ UNCHANGED <<row, alarmRow, faults>>

-----------------------------------------------------------------------------
(* serial(): one call or alarm run at a time.                               *)

Begin(p, what) ==
    /\ Active(p)
    /\ task[p] = "none"
    /\ task' = [task EXCEPT ![p] = what]
    /\ UNCHANGED <<row, alarmRow, status, token, rest, record, claim, operation, faults>>

BeginCall(p) == Begin(p, "call")
BeginAlarm(p) == Begin(p, "claiming")

\* A call ends when its storage operations are drained.
EndCall(p) ==
    /\ Active(p)
    /\ task[p] = "call" /\ op[p] = "none"
    /\ task' = [task EXCEPT ![p] = "none"]
    /\ UNCHANGED <<row, alarmRow, status, token, rest, record, claim, operation, faults>>

\* hub.alarm() returns or throws.
EndAlarm(p, how) ==
    /\ Active(p)
    /\ task[p] = "alarm" /\ op[p] = "none"
    /\ task' = [task EXCEPT ![p] = how]
    /\ IF how = "failing" THEN Fault ELSE UNCHANGED faults
    /\ UNCHANGED <<row, alarmRow, status, token, rest, record, claim, operation>>

AlarmReturns(p) == EndAlarm(p, "completing")
AlarmThrows(p) == EndAlarm(p, "failing")

-----------------------------------------------------------------------------
(* The environment.                                                         *)

\* A process dies; the transaction it sent may still be carried out.
Crash(p) ==
    /\ status[p] # "dead"
    /\ Fault
    /\ status' = [status EXCEPT ![p] = "dead"]
    /\ rest' = [rest EXCEPT ![p] = 0]
    /\ UNCHANGED <<row, alarmRow, token, record, task, claim, operation>>

\* A new process takes its place; nothing of the old one is left.
Restart(p) ==
    /\ status[p] = "dead"
    /\ status' = [status EXCEPT ![p] = "down"]
    /\ Over(p)
    /\ token' = [token EXCEPT ![p] = NoToken]
    /\ task' = [task EXCEPT ![p] = "none"]
    /\ claim' = [claim EXCEPT ![p] = Null]
    /\ record' = [record EXCEPT ![p] = FirstValue]
    /\ UNCHANGED <<row, alarmRow, rest, faults>>

\* Time that takes an owner its lease, or lets the answer to a starting one
\* come too late, is a fault: the code asks for three renewals to fit in a
\* lease.
Late ==
    \E p \in Process : \/ status[p] = "ready" /\ rest[p] = 1
                       \/ op[p] = "acquire" /\ since[p] = Lease - 1

Tick ==
    /\ IF Late THEN Fault ELSE UNCHANGED faults
    /\ left' = IF left > 0 THEN left - 1 ELSE 0
    /\ alarm' = IF alarm \in Nat \ {0} THEN alarm - 1 ELSE alarm
    /\ rest' = [p \in Process |-> IF rest[p] > 0 THEN rest[p] - 1 ELSE 0]
    /\ since' = [p \in Process |->
            IF op[p] # "none" /\ since[p] < Lease THEN since[p] + 1 ELSE since[p]]
    /\ UNCHANGED <<owner, saved, version, runs, claimOwner, claimVersion, status,
                   token, record, task, claim, op, stage, arg>>

Next ==
    \/ \E p \in Process : \/ AcquireSend(p) \/ AcquireCommit(p) \/ AcquireReply(p)
                          \/ Retire(p) \/ Expire(p) \/ Drain(p) \/ Release(p)
    \/ \E p \in Process : \/ RenewSend(p) \/ SetAlarmSend(p)
                          \/ ClaimSend(p) \/ SettleSend(p)
                          \/ \E value \in Values : SaveSend(p, value)
    \/ \E p \in Process : \/ RenewCommit(p) \/ SaveCommit(p) \/ SetAlarmCommit(p)
                          \/ ClaimCommit(p) \/ SettleCommit(p) \/ Refuse(p)
    \/ \E p \in Process : \/ RenewReply(p) \/ SaveReply(p) \/ SetAlarmReply(p)
                          \/ ClaimReply(p) \/ SettleReply(p) \/ Lose(p)
    \/ \E p \in Process : \/ BeginCall(p) \/ BeginAlarm(p) \/ EndCall(p)
                          \/ AlarmReturns(p) \/ AlarmThrows(p)
    \/ \E p \in Process : Crash(p) \/ Restart(p)
    \/ Tick

Spec == Init /\ [][Next]_vars
-----------------------------------------------------------------------------
(* Safety.                                                                  *)

\* Whoever passes assertOwner owns the row, and its lease lasts at least as
\* long in the database as in the process, however late answers arrive: so
\* no two processes serve, broadcast or poll the head at the same time.
BelieversOwn ==
    \A p \in Process : Active(p) => owner = token[p] /\ rest[p] <= left

\* The document an owner has in memory is never behind the stored one, but for
\* a save whose answer has not come.
RecordCurrent(p) ==
    \/ record[p] = saved
    \/ op[p] = "save" /\ stage[p] = "done" /\ arg[p] = saved

\* The alarm run an owner works on is the one the row names.
RunCurrent(p) ==
    claim[p] # Null =>
        \/ claimOwner = token[p] /\ claimVersion = claim[p]
        \/ op[p] = "settleAlarm" /\ stage[p] = "done"

\* Under a live lease what an owner knows is what is stored, so neither "Native
\* chain alarm claim was superseded" nor a write over a newer document can
\* happen to it, whatever answers were lost or late.
OwnerIsCurrent == \A p \in Process : Active(p) => RecordCurrent(p) /\ RunCurrent(p)

\* No update is lost: a document is overwritten only by its owner, which has
\* exactly that document in memory, also when the transaction comes late.
NoLostUpdate ==
    [][saved' # saved =>
         \E p \in Process : /\ op[p] = "save" /\ owner = token[p] /\ left > 0
                            /\ record[p] = saved]_vars

\* An alarm disappears only after a run claimed at its own version, or when
\* all its attempts are spent; one set during a run survives that run.
AlarmNotLost ==
    [][alarm # Null /\ alarm' = Null =>
         \/ runs = MaxRuns /\ version' = version
         \/ /\ version' = version /\ claimVersion = version
            /\ \E p \in Process : claim[p] = version /\ owner = token[p]]_vars
-----------------------------------------------------------------------------
(* Liveness.                                                                *)

\* A dead process is replaced, a retired one drains and releases, the loop
\* of the alarm turns, and the queues of serial() and issue() are first in,
\* first out, so that a storage operation, and an alarm, has its turn.
Fairness ==
    /\ WF_vars(Tick)
    /\ \A p \in Process :
         /\ WF_vars(Restart(p))
         /\ WF_vars(AcquireSend(p))
         /\ WF_vars(AcquireCommit(p) \/ RenewCommit(p) \/ SaveCommit(p)
                \/ SetAlarmCommit(p) \/ ClaimCommit(p) \/ SettleCommit(p) \/ Refuse(p))
         /\ WF_vars(AcquireReply(p) \/ RenewReply(p) \/ SaveReply(p)
                \/ SetAlarmReply(p) \/ ClaimReply(p) \/ SettleReply(p))
         /\ WF_vars(Expire(p))
         /\ WF_vars(Drain(p))
         /\ WF_vars(Release(p))
         /\ SF_vars(RenewSend(p) /\ rest[p] < Lease)
         /\ SF_vars(BeginAlarm(p))
         /\ SF_vars(ClaimSend(p))
         /\ SF_vars(SettleSend(p))
         /\ SF_vars(EndCall(p))
         /\ SF_vars(AlarmReturns(p))

FairSpec == Spec /\ Fairness

\* Every alarm is run to its end or given up after MaxRuns attempts, whoever
\* dies, retires or loses answers on the way.
AlarmResolved == (alarm # Null) ~> (alarm = Null)
===============================================================================
