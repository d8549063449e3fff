----------------------------- MODULE RawCapture -----------------------------
(***************************************************************************)
(* The raw capture lane of one network: src/raw-chain-capture.ts under     *)
(* src/raw-capture-sync.ts.  Every tick reads the stored watermark,        *)
(* asks an endpoint for its head, and captures the heights that follow in  *)
(* chunks: the bytes of a chunk first, then the watermark over them.       *)
(*                                                                         *)
(* A tick that overruns its minute overlaps the next one, so each await is *)
(* a boundary between actions.  Endpoints see the chain grow at different  *)
(* times, go away, and may have pruned what lies below Oldest.  The bytes  *)
(* of a height are final and therefore one value; the object a chunk is    *)
(* stored under is seen as the heights it holds.                           *)
(***************************************************************************)
EXTENDS Integers

CONSTANTS
    Tick,       \* the ticks that may be running at a time
    Endpoint,   \* rpcUrls
    Oldest,     \* Oldest[e]: the lowest height endpoint e still serves
    Floor,      \* genesisFloor
    MaxPerTick, \* heights a tick may capture
    FlushEvery, \* heights in a chunk: one read, one write
    MaxHead,    \* bound: the height at which the chain stops growing
    MaxFaults   \* bound: deaths, lost answers, blind reads and outages

ASSUME RawAssumption ==
    /\ Floor \in Nat \ {0}
    /\ MaxHead \in Nat
    /\ MaxPerTick \in Nat \ {0}
    /\ FlushEvery \in Nat \ {0}
    /\ MaxFaults \in Nat
    /\ Oldest \in [Endpoint -> Nat]

VARIABLES
    sees,    \* the head each endpoint reports
    up,      \* the endpoints that answer
    durable, \* the heights whose bytes are in the store
    mark,    \* raw_capture_state.last_contiguous_block; Floor - 1 while unset
    pc,      \* the await a tick is at
    done,    \* captureTick's watermark: the last height it knows captured
    last,    \* the end of the run of heights of the tick
    got,     \* the last height of the chunk it has read
    faults

chain == <<sees, up>>
local == <<pc, done, last, got>>
vars == <<chain, durable, mark, local, faults>>

Unset == Floor - 1
Height == Floor .. MaxHead

TypeOK ==
    /\ sees \in [Endpoint -> 0 .. MaxHead]
    /\ up \subseteq Endpoint
    /\ durable \subseteq Height
    /\ mark \in Height \cup {Unset}
    /\ pc \in [Tick -> {"idle", "head", "read", "put", "write"}]
    /\ done \in [Tick -> Height \cup {Unset}]
    /\ last \in [Tick -> Height \cup {Unset}]
    /\ got \in [Tick -> Height \cup {Unset}]
    /\ faults \in 0 .. MaxFaults

Init ==
    /\ sees = [e \in Endpoint |-> 0]
    /\ up = Endpoint
    /\ durable = {}
    /\ mark = Unset
    /\ pc = [t \in Tick |-> "idle"]
    /\ done = [t \in Tick |-> Unset]
    /\ last = [t \in Tick |-> Unset]
    /\ got = [t \in Tick |-> Unset]
    /\ faults = 0

Fault ==
    /\ faults < MaxFaults
    /\ faults' = faults + 1

\* The tick is over, returned or thrown; what it knew is gone.
Over(t) ==
    /\ pc' = [pc EXCEPT ![t] = "idle"]
    /\ done' = [done EXCEPT ![t] = Unset]
    /\ last' = [last EXCEPT ![t] = Unset]
    /\ got' = [got EXCEPT ![t] = Unset]

Lesser(m, n) == IF m < n THEN m ELSE n

-----------------------------------------------------------------------------
(* A tick.                                                                  *)

\* Slip: the watermark is read from a store that nothing writes.
ReadElsewhere == Unset

\* watermark.read(): the stored watermark.
ReadMark == mark

Start(t) ==
    /\ pc[t] = "idle"
    /\ pc' = [pc EXCEPT ![t] = "head"]
    /\ done' = [done EXCEPT ![t] = ReadMark]
    /\ UNCHANGED <<chain, durable, mark, last, got, faults>>

\* The reader answers null when it fails, which captureTick takes for unset.
StartBlind(t) ==
    /\ Fault
    /\ pc[t] = "idle"
    /\ pc' = [pc EXCEPT ![t] = "head"]
    /\ done' = [done EXCEPT ![t] = Unset]
    /\ UNCHANGED <<chain, durable, mark, last, got>>

\* Slip: the run does not end at the head.
RunPastHead(t, head) == done[t] + MaxPerTick

\* nextCaptureHeights(): the run done[t] + 1 .. RunEnd; empty if not above.
RunEnd(t, head) == Lesser(head, done[t] + MaxPerTick)

\* The head is what the first endpoint to answer reports.
Head(t, e) ==
    /\ pc[t] = "head"
    /\ e \in up
    /\ IF sees[e] > done[t]
       THEN /\ pc' = [pc EXCEPT ![t] = "read"]
            /\ last' = [last EXCEPT ![t] = RunEnd(t, sees[e])]
            /\ UNCHANGED <<done, got>>
       ELSE Over(t)
    /\ UNCHANGED <<chain, durable, mark, faults>>

ChunkEnd(t) == Lesser(done[t] + FlushEvery, last[t])

Serves(e, h) == e \in up /\ Oldest[e] <= h /\ h <= sees[e]

\* fetchRawBlockChunk(): an endpoint that serves the next height gives the
\* chunk up to n, which may be short of what was asked for.
ReadChunk(t, e, n) ==
    /\ pc[t] = "read"
    /\ Serves(e, done[t] + 1)
    /\ n \in done[t] + 1 .. Lesser(ChunkEnd(t), sees[e])
    /\ pc' = [pc EXCEPT ![t] = "put"]
    /\ got' = [got EXCEPT ![t] = n]
    /\ UNCHANGED <<chain, durable, mark, done, last, faults>>

\* No endpoint answers the head, or serves the next height.
GiveUp(t) ==
    /\ \/ pc[t] = "head" /\ up = {}
       \/ pc[t] = "read" /\ \A e \in Endpoint : ~Serves(e, done[t] + 1)
    /\ Over(t)
    /\ UNCHANGED <<chain, durable, mark, faults>>

\* store.put(): the object of the chunk, in one transaction.
Landed(t) == durable \cup (done[t] + 1 .. got[t])

Put(t) ==
    /\ pc[t] = "put"
    /\ durable' = Landed(t)
    /\ pc' = [pc EXCEPT ![t] = "write"]
    /\ UNCHANGED <<chain, mark, done, last, got, faults>>

\* confirm(): a tick that captured its chunk before an overlapping one stored
\* the same object is refused; that one has claimed it or is about to.
PutRefused(t) ==
    /\ pc[t] = "put"
    /\ \/ mark >= got[t]
       \/ \E u \in Tick \ {t} : pc[u] = "write" /\ done[u] = done[t] /\ got[u] = got[t]
    /\ Over(t)
    /\ UNCHANGED <<chain, durable, mark, faults>>

\* Slip: the whole chunk is claimed, whatever came back.
ClaimedWhole(t) == ChunkEnd(t)

\* flush() claims the last block of the batch it has stored.
Claimed(t) == got[t]

\* Slip: the upsert takes whatever it is given.
AdvancedUnguarded(t) == Claimed(t)

\* watermark.write(): the upsert keeps the greater height, so the readback
\* that follows never refuses.
Advanced(t) == IF Claimed(t) > mark THEN Claimed(t) ELSE mark

\* The watermark is confirmed: the tick goes on to its next chunk, unless it
\* reached the end of its run or the chunk came back short.
Write(t) ==
    /\ pc[t] = "write"
    /\ mark' = Advanced(t)
    /\ IF got[t] = ChunkEnd(t) /\ got[t] < last[t]
       THEN /\ pc' = [pc EXCEPT ![t] = "read"]
            /\ done' = [done EXCEPT ![t] = Claimed(t)]
            /\ got' = [got EXCEPT ![t] = Unset]
            /\ UNCHANGED last
       ELSE Over(t)
    /\ UNCHANGED <<chain, durable, faults>>

-----------------------------------------------------------------------------
(* Faults.                                                                  *)

\* The invocation is killed, or its call fails and it throws.
Die(t) ==
    /\ Fault
    /\ pc[t] # "idle"
    /\ Over(t)
    /\ UNCHANGED <<chain, durable, mark>>

\* The bytes are stored, but the put is reported failed or nobody is left.
PutAnswerLost(t) ==
    /\ Fault
    /\ pc[t] = "put"
    /\ durable' = Landed(t)
    /\ Over(t)
    /\ UNCHANGED <<chain, mark>>

\* The same for the watermark, or its readback fails.
WriteAnswerLost(t) ==
    /\ Fault
    /\ pc[t] = "write"
    /\ mark' = Advanced(t)
    /\ Over(t)
    /\ UNCHANGED <<chain, durable>>

-----------------------------------------------------------------------------
(* The endpoints.                                                           *)

Grow(e) ==
    /\ sees[e] < MaxHead
    /\ sees' = [sees EXCEPT ![e] = @ + 1]
    /\ UNCHANGED <<up, durable, mark, local, faults>>

GoDown(e) ==
    /\ Fault
    /\ e \in up
    /\ up' = up \ {e}
    /\ UNCHANGED <<sees, durable, mark, local>>

ComeUp(e) ==
    /\ e \notin up
    /\ up' = up \cup {e}
    /\ UNCHANGED <<sees, durable, mark, local, faults>>

Await(t) ==
    \/ \E e \in Endpoint : Head(t, e)
    \/ \E e \in Endpoint, n \in Height : ReadChunk(t, e, n)
    \/ GiveUp(t)
    \/ Put(t)
    \/ PutRefused(t)
    \/ Write(t)

Next ==
    \/ \E t \in Tick : \/ Start(t)
                       \/ StartBlind(t)
                       \/ Await(t)
                       \/ Die(t)
                       \/ PutAnswerLost(t)
                       \/ WriteAnswerLost(t)
    \/ \E e \in Endpoint : Grow(e) \/ GoDown(e) \/ ComeUp(e)

Spec == Init /\ [][Next]_vars

-----------------------------------------------------------------------------
(* Properties.                                                              *)

\* "every block at or below this height is durably" stored: whatever ticks
\* overlap, die or are answered late, the watermark claims stored heights
\* only, and what a tick goes on from is captured without a gap.
WatermarkCovered ==
    /\ Floor .. mark \subseteq durable
    /\ \A t \in Tick : Floor .. done[t] \subseteq durable

\* The store and its watermark are a frontier: nothing stored is lost, and
\* the watermark moves forward only, over stored heights.
Frontier == INSTANCE CaptureFrontier
ImplementsFrontier == Frontier!Spec

\* The cron starts ticks for ever, every call of a tick is answered or times
\* out, an endpoint that is away comes back, and all see the same chain.
Fairness ==
    /\ \A t \in Tick : WF_vars(Start(t)) /\ WF_vars(Await(t))
    /\ \A e \in Endpoint :
          /\ WF_vars(ComeUp(e))
          /\ WF_vars((\E f \in Endpoint : sees[f] > sees[e]) /\ Grow(e))

FairSpec == Spec /\ Fairness

\* A height that some endpoint has seen is captured in the end: no overlap,
\* restart, outage or pruned endpoint pins the watermark for good.
CatchesUp ==
    \A h \in Height : (\E e \in Endpoint : sees[e] >= h) ~> (mark >= h)
=============================================================================
