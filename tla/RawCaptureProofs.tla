--------------------------- MODULE RawCaptureProofs ---------------------------
(***************************************************************************)
(* That the watermark of the raw capture claims stored heights only, and   *)
(* that the capture implements CaptureFrontier, for every number of        *)
(* overlapping ticks and endpoints, any pruning, and without a bound on    *)
(* heights or faults other than those the constants name.                  *)
(***************************************************************************)
EXTENDS RawCapture, TLAPS

\* A tick that has a chunk knows its heights, and once the store has answered
\* they are stored.
ChunkInv ==
    \A t \in Tick :
        /\ pc[t] \in {"put", "write"} => got[t] \in Height
        /\ pc[t] = "write" => (done[t] + 1 .. got[t]) \subseteq durable

IInv == TypeOK /\ WatermarkCovered /\ ChunkInv

USE DEF Unset, Height

\* The lesser of two numbers is one of them.
LEMMA LesserBetween ==
    ASSUME NEW m \in Int, NEW n \in Int
    PROVE  /\ Lesser(m, n) \in Int
           /\ Lesser(m, n) <= m /\ Lesser(m, n) <= n
           /\ Lesser(m, n) = m \/ Lesser(m, n) = n
BY DEF Lesser

\* A run of heights that follows a covered prefix extends it.
LEMMA Extends ==
    ASSUME NEW S, NEW a \in Int, NEW b \in Int,
           Floor .. a \subseteq S, a + 1 .. b \subseteq S
    PROVE  Floor .. b \subseteq S
BY RawAssumption

\* No tick runs at first.
LEMMA InitInv == Init => IInv
BY RawAssumption DEF Init, IInv, TypeOK, WatermarkCovered, ChunkInv

\* The upsert moves the watermark forward or leaves it, and claims a stored
\* prefix if the chunk it is called with extends one.
LEMMA AdvanceIsSafe ==
    ASSUME IInv, NEW t \in Tick, pc[t] = "write"
    PROVE  /\ Advanced(t) \in Height \cup {Unset}
           /\ Advanced(t) >= mark
           /\ Floor .. got[t] \subseteq durable
           /\ Floor .. Advanced(t) \subseteq durable
           /\ Advanced(t) # mark => Advanced(t) \in Height
<1>1. /\ got[t] \in Height
      /\ done[t] \in Int /\ got[t] \in Int
      /\ mark \in Height \cup {Unset} /\ mark \in Int
  BY RawAssumption DEF IInv, TypeOK, ChunkInv
<1>2. Floor .. got[t] \subseteq durable
  <2>1. /\ Floor .. done[t] \subseteq durable
        /\ (done[t] + 1 .. got[t]) \subseteq durable
    BY DEF IInv, WatermarkCovered, ChunkInv
  <2>2. QED BY <1>1, <2>1, Extends
<1>3. CASE got[t] > mark
  BY <1>1, <1>2, <1>3 DEF Advanced, Claimed
<1>4. CASE ~(got[t] > mark)
  BY <1>1, <1>2, <1>4 DEF Advanced, Claimed, IInv, WatermarkCovered
<1>5. QED BY <1>3, <1>4

\* A tick that is over knows nothing, so it breaks nothing.
LEMMA OverKeeps ==
    ASSUME IInv, NEW t \in Tick, Over(t),
           durable \subseteq durable', durable' \subseteq Height,
           mark' \in Height \cup {Unset}, Floor .. mark' \subseteq durable',
           sees' \in [Endpoint -> 0 .. MaxHead], up' \subseteq Endpoint,
           faults' \in 0 .. MaxFaults
    PROVE  IInv'
<1>1. TypeOK' BY RawAssumption DEF IInv, TypeOK, Over
<1>2. WatermarkCovered'
  BY RawAssumption DEF IInv, TypeOK, WatermarkCovered, Over
<1>3. ChunkInv' BY DEF IInv, TypeOK, ChunkInv, Over
<1>4. QED BY <1>1, <1>2, <1>3 DEF IInv

\* Faults stay within their bound.
LEMMA FaultBounded ==
    ASSUME IInv, Fault PROVE faults' \in 0 .. MaxFaults
BY RawAssumption DEF IInv, TypeOK, Fault

\* The bytes of a chunk are heights there are.
LEMMA LandedIsHeights ==
    ASSUME IInv, NEW t \in Tick, pc[t] = "put"
    PROVE  durable \subseteq Landed(t) /\ Landed(t) \subseteq Height
<1>1. /\ got[t] \in Height /\ done[t] \in Height \cup {Unset}
      /\ durable \subseteq Height
  BY DEF IInv, TypeOK, ChunkInv
<1>2. (done[t] + 1 .. got[t]) \subseteq Height
  BY <1>1, RawAssumption
<1>3. QED BY <1>1, <1>2 DEF Landed

\* A tick that learns a head keeps the invariant.
LEMMA HeadInv ==
    ASSUME IInv, NEW t \in Tick, NEW e \in Endpoint, Head(t, e)
    PROVE  IInv'
<1>1. CASE sees[e] > done[t]
  <2>1. RunEnd(t, sees[e]) \in Height
    <3>1. /\ sees[e] \in 0 .. MaxHead /\ done[t] \in Height \cup {Unset}
      BY DEF IInv, TypeOK
    <3>2. sees[e] \in Int /\ done[t] + MaxPerTick \in Int
      BY <3>1, RawAssumption
    <3>3. /\ RunEnd(t, sees[e]) \in Int
          /\ RunEnd(t, sees[e]) <= sees[e]
          /\ \/ RunEnd(t, sees[e]) = sees[e]
             \/ RunEnd(t, sees[e]) = done[t] + MaxPerTick
      BY <3>2, LesserBetween DEF RunEnd
    <3>4. /\ sees[e] \in Int /\ sees[e] <= MaxHead
          /\ done[t] \in Int /\ done[t] >= Floor - 1
      BY <3>1, RawAssumption
    <3>5. /\ RunEnd(t, sees[e]) >= Floor
          /\ RunEnd(t, sees[e]) <= MaxHead
      BY <1>1, <3>3, <3>4, RawAssumption
    <3>6. QED BY <3>3, <3>5, RawAssumption
  <2>2. QED
    BY <1>1, <2>1 DEF Head, IInv, TypeOK, WatermarkCovered, ChunkInv, chain
<1>2. CASE ~(sees[e] > done[t])
  BY <1>2, OverKeeps DEF Head, IInv, TypeOK, WatermarkCovered, chain
<1>3. QED BY <1>1, <1>2

\* A tick that reads a chunk goes on where it stands.
LEMMA ReadInv ==
    ASSUME IInv, NEW t \in Tick, NEW e \in Endpoint, NEW n \in Height, ReadChunk(t, e, n)
    PROVE  IInv'
BY DEF ReadChunk, IInv, TypeOK, WatermarkCovered, ChunkInv, chain

\* A chunk that was put is stored.
LEMMA PutInv ==
    ASSUME IInv, NEW t \in Tick, Put(t)
    PROVE  IInv'
<1>1. durable \subseteq durable' /\ durable' \subseteq Height
  BY LandedIsHeights DEF Put
<1>2. TypeOK' BY <1>1 DEF Put, IInv, TypeOK, chain
<1>3. WatermarkCovered' BY <1>1 DEF Put, IInv, WatermarkCovered
<1>4. ChunkInv' BY <1>1 DEF Put, Landed, IInv, TypeOK, ChunkInv
<1>5. QED BY <1>2, <1>3, <1>4 DEF IInv

\* A mark is written over stored heights.
LEMMA WriteInv ==
    ASSUME IInv, NEW t \in Tick, Write(t)
    PROVE  IInv'
<1>1. pc[t] = "write" BY DEF Write
<1>2. /\ mark' \in Height \cup {Unset}
      /\ Floor .. mark' \subseteq durable
      /\ Floor .. got[t] \subseteq durable
  BY <1>1, AdvanceIsSafe DEF Write
<1>3. CASE got[t] = ChunkEnd(t) /\ got[t] < last[t]
  <2>1. got[t] \in Height BY <1>1 DEF IInv, ChunkInv
  <2>2. TypeOK' BY <1>2, <1>3, <2>1 DEF Write, Claimed, IInv, TypeOK, chain
  <2>3. WatermarkCovered'
    BY <1>2, <1>3 DEF Write, Claimed, IInv, TypeOK, WatermarkCovered
  <2>4. ChunkInv' BY <1>3 DEF Write, IInv, TypeOK, ChunkInv
  <2>5. QED BY <2>2, <2>3, <2>4 DEF IInv
<1>4. CASE ~(got[t] = ChunkEnd(t) /\ got[t] < last[t])
  BY <1>2, <1>4, OverKeeps DEF Write, IInv, TypeOK, chain
<1>5. QED BY <1>3, <1>4

\* Every step keeps the invariant.
LEMMA NextInv == IInv /\ [Next]_vars => IInv'
<1> SUFFICES ASSUME IInv, [Next]_vars PROVE IInv' OBVIOUS
<1>1. ASSUME NEW t \in Tick, Start(t) PROVE IInv'
  BY <1>1 DEF Start, ReadMark, IInv, TypeOK, WatermarkCovered, ChunkInv, chain
<1>2. ASSUME NEW t \in Tick, StartBlind(t) PROVE IInv'
  <2>1. faults' \in 0 .. MaxFaults BY <1>2, FaultBounded DEF StartBlind
  <2>2. Floor .. Unset = {} BY RawAssumption
  <2>3. QED
    BY <1>2, <2>1, <2>2
    DEF StartBlind, IInv, TypeOK, WatermarkCovered, ChunkInv, chain
<1>3. ASSUME NEW t \in Tick, Await(t) PROVE IInv'
  <2>1. ASSUME GiveUp(t) PROVE IInv'
    BY <2>1, OverKeeps DEF GiveUp, IInv, TypeOK, WatermarkCovered, chain
  <2>2. ASSUME PutRefused(t) PROVE IInv'
    BY <2>2, OverKeeps DEF PutRefused, IInv, TypeOK, WatermarkCovered, chain
  <2>3. QED BY <1>3, <2>1, <2>2, HeadInv, ReadInv, PutInv, WriteInv DEF Await
<1>4. ASSUME NEW t \in Tick, Die(t) PROVE IInv'
  <2>1. faults' \in 0 .. MaxFaults BY <1>4, FaultBounded DEF Die
  <2>2. QED BY <1>4, <2>1, OverKeeps DEF Die, IInv, TypeOK, WatermarkCovered, chain
<1>5. ASSUME NEW t \in Tick, PutAnswerLost(t) PROVE IInv'
  <2>1. faults' \in 0 .. MaxFaults BY <1>5, FaultBounded DEF PutAnswerLost
  <2>2. durable \subseteq durable' /\ durable' \subseteq Height
    BY <1>5, LandedIsHeights DEF PutAnswerLost
  <2>3. QED
    BY <1>5, <2>1, <2>2, OverKeeps
    DEF PutAnswerLost, IInv, TypeOK, WatermarkCovered, chain
<1>6. ASSUME NEW t \in Tick, WriteAnswerLost(t) PROVE IInv'
  <2>1. faults' \in 0 .. MaxFaults BY <1>6, FaultBounded DEF WriteAnswerLost
  <2>2. mark' \in Height \cup {Unset} /\ Floor .. mark' \subseteq durable
    BY <1>6, AdvanceIsSafe DEF WriteAnswerLost
  <2>3. QED
    BY <1>6, <2>1, <2>2, OverKeeps DEF WriteAnswerLost, IInv, TypeOK, chain
<1>7. ASSUME NEW e \in Endpoint, Grow(e) \/ GoDown(e) \/ ComeUp(e) PROVE IInv'
  <2>1. TypeOK'
    <3>1. CASE Grow(e)
      BY <3>1, RawAssumption DEF Grow, IInv, TypeOK, local
    <3>2. CASE GoDown(e)
      BY <3>2, FaultBounded DEF GoDown, IInv, TypeOK, local
    <3>3. CASE ComeUp(e) BY <3>3 DEF ComeUp, IInv, TypeOK, local
    <3>4. QED BY <1>7, <3>1, <3>2, <3>3
  <2>2. UNCHANGED <<durable, mark, local>>
    BY <1>7 DEF Grow, GoDown, ComeUp
  <2>3. WatermarkCovered' /\ ChunkInv'
    BY <2>2 DEF IInv, WatermarkCovered, ChunkInv, local
  <2>4. QED BY <2>1, <2>3 DEF IInv
<1>8. CASE UNCHANGED vars
  BY <1>8 DEF IInv, TypeOK, WatermarkCovered, ChunkInv, vars, chain, local
<1>9. QED BY <1>1, <1>2, <1>3, <1>4, <1>5, <1>6, <1>7, <1>8 DEF Next

\* The invariant holds.
LEMMA Invariant == Spec => []IInv
BY InitInv, NextInv, PTL DEF Spec

\* The variables keep their types, and a tick never captures past the head of
\* an endpoint that answered it.
THEOREM TypeCorrect == Spec => []TypeOK
BY Invariant, PTL DEF IInv

\* At every moment each height up to the watermark is stored, and each height
\* a running tick has behind it.
THEOREM CaptureIsGapFree == Spec => []WatermarkCovered
BY Invariant, PTL DEF IInv

\* Every step of the capture is a step of the frontier, or none for it: bytes
\* land, or the watermark advances over stored heights, or neither changes.
LEMMA StepIsFrontierStep ==
    ASSUME IInv, [Next]_vars
    PROVE  [Frontier!Next]_(Frontier!frontier)
<1>1. ASSUME NEW t \in Tick, pc[t] = "put", durable' = Landed(t), UNCHANGED mark
      PROVE  Frontier!Next
  <2>1. (done[t] + 1 .. got[t]) \in SUBSET Height
    BY <1>1, LandedIsHeights DEF Landed
  <2>2. Frontier!Land(done[t] + 1 .. got[t])
    BY <1>1 DEF Frontier!Land, Landed
  <2>3. QED BY <2>1, <2>2 DEF Frontier!Next
<1>2. ASSUME NEW t \in Tick, pc[t] = "write", mark' = Advanced(t), UNCHANGED durable
      PROVE  [Frontier!Next]_(Frontier!frontier)
  <2>1. CASE Advanced(t) = mark BY <1>2, <2>1 DEF Frontier!frontier
  <2>2. CASE Advanced(t) # mark
    <3>1. /\ Advanced(t) \in Height /\ Advanced(t) >= mark
          /\ Floor .. Advanced(t) \subseteq durable
          /\ mark \in Int
      BY <1>2, <2>2, AdvanceIsSafe, RawAssumption DEF IInv, TypeOK
    <3>2. Advanced(t) > mark BY <2>2, <3>1, RawAssumption
    <3>3. Frontier!Advance(Advanced(t))
      BY <1>2, <3>1, <3>2 DEF Frontier!Advance
    <3>4. QED BY <3>1, <3>3 DEF Frontier!Next
  <2>3. QED BY <2>1, <2>2
<1>3. ASSUME UNCHANGED <<durable, mark>>
      PROVE  [Frontier!Next]_(Frontier!frontier)
  BY <1>3 DEF Frontier!frontier
<1>4. ASSUME NEW t \in Tick, Start(t) \/ StartBlind(t) \/ Await(t) \/ Die(t)
                                \/ PutAnswerLost(t) \/ WriteAnswerLost(t)
      PROVE  [Frontier!Next]_(Frontier!frontier)
  <2>1. CASE Put(t) \/ PutAnswerLost(t)
    BY <2>1, <1>1 DEF Put, PutAnswerLost
  <2>2. CASE Write(t) \/ WriteAnswerLost(t)
    BY <2>2, <1>2 DEF Write, WriteAnswerLost
  <2>3. CASE Start(t) \/ StartBlind(t) \/ GiveUp(t) \/ PutRefused(t) \/ Die(t)
    BY <2>3, <1>3 DEF Start, StartBlind, GiveUp, PutRefused, Die
  <2>4. ASSUME NEW e \in Endpoint, Head(t, e)
        PROVE  [Frontier!Next]_(Frontier!frontier)
    BY <2>4, <1>3 DEF Head
  <2>5. ASSUME NEW e \in Endpoint, NEW n \in Height, ReadChunk(t, e, n)
        PROVE  [Frontier!Next]_(Frontier!frontier)
    BY <2>5, <1>3 DEF ReadChunk
  <2>6. QED BY <1>4, <2>1, <2>2, <2>3, <2>4, <2>5 DEF Await
<1>5. ASSUME NEW e \in Endpoint, Grow(e) \/ GoDown(e) \/ ComeUp(e)
      PROVE  [Frontier!Next]_(Frontier!frontier)
  BY <1>5, <1>3 DEF Grow, GoDown, ComeUp
<1>6. CASE UNCHANGED vars BY <1>6, <1>3 DEF vars
<1>7. QED BY <1>4, <1>5, <1>6 DEF Next

\* The capture keeps what CaptureFrontier promises.
THEOREM CaptureIsFrontier == Spec => ImplementsFrontier
<1>1. Init => Frontier!Init
  BY DEF Init, Frontier!Init
<1>2. IInv /\ [Next]_vars => [Frontier!Next]_(Frontier!frontier)
  BY StepIsFrontierStep
<1>3. QED
  BY <1>1, <1>2, Invariant, PTL DEF Spec, ImplementsFrontier, Frontier!Spec
===============================================================================
