--------------------------- MODULE SyncLaneProofs ---------------------------
(***************************************************************************)
(* Proofs about SyncLane, for every number of messages, consumers, chunks  *)
(* and passes, and whatever the writer: nothing is lost, a complete pass   *)
(* is whole, and the queues are used as their custody lets them be.        *)
(***************************************************************************)
EXTENDS SyncLane, FiniteSetTheorems, TLAPS

\* What a message owes its producer is settled.
Kept(m) == ChunkOf[m] \in landed \/ Preserved(m)

\* A consumer is between the rows and the tally only once the rows are stored.
TallyAfterRows ==
    \A h \in Holder : current[h] # NoMessage => ChunkOf[current[h]] \in landed

\* An acknowledgment that a delivery has yet to settle is justified already.
AcksJustified == \A h \in Holder : \A m \in acks[h] : Kept(m)

IInv == TypeOK /\ TallyAfterRows /\ AcksJustified /\ NothingLost

\* What is given up is dead or parked.
LEMMA EscalatedIsPlace ==
    ASSUME NEW q \in Queue
    PROVE  Custody!Escalated(q) \in {Dead, "parked"}
  BY LaneAssumption DEF Custody!Escalated

\* Types, for a decision of a consumer.
LEMMA DecideTyped ==
    ASSUME TypeOK, NEW h \in Holder, NEW m \in Message, NEW decision,
           Decide(h, m, decision)
    PROVE  /\ attempt' \in [Holder -> [Message -> Nat]]
           /\ current' \in [Holder -> Message \cup {NoMessage}]
           /\ from' \in [Holder -> Queue \cup {NoQueue}]
           /\ acks' \in [Holder -> SUBSET Message]
           /\ \A g \in Holder : current'[g] \in {n \in Message : attempt'[g][n] > 0} \cup {NoMessage}
  <1>1. attempt' \in [Holder -> [Message -> Nat]]
    BY DEF TypeOK, Decide
  <1>2. current' \in [Holder -> Message \cup {NoMessage}]
    BY DEF TypeOK, Decide
  <1>3. from' \in [Holder -> Queue \cup {NoQueue}]
    BY DEF TypeOK, Decide
  <1>4. acks' \in [Holder -> SUBSET Message]
    BY DEF TypeOK, Decide
  <1>5. ASSUME NEW g \in Holder
        PROVE  current'[g] \in {n \in Message : attempt'[g][n] > 0} \cup {NoMessage}
    <2>1. CASE g = h
      BY <2>1 DEF TypeOK, Decide
    <2>2. CASE g # h
      BY <2>2 DEF TypeOK, Decide, Batch
    <2> QED BY <2>1, <2>2
  <1> QED BY <1>1, <1>2, <1>3, <1>4, <1>5

\* Types, for a tally.
LEMMA TalliedTyped ==
    ASSUME TypeOK, NEW c \in Chunk, Tallied(c)
    PROVE  counted' \in [Chunk -> Nat] /\ complete' \subseteq Pass
  <1>1. counted' \in [Chunk -> Nat]
    BY DEF TypeOK, Tallied
  <1>2. PassOf[c] \in Pass
    BY LaneAssumption
  <1>3. complete' \subseteq complete \cup {PassOf[c]}
    BY DEF Tallied
  <1> QED BY <1>1, <1>2, <1>3 DEF TypeOK

\* Types, at first.
LEMMA InitTyped ==
    ASSUME Init
    PROVE  TypeOK
  BY LaneAssumption DEF Init, Custody!Init, TypeOK, Batch

\* Nothing is owed at first.
LEMMA InitKept ==
    ASSUME Init
    PROVE  TallyAfterRows /\ AcksJustified /\ NothingLost
  BY DEF Init, Custody!Init, TallyAfterRows, AcksJustified, NothingLost

\* Types, for every step.
LEMMA TypeStep ==
    ASSUME TypeOK, [Next]_vars
    PROVE  TypeOK'
  <1>1. ASSUME NEW m \in Message, Post(m)
        PROVE  TypeOK'
    BY <1>1, LaneAssumption
       DEF TypeOK, Post, Custody!Deposit, Batch, store, quarantine, consumer
  <1>2. ASSUME NEW q \in Queue, NEW h \in Holder, NEW L \in SUBSET Message,
               Claim(q, h, L)
        PROVE  TypeOK'
    <2>1. /\ place' \in [Message -> {"unsent", Main, Dead, "parked", "gone"}]
          /\ holder' \in [Message -> Holder \cup {Nobody}]
      BY <1>2, EscalatedIsPlace DEF TypeOK, Claim, Custody!Take
    <2>2. tries' \in [Message -> Nat] /\ attempt' \in [Holder -> [Message -> Nat]]
      BY <1>2 DEF TypeOK, Claim
    <2>3. from' \in [Holder -> Queue \cup {NoQueue}]
      BY <1>2 DEF TypeOK, Claim
    <2>4. ASSUME NEW g \in Holder
          PROVE  current'[g] \in Batch(g)' \cup {NoMessage}
      <3>1. CASE g = h
        BY <1>2, <3>1 DEF TypeOK, Claim, Batch
      <3>2. CASE g # h
        BY <1>2, <3>2 DEF TypeOK, Claim, Batch
      <3> QED BY <3>1, <3>2
    <2> QED
      BY <1>2, <2>1, <2>2, <2>3, <2>4 DEF TypeOK, Claim, store, quarantine
  <1>3. ASSUME NEW h \in Holder, Settle(h)
        PROVE  TypeOK'
    <2>1. /\ place' \in [Message -> {"unsent", Main, Dead, "parked", "gone"}]
          /\ holder' \in [Message -> Holder \cup {Nobody}]
      BY <1>3, EscalatedIsPlace DEF TypeOK, Settle, Custody!Resolve
    <2>2. tries' \in [Message -> Nat] /\ acks' \in [Holder -> SUBSET Message]
      BY <1>3 DEF TypeOK, Settle
    <2>3. from' \in [Holder -> Queue \cup {NoQueue}]
      BY <1>3 DEF TypeOK, Settle
    <2> QED
      BY <1>3, <2>1, <2>2, <2>3 DEF TypeOK, Settle, Batch, store, quarantine
  <1>4. ASSUME NEW h \in Holder, Expire(h)
        PROVE  TypeOK'
    BY <1>4 DEF TypeOK, Expire, Custody!Lapse, Batch, store, quarantine
  <1>5. ASSUME NEW h \in Holder, Die(h)
        PROVE  TypeOK'
    BY <1>5 DEF TypeOK, Die, Batch, custody, store, quarantine
  <1>6. ASSUME NEW h \in Holder, Tally(h)
        PROVE  TypeOK'
    <2>1. current[h] \in Message /\ ChunkOf[current[h]] \in Chunk
      BY <1>6, LaneAssumption DEF TypeOK, Tally
    <2>2. \E decision \in {"ack", "retry"} : Decide(h, current[h], decision)
      BY <1>6 DEF Tally
    <2>3. counted' \in [Chunk -> Nat] /\ complete' \subseteq Pass
      <3>1. CASE Tallied(ChunkOf[current[h]])
        BY <2>1, <3>1, TalliedTyped
      <3>2. CASE UNCHANGED <<counted, complete>>
        BY <3>2 DEF TypeOK
      <3> QED BY <1>6, <3>1, <3>2 DEF Tally
    <2> QED
      BY <1>6, <2>1, <2>2, <2>3, DecideTyped DEF TypeOK, Tally, Batch, custody, quarantine
  <1>7. ASSUME NEW h \in Holder, NEW m \in Message, Land(h, m)
        PROVE  TypeOK'
    <2>1. ChunkOf[m] \in Chunk
      BY LaneAssumption
    <2>2. CASE Decide(h, m, "retry")
      BY <1>7, <2>1, <2>2, DecideTyped DEF TypeOK, Land, Batch, custody, quarantine
    <2>3. CASE /\ current' = [current EXCEPT ![h] = m]
               /\ UNCHANGED <<attempt, acks, from>>
      BY <1>7, <2>1, <2>3 DEF TypeOK, Land, Batch, custody, quarantine
    <2> QED BY <1>7, <2>2, <2>3 DEF Land
  <1>8. ASSUME NEW h \in Holder, NEW m \in Message, Transact(h, m)
        PROVE  TypeOK'
    <2>1. ChunkOf[m] \in Chunk
      BY LaneAssumption
    <2>2. \E decision \in {"ack", "retry"} : Decide(h, m, decision)
      BY <1>8 DEF Transact
    <2>3. /\ landed' \subseteq Chunk
          /\ counted' \in [Chunk -> Nat] /\ complete' \subseteq Pass
      <3>1. CASE Tallied(ChunkOf[m])
        BY <1>8, <2>1, <3>1, TalliedTyped DEF TypeOK, Transact, store
      <3>2. CASE UNCHANGED store
        BY <3>2 DEF TypeOK, store
      <3> QED BY <1>8, <3>1, <3>2 DEF Transact
    <2> QED
      BY <1>8, <2>2, <2>3, DecideTyped DEF TypeOK, Transact, Batch, custody, quarantine
  <1>9. ASSUME NEW h \in Holder, NEW m \in Message, Preserve(h, m)
        PROVE  TypeOK'
    <2>1. \E decision \in {"ack", "retry"} : Decide(h, m, decision)
      BY <1>9 DEF Preserve
    <2>2. PICK key \in observed[m] \cup {attempt[h][m]} :
              /\ custodied' \in {custodied, custodied \cup {m}}
              /\ observed' \in IF m \in custodied'
                         THEN {observed, [observed EXCEPT ![m] = @ \cup {key}]}
                         ELSE {observed}
      BY <1>9 DEF Preserve
    <2>3. key \in Nat \ {0}
      BY <1>9, <2>2 DEF TypeOK, Preserve, Batch
    <2>4. custodied' \subseteq Message /\ observed' \in [Message -> SUBSET (Nat \ {0})]
      BY <2>2, <2>3 DEF TypeOK
    <2> QED
      BY <1>9, <2>1, <2>4, DecideTyped DEF TypeOK, Preserve, Batch, custody, store
  <1>10. CASE UNCHANGED vars
    BY <1>10 DEF TypeOK, Batch, vars, custody, store, quarantine, consumer
  <1> QED
    BY <1>1, <1>2, <1>3, <1>4, <1>5, <1>6, <1>7, <1>8, <1>9, <1>10 DEF Next

\* What is stored stays stored.
LEMMA KeptStays ==
    ASSUME TypeOK, landed \subseteq landed', custodied \subseteq custodied',
           NEW m \in Message, observed[m] \subseteq observed'[m], Kept(m)
    PROVE  Kept(m)'
  BY DEF Kept, Preserved

\* A step that decides nothing and removes nothing keeps what is kept.
LEMMA DecideKeeps ==
    ASSUME IInv, NEW h \in Holder, NEW m \in Message, NEW decision,
           Decide(h, m, decision), decision = "ack" => Kept(m)',
           \A n \in Message : Kept(n) => Kept(n)',
           landed \subseteq landed', UNCHANGED custody
    PROVE  TallyAfterRows' /\ AcksJustified' /\ NothingLost'
  <1>1. TallyAfterRows'
    <2> SUFFICES ASSUME NEW g \in Holder, current'[g] # NoMessage
                 PROVE  ChunkOf[current'[g]] \in landed'
      BY DEF TallyAfterRows
    <2>1. current'[g] = current[g]
      BY DEF IInv, TypeOK, Decide
    <2> QED BY <2>1 DEF IInv, TallyAfterRows
  <1>2. AcksJustified'
    <2> SUFFICES ASSUME NEW g \in Holder, NEW n \in acks'[g]
                 PROVE  Kept(n)'
      BY DEF AcksJustified
    <2>1. n \in acks[g] \/ (n = m /\ decision = "ack")
      BY DEF IInv, TypeOK, Decide
    <2>2. n \in acks[g] => n \in Message /\ Kept(n)
      BY DEF IInv, TypeOK, AcksJustified
    <2> QED BY <2>1, <2>2
  <1>3. NothingLost'
    BY DEF IInv, NothingLost, Kept, custody
  <1> QED BY <1>1, <1>2, <1>3

\* No step breaks what the acknowledgments promise.
LEMMA KeptStep ==
    ASSUME IInv, [Next]_vars
    PROVE  TallyAfterRows' /\ AcksJustified' /\ NothingLost'
  <1>1. ASSUME NEW m \in Message, Post(m)
        PROVE  TallyAfterRows' /\ AcksJustified' /\ NothingLost'
    <2>1. UNCHANGED <<store, quarantine, consumer>>
      BY <1>1 DEF Post
    <2>2. \A n \in Message : place'[n] = "gone" => place[n] = "gone"
      BY <1>1, LaneAssumption DEF IInv, TypeOK, Post, Custody!Deposit
    <2> QED
      BY <2>1, <2>2 DEF IInv, TallyAfterRows, AcksJustified, NothingLost, Kept,
         Preserved, store, quarantine, consumer
  <1>2. ASSUME NEW q \in Queue, NEW h \in Holder, NEW L \in SUBSET Message,
               Claim(q, h, L)
        PROVE  TallyAfterRows' /\ AcksJustified' /\ NothingLost'
    <2>1. UNCHANGED <<store, quarantine, current, acks>>
      BY <1>2 DEF Claim
    <2>2. \A n \in Message : place'[n] = "gone" => place[n] = "gone"
      BY <1>2, EscalatedIsPlace, LaneAssumption DEF IInv, TypeOK, Claim, Custody!Take
    <2> QED
      BY <2>1, <2>2 DEF IInv, TallyAfterRows, AcksJustified, NothingLost, Kept,
         Preserved, store, quarantine
  <1>3. ASSUME NEW h \in Holder, Settle(h)
        PROVE  TallyAfterRows' /\ AcksJustified' /\ NothingLost'
    <2>1. UNCHANGED <<store, quarantine, current>>
      BY <1>3 DEF Settle
    <2>2. \A g \in Holder : acks'[g] \subseteq acks[g]
      BY <1>3 DEF IInv, TypeOK, Settle
    <2>3. \A n \in Message : place'[n] = "gone" => place[n] = "gone" \/ n \in acks[h]
      BY <1>3, EscalatedIsPlace, LaneAssumption DEF IInv, TypeOK, Settle, Custody!Resolve
    <2> QED
      BY <2>1, <2>2, <2>3 DEF IInv, TallyAfterRows, AcksJustified, NothingLost, Kept,
         Preserved, store, quarantine
  <1>4. ASSUME NEW h \in Holder, Expire(h) \/ Die(h)
        PROVE  TallyAfterRows' /\ AcksJustified' /\ NothingLost'
    <2>1. UNCHANGED <<place, store, quarantine>>
      BY <1>4 DEF Expire, Die, Custody!Lapse, custody
    <2>2. \A g \in Holder : acks'[g] \subseteq acks[g]
      BY <1>4 DEF IInv, TypeOK, Expire, Die
    <2>3. \A g \in Holder : current'[g] \in {current[g], NoMessage}
      BY <1>4 DEF IInv, TypeOK, Expire, Die
    <2> QED
      BY <2>1, <2>2, <2>3 DEF IInv, TallyAfterRows, AcksJustified, NothingLost, Kept,
         Preserved, store, quarantine
  <1>5. ASSUME NEW h \in Holder, Tally(h)
        PROVE  TallyAfterRows' /\ AcksJustified' /\ NothingLost'
    <2>1. current[h] \in Message /\ ChunkOf[current[h]] \in landed
      BY <1>5 DEF IInv, TypeOK, TallyAfterRows, Tally
    <2>2. UNCHANGED <<custody, landed, quarantine>>
      BY <1>5 DEF Tally
    <2>3. \A n \in Message : Kept(n) => Kept(n)'
      BY <2>2 DEF Kept, Preserved, quarantine
    <2>4. PICK m \in Message : m = current[h]
      BY <2>1
    <2>5. PICK decision \in {"ack", "retry"} : Decide(h, m, decision)
      BY <1>5, <2>4 DEF Tally
    <2>6. Kept(m)'
      BY <2>1, <2>2, <2>4 DEF Kept
    <2> QED
      BY <2>2, <2>3, <2>5, <2>6, DecideKeeps
  <1>6. ASSUME NEW h \in Holder, NEW m \in Message, Land(h, m)
        PROVE  TallyAfterRows' /\ AcksJustified' /\ NothingLost'
    <2>1. landed \subseteq landed' /\ UNCHANGED <<custody, quarantine>>
      BY <1>6 DEF Land
    <2>2. \A n \in Message : Kept(n) => Kept(n)'
      BY <2>1 DEF Kept, Preserved, quarantine
    <2>3. CASE Decide(h, m, "retry")
      BY <2>1, <2>2, <2>3, DecideKeeps
    <2>4. CASE /\ landed' = landed \cup {ChunkOf[m]}
               /\ current' = [current EXCEPT ![h] = m]
               /\ UNCHANGED <<attempt, acks, from>>
      <3>1. TallyAfterRows'
        BY <2>4 DEF IInv, TypeOK, TallyAfterRows
      <3>2. AcksJustified'
        BY <2>2, <2>4 DEF IInv, TypeOK, AcksJustified
      <3>3. NothingLost'
        BY <2>1, <2>2 DEF IInv, NothingLost, Kept, custody
      <3> QED BY <3>1, <3>2, <3>3
    <2> QED BY <1>6, <2>3, <2>4 DEF Land
  <1>7. ASSUME NEW h \in Holder, NEW m \in Message, Transact(h, m)
        PROVE  TallyAfterRows' /\ AcksJustified' /\ NothingLost'
    <2>1. landed \subseteq landed' /\ UNCHANGED <<custody, quarantine>>
      BY <1>7 DEF Transact, store
    <2>2. \A n \in Message : Kept(n) => Kept(n)'
      BY <2>1 DEF Kept, Preserved, quarantine
    <2>3. \/ Decide(h, m, "retry")
          \/ Decide(h, m, "ack") /\ ChunkOf[m] \in landed'
      BY <1>7 DEF Transact
    <2>4. ChunkOf[m] \in landed' => Kept(m)'
      BY DEF Kept
    <2> QED BY <2>1, <2>2, <2>3, <2>4, DecideKeeps
  <1>8. ASSUME NEW h \in Holder, NEW m \in Message, Preserve(h, m)
        PROVE  TallyAfterRows' /\ AcksJustified' /\ NothingLost'
    <2>1. UNCHANGED <<custody, landed>>
      BY <1>8 DEF Preserve, store
    <2>2. custodied \subseteq custodied'
      BY <1>8 DEF Preserve
    <2>3. \A n \in Message : observed[n] \subseteq observed'[n]
      BY <1>8 DEF IInv, TypeOK, Preserve
    <2>4. \A n \in Message : Kept(n) => Kept(n)'
      BY <2>1, <2>2, <2>3 DEF Kept, Preserved
    <2>5. \/ Decide(h, m, "retry")
          \/ Decide(h, m, "ack") /\ m \in custodied' /\ observed'[m] # {}
      BY <1>8 DEF Preserve
    <2>6. m \in custodied' /\ observed'[m] # {} => Kept(m)'
      BY DEF Kept, Preserved
    <2> QED BY <2>1, <2>4, <2>5, <2>6, DecideKeeps
  <1>9. CASE UNCHANGED vars
    BY <1>9 DEF IInv, TallyAfterRows, AcksJustified, NothingLost, Kept, Preserved,
       vars, custody, store, quarantine, consumer
  <1> QED
    BY <1>1, <1>2, <1>3, <1>4, <1>5, <1>6, <1>7, <1>8, <1>9 DEF Next

\* The types of the lane are kept.
THEOREM TypeCorrect == Spec => []TypeOK
  <1>1. Init => TypeOK
    BY InitTyped
  <1>2. TypeOK /\ [Next]_vars => TypeOK'
    BY TypeStep
  <1> QED BY <1>1, <1>2, PTL DEF Spec

\* Rows come before the tally and the tally before the acknowledgment, in every
\* state of the lane.
THEOREM InductiveInvariant == Spec => []IInv
  <1>1. Init => IInv
    BY InitTyped, InitKept DEF IInv
  <1>2. IInv /\ [Next]_vars => IInv'
    BY TypeStep, KeptStep DEF IInv
  <1> QED BY <1>1, <1>2, PTL DEF Spec

\* Nothing a producer handed over disappears.
THEOREM ChunksAreKept == Spec => []NothingLost
  <1>1. IInv => NothingLost
    BY DEF IInv
  <1> QED BY <1>1, InductiveInvariant, PTL

-----------------------------------------------------------------------------
(***************************************************************************)
(* The tally.  A sum that reaches the rows of the pass, each chunk counted *)
(* once at most, counts every chunk.                                       *)
(***************************************************************************)
CountedIsLanded == \A c \in Chunk : counted[c] > 0 => c \in landed

TallyInv == CountedIsLanded /\ CompleteUnlessRepeated

\* The rows of a pass are finitely many.
LEMMA RowsFinite ==
    ASSUME NEW p \in Pass, NEW n \in [Chunk -> Nat]
    PROVE  IsFiniteSet(RowsOf(p, n))
  <1> DEFINE Counted(c) == {c} \X (1..(n[c] * Rows[c]))
             Family == {Counted(c) : c \in ChunksOf(p)}
  <1>1. IsFiniteSet(ChunksOf(p))
    BY FS_Subset, LaneAssumption DEF ChunksOf
  <1>2. IsFiniteSet(Family)
    <2> DEFINE f == [c \in ChunksOf(p) |-> Counted(c)]
    <2>1. f \in Surjection(ChunksOf(p), Family)
      BY DEF Surjection
    <2> QED BY <1>1, <2>1, FS_Surjection
  <1>3. ASSUME NEW c \in ChunksOf(p)
        PROVE  IsFiniteSet(Counted(c))
    <2>1. c \in Chunk
      BY DEF ChunksOf
    <2>2. n[c] \in Nat /\ Rows[c] \in Nat
      BY <2>1, LaneAssumption
    <2>3. n[c] * Rows[c] \in Int
      BY <2>2
    <2>4. IsFiniteSet(1..(n[c] * Rows[c]))
      BY <2>3, FS_Interval
    <2>5. IsFiniteSet({c})
      BY FS_Singleton
    <2> QED BY <2>4, <2>5, FS_Product
  <1>4. \A T \in Family : IsFiniteSet(T)
    BY <1>3
  <1>5. RowsOf(p, n) = UNION Family
    BY DEF RowsOf
  <1> HIDE DEF Family
  <1> QED BY <1>2, <1>4, <1>5, FS_UNION

\* The sum of a pass none of whose chunks was counted twice.
LEMMA SumCountsAll ==
    ASSUME NEW p \in Pass, NEW n \in [Chunk -> Nat],
           \A c \in ChunksOf(p) : n[c] <= 1,
           ReceivedRows(p, n) >= ExpectedRows(p)
    PROVE  \A c \in ChunksOf(p) : n[c] = 1
  <1> DEFINE once == [c \in Chunk |-> 1]
             R == RowsOf(p, n)
             E == RowsOf(p, once)
  <1>1. \A c \in ChunksOf(p) : c \in Chunk /\ Rows[c] \in Nat \ {0}
    BY LaneAssumption DEF ChunksOf
  <1>2. R \subseteq E
    <2> SUFFICES ASSUME NEW c \in ChunksOf(p),
                        NEW x \in {c} \X (1..(n[c] * Rows[c]))
                 PROVE  x \in E
      BY DEF RowsOf
    <2>1. n[c] = 0 \/ n[c] = 1
      BY <1>1
    <2>2. once[c] * Rows[c] = Rows[c] /\ n[c] * Rows[c] \in {0, Rows[c]}
      BY <1>1, <2>1
    <2>3. x \in {c} \X (1..(once[c] * Rows[c]))
      BY <1>1, <2>2
    <2> QED BY <2>3 DEF RowsOf
  <1>3. IsFiniteSet(E)
    BY RowsFinite
  <1>4. Cardinality(R) <= Cardinality(E) /\ IsFiniteSet(R)
    BY <1>2, <1>3, FS_Subset
  <1>5. Cardinality(R) \in Nat /\ Cardinality(E) \in Nat
    BY <1>3, <1>4, FS_CardinalityType
  <1>6. Cardinality(R) >= Cardinality(E)
    BY DEF ReceivedRows, ExpectedRows
  <1>7. Cardinality(E) = Cardinality(R)
    BY <1>4, <1>5, <1>6
  <1>8. E = R
    BY <1>2, <1>3, <1>7, FS_Subset
  <1> SUFFICES ASSUME NEW c \in ChunksOf(p)
               PROVE  n[c] = 1
    OBVIOUS
  <1>9. <<c, 1>> \in E
    BY <1>1 DEF RowsOf
  <1>10. PICK d \in ChunksOf(p) : <<c, 1>> \in {d} \X (1..(n[d] * Rows[d]))
    BY <1>8, <1>9 DEF RowsOf
  <1>11. 1 \in 1..(n[c] * Rows[c])
    BY <1>10
  <1>12. n[c] = 0 \/ n[c] = 1
    BY <1>1
  <1> QED BY <1>1, <1>11, <1>12

\* A chunk's rows are stored when the tally counts them.
LEMMA TalliedKeeps ==
    ASSUME TypeOK, TallyInv, NEW c \in Chunk, Tallied(c),
           landed \subseteq landed', c \in landed'
    PROVE  TallyInv'
  <1>1. counted' = [counted EXCEPT ![c] = @ + 1] /\ counted' \in [Chunk -> Nat]
    BY TalliedTyped DEF Tallied
  <1>2. CountedIsLanded'
    BY <1>1 DEF TypeOK, TallyInv, CountedIsLanded
  <1>3. ASSUME NEW p \in complete'
        PROVE  ChunksOf(p) \subseteq landed' \/ \E d \in ChunksOf(p) : counted'[d] > 1
    <2>1. \A d \in ChunksOf(p) : d \in Chunk /\ counted[d] \in Nat /\ counted'[d] \in Nat
      BY <1>1 DEF ChunksOf, TypeOK
    <2>2. CASE p \in complete
      <3>1. CASE ChunksOf(p) \subseteq landed
        BY <3>1
      <3>2. CASE \E d \in ChunksOf(p) : counted[d] > 1
        <4>1. \A d \in ChunksOf(p) : counted'[d] >= counted[d]
          BY <1>1, <2>1 DEF TypeOK
        <4> QED BY <3>2, <4>1, <2>1
      <3> QED BY <2>2, <3>1, <3>2 DEF TallyInv, CompleteUnlessRepeated
    <2>3. CASE p \notin complete
      <3>1. p = PassOf[c] /\ ReceivedRows(p, counted') >= ExpectedRows(p)
        BY <2>3 DEF Tallied
      <3>2. p \in Pass
        BY <3>1, LaneAssumption
      <3>3. CASE \A d \in ChunksOf(p) : counted'[d] <= 1
        <4>1. \A d \in ChunksOf(p) : counted'[d] = 1
          BY <1>1, <3>1, <3>2, <3>3, SumCountsAll
        <4> QED BY <1>2, <2>1, <4>1 DEF CountedIsLanded
      <3>4. CASE \E d \in ChunksOf(p) : ~(counted'[d] <= 1)
        BY <2>1, <3>4
      <3> QED BY <3>3, <3>4
    <2> QED BY <2>2, <2>3
  <1>4. CompleteUnlessRepeated'
    BY <1>3 DEF CompleteUnlessRepeated, ChunksOf
  <1> QED BY <1>2, <1>4 DEF TallyInv

\* Rows that land leave the tally alone.
LEMMA UntalliedKeeps ==
    ASSUME TallyInv, UNCHANGED <<counted, complete>>, landed \subseteq landed'
    PROVE  TallyInv'
  BY DEF TallyInv, CountedIsLanded, CompleteUnlessRepeated, ChunksOf

\* No step completes a pass on chunks that are not stored.
LEMMA TallyStep ==
    ASSUME IInv, TallyInv, [Next]_vars
    PROVE  TallyInv'
  <1>1. CASE UNCHANGED store
    BY <1>1, UntalliedKeeps DEF store
  <1>2. ASSUME NEW h \in Holder, Tally(h)
        PROVE  TallyInv'
    <2>1. current[h] \in Message /\ ChunkOf[current[h]] \in landed /\ landed' = landed
      BY <1>2 DEF IInv, TypeOK, TallyAfterRows, Tally
    <2>2. CASE Tallied(ChunkOf[current[h]])
      <3>1. ChunkOf[current[h]] \in Chunk
        BY <2>1, LaneAssumption
      <3> QED BY <2>1, <2>2, <3>1, TalliedKeeps DEF IInv
    <2>3. CASE UNCHANGED <<counted, complete>>
      BY <2>1, <2>3, UntalliedKeeps
    <2> QED BY <1>2, <2>2, <2>3 DEF Tally
  <1>3. ASSUME NEW h \in Holder, NEW m \in Message, Land(h, m)
        PROVE  TallyInv'
    <2>1. UNCHANGED <<counted, complete>> /\ landed \subseteq landed'
      BY <1>3 DEF Land
    <2> QED BY <2>1, UntalliedKeeps
  <1>4. ASSUME NEW h \in Holder, NEW m \in Message, Transact(h, m)
        PROVE  TallyInv'
    <2>1. CASE landed' = landed \cup {ChunkOf[m]} /\ Tallied(ChunkOf[m])
      <3>1. ChunkOf[m] \in Chunk
        BY LaneAssumption
      <3> QED BY <2>1, <3>1, TalliedKeeps DEF IInv
    <2>2. CASE UNCHANGED store
      BY <1>1, <2>2
    <2> QED BY <1>4, <2>1, <2>2 DEF Transact
  <1>5. ASSUME NEW m \in Message, Post(m)
        PROVE  UNCHANGED store
    BY <1>5 DEF Post
  <1>6. ASSUME NEW q \in Queue, NEW h \in Holder, NEW L \in SUBSET Message, Claim(q, h, L)
        PROVE  UNCHANGED store
    BY <1>6 DEF Claim
  <1>7. ASSUME NEW h \in Holder, Settle(h) \/ Expire(h) \/ Die(h)
        PROVE  UNCHANGED store
    BY <1>7 DEF Settle, Expire, Die
  <1>8. ASSUME NEW h \in Holder, NEW m \in Message, Preserve(h, m)
        PROVE  UNCHANGED store
    BY <1>8 DEF Preserve
  <1>9. CASE UNCHANGED vars
    BY <1>1, <1>9 DEF vars
  <1> QED
    BY <1>1, <1>2, <1>3, <1>4, <1>5, <1>6, <1>7, <1>8, <1>9 DEF Next

\* A pass that is stamped complete has all its rows, unless one of its chunks was
\* counted twice.
THEOREM CompleteIsWhole == Spec => []CompleteUnlessRepeated
  <1>1. Init => TallyInv
    BY DEF Init, TallyInv, CountedIsLanded, CompleteUnlessRepeated
  <1>2. IInv /\ TallyInv /\ [Next]_vars => TallyInv'
    BY TallyStep
  <1>3. TallyInv => CompleteUnlessRepeated
    BY DEF TallyInv
  <1> QED BY <1>1, <1>2, <1>3, InductiveInvariant, PTL DEF Spec

\* The lane uses its queues as the custody lets it and no other way: what holds
\* of every custody, as PgQueue implements it, holds below the lane.
THEOREM LaneIsCustody == Spec => Custody!Spec
  <1>1. Init => Custody!Init
    BY DEF Init
  <1>2. ASSUME TypeOK, [Next]_vars
        PROVE  [Custody!Next]_(Custody!custody)
    <2>1. ASSUME NEW m \in Message, Post(m)
          PROVE  Custody!Next
      <3>1. Main \in Sources /\ {m} \in SUBSET Message
        BY LaneAssumption
      <3> QED BY <2>1, <3>1 DEF Post, Custody!Next
    <2>2. ASSUME NEW q \in Queue, NEW h \in Holder, NEW L \in SUBSET Message, Claim(q, h, L)
          PROVE  Custody!Next
      <3>1. {m \in Custody!Free(q) : tries[m] > MaxRetries[q]} \in SUBSET Message
        BY DEF Custody!Free
      <3> QED BY <2>2, <3>1 DEF Claim, Custody!Next
    <2>3. ASSUME NEW h \in Holder, Settle(h)
          PROVE  Custody!Next
      <3> DEFINE q == from[h]
                 K == acks[h] \cap Custody!HeldBy(h)
                 E == {m \in Custody!HeldBy(h) \ K : tries[m] > MaxRetries[q]}
      <3>1. K \in SUBSET Message /\ E \in SUBSET Message
        BY DEF Custody!HeldBy
      <3>2. q \in Queue /\ Custody!Resolve(q, h, K, E)
        BY <2>3 DEF Settle
      <3> HIDE DEF q, K, E
      <3> QED BY <3>1, <3>2 DEF Custody!Next
    <2>4. ASSUME NEW h \in Holder, Expire(h)
          PROVE  Custody!Next
      <3>1. {h} \in SUBSET Holder
        OBVIOUS
      <3> QED BY <2>4, <3>1 DEF Expire, Custody!Next
    <2>5. ASSUME NEW h \in Holder, Die(h) \/ Tally(h)
          PROVE  UNCHANGED custody
      BY <2>5 DEF Die, Tally
    <2>6. ASSUME NEW h \in Holder, NEW m \in Message,
                 Land(h, m) \/ Transact(h, m) \/ Preserve(h, m)
          PROVE  UNCHANGED custody
      BY <2>6 DEF Land, Transact, Preserve
    <2>7. UNCHANGED vars => UNCHANGED custody
      BY DEF vars
    <2>8. UNCHANGED custody => UNCHANGED Custody!custody
      BY DEF custody, Custody!custody
    <2> QED BY <1>2, <2>1, <2>2, <2>3, <2>4, <2>5, <2>6, <2>7, <2>8 DEF Next
  <1> QED BY <1>1, <1>2, TypeCorrect, PTL DEF Spec, Custody!Spec
===============================================================================
