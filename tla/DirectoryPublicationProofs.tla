--------------------- MODULE DirectoryPublicationProofs ---------------------
(***************************************************************************)
(* The neuron capture and the publishers over it.                          *)
(*                                                                         *)
(* First what the receipts and the tally add up to, for every pass,        *)
(* partition and set of resent contents.  The tally is exact because a     *)
(* chunk that was counted can always be told: it has its receipt, or its   *)
(* pass is complete (Known), and a receipt is only ever given with a       *)
(* count.  Then that what is published is its pass, for any passes,        *)
(* publishers, directories and failures.  A fold is Fresh: should no newer *)
(* row have landed by the second look, it is the pass; and then the second *)
(* look makes it so.                                                       *)
(***************************************************************************)
EXTENDS DirectoryPublication, FiniteSetTheorems, TLAPS

ChunkRows(C)  == UNION {RowsOf(c) : c \in C}
CountedOf(p)  == {c \in counted : c[1] = p}

StoreInv ==
    /\ rows \in [Netuids -> [Uids -> {0} \cup Passes]]
    /\ newest \in [Netuids -> {0} \cup Passes]

TallyInv ==
    /\ receipt \in [Chunks -> Digests \cup {None}]
    /\ received \in [Passes -> Nat]
    /\ completed \subseteq Passes
    /\ counted \subseteq Chunks

Known == \A c \in Chunks : c \in counted <=> (receipt[c] # None \/ c[1] \in completed)

IInv == StoreInv /\ NewestSnapshotIntact /\ TallyInv /\ TallyExact /\ CompleteMeansLanded /\ Known

-----------------------------------------------------------------------------
(* The rows of a pass.                                                     *)

\* A chunk is of a pass and of a netuid.
LEMMA ChunksArePassed == \A c \in Chunks : c[1] \in Passes /\ c[2] \in Netuids
BY DEF Chunks

\* A pass has finitely many rows, whichever of its chunks are taken.
LEMMA RowsAreFinite ==
    ASSUME NEW p \in Passes, NEW C \in SUBSET ChunksOf(p)
    PROVE  IsFiniteSet(ChunkRows(C)) /\ SizeOf(C) \in Nat
<1>1. IsFiniteSet({p}) BY FS_Singleton
<1>2. IsFiniteSet({p} \X Netuids) BY <1>1, FiniteAssumption, FS_Product
<1>3. IsFiniteSet(({p} \X Netuids) \X Uids) BY <1>2, FiniteAssumption, FS_Product
<1>4. ASSUME NEW c \in C PROVE RowsOf(c) \subseteq ({p} \X Netuids) \X Uids
    <2>1. c \in {p} \X Netuids BY DEF ChunksOf, Chunks
    <2>2. Members[c[1]][c[2]] \subseteq Uids
        BY MemberAssumption, <2>1
    <2> QED BY <2>1, <2>2 DEF RowsOf
<1>5. ChunkRows(C) \in SUBSET (({p} \X Netuids) \X Uids) BY <1>4 DEF ChunkRows
<1>6. IsFiniteSet(ChunkRows(C)) BY <1>3, <1>5, FS_Subset
<1> QED BY <1>6, FS_CardinalityType DEF SizeOf, ChunkRows

\* Landed chunks of one pass add up.
LEMMA SizesAdd ==
    ASSUME NEW p \in Passes, NEW C \in SUBSET ChunksOf(p), NEW c \in ChunksOf(p), c \notin C
    PROVE  SizeOf(C \cup {c}) = SizeOf(C) + SizeOf({c})
<1>1. ChunkRows(C \cup {c}) = ChunkRows(C) \cup ChunkRows({c}) BY DEF ChunkRows
<1>2. ChunkRows(C) \cap ChunkRows({c}) = {} BY DEF ChunkRows, RowsOf
<1>3. IsFiniteSet(ChunkRows(C)) /\ IsFiniteSet(ChunkRows({c})) BY RowsAreFinite
<1>4. Cardinality(ChunkRows(C) \cap ChunkRows({c})) = 0 BY <1>2, FS_EmptySet
<1>5. SizeOf(C) \in Nat /\ SizeOf({c}) \in Nat BY RowsAreFinite
<1>6. Cardinality(ChunkRows(C) \cup ChunkRows({c})) =
          Cardinality(ChunkRows(C)) + Cardinality(ChunkRows({c}))
              - Cardinality(ChunkRows(C) \cap ChunkRows({c}))
    BY <1>3, FS_Union
<1>7. /\ SizeOf(C) = Cardinality(ChunkRows(C))
      /\ SizeOf({c}) = Cardinality(ChunkRows({c}))
    BY DEF SizeOf, ChunkRows
<1>8. SizeOf(C \cup {c}) = Cardinality(ChunkRows(C \cup {c})) BY DEF SizeOf, ChunkRows
<1>9. SizeOf(C \cup {c}) = SizeOf(C) + SizeOf({c}) - 0 BY <1>1, <1>4, <1>6, <1>7, <1>8
<1> QED BY <1>5, <1>9

\* No part of a pass has the size of the whole: a chunk is never empty.
LEMMA PartIsSmaller ==
    ASSUME NEW p \in Passes, NEW C \in SUBSET ChunksOf(p)
    PROVE  /\ SizeOf(C) <= SizeOf(ChunksOf(p))
           /\ Enough(p, SizeOf(C)) <=> ChunksOf(p) \subseteq C
<1>1. IsFiniteSet(ChunkRows(ChunksOf(p))) /\ SizeOf(ChunksOf(p)) \in Nat /\ SizeOf(C) \in Nat
    BY RowsAreFinite
<1>2. ChunkRows(C) \in SUBSET ChunkRows(ChunksOf(p)) BY DEF ChunkRows
<1>3. /\ SizeOf(C) <= SizeOf(ChunksOf(p))
      /\ SizeOf(ChunksOf(p)) = SizeOf(C) => ChunkRows(ChunksOf(p)) = ChunkRows(C)
    BY <1>1, <1>2, FS_Subset DEF SizeOf, ChunkRows
<1>4. ASSUME ChunkRows(ChunksOf(p)) = ChunkRows(C), NEW c \in ChunksOf(p) PROVE c \in C
    <2>1. PICK u \in Members[c[1]][c[2]] : TRUE BY DEF ChunksOf, Chunks
    <2>2. <<c, u>> \in ChunkRows(C) BY <1>4, <2>1 DEF ChunkRows, RowsOf
    <2> QED BY <2>2 DEF ChunkRows, RowsOf
<1>5. ChunksOf(p) \subseteq C => C = ChunksOf(p) OBVIOUS
<1> QED BY <1>1, <1>3, <1>4, <1>5 DEF Enough

-----------------------------------------------------------------------------
(* The inductive invariant.                                                *)

\* Nothing is counted at first.
LEMMA InitInv == Init => IInv
<1> SUFFICES ASSUME Init PROVE IInv OBVIOUS
<1>1. SizeOf({}) = 0 BY FS_EmptySet DEF SizeOf
<1>2. StoreInv /\ NewestSnapshotIntact
    BY PassAssumption, MemberAssumption DEF Init, StoreInv, NewestSnapshotIntact
<1>3. TallyInv /\ Known BY DEF Init, TallyInv, Known
<1>4. TallyExact
    <2>1. \A p \in Passes : {c \in counted : c[1] = p} = {} BY DEF Init
    <2> QED BY <1>1, <2>1 DEF Init, TallyExact
<1>5. CompleteMeansLanded BY DEF Init, CompleteMeansLanded
<1> QED BY <1>2, <1>3, <1>4, <1>5 DEF IInv

\* The upsert and the prune of a chunk, whichever pass wrote the rows before.
LEMMA StoreStep ==
    ASSUME StoreInv, NewestSnapshotIntact, NEW c \in Chunks, StoreRows(c)
    PROVE  StoreInv' /\ NewestSnapshotIntact'
<1> DEFINE p == c[1]
           k == c[2]
           R == Prune(Merge(rows[k], p, k), p)
<1>1. p \in Passes /\ k \in Netuids /\ p \in Nat \ {0} BY ChunksArePassed, PassAssumption
<1>2. Members[p][k] \subseteq Uids BY <1>1, MemberAssumption
<1>3. rows' = [rows EXCEPT ![k] = R] /\ newest' = [newest EXCEPT ![k] = IF p > @ THEN p ELSE @]
    BY DEF StoreRows
<1>4. rows[k] \in [Uids -> {0} \cup Passes] /\ newest[k] \in {0} \cup Passes
    BY <1>1 DEF StoreInv
<1>0. {0} \cup Passes \subseteq Nat BY PassAssumption
<1>5. \A u \in Uids : rows[k][u] \in Nat /\ rows[k][u] <= newest[k]
    BY <1>0, <1>1, <1>4 DEF NewestSnapshotIntact
<1>6. newest[k] \in Nat BY <1>0, <1>4
<1>7. R \in [Uids -> {0} \cup Passes] BY <1>1, <1>4 DEF Prune, Merge
<1>8. \A u \in Uids :
         R[u] = IF u \in Members[p][k] /\ rows[k][u] < p THEN p
                ELSE IF rows[k][u] >= p THEN rows[k][u] ELSE 0
    BY <1>1, <1>5 DEF Prune, Merge
<1>9. StoreInv' BY <1>1, <1>3, <1>4, <1>7 DEF StoreInv
<1>10. ASSUME NEW j \in Netuids, NEW u \in Uids
       PROVE  /\ rows'[j][u] <= newest'[j]
              /\ newest'[j] # 0 /\ u \in Members[newest'[j]][j] => rows'[j][u] = newest'[j]
    <2>1. CASE j # k BY <1>3, <2>1 DEF StoreInv, NewestSnapshotIntact
    <2>2. CASE j = k
        <3>1. rows'[j][u] = R[u] /\ newest'[j] = IF p > newest[k] THEN p ELSE newest[k]
            BY <1>1, <1>3, <2>2 DEF StoreInv
        <3>2. CASE p > newest[k] BY <1>1, <1>5, <1>6, <1>8, <2>2, <3>1, <3>2
        <3>3. CASE ~(p > newest[k])
            <4>1. newest[k] # 0 /\ u \in Members[newest[k]][k] => rows[k][u] = newest[k]
                BY <1>1 DEF NewestSnapshotIntact
            <4> QED BY <1>1, <1>5, <1>6, <1>8, <2>2, <3>1, <3>3, <4>1
        <3> QED BY <3>2, <3>3
    <2> QED BY <2>1, <2>2
<1> QED BY <1>9, <1>10 DEF NewestSnapshotIntact

\* A counted chunk keeps the tally exact and completes its pass if it was the
\* last one missing.
LEMMA CountStep ==
    ASSUME IInv, NEW c \in Chunks, NEW d \in Digests, Count(c, d)
    PROVE  TallyInv' /\ TallyExact' /\ CompleteMeansLanded' /\ Known'
<1> DEFINE p == c[1]
<1>1. p \in Passes /\ c \in ChunksOf(p) BY ChunksArePassed DEF ChunksOf
<1>2. c \notin counted BY DEF IInv, Known, Count, Uncounted
<1>3. \A q \in Passes : CountedOf(q) \in SUBSET ChunksOf(q)
    BY DEF IInv, TallyInv, CountedOf, ChunksOf
<1>4. /\ CountedOf(p)' = CountedOf(p) \cup {c}
      /\ \A q \in Passes \ {p} : CountedOf(q)' = CountedOf(q)
    BY DEF Count, CountedOf
<1>5. received' = [received EXCEPT ![p] = @ + SizeOf({c})] BY DEF Count
<1>6. /\ SizeOf(CountedOf(p) \cup {c}) = SizeOf(CountedOf(p)) + SizeOf({c})
      /\ SizeOf(CountedOf(p)) \in Nat /\ SizeOf({c}) \in Nat
    <2>1. c \notin CountedOf(p) BY <1>2 DEF CountedOf
    <2> QED BY <1>1, <1>3, <2>1, SizesAdd, RowsAreFinite
<1>7. \A q \in Passes : received[q] = SizeOf(CountedOf(q))
    BY DEF IInv, TallyExact, CountedOf
<1>8. received'[p] = SizeOf(CountedOf(p)') BY <1>1, <1>4, <1>5, <1>6, <1>7 DEF IInv, TallyInv
<1>9. TallyExact'
    <2>1. ASSUME NEW q \in Passes PROVE received'[q] = SizeOf(CountedOf(q)')
        <3>1. CASE q = p BY <1>8, <3>1
        <3>2. CASE q # p BY <1>4, <1>5, <1>7, <3>2 DEF IInv, TallyInv
        <3> QED BY <3>1, <3>2
    <2> QED BY <2>1 DEF TallyExact, CountedOf
<1>10. completed' = IF ChunksOf(p) \subseteq CountedOf(p)' THEN completed \cup {p} ELSE completed
    <2>1. CountedOf(p)' \in SUBSET ChunksOf(p) BY <1>1, <1>3, <1>4
    <2>2. Enough(p, received'[p]) <=> ChunksOf(p) \subseteq CountedOf(p)'
        BY <1>1, <1>8, <2>1, PartIsSmaller
    <2> QED BY <2>2 DEF Count
<1>11. CompleteMeansLanded'
    <2>1. p \notin completed BY DEF Count, Uncounted
    <2>2. \A q \in Passes : ChunksOf(q) \subseteq counted' <=> ChunksOf(q) \subseteq CountedOf(q)'
        BY DEF CountedOf, ChunksOf
    <2>3. \A q \in Passes : ChunksOf(q) \subseteq counted <=> ChunksOf(q) \subseteq CountedOf(q)
        BY DEF CountedOf, ChunksOf
    <2> QED BY <1>1, <1>4, <1>10, <2>1, <2>2, <2>3 DEF IInv, CompleteMeansLanded
<1>12. PICK gone \in SUBSET Settled : receipt' = [Without(gone) EXCEPT ![c] = d] BY DEF Count
<1>13. TallyInv'
    <2>1. receipt' \in [Chunks -> Digests \cup {None}] BY <1>12 DEF IInv, TallyInv, Without
    <2>2. received' \in [Passes -> Nat]
        <3>1. received[p] \in Nat /\ received[p] + SizeOf({c}) \in Nat
            BY <1>1, <1>6 DEF IInv, TallyInv
        <3> QED BY <1>1, <1>5, <3>1 DEF IInv, TallyInv
    <2> QED BY <1>1, <1>10, <2>1, <2>2 DEF IInv, TallyInv, Count
<1>14. Known'
    <2>1. ASSUME NEW e \in Chunks, e # c PROVE receipt'[e] # None \/ e[1] \in completed <=> receipt[e] # None \/ e[1] \in completed
        BY <1>12, <2>1 DEF Without, Settled
    <2>2. ASSUME NEW e \in Chunks, e # c
          PROVE  e \in counted' <=> (receipt'[e] # None \/ e[1] \in completed')
        <3>1. e \in counted' <=> e \in counted BY <2>2 DEF Count
        <3>2. e[1] \in completed' /\ e[1] \notin completed => e \in counted'
            BY <1>10 DEF CountedOf, ChunksOf
        <3>3. e[1] \in completed => e[1] \in completed' BY <1>10
        <3> QED BY <2>1, <2>2, <3>1, <3>2, <3>3 DEF IInv, Known
    <2>3. receipt'[c] # None /\ c \in counted'
        BY <1>12, DigestAssumption DEF Count, Without
    <2> QED BY <2>2, <2>3 DEF Known
<1> QED BY <1>9, <1>11, <1>13, <1>14

\* A repeated chunk leaves the tally and every claim about it alone.
LEMMA RepeatStep ==
    ASSUME IInv, NEW c \in Chunks, NEW d \in Digests, Repeat(c, d)
    PROVE  TallyInv' /\ TallyExact' /\ CompleteMeansLanded' /\ Known'
<1>1. UNCHANGED <<received, completed, counted>> BY DEF Repeat
<1>2. PICK gone \in SUBSET Settled : receipt' = Without(gone) BY DEF Repeat
<1>3. TallyExact' /\ CompleteMeansLanded' BY <1>1 DEF IInv, TallyExact, CompleteMeansLanded
<1>4. TallyInv' BY <1>1, <1>2 DEF IInv, TallyInv, Without
<1>5. Known' BY <1>1, <1>2 DEF IInv, Known, Without, Settled
<1> QED BY <1>3, <1>4, <1>5

\* A delivery keeps the invariant.
LEMMA NextInv == IInv /\ [Next]_vars => IInv'
<1> SUFFICES ASSUME IInv, [Next]_vars PROVE IInv' OBVIOUS
<1>1. ASSUME NEW c \in Chunks, NEW d \in Digests, Count(c, d) PROVE IInv'
    <2>1. StoreInv' /\ NewestSnapshotIntact' BY <1>1, StoreStep DEF IInv, Count
    <2> QED BY <1>1, <2>1, CountStep DEF IInv
<1>2. ASSUME NEW c \in Chunks, NEW d \in Digests, Repeat(c, d) PROVE IInv'
    <2>1. StoreInv' /\ NewestSnapshotIntact' BY <1>2, StoreStep DEF IInv, Repeat
    <2> QED BY <1>2, <2>1, RepeatStep DEF IInv
<1>3. CASE UNCHANGED vars
    BY <1>3 DEF vars, IInv, StoreInv, NewestSnapshotIntact, TallyInv, TallyExact,
                CompleteMeansLanded, Known
<1> QED BY <1>1, <1>2, <1>3 DEF Next

\* A tally stays within what its pass declared, and rows carry stamps.
LEMMA TypeFollows == IInv => TypeOK
<1> SUFFICES ASSUME IInv PROVE TypeOK OBVIOUS
<1>1. ASSUME NEW p \in Passes PROVE received[p] \in 0..SizeOf(ChunksOf(p))
    <2>1. CountedOf(p) \in SUBSET ChunksOf(p) BY DEF IInv, TallyInv, CountedOf, ChunksOf
    <2>2. received[p] = SizeOf(CountedOf(p)) BY DEF IInv, TallyExact, CountedOf
    <2>3. SizeOf(CountedOf(p)) \in Nat /\ SizeOf(ChunksOf(p)) \in Nat BY <2>1, RowsAreFinite
    <2> QED BY <2>1, <2>2, <2>3, PartIsSmaller
<1> QED BY <1>1 DEF IInv, StoreInv, TallyInv, TypeOK

\* The capture keeps its invariant.
LEMMA InvHolds == Spec => []IInv
BY InitInv, NextInv, PTL DEF Spec

-----------------------------------------------------------------------------
\* No tally exceeds its pass and every row carries the stamp of a pass,
\* whatever the write transaction is given.
THEOREM TypeCorrect == Spec => []TypeOK
BY InvHolds, TypeFollows, PTL

\* However often chunks are resent and receipts removed, received_rows is
\* the number of rows of the chunks that landed.
THEOREM TallyIsExact == Spec => []TallyExact
<1>1. IInv => TallyExact BY DEF IInv
<1> QED BY <1>1, InvHolds, PTL

\* completed_at is set by the last missing chunk of a pass and no earlier.
THEOREM CompleteIsLanded == Spec => []CompleteMeansLanded
<1>1. IInv => CompleteMeansLanded BY DEF IInv
<1> QED BY <1>1, InvHolds, PTL

\* The merge and prune of an older chunk leave the newest snapshot whole.
THEOREM NewestStaysIntact == Spec => []NewestSnapshotIntact
<1>1. IInv => NewestSnapshotIntact BY DEF IInv
<1> QED BY <1>1, InvHolds, PTL

-----------------------------------------------------------------------------
(* The publishers.                                                         *)

RowSets == [Netuids -> [Uids -> {0} \cup Passes]]

Faithful(f, p) ==
    \A k \in Netuids, u \in Uids :
        /\ f[k][u] <= p
        /\ u \in Members[p][k] => f[k][u] = p

Fresh(f, p) == (\A k \in Netuids : newest[k] <= p) => Faithful(f, p)

\* What has landed has left its mark, and every mark was left by a chunk.
NewestMarks ==
    /\ \A c \in counted : c[1] <= newest[c[2]]
    /\ \A k \in Netuids : newest[k] # 0 => <<newest[k], k>> \in Chunks

PublisherTypes ==
    /\ stage \in [Publisher -> {"idle", "asked", "folding", "folded", "storing", "published", "failed"}]
    /\ pass \in [Publisher -> Passes \cup {0}]
    /\ folded \in [Publisher -> [Values -> RowSets]]
    /\ owed \in [Publisher -> SUBSET (Puts \cup {"pointer"})]
    /\ snapshot \in [Passes -> [Values -> RowSets]]

\* What a publisher holds, at each of its stages.
Holds(i) ==
    /\ stage[i] \in {"idle", "asked"} => folded[i] = Nothing
    /\ stage[i] = "asked" => pass[i] # 0
    /\ stage[i] \in {"idle", "asked", "folding", "folded"} => owed[i] = {}
    /\ stage[i] \in {"folding", "folded"} =>
         /\ pass[i] \in completed
         /\ \A v \in Values :
              folded[i][v] # NoRows \/ stage[i] = "folded" => Fresh(folded[i][v], pass[i])
    /\ owed[i] # {} => pass[i] \in completed
    /\ "snapshot" \in owed[i] => \A v \in Values : Faithful(folded[i][v], pass[i])

\* What is stored names complete passes, the route values before the pointer.
ValuesFirst ==
    /\ latest \in completed \cup {0}
    /\ pointer \in completed \cup {0}
    /\ current \in [Values -> completed \cup {0}]
    /\ pointer # 0 => \A v \in Values : current[v] # 0
    /\ \A i \in Publisher :
         /\ stage[i] = "storing" => \A v \in Values \ owed[i] : current[v] # 0
         /\ "pointer" \in owed[i] => \A v \in Values : current[v] # 0

DirectoryInv ==
    /\ IInv /\ NewestMarks
    /\ PublisherTypes /\ \A i \in Publisher : Holds(i)
    /\ ValuesFirst
    /\ SnapshotFaithful

-----------------------------------------------------------------------------
(* The capture under the publishers.                                       *)

\* Publishers only read the rows and the tally.
LEMMA CaptureStep == [DirectoryNext]_allVars => [Next]_vars
<1> SUFFICES ASSUME [DirectoryNext]_allVars PROVE [Next]_vars
    OBVIOUS
<1>1. ASSUME NEW c \in Chunks, NEW d \in Digests, Land(c, d) PROVE [Next]_vars
    BY <1>1 DEF Land, Next
<1>2. ASSUME NEW i \in Publisher, Step(i) \/ Fail(i) \/ \E p \in Passes : Ask(i, p)
      PROVE  UNCHANGED vars
    <2>1. Step(i) => UNCHANGED vars
        BY DEF Step, Accept, ReadRows, Confirm, Put, CleanUp, Lose
    <2>2. Fail(i) \/ (\E p \in Passes : Ask(i, p)) => UNCHANGED vars
        BY DEF Fail, Ask
    <2> QED
        BY <1>2, <2>1, <2>2
<1>3. CASE UNCHANGED allVars
    BY <1>3 DEF allVars
<1> QED
    BY <1>1, <1>2, <1>3 DEF DirectoryNext

\* The mark of a netuid is the newest pass that landed there, and rises.
LEMMA MarksKept ==
    ASSUME IInv, NewestMarks, [Next]_vars
    PROVE  NewestMarks' /\ \A k \in Netuids : newest[k] <= newest'[k]
<1>0. {0} \cup Passes \subseteq Nat /\ newest \in [Netuids -> {0} \cup Passes]
    BY PassAssumption DEF IInv, StoreInv
<1>1. ASSUME NEW c \in Chunks, NEW d \in Digests, Count(c, d) \/ Repeat(c, d)
      PROVE  NewestMarks' /\ \A k \in Netuids : newest[k] <= newest'[k]
    <2>1. newest' = [newest EXCEPT ![c[2]] = IF c[1] > @ THEN c[1] ELSE @]
        BY <1>1 DEF Count, Repeat, StoreRows
    <2>2. c[1] \in Passes /\ c[2] \in Netuids /\ c[1] \in Nat /\ c = <<c[1], c[2]>>
        <3>1. c \in Passes \X Netuids
            BY DEF Chunks
        <3>2. c = <<c[1], c[2]>> /\ c[1] \in Passes /\ c[2] \in Netuids
            BY <3>1
        <3> QED
            BY <3>2, PassAssumption
    <2>3. \A k \in Netuids : newest[k] <= newest'[k]
        BY <1>0, <2>1, <2>2
    <2>4. \A k \in Netuids : newest'[k] # 0 => <<newest'[k], k>> \in Chunks
        BY <1>0, <2>1, <2>2 DEF NewestMarks
    <2>5. ASSUME NEW e \in counted' PROVE e[1] <= newest'[e[2]]
        <3>1. e = c \/ e \in counted
            BY <1>1 DEF Count, Repeat
        <3>2. e \in Chunks
            BY <3>1 DEF IInv, TallyInv
        <3>3. e[1] \in Nat /\ e[2] \in Netuids
            BY <3>2, PassAssumption DEF Chunks
        <3>4. CASE e = c
            BY <1>0, <2>1, <2>2, <3>4
        <3>5. CASE e \in counted
            BY <1>0, <2>1, <2>2, <2>3, <3>3, <3>5 DEF NewestMarks
        <3> QED
            BY <3>1, <3>4, <3>5
    <2> QED
        BY <2>3, <2>4, <2>5 DEF NewestMarks
<1>2. CASE UNCHANGED vars
    <2>1. counted' = counted /\ newest' = newest
        BY <1>2 DEF vars
    <2>2. \A k \in Netuids : newest[k] \in Nat
        BY <1>0
    <2> QED
        BY <2>1, <2>2 DEF NewestMarks
<1> QED
    BY <1>1, <1>2 DEF Next

\* The rows that are read while a pass is complete.
LEMMA ReadIsFresh ==
    ASSUME IInv, NewestMarks, NEW p \in completed
    PROVE  Fresh(rows, p)
<1> SUFFICES ASSUME \A k \in Netuids : newest[k] <= p, NEW k \in Netuids, NEW u \in Uids
             PROVE  rows[k][u] <= p /\ (u \in Members[p][k] => rows[k][u] = p)
    BY DEF Fresh, Faithful
<1>0. {0} \cup Passes \subseteq Nat
    BY PassAssumption
<1>1. p \in Passes /\ p \in Nat \ {0}
    <2>1. completed \subseteq Passes
        BY DEF IInv, TallyInv
    <2> QED
        BY <2>1, PassAssumption
<1>2. rows[k][u] \in Nat /\ newest[k] \in Nat
    <2>1. rows[k][u] \in {0} \cup Passes /\ newest[k] \in {0} \cup Passes
        BY DEF IInv, StoreInv
    <2> QED
        BY <1>0, <2>1
<1>3. rows[k][u] <= newest[k] /\ newest[k] <= p
    BY DEF IInv, NewestSnapshotIntact
<1>4. ASSUME u \in Members[p][k] PROVE rows[k][u] = p
    <2>1. <<p, k>> \in ChunksOf(p)
        BY <1>1, <1>4 DEF Chunks, ChunksOf
    <2>2. <<p, k>> \in counted
        BY <1>1, <2>1 DEF IInv, CompleteMeansLanded
    <2>3. p <= newest[k]
        BY <2>2 DEF NewestMarks
    <2>4. newest[k] = p
        BY <1>1, <1>2, <1>3, <2>3
    <2> QED
        BY <1>1, <1>4, <2>4 DEF IInv, NewestSnapshotIntact
<1> QED
    BY <1>1, <1>2, <1>3, <1>4

\* The second look: no row is newer than the pass, hence no mark is.
LEMMA LookFindsNoNewer ==
    ASSUME IInv, NewestMarks, NEW p \in Passes, NewestIs(p), NEW k \in Netuids
    PROVE  newest[k] <= p
<1>1. CASE newest[k] = 0
    BY <1>1, PassAssumption
<1>2. CASE newest[k] # 0
    <2>1. <<newest[k], k>> \in Chunks
        BY <1>2 DEF NewestMarks
    <2>2. newest[k] \in Passes /\ Members[newest[k]][k] # {}
        BY <2>1 DEF Chunks
    <2>3. PICK u \in Members[newest[k]][k] : TRUE
        BY <2>2
    <2>4. u \in Uids
        BY <2>2, <2>3, MemberAssumption
    <2>5. rows[k][u] = newest[k]
        BY <1>2, <2>3, <2>4 DEF IInv, NewestSnapshotIntact
    <2> QED
        BY <2>4, <2>5 DEF NewestIs
<1> QED
    BY <1>1, <1>2

-----------------------------------------------------------------------------
(* The publishers.                                                         *)

\* The empty fold is a fold.
LEMMA NothingTyped == NoRows \in RowSets /\ Nothing \in [Values -> RowSets]
BY DEF NoRows, Nothing, RowSets

\* A publisher that rests has forgotten what it had.
LEMMA RestingTyped ==
    ASSUME PublisherTypes, NEW i \in Publisher, Resting(i)
    PROVE  /\ stage' \in [Publisher -> {"idle", "asked", "folding", "folded", "storing", "published", "failed"}]
           /\ pass' \in [Publisher -> Passes \cup {0}]
           /\ folded' \in [Publisher -> [Values -> RowSets]]
           /\ owed' \in [Publisher -> SUBSET (Puts \cup {"pointer"})]
BY NothingTyped DEF PublisherTypes, Resting

\* The steps of a publisher keep the types.
LEMMA TypesKept ==
    ASSUME PublisherTypes, StoreInv, NEW i \in Publisher,
           Step(i) \/ Fail(i) \/ \E p \in Passes : Ask(i, p)
    PROVE  PublisherTypes'
<1>1. ASSUME NEW p \in Passes, Ask(i, p) PROVE PublisherTypes'
    BY <1>1 DEF PublisherTypes, Ask, kv
<1>2. ASSUME Accept(i) PROVE PublisherTypes'
    BY <1>2, RestingTyped DEF PublisherTypes, Accept, kv
<1>3. ASSUME NEW v \in Values, ReadRows(i, v) PROVE PublisherTypes'
    <2>1. rows \in RowSets
        BY DEF StoreInv, RowSets
    <2>2. folded' \in [Publisher -> [Values -> RowSets]]
        BY <1>3, <2>1 DEF PublisherTypes, ReadRows
    <2> QED
        BY <1>3, <2>2 DEF PublisherTypes, ReadRows, kv
<1>4. ASSUME Confirm(i) PROVE PublisherTypes'
    BY <1>4, RestingTyped DEF PublisherTypes, Confirm, kv
<1>5. ASSUME NEW x \in Puts \cup {"pointer"}, Put(i, x) PROVE PublisherTypes'
    <2>1. owed' \in [Publisher -> SUBSET (Puts \cup {"pointer"})]
        BY <1>5 DEF PublisherTypes, Put
    <2>2. snapshot' \in [Passes -> [Values -> RowSets]]
        BY <1>5 DEF PublisherTypes, Put, Stored
    <2>3. stage' \in [Publisher -> {"idle", "asked", "folding", "folded", "storing", "published", "failed"}]
        BY <1>5 DEF PublisherTypes, Put
    <2> QED
        BY <1>5, <2>1, <2>2, <2>3 DEF PublisherTypes, Put
<1>6. ASSUME CleanUp(i) PROVE PublisherTypes'
    <2>1. snapshot' \in [Passes -> [Values -> RowSets]]
        BY <1>6, NothingTyped DEF PublisherTypes, CleanUp
    <2> QED
        BY <1>6, <2>1, RestingTyped DEF PublisherTypes, CleanUp
<1>7. ASSUME Lose(i) PROVE PublisherTypes'
    BY <1>7, RestingTyped DEF PublisherTypes, Lose, kv
<1>8. ASSUME Fail(i) PROVE PublisherTypes'
    BY <1>8 DEF PublisherTypes, Fail, kv
<1> QED
    BY <1>1, <1>2, <1>3, <1>4, <1>5, <1>6, <1>7, <1>8 DEF Step

\* A publisher that does not move keeps what it holds while passes land.
LEMMA HoldsUnmoved ==
    ASSUME NEW j \in Publisher, Holds(j), StoreInv,
           stage'[j] = stage[j], pass'[j] = pass[j], folded'[j] = folded[j], owed'[j] = owed[j],
           completed \subseteq completed', \A k \in Netuids : newest[k] <= newest'[k],
           newest' \in [Netuids -> {0} \cup Passes], completed' \subseteq Passes
    PROVE  Holds(j)'
<1>0. {0} \cup Passes \subseteq Nat
    BY PassAssumption
<1>1. ASSUME NEW v \in Values, stage[j] \in {"folding", "folded"},
             Fresh(folded[j][v], pass[j])
      PROVE  Fresh(folded[j][v], pass[j])'
    <2>1. SUFFICES ASSUME \A k \in Netuids : newest'[k] <= pass[j]
                   PROVE  Faithful(folded[j][v], pass[j])
        BY DEF Fresh, Faithful
    <2>2. pass[j] \in Nat
        BY <1>0, <1>1 DEF Holds
    <2>3. \A k \in Netuids : newest[k] \in Nat /\ newest'[k] \in Nat
        BY <1>0 DEF StoreInv
    <2>4. \A k \in Netuids : newest[k] <= pass[j]
        BY <2>1, <2>2, <2>3
    <2> QED
        BY <1>1, <2>4 DEF Fresh
<1>3. \A v \in Values : Faithful(folded[j][v], pass[j])' <=> Faithful(folded[j][v], pass[j])
    BY DEF Faithful
<1> QED
    BY <1>1, <1>3 DEF Holds

\* A publisher at rest holds nothing that could be wrong.
LEMMA RestingHolds ==
    ASSUME PublisherTypes, NEW i \in Publisher, Resting(i)
    PROVE  Holds(i)'
BY DEF PublisherTypes, Resting, Holds

\* What a publisher holds is right after each of its steps.
LEMMA HoldsMoved ==
    ASSUME DirectoryInv, NEW i \in Publisher,
           Step(i) \/ Fail(i) \/ \E p \in Passes : Ask(i, p)
    PROVE  Holds(i)'
<1>0. PublisherTypes /\ Holds(i) /\ IInv /\ NewestMarks
    BY DEF DirectoryInv
<1>1. ASSUME NEW p \in Passes, Ask(i, p) PROVE Holds(i)'
    BY <1>0, <1>1 DEF PublisherTypes, Holds, Ask
<1>2. ASSUME Accept(i) PROVE Holds(i)'
    <2>1. CASE IsCurrent(pass[i])
        <3>1. pass[i] \in completed
            <4>1. latest = pass[i] /\ pass[i] # 0
                BY <2>1, <1>0, <1>2 DEF IsCurrent, Accept, Holds
            <4> QED
                BY <4>1 DEF DirectoryInv, ValuesFirst
        <3> QED
            BY <1>0, <1>2, <2>1, <3>1 DEF PublisherTypes, Holds, Accept, vars, Nothing
    <2>2. CASE ~IsCurrent(pass[i])
        BY <1>0, <1>2, <2>2, RestingHolds DEF Accept
    <2> QED
        BY <2>1, <2>2
<1>3. ASSUME NEW v \in Values, ReadRows(i, v) PROVE Holds(i)'
    <2>1. stage[i] = "folding" /\ pass[i] \in completed /\ owed[i] = {}
        BY <1>0, <1>3 DEF ReadRows, Holds
    <2>2. /\ pass'[i] = pass[i] /\ owed'[i] = owed[i] /\ completed' = completed /\ newest' = newest
          /\ stage'[i] \in {"folding", "folded"}
          /\ stage'[i] = "folded" => \A w \in Values \ {v} : folded[i][w] # NoRows
        BY <1>0, <1>3, <2>1 DEF ReadRows, PublisherTypes, vars
    <2>3. folded'[i] = [folded[i] EXCEPT ![v] = rows]
        BY <1>0, <1>3 DEF ReadRows, PublisherTypes
    <2>4. folded'[i][v] = rows /\ \A w \in Values \ {v} : folded'[i][w] = folded[i][w]
        BY <1>0, <2>3 DEF PublisherTypes
    <2>5. Fresh(rows, pass[i])
        BY <1>0, <2>1, ReadIsFresh
    <2>6. ASSUME NEW w \in Values, folded'[i][w] # NoRows \/ stage'[i] = "folded"
          PROVE  Fresh(folded[i][w], pass[i])'
        <3>1. Fresh(folded'[i][w], pass[i])
            <4>1. CASE w = v
                BY <2>4, <2>5, <4>1
            <4>2. CASE w # v
                BY <1>0, <2>1, <2>2, <2>4, <2>6, <4>2 DEF Holds
            <4> QED
                BY <4>1, <4>2
        <3> QED
            BY <2>2, <3>1 DEF Fresh, Faithful
    <2> QED
        BY <2>1, <2>2, <2>6 DEF Holds
<1>4. ASSUME Confirm(i) PROVE Holds(i)'
    <2>1. CASE IsCurrent(pass[i])
        <3>1. stage[i] = "folded" /\ pass[i] \in completed
              /\ \A v \in Values : Fresh(folded[i][v], pass[i])
            BY <1>0, <1>4 DEF Confirm, Holds
        <3>2. pass[i] \in Passes
            BY <1>0, <3>1 DEF IInv, TallyInv
        <3>3. PICK p \in Passes : p = pass[i]
            BY <3>2
        <3>4. \A k \in Netuids : newest[k] <= p
            BY <1>0, <2>1, <3>3, LookFindsNoNewer DEF IsCurrent
        <3>5. \A v \in Values : Faithful(folded[i][v], pass[i])
            BY <3>1, <3>3, <3>4 DEF Fresh
        <3>6. /\ stage'[i] = "storing" /\ pass'[i] = pass[i] /\ folded'[i] = folded[i]
              /\ completed' = completed
            BY <1>0, <1>4, <2>1 DEF Confirm, PublisherTypes, vars
        <3>7. \A v \in Values : Faithful(folded[i][v], pass[i])'
            BY <3>5, <3>6 DEF Faithful
        <3> QED
            BY <3>1, <3>6, <3>7 DEF Holds
    <2>2. CASE ~IsCurrent(pass[i])
        BY <1>0, <1>4, <2>2, RestingHolds DEF Confirm
    <2> QED
        BY <2>1, <2>2
<1>5. ASSUME NEW x \in Puts \cup {"pointer"}, Put(i, x) PROVE Holds(i)'
    <2>1. /\ owed[i] # {} /\ pass[i] \in completed
          /\ stage[i] \notin {"idle", "asked", "folding", "folded"}
        BY <1>0, <1>5 DEF Put, Holds
    <2>2. /\ pass'[i] = pass[i] /\ folded'[i] = folded[i] /\ completed' = completed
          /\ stage'[i] \in {stage[i], "published"}
          /\ "snapshot" \in owed'[i] => "snapshot" \in owed[i]
        BY <1>0, <1>5 DEF Put, PublisherTypes, vars
    <2>3. "snapshot" \in owed'[i] => \A v \in Values : Faithful(folded[i][v], pass[i])'
        BY <1>0, <2>2 DEF Holds, Faithful
    <2> QED
        BY <2>1, <2>2, <2>3 DEF Holds
<1>6. ASSUME CleanUp(i) \/ Lose(i) PROVE Holds(i)'
    BY <1>0, <1>6, RestingHolds DEF CleanUp, Lose
<1>7. ASSUME Fail(i) PROVE Holds(i)'
    <2>1. /\ stage'[i] = "failed" /\ pass'[i] = pass[i] /\ folded'[i] = folded[i]
          /\ owed'[i] = owed[i] /\ completed' = completed
        BY <1>0, <1>7 DEF Fail, PublisherTypes, vars
    <2>2. "snapshot" \in owed[i] => \A v \in Values : Faithful(folded[i][v], pass[i])'
        BY <1>0, <2>1 DEF Holds, Faithful
    <2> QED
        BY <1>0, <2>1, <2>2 DEF Holds
<1> QED
    BY <1>1, <1>2, <1>3, <1>4, <1>5, <1>6, <1>7 DEF Step

\* A publisher moves alone.
LEMMA OthersUnmoved ==
    ASSUME PublisherTypes, NEW i \in Publisher, NEW j \in Publisher \ {i},
           Step(i) \/ Fail(i) \/ \E p \in Passes : Ask(i, p)
    PROVE  stage'[j] = stage[j] /\ pass'[j] = pass[j] /\ folded'[j] = folded[j] /\ owed'[j] = owed[j]
<1> USE DEF PublisherTypes
<1>1. ASSUME Accept(i) \/ Confirm(i) \/ CleanUp(i) \/ Lose(i)
      PROVE  stage'[j] = stage[j] /\ pass'[j] = pass[j] /\ folded'[j] = folded[j] /\ owed'[j] = owed[j]
    BY <1>1 DEF Accept, Confirm, CleanUp, Lose, Resting
<1>2. ASSUME NEW v \in Values, ReadRows(i, v)
      PROVE  stage'[j] = stage[j] /\ pass'[j] = pass[j] /\ folded'[j] = folded[j] /\ owed'[j] = owed[j]
    BY <1>2 DEF ReadRows
<1>3. ASSUME NEW x \in Puts \cup {"pointer"}, Put(i, x)
      PROVE  stage'[j] = stage[j] /\ pass'[j] = pass[j] /\ folded'[j] = folded[j] /\ owed'[j] = owed[j]
    BY <1>3 DEF Put
<1>4. ASSUME Fail(i) \/ \E p \in Passes : Ask(i, p)
      PROVE  stage'[j] = stage[j] /\ pass'[j] = pass[j] /\ folded'[j] = folded[j] /\ owed'[j] = owed[j]
    BY <1>4 DEF Fail, Ask
<1> QED
    BY <1>1, <1>2, <1>3, <1>4 DEF Step

\* A complete pass stays complete.
LEMMA CompletedGrows ==
    ASSUME [Next]_vars
    PROVE  completed \subseteq completed'
BY DEF Next, Count, Repeat, vars

\* What a publisher holds is right after any step of anybody.
LEMMA HoldsKept ==
    ASSUME DirectoryInv, [DirectoryNext]_allVars, IInv', NEW j \in Publisher
    PROVE  Holds(j)'
<1>1. [Next]_vars
    BY CaptureStep
<1>2. /\ completed \subseteq completed' /\ \A k \in Netuids : newest[k] <= newest'[k]
      /\ newest' \in [Netuids -> {0} \cup Passes] /\ completed' \subseteq Passes
      /\ StoreInv /\ PublisherTypes /\ Holds(j)
    BY <1>1, CompletedGrows, MarksKept DEF DirectoryInv, IInv, StoreInv, TallyInv
<1>3. ASSUME NEW c \in Chunks, NEW d \in Digests, Land(c, d) PROVE Holds(j)'
    BY <1>2, <1>3, HoldsUnmoved DEF Land, publishers
<1>4. ASSUME NEW i \in Publisher, Step(i) \/ Fail(i) \/ \E p \in Passes : Ask(i, p)
      PROVE  Holds(j)'
    <2>1. CASE i = j
        BY <1>4, <2>1, HoldsMoved
    <2>2. CASE i # j
        BY <1>2, <1>4, <2>2, OthersUnmoved, HoldsUnmoved
    <2> QED
        BY <2>1, <2>2
<1>5. CASE UNCHANGED allVars
    BY <1>2, <1>5, HoldsUnmoved DEF allVars, publishers
<1> QED
    BY <1>3, <1>4, <1>5 DEF DirectoryNext

-----------------------------------------------------------------------------
(* The store.                                                              *)

\* A fold that the second look found current is what its pass's key gets.
LEMMA FaithfulKept ==
    ASSUME DirectoryInv, [DirectoryNext]_allVars
    PROVE  SnapshotFaithful'
<1>0. PublisherTypes /\ SnapshotFaithful /\ completed \subseteq Passes
    BY DEF DirectoryInv, IInv, TallyInv
<1>1. ASSUME UNCHANGED snapshot PROVE SnapshotFaithful'
    BY <1>0, <1>1 DEF SnapshotFaithful
<1>2. ASSUME NEW i \in Publisher, NEW x \in Puts \cup {"pointer"}, Put(i, x)
      PROVE  SnapshotFaithful'
    <2>1. CASE x # "snapshot"
        BY <1>1, <1>2, <2>1 DEF Put, Stored
    <2>2. CASE x = "snapshot"
        <3>1. snapshot' = [snapshot EXCEPT ![pass[i]] = folded[i]]
            BY <1>2, <2>2 DEF Put, Stored
        <3>2. pass[i] \in Passes /\ \A v \in Values : Faithful(folded[i][v], pass[i])
            BY <1>0, <1>2, <2>2 DEF Put, DirectoryInv, Holds
        <3>3. ASSUME NEW p \in Passes, NEW v \in Values, snapshot'[p] # Nothing
              PROVE  Faithful(snapshot'[p][v], p)
            <4>1. CASE p = pass[i]
                BY <1>0, <3>1, <3>2, <4>1 DEF PublisherTypes
            <4>2. CASE p # pass[i]
                <5>1. snapshot'[p] = snapshot[p]
                    BY <1>0, <3>1, <4>2 DEF PublisherTypes
                <5> QED
                    BY <1>0, <3>3, <5>1 DEF SnapshotFaithful, Faithful
            <4> QED
                BY <4>1, <4>2
        <3> QED
            BY <3>3 DEF SnapshotFaithful, Faithful, Nothing, NoRows
    <2> QED
        BY <2>1, <2>2
<1>3. ASSUME NEW i \in Publisher, CleanUp(i) PROVE SnapshotFaithful'
    <2>1. \A p \in Passes : snapshot'[p] \in {snapshot[p], Nothing}
        BY <1>0, <1>3 DEF CleanUp, PublisherTypes
    <2> QED
        BY <1>0, <2>1 DEF SnapshotFaithful, Nothing, NoRows
<1>4. ASSUME NEW i \in Publisher, NEW v \in Values,
             Accept(i) \/ ReadRows(i, v) \/ Confirm(i) \/ Lose(i) \/ Fail(i)
      PROVE  UNCHANGED snapshot
    BY <1>4 DEF Accept, ReadRows, Confirm, Lose, Fail, kv
<1>5. ASSUME NEW i \in Publisher, Accept(i) \/ Confirm(i) \/ Lose(i) \/ Fail(i)
                                \/ \E p \in Passes : Ask(i, p)
      PROVE  UNCHANGED snapshot
    BY <1>5 DEF Accept, Confirm, Lose, Fail, Ask, kv
<1>6. ASSUME NEW c \in Chunks, NEW d \in Digests, Land(c, d) PROVE UNCHANGED snapshot
    BY <1>6 DEF Land, kv
<1>7. CASE UNCHANGED allVars
    BY <1>1, <1>7 DEF allVars, kv
<1> QED
    BY <1>1, <1>2, <1>3, <1>4, <1>5, <1>6, <1>7 DEF DirectoryNext, Step

\* The pointer never comes before the route values.
LEMMA ValuesFirstKept ==
    ASSUME DirectoryInv, [DirectoryNext]_allVars, IInv'
    PROVE  ValuesFirst'
<1>0. /\ PublisherTypes /\ ValuesFirst /\ completed \subseteq Passes /\ completed' \subseteq Passes
      /\ 0 \notin Passes /\ completed \subseteq completed' /\ \A i \in Publisher : Holds(i)
    BY PassAssumption, CaptureStep, CompletedGrows DEF DirectoryInv, IInv, TallyInv
<1>1. ASSUME NEW c \in Chunks, NEW d \in Digests, Land(c, d) PROVE ValuesFirst'
    <2>1. latest' \in completed' \cup {0}
        BY <1>0, <1>1 DEF Land, Count, Repeat, ValuesFirst
    <2> QED
        BY <1>0, <1>1, <2>1 DEF Land, kv, publishers, ValuesFirst
<1>2. ASSUME NEW i \in Publisher, NEW p \in Passes, Ask(i, p) PROVE ValuesFirst'
    BY <1>0, <1>2 DEF Ask, kv, vars, PublisherTypes, ValuesFirst
<1>3. ASSUME NEW i \in Publisher, Accept(i) PROVE ValuesFirst'
    BY <1>0, <1>3 DEF Accept, Resting, kv, vars, PublisherTypes, ValuesFirst
<1>4. ASSUME NEW i \in Publisher, NEW v \in Values, ReadRows(i, v) PROVE ValuesFirst'
    BY <1>0, <1>4 DEF ReadRows, kv, vars, PublisherTypes, ValuesFirst
<1>5. ASSUME NEW i \in Publisher, Confirm(i) PROVE ValuesFirst'
    <2>1. "pointer" \notin Puts /\ Values \subseteq Puts
        BY ValueAssumption DEF Puts
    <2>2. CASE IsCurrent(pass[i])
        BY <1>0, <1>5, <2>1, <2>2 DEF Confirm, kv, vars, PublisherTypes, ValuesFirst
    <2>3. CASE ~IsCurrent(pass[i])
        BY <1>0, <1>5, <2>3 DEF Confirm, Resting, kv, vars, PublisherTypes, ValuesFirst
    <2> QED
        BY <2>2, <2>3
<1>6. ASSUME NEW i \in Publisher, CleanUp(i) \/ Lose(i) PROVE ValuesFirst'
    BY <1>0, <1>6 DEF CleanUp, Lose, Resting, kv, vars, PublisherTypes, ValuesFirst
<1>7. ASSUME NEW i \in Publisher, Fail(i) PROVE ValuesFirst'
    BY <1>0, <1>7 DEF Fail, kv, vars, PublisherTypes, ValuesFirst
<1>8. ASSUME NEW i \in Publisher, NEW x \in Puts \cup {"pointer"}, Put(i, x) PROVE ValuesFirst'
    <2>1. x \in owed[i] /\ pass[i] \in completed /\ pass[i] # 0 /\ completed' = completed /\ latest' = latest
        BY <1>0, <1>8 DEF Put, Holds, vars
    <2>2. /\ current' = [v \in Values |-> IF x = v THEN pass[i] ELSE current[v]]
          /\ pointer' = IF x = "pointer" THEN pass[i] ELSE pointer
        BY <1>8 DEF Put, Stored
    <2>3. /\ current' \in [Values -> completed \cup {0}]
          /\ \A v \in Values : current[v] # 0 => current'[v] # 0
          /\ x \in Values => current'[x] # 0
        BY <1>0, <2>1, <2>2 DEF ValuesFirst
    <2>4. pointer' \in completed \cup {0} /\ (pointer' # 0 => \A v \in Values : current'[v] # 0)
        BY <1>0, <2>1, <2>2, <2>3 DEF ValuesFirst
    <2>5. ASSUME NEW j \in Publisher
          PROVE  /\ stage'[j] = "storing" => \A v \in Values \ owed'[j] : current'[v] # 0
                 /\ "pointer" \in owed'[j] => \A v \in Values : current'[v] # 0
        <3>1. CASE j # i
            <4>1. stage'[j] = stage[j] /\ owed'[j] = owed[j]
                BY <1>0, <1>8, <3>1 DEF Put, PublisherTypes
            <4> QED
                BY <1>0, <2>3, <4>1 DEF ValuesFirst
        <3>2. CASE j = i
            <4>1. owed'[i] = IF stage[i] = "storing" /\ owed[i] = {x} /\ x # "pointer"
                              THEN {"pointer"} ELSE owed[i] \ {x}
                BY <1>0, <1>8 DEF Put, PublisherTypes
            <4>2. stage'[i] = "storing" => stage[i] = "storing"
                BY <1>0, <1>8 DEF Put, PublisherTypes
            <4>3. stage[i] = "storing" => \A v \in Values \ (owed[i] \ {x}) : current'[v] # 0
                BY <1>0, <2>3 DEF ValuesFirst
            <4>4. CASE stage[i] = "storing" /\ owed[i] = {x} /\ x # "pointer"
                <5>1. \A v \in Values : current'[v] # 0
                    BY <4>3, <4>4
                <5> QED
                    BY <3>2, <5>1
            <4>5. CASE ~(stage[i] = "storing" /\ owed[i] = {x} /\ x # "pointer")
                <5>1. owed'[i] = owed[i] \ {x}
                    BY <4>1, <4>5
                <5>2. "pointer" \in owed'[i] => \A v \in Values : current'[v] # 0
                    BY <1>0, <2>3, <5>1 DEF ValuesFirst
                <5> QED
                    BY <3>2, <4>2, <4>3, <5>1, <5>2
            <4> QED
                BY <4>4, <4>5
        <3> QED
            BY <3>1, <3>2
    <2> QED
        BY <1>0, <2>1, <2>3, <2>4, <2>5 DEF ValuesFirst
<1>9. CASE UNCHANGED allVars
    BY <1>0, <1>9 DEF allVars, kv, vars, publishers, ValuesFirst
<1> QED
    BY <1>1, <1>2, <1>3, <1>4, <1>5, <1>6, <1>7, <1>8, <1>9 DEF DirectoryNext, Step

-----------------------------------------------------------------------------
(* Theorems.                                                               *)

\* Nobody publishes at first.
LEMMA DirectoryInitInv == DirectoryInit => DirectoryInv
<1> SUFFICES ASSUME DirectoryInit PROVE DirectoryInv
    OBVIOUS
<1> USE DEF DirectoryInit
<1>1. IInv
    BY InitInv
<1>2. NewestMarks
    BY DEF Init, NewestMarks
<1>3. PublisherTypes
    BY NothingTyped DEF PublisherTypes
<1>4. \A i \in Publisher : Holds(i)
    BY DEF Holds
<1>5. ValuesFirst
    BY DEF ValuesFirst
<1>6. SnapshotFaithful
    BY DEF SnapshotFaithful
<1> QED
    BY <1>1, <1>2, <1>3, <1>4, <1>5, <1>6 DEF DirectoryInv

\* Publishers, readers and deliveries keep the invariant.
LEMMA DirectoryNextInv == DirectoryInv /\ [DirectoryNext]_allVars => DirectoryInv'
<1> SUFFICES ASSUME DirectoryInv, [DirectoryNext]_allVars PROVE DirectoryInv'
    OBVIOUS
<1>1. [Next]_vars
    BY CaptureStep
<1>2. IInv'
    BY <1>1, NextInv DEF DirectoryInv
<1>3. NewestMarks'
    BY <1>1, MarksKept DEF DirectoryInv
<1>4. PublisherTypes'
    <2>1. PublisherTypes /\ StoreInv
        BY DEF DirectoryInv, IInv
    <2>2. ASSUME NEW c \in Chunks, NEW d \in Digests, Land(c, d) PROVE PublisherTypes'
        BY <2>1, <2>2 DEF Land, kv, publishers, PublisherTypes
    <2>3. CASE UNCHANGED allVars
        BY <2>1, <2>3 DEF allVars, kv, publishers, PublisherTypes
    <2> QED
        BY <2>1, <2>2, <2>3, TypesKept DEF DirectoryNext
<1>5. \A i \in Publisher : Holds(i)'
    BY <1>2, HoldsKept
<1>6. ValuesFirst'
    BY <1>2, ValuesFirstKept
<1>7. SnapshotFaithful'
    BY FaithfulKept
<1> QED
    BY <1>2, <1>3, <1>4, <1>5, <1>6, <1>7 DEF DirectoryInv

\* What the publishers hold at each stage, over the tally, is inductive.
THEOREM DirectoryInvariant == DirectorySpec => []DirectoryInv
BY DirectoryInitInv, DirectoryNextInv, PTL DEF DirectorySpec

\* A capture with publishers is a capture: they never disturb its rows, its
\* receipts or its tally.
THEOREM CaptureUndisturbed == DirectorySpec => Spec
<1>1. DirectoryInit => Init
    BY DEF DirectoryInit
<1> QED
    BY <1>1, CaptureStep, PTL DEF DirectorySpec, Spec

\* Only complete passes are published, route values before the pointer.
THEOREM DirectoryTypeCorrect == DirectorySpec => []DirectoryTypeOK
<1>1. DirectoryInv => DirectoryTypeOK
    BY TypeFollows DEF DirectoryInv, ValuesFirst, DirectoryTypeOK
<1> QED
    BY <1>1, DirectoryInvariant, PTL

\* What the key of a pass holds is that pass, whole and unmixed with a newer
\* one, however publishers overlap, fail and put late.
THEOREM SnapshotIsFaithful == DirectorySpec => []SnapshotFaithful
<1>1. DirectoryInv => SnapshotFaithful
    BY DEF DirectoryInv
<1> QED
    BY <1>1, DirectoryInvariant, PTL
=============================================================================
