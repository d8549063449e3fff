---------------------------- MODULE NeuronCapture ----------------------------
(***************************************************************************)
(* How a metagraph snapshot reaches the store.  A producer sends a pass as *)
(* chunks over an at-least-once queue, one netuid never split over two of  *)
(* them, each chunk declaring the rows of the whole pass.  One transaction *)
(* per delivery merges the rows, prunes what the chunk's netuid has lost,  *)
(* and tallies the chunk against its pass under a receipt, so that a chunk *)
(* delivered twice counts once and a pass is complete when all of it has   *)
(* landed.  Deliveries come in any order, any number of times, late ones   *)
(* after newer passes; transactions are serialised by an advisory lock.    *)
(*                                                                         *)
(* A delivery that is refused, cancelled or loses its connection before    *)
(* the commit rolls back and is no step here; one whose answer is lost     *)
(* after the commit is a step and comes again.                             *)
(***************************************************************************)
EXTENDS Integers, FiniteSets

CONSTANTS
    Passes,     \* the captured_at stamps
    Netuids,
    Uids,
    Members,    \* Members[p][k]: the uids pass p saw in netuid k
    Digests     \* the contents a resent chunk may have

ASSUME PassAssumption   == Passes \subseteq Nat \ {0}
ASSUME FiniteAssumption == IsFiniteSet(Netuids) /\ IsFiniteSet(Uids)
ASSUME MemberAssumption == Members \in [Passes -> [Netuids -> SUBSET Uids]]

None == "none"
ASSUME DigestAssumption == None \notin Digests

\* A chunk is the rows of one netuid in one pass; an empty one is not sent.
Chunks == {c \in Passes \X Netuids : Members[c[1]][c[2]] # {}}

RowsOf(c)   == {c} \X Members[c[1]][c[2]]
SizeOf(C)   == Cardinality(UNION {RowsOf(c) : c \in C})
ChunksOf(p) == {c \in Chunks : c[1] = p}

VARIABLES
    rows,       \* rows[k][u]: the stamp of the current row of a uid, or 0
    receipt,    \* neurons_capture_batches: the digest under which it is applied
    received,   \* neurons_passes.received_rows
    completed,  \* the passes whose completed_at is set
    counted,    \* history: the chunks that entered the tally
    newest      \* history: the newest pass written for each netuid

vars == <<rows, receipt, received, completed, counted, newest>>

Init ==
    /\ rows = [k \in Netuids |-> [u \in Uids |-> 0]]
    /\ receipt = [c \in Chunks |-> None]
    /\ received = [p \in Passes |-> 0]
    /\ completed = {}
    /\ counted = {}
    /\ newest = [k \in Netuids |-> 0]

-----------------------------------------------------------------------------
(* The rows: an upsert guarded by the stamp, then the deregistration prune *)
(* at the chunk's own stamp.                                               *)

\* A slip: the upsert is not guarded.
MergeUnguarded(stored, p, k) ==
    [u \in Uids |-> IF u \in Members[p][k] THEN p ELSE stored[u]]

Merge(stored, p, k) ==
    [u \in Uids |-> IF u \in Members[p][k] /\ stored[u] < p THEN p ELSE stored[u]]

Prune(stored, p) ==
    [u \in Uids |-> IF stored[u] >= p THEN stored[u] ELSE 0]

StoreRows(c) ==
    /\ rows' = [rows EXCEPT ![c[2]] = Prune(Merge(@, c[1], c[2]), c[1])]
    /\ newest' = [newest EXCEPT ![c[2]] = IF c[1] > @ THEN c[1] ELSE @]

-----------------------------------------------------------------------------
(* The receipt and the tally.                                              *)

\* A slip: age alone makes a receipt removable.
Removable == {c \in Chunks : receipt[c] # None}

\* Receipts the cleanup may remove: those of completed passes.  Its age
\* limit and its limit of 200 only put some of them off to a later call.
Settled == {c \in Chunks : receipt[c] # None /\ c[1] \in completed}

Without(gone) == [c \in Chunks |-> IF c \in gone THEN None ELSE receipt[c]]

\* A slip: a completed pass still takes chunks in.
UncountedAnyPass(c) == receipt[c] = None

\* The chunk gets a receipt: it has none, and its pass is not complete.
Uncounted(c) == receipt[c] = None /\ c[1] \notin completed

\* A slip: the last row does not complete the pass.
MoreThanEnough(p, n) == n > SizeOf(ChunksOf(p))

Enough(p, n) == n >= SizeOf(ChunksOf(p))

\* First arrival: the chunk is counted under its digest.
Count(c, d) ==
    /\ Uncounted(c)
    /\ StoreRows(c)
    /\ \E gone \in SUBSET Settled :
           receipt' = [Without(gone) EXCEPT ![c] = d]
    /\ received' = [received EXCEPT ![c[1]] = @ + SizeOf({c})]
    /\ completed' = IF Enough(c[1], received'[c[1]]) THEN completed \cup {c[1]} ELSE completed
    /\ counted' = counted \cup {c}

\* Any later arrival is acknowledged by its receipt, or, once the cleanup
\* took that, by its completed pass.  A chunk that comes back with other
\* contents while its receipt stands is refused.
Repeat(c, d) ==
    /\ ~Uncounted(c)
    /\ StoreRows(c)
    /\ \E gone \in SUBSET Settled :
           /\ receipt' = Without(gone)
           /\ receipt'[c] \in {d, None}
    /\ UNCHANGED <<received, completed, counted>>

Next == \E c \in Chunks, d \in Digests : Count(c, d) \/ Repeat(c, d)

Spec == Init /\ [][Next]_vars

-----------------------------------------------------------------------------
(* Properties.                                                             *)

\* A tally never exceeds what its pass declared; rows carry stamps of passes.
TypeOK ==
    /\ rows \in [Netuids -> [Uids -> {0} \cup Passes]]
    /\ receipt \in [Chunks -> Digests \cup {None}]
    /\ \A p \in Passes : received[p] \in 0..SizeOf(ChunksOf(p))
    /\ received \in [Passes -> Nat]
    /\ completed \subseteq Passes /\ counted \subseteq Chunks
    /\ newest \in [Netuids -> {0} \cup Passes]

\* received_rows counts every chunk that landed once, whatever was resent
\* and whichever receipts the cleanup has removed since.
TallyExact ==
    \A p \in Passes : received[p] = SizeOf({c \in counted : c[1] = p})

\* completed_at is set exactly when every chunk of the pass has landed.
CompleteMeansLanded ==
    \A p \in Passes : ChunksOf(p) # {} => (p \in completed <=> ChunksOf(p) \subseteq counted)

\* A late, repeated or changed chunk of an older pass neither replaces nor
\* removes a row of the newest snapshot of its netuid, and every row that is
\* not of that snapshot is older.
NewestSnapshotIntact ==
    \A k \in Netuids, u \in Uids :
        /\ rows[k][u] <= newest[k]
        /\ newest[k] # 0 /\ u \in Members[newest[k]][k] => rows[k][u] = newest[k]
=============================================================================
