------------------------ MODULE DirectoryPublication ------------------------
(***************************************************************************)
(* How the explorer directories of a complete pass are published           *)
(* (refreshExplorerDirectoryMaterialization in workers/data-api.ts) while  *)
(* the passes go on landing (NeuronCapture).  A publisher folds the rows   *)
(* of the latest complete pass into two directories, looks again whether   *)
(* that pass is still the latest and the newest, puts a snapshot and two   *)
(* route values in any order, then the pointer, and deletes the snapshot   *)
(* of the pass the pointer named when it started.  Publishers of the same  *)
(* or of different passes overlap (the isolates share no memory, one of    *)
(* them admits a publisher for each pass), die, and have puts that fail    *)
(* although they were stored.                                              *)
(*                                                                         *)
(* A directory is represented by the stamps of the rows it is folded from. *)
(***************************************************************************)
EXTENDS NeuronCapture

CONSTANTS
    Values,     \* the directories: accounts and validators
    Publisher,
    MaxFaults   \* bounds deaths, and reads and puts that fail

ASSUME ValueAssumption == Values \cap {"snapshot", "pointer"} = {}

NoRows == [k \in Netuids |-> [u \in Uids |-> 0]]
Puts == Values \cup {"snapshot"}
Nothing == [v \in Values |-> NoRows]

VARIABLES
    latest,     \* the pass with the greatest completed_at, or 0
    pointer,    \* the pass of the stored pointer, or 0
    snapshot,   \* the directories stored under the key of a pass, or Nothing
    current,    \* the pass of the stored route values, or 0
    stage,      \* of a publisher: "idle", "asked", "folding", "folded",
                \* "storing", "published", "failed"
    pass,       \* the pass it publishes
    prev,       \* the pass of the pointer it read, or 0
    folded,     \* its directories
    owed,       \* its puts in flight
    faults

kv == <<pointer, snapshot, current>>
publishers == <<stage, pass, prev, folded, owed>>
allVars == <<vars, latest, kv, publishers, faults>>

\* p is the greatest stamp that a row carries.
NewestIs(p) ==
    /\ \A k \in Netuids, u \in Uids : rows[k][u] <= p
    /\ \E k \in Netuids, u \in Uids : rows[k][u] = p

DirectoryInit ==
    /\ Init
    /\ latest = 0
    /\ pointer = 0
    /\ snapshot = [p \in Passes |-> Nothing]
    /\ current = [v \in Values |-> 0]
    /\ stage = [i \in Publisher |-> "idle"]
    /\ pass = [i \in Publisher |-> 0]
    /\ prev = [i \in Publisher |-> 0]
    /\ folded = [i \in Publisher |-> Nothing]
    /\ owed = [i \in Publisher |-> {}]
    /\ faults = 0

-----------------------------------------------------------------------------
(* The capture.                                                            *)

\* A slip: completed_at is not required.
LandAsLatest(c, d) ==
    /\ Count(c, d) \/ Repeat(c, d)
    /\ latest' = c[1]
    /\ UNCHANGED <<kv, publishers, faults>>

\* The pass that completes has the greatest completed_at.
Land(c, d) ==
    /\ Count(c, d) \/ Repeat(c, d)
    /\ latest' = IF completed' # completed THEN c[1] ELSE latest
    /\ UNCHANGED <<kv, publishers, faults>>

-----------------------------------------------------------------------------
(* A publisher.                                                            *)

Resting(i) ==
    /\ stage' = [stage EXCEPT ![i] = "idle"]
    /\ pass' = [pass EXCEPT ![i] = 0]
    /\ prev' = [prev EXCEPT ![i] = 0]
    /\ folded' = [folded EXCEPT ![i] = Nothing]
    /\ owed' = [owed EXCEPT ![i] = {}]

\* A chunk of p was written, or a reader asked while p was the latest; the
\* pointer is read, and a read that fails finds none.
Ask(i, p) ==
    /\ stage[i] = "idle"
    /\ p = latest \/ \E c \in counted : c[1] = p
    /\ p # 0
    /\ \E seen \in {pointer, 0} :
        /\ seen # p
        /\ prev' = [prev EXCEPT ![i] = seen]
    /\ stage' = [stage EXCEPT ![i] = "asked"]
    /\ pass' = [pass EXCEPT ![i] = p]
    /\ UNCHANGED <<vars, latest, kv, folded, owed, faults>>

IsCurrent(p) == latest = p /\ NewestIs(p)

\* The pass must be the latest complete one and have the newest row.  The two
\* are read one after the other: a complete pass has all its rows, and the
\* newest never goes back, so both hold when the first is read.
Accept(i) ==
    /\ stage[i] = "asked"
    /\ IF IsCurrent(pass[i])
       THEN /\ stage' = [stage EXCEPT ![i] = "folding"]
            /\ UNCHANGED <<pass, prev, folded, owed>>
       ELSE Resting(i)
    /\ UNCHANGED <<vars, latest, kv, faults>>

\* Two reads in any order, one for each directory.
ReadRows(i, v) ==
    /\ stage[i] = "folding"
    /\ folded[i][v] = NoRows
    /\ folded' = [folded EXCEPT ![i][v] = rows]
    /\ stage' = IF \A w \in Values \ {v} : folded[i][w] # NoRows
                THEN [stage EXCEPT ![i] = "folded"] ELSE stage
    /\ UNCHANGED <<vars, latest, kv, pass, prev, owed, faults>>

\* A slip: only the completed pass is looked at again.
ConfirmLatest(i) ==
    /\ stage[i] = "folded"
    /\ IF latest = pass[i]
       THEN /\ stage' = [stage EXCEPT ![i] = "storing"]
            /\ owed' = [owed EXCEPT ![i] = Puts]
            /\ UNCHANGED <<pass, prev, folded>>
       ELSE Resting(i)
    /\ UNCHANGED <<vars, latest, kv, faults>>

\* "Refuse publication if a newer in-place pass began during the fold."
Confirm(i) ==
    /\ stage[i] = "folded"
    /\ IF IsCurrent(pass[i])
       THEN /\ stage' = [stage EXCEPT ![i] = "storing"]
            /\ owed' = [owed EXCEPT ![i] = Puts]
            /\ UNCHANGED <<pass, prev, folded>>
       ELSE Resting(i)
    /\ UNCHANGED <<vars, latest, kv, faults>>

Stored(i, x) ==
    /\ snapshot' = IF x = "snapshot" THEN [snapshot EXCEPT ![pass[i]] = folded[i]] ELSE snapshot
    /\ current' = [v \in Values |-> IF x = v THEN pass[i] ELSE current[v]]
    /\ pointer' = IF x = "pointer" THEN pass[i] ELSE pointer

\* A put is stored; the last of the three lets the pointer go.
Put(i, x) ==
    /\ x \in owed[i]
    /\ Stored(i, x)
    /\ owed' = [owed EXCEPT ![i] = IF stage[i] = "storing" /\ @ = {x} /\ x # "pointer"
                                     THEN {"pointer"} ELSE @ \ {x}]
    /\ stage' = IF x = "pointer" /\ stage[i] = "storing" THEN [stage EXCEPT ![i] = "published"] ELSE stage
    /\ UNCHANGED <<vars, latest, pass, prev, folded, faults>>

\* A slip: the pointer is read again, after it was put.
CleanUpCurrent(i) ==
    /\ stage[i] = "published"
    /\ snapshot' = [snapshot EXCEPT ![pointer] = Nothing]
    /\ Resting(i)
    /\ UNCHANGED <<vars, latest, pointer, current, faults>>

\* The snapshot of the pointer that was read is deleted.
CleanUp(i) ==
    /\ stage[i] = "published"
    /\ snapshot' = IF prev[i] \notin {0, pass[i]} THEN [snapshot EXCEPT ![prev[i]] = Nothing] ELSE snapshot
    /\ Resting(i)
    /\ UNCHANGED <<vars, latest, pointer, current, faults>>

\* A read fails, a put fails, or the publisher dies: its puts in flight may
\* still be stored, at any time.
Fail(i) ==
    /\ stage[i] \notin {"idle", "failed"}
    /\ faults < MaxFaults
    /\ faults' = faults + 1
    /\ stage' = [stage EXCEPT ![i] = "failed"]
    /\ UNCHANGED <<vars, latest, kv, pass, prev, folded, owed>>

\* What is in flight is lost.
Lose(i) ==
    /\ stage[i] = "failed"
    /\ Resting(i)
    /\ UNCHANGED <<vars, latest, kv, faults>>

Step(i) ==
    \/ Accept(i) \/ Confirm(i) \/ CleanUp(i) \/ Lose(i)
    \/ \E v \in Values : ReadRows(i, v)
    \/ \E x \in Puts \cup {"pointer"} : Put(i, x)

DirectoryNext ==
    \/ \E c \in Chunks, d \in Digests : Land(c, d)
    \/ \E i \in Publisher : Step(i) \/ Fail(i) \/ \E p \in Passes : Ask(i, p)

DirectorySpec == DirectoryInit /\ [][DirectoryNext]_allVars

\* Publishers go on, and readers ask for the freshness stamp while it differs.
DirectoryFairSpec ==
    /\ DirectorySpec
    /\ \A i \in Publisher : WF_allVars(Step(i))
    /\ SF_allVars(\E i \in Publisher : pointer # latest /\ Ask(i, latest))

-----------------------------------------------------------------------------
(* Properties.                                                             *)

\* The types; what is published is complete, and the pointer is put only after
\* every route value has been put once.
DirectoryTypeOK ==
    /\ TypeOK
    /\ latest \in completed \cup {0}
    /\ pointer \in completed \cup {0}
    /\ current \in [Values -> completed \cup {0}]
    /\ pointer # 0 => 0 \notin {current[v] : v \in Values}

\* What is stored under the key of a pass holds all the rows of that pass and
\* none of a newer one, in both directories, however the chunks, the folds and
\* the puts and deletions of other publishers interleave.
SnapshotFaithful ==
    \A p \in Passes, v \in Values : snapshot[p] # Nothing =>
        \A k \in Netuids, u \in Uids :
            /\ snapshot[p][v][k][u] <= p
            /\ u \in Members[p][k] => snapshot[p][v][k][u] = p

\* Once a pass is the latest and the newest for good, the pointer comes to it
\* and stays, with its snapshot, whatever older publishers still have to do.
LatestPublished ==
    \A p \in Passes :
        <>[](latest = p /\ NewestIs(p)) => <>[](pointer = p /\ snapshot[p] # Nothing)
=============================================================================
