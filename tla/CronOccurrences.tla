--------------------------- MODULE CronOccurrences ---------------------------
(***************************************************************************)
(* What durable cron scheduling promises of every occurrence of every      *)
(* schedule: it becomes due at most once, it is then either run to its end *)
(* or given way to a newer one, occurrences of one schedule are run one    *)
(* after the other, each by one holder at a time, and at most MaxHolders   *)
(* holders work at once.                                                   *)
(***************************************************************************)
EXTENDS Integers, FiniteSets

CONSTANTS Schedule, Grid, Holder, Nobody, MaxHolders

VARIABLES
    fate,   \* of an occurrence: "ahead", "due", "skipped", "running", "done"
    holder  \* who runs it, or Nobody

occurrences == <<fate, holder>>

Ahead(s) == {t \in Grid[s] : fate[s][t] = "ahead"}
Running(s) == {t \in Grid[s] : fate[s][t] = "running"}
Holders == (UNION {{holder[s][t] : t \in Grid[s]} : s \in Schedule}) \ {Nobody}

Init ==
    /\ fate = [s \in Schedule |-> [t \in Grid[s] |-> "ahead"]]
    /\ holder = [s \in Schedule |-> [t \in Grid[s] |-> Nobody]]

\* Time goes by for schedule s: of the occurrences that pass (P) the last
\* becomes due, the others are skipped, and so is what was due before them.
\* They follow the ones that passed earlier, with none left out in between.
PassBy(s) ==
    LET P == {t \in Ahead(s) : fate'[s][t] # "ahead"}
        K == Grid[s] \ Ahead(s)
    IN  /\ \A t \in P : \A u \in K : u < t
        /\ \A v \in Ahead(s) \ P : \A t \in P :
              v < t => \A u \in K \cup P : v < u
        /\ \A t \in P :
             fate'[s][t] = IF \A u \in P : u <= t THEN "due" ELSE "skipped"
        /\ \A t \in Grid[s] \ P :
             fate'[s][t] = IF P # {} /\ fate[s][t] = "due" THEN "skipped" ELSE fate[s][t]

Plan ==
    /\ UNCHANGED holder
    /\ \A s \in Schedule : PassBy(s)

\* A holder takes a due occurrence of a schedule that is not running, or one
\* that is running and that nobody holds.
Take(s, t, h) ==
    /\ \/ fate[s][t] = "due" /\ Running(s) = {}
       \/ fate[s][t] = "running" /\ holder[s][t] = Nobody
    /\ h \notin Holders
    /\ Cardinality(Holders) < MaxHolders
    /\ fate' = [fate EXCEPT ![s][t] = "running"]
    /\ holder' = [holder EXCEPT ![s][t] = h]

\* Its holder ends an occurrence.
Finish(s, t) ==
    /\ holder[s][t] # Nobody
    /\ fate' = [fate EXCEPT ![s][t] = "done"]
    /\ holder' = [holder EXCEPT ![s][t] = Nobody]

\* An occurrence whose holders were all lost is given up.
GiveUp(s, t) ==
    /\ fate[s][t] = "running" /\ holder[s][t] = Nobody
    /\ fate' = [fate EXCEPT ![s][t] = "done"]
    /\ UNCHANGED holder

\* Holders lose what they hold.
Lapse(H) ==
    /\ holder' = [s \in Schedule |-> [t \in Grid[s] |->
            IF holder[s][t] \in H THEN Nobody ELSE holder[s][t]]]
    /\ UNCHANGED fate

Next ==
    \/ Plan
    \/ \E s \in Schedule : \E t \in Grid[s] :
          \/ \E h \in Holder : Take(s, t, h)
          \/ Finish(s, t)
          \/ GiveUp(s, t)
    \/ \E H \in SUBSET Holder : Lapse(H)

Spec == Init /\ [][Next]_occurrences
==============================================================================
