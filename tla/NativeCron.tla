----------------------------- MODULE NativeCron -----------------------------
(***************************************************************************)
(* The cron grid of src/native-cron.ts: five fields of which only the      *)
(* minutes and the hours may be restricted, and the arithmetic that finds  *)
(* the occurrences of a window without enumerating it.  Time is counted    *)
(* in ticks, MinuteTicks of them to a minute.                              *)
(***************************************************************************)
EXTENDS Integers, FiniteSets

CONSTANTS MinuteTicks,  \* MINUTE
          HourMinutes,  \* 60
          DayHours,     \* 24
          Never         \* null

ASSUME GridAssumption ==
    /\ MinuteTicks \in Nat \ {0}
    /\ HourMinutes \in Nat \ {0}
    /\ DayHours \in Nat \ {0}
    /\ Never \notin Int

Day == DayHours * HourMinutes * MinuteTicks

\* field(): the values a "*", "*/step" or number item admits.
Every(size) == 0 .. size - 1
EveryNth(size, step) == {v \in Every(size) : v % step = 0}

\* The minutes of the day at which a schedule occurs.
Offsets(hours, minutes) == {h * HourMinutes + m : h \in hours, m \in minutes}

\* The k-th offset in ascending order, from 0.
Nth(offsets, k) ==
    CHOOSE o \in offsets : Cardinality({p \in offsets : p < o}) = k

\* countThrough(): how many occurrences there are up to time, included.
CountThrough(offsets, time) ==
    IF time = -1 THEN 0
    ELSE (time \div Day) * Cardinality(offsets)
            + Cardinality({o \in offsets : o <= (time % Day) \div MinuteTicks})

\* occurrence(): the time of the occurrence with that index.
Occurrence(offsets, index) ==
    LET n == Cardinality(offsets) IN
    (index \div n) * Day + Nth(offsets, index % n) * MinuteTicks

\* Slip: the minute that is running is left out of the count.
WindowShort(offsets, after, through) ==
    LET before == CountThrough(offsets, after)
        upTo == CountThrough(offsets, IF through > 0 THEN through - 1 ELSE -1)
        count == upTo - before
    IN  [count |-> count,
         first |-> IF count > 0 THEN Occurrence(offsets, before) ELSE Never,
         last |-> IF count > 0 THEN Occurrence(offsets, upTo - 1) ELSE Never,
         previous |-> IF count > 1 THEN Occurrence(offsets, upTo - 2) ELSE Never]

\* window(): the occurrences after one time and up to another.
Window(offsets, after, through) ==
    LET before == CountThrough(offsets, after)
        upTo == CountThrough(offsets, through)
        count == upTo - before
    IN  [count |-> count,
         first |-> IF count > 0 THEN Occurrence(offsets, before) ELSE Never,
         last |-> IF count > 0 THEN Occurrence(offsets, upTo - 1) ELSE Never,
         previous |-> IF count > 1 THEN Occurrence(offsets, upTo - 2) ELSE Never]

-----------------------------------------------------------------------------
(* What the arithmetic must agree with: the grid itself.                    *)

Occurs(offsets, time) ==
    /\ time >= 0
    /\ time % MinuteTicks = 0
    /\ (time % Day) \div MinuteTicks \in offsets

Between(offsets, after, through) ==
    {t \in after + 1 .. through : Occurs(offsets, t)}

\* A window is right when it counts the occurrences of the grid and names the
\* first, the last and the one before the last.
WindowAgrees(offsets, after, through) ==
    LET W == Window(offsets, after, through)
        S == Between(offsets, after, through)
    IN  /\ W.count = Cardinality(S)
        /\ S # {} => /\ W.first \in S /\ \A t \in S : W.first <= t
                     /\ W.last \in S /\ \A t \in S : t <= W.last
        /\ W.count > 1 => /\ W.previous \in S \ {W.last}
                          /\ \A t \in S \ {W.last} : t <= W.previous
=============================================================================
