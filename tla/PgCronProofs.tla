---------------------------- MODULE PgCronProofs ----------------------------
(***************************************************************************)
(* Durable cron, for any schedules, days, leases, budgets, places and      *)
(* processes: the arithmetic of the grid, the skips that are accounted     *)
(* for, the owners that alone end a run, and the fates of the occurrences  *)
(* the tables implement.                                                   *)
(*                                                                         *)
(* The grid comes first.  Its arithmetic is right because the occurrences  *)
(* of a schedule are numbered in the order of time, and the count of an    *)
(* instant separates the numbers up to it from the later ones              *)
(* (CountSeparates); no induction over the days is needed.  What the       *)
(* tables say then follows from CronInv, the invariant below it.           *)
(***************************************************************************)
EXTENDS PgCron, FunctionTheorems, FiniteSetTheorems, TLAPS

-----------------------------------------------------------------------------
(* Division.                                                               *)

\* What division and remainder are.
LEMMA DivMod ==
    ASSUME NEW x \in Nat, NEW d \in Nat \ {0}
    PROVE  /\ x \div d \in Nat
           /\ x % d \in 0 .. d - 1
           /\ x = (x \div d) * d + (x % d)
OBVIOUS

\* A quotient and a rest determine the number, and it them.
LEMMA DivModUnique ==
    ASSUME NEW d \in Nat \ {0}, NEW a \in Nat, NEW b \in 0 .. d - 1
    PROVE  /\ (a * d + b) \div d = a
           /\ (a * d + b) % d = b
OBVIOUS

\* Numbers are ordered by their quotients first.
LEMMA Lexicographic ==
    ASSUME NEW d \in Nat \ {0}, NEW a \in Nat, NEW b \in 0 .. d - 1, NEW c \in Nat, a < c
    PROVE  a * d + b < c * d
OBVIOUS

\* A multiple leaves no rest.
LEMMA NoRest ==
    ASSUME NEW d \in Nat \ {0}, NEW a \in Nat
    PROVE  (a * d) \div d = a /\ (a * d) % d = 0
<1>1. 0 \in 0 .. d - 1 /\ a * d = a * d + 0
  OBVIOUS
<1> QED BY <1>1, DivModUnique

-----------------------------------------------------------------------------
(* The offsets in ascending order.                                         *)

Rank(offsets, o) == Cardinality({p \in offsets : p < o})

\* Ranks are below the size of the set and ordered as its members are.
LEMMA RankFacts ==
    ASSUME NEW O \in SUBSET Nat, IsFiniteSet(O), NEW o \in O
    PROVE  /\ Rank(O, o) \in 0 .. Cardinality(O) - 1
           /\ \A p \in O : p < o => Rank(O, p) < Rank(O, o)
<1> DEFINE Below(p) == {q \in O : q < p}
<1>1. \A p \in O : /\ Below(p) \in SUBSET O /\ IsFiniteSet(Below(p))
                   /\ Cardinality(Below(p)) \in Nat
  BY FS_Subset, FS_CardinalityType
<1>2. Cardinality(O) \in Nat /\ Cardinality(Below(o)) <= Cardinality(O)
  BY <1>1, FS_Subset, FS_CardinalityType
<1>3. Below(o) # O
  OBVIOUS
<1>4. Cardinality(Below(o)) # Cardinality(O)
  BY <1>1, <1>3, FS_Subset
<1>5. ASSUME NEW p \in O, p < o PROVE Cardinality(Below(p)) < Cardinality(Below(o))
  <2>1. Below(p) \in SUBSET Below(o)
    <3>1. \A q \in O : q < p => q < o
      <4>1. \A a, b, c \in Nat : a < b /\ b < c => a < c
        OBVIOUS
      <4>2. \A q \in O : q \in Nat
        OBVIOUS
      <4> QED BY <1>5, <4>1, <4>2
    <3> QED BY <3>1
  <2>2. p \in Below(o) /\ p \notin Below(p)
    BY <1>5
  <2>3. Cardinality(Below(p)) <= Cardinality(Below(o)) /\ Cardinality(Below(p)) # Cardinality(Below(o))
    BY <1>1, <2>1, <2>2, FS_Subset
  <2> QED BY <1>1, <2>3
<1> HIDE DEF Below
<1>6. Cardinality(Below(o)) \in 0 .. Cardinality(O) - 1
  BY <1>1, <1>2, <1>4
<1> QED BY <1>5, <1>6 DEF Rank, Below

\* Each rank is taken, by one offset.
LEMMA NthFacts ==
    ASSUME NEW O \in SUBSET Nat, IsFiniteSet(O), NEW j \in 0 .. Cardinality(O) - 1
    PROVE  Nth(O, j) \in O /\ Rank(O, Nth(O, j)) = j
<1> DEFINE n == Cardinality(O)
           f == [o \in O |-> Rank(O, o)]
<1>1. n \in Nat
  BY FS_CardinalityType
<1>2. f \in [O -> 0 .. n - 1]
  BY RankFacts
<1>3. \A o, p \in O : f[o] = f[p] => o = p
  <2> SUFFICES ASSUME NEW o \in O, NEW p \in O, Rank(O, o) = Rank(O, p) PROVE o = p
    OBVIOUS
  <2>1. Rank(O, o) \in Int /\ Rank(O, p) \in Int
    BY RankFacts
  <2>2. ~(o < p) /\ ~(p < o)
    BY <2>1, RankFacts
  <2> QED BY <2>2
<1>4. f \in Injection(O, 0 .. n - 1)
  BY <1>2, <1>3, Fun_IsInj
<1>5. IsFiniteSet(0 .. n - 1) /\ Cardinality(0 .. n - 1) = n
  BY <1>1, FS_Interval
<1>6. f \in Surjection(O, 0 .. n - 1)
  BY <1>4, <1>5, FS_Injection
<1>7. \E o \in O : f[o] = j
  BY <1>6 DEF Surjection
<1> QED BY <1>7 DEF Nth, Rank

\* The member of a rank is the one that has it.
LEMMA NthOfRank ==
    ASSUME NEW O \in SUBSET Nat, IsFiniteSet(O), NEW o \in O
    PROVE  Nth(O, Rank(O, o)) = o
<1> DEFINE p == Nth(O, Rank(O, o))
<1>1. p \in O /\ Rank(O, p) = Rank(O, o)
  BY RankFacts, NthFacts
<1> HIDE DEF p
<1>2. Rank(O, o) \in Int /\ Rank(O, p) \in Int
  BY <1>1, RankFacts
<1>3. ~(o < p)
  BY <1>1, <1>2, RankFacts
<1>4. ~(p < o)
  BY <1>1, <1>2, RankFacts
<1>5. o \in Int /\ p \in Int
  BY <1>1
<1> QED BY <1>3, <1>4, <1>5 DEF p

\* How many offsets there are up to x says which ones.
LEMMA NthAtMost ==
    ASSUME NEW O \in SUBSET Nat, IsFiniteSet(O), NEW j \in 0 .. Cardinality(O) - 1, NEW x \in Nat
    PROVE  Nth(O, j) <= x <=> j < Cardinality({o \in O : o <= x})
<1> DEFINE C == {o \in O : o <= x}
           p == Nth(O, j)
           B == {q \in O : q < p}
<1>1. p \in O /\ p \in Nat /\ Cardinality(B) = j
  BY NthFacts DEF Rank
<1> HIDE DEF p
<1>2. IsFiniteSet(B) /\ IsFiniteSet(C) /\ Cardinality(C) \in Nat
  BY FS_Subset, FS_CardinalityType
<1>3. CASE p <= x
  <2>1. B \cup {p} \in SUBSET C /\ p \notin B
    <3>1. \A q \in O : q < p => q <= x
      <4>1. \A a, b, c \in Nat : a < b /\ b <= c => a <= c
        OBVIOUS
      <4>2. \A q \in O : q \in Nat
        OBVIOUS
      <4> QED BY <1>1, <1>3, <4>1, <4>2
    <3>2. ~(p < p)
      BY <1>1
    <3> QED BY <1>1, <1>3, <3>1, <3>2
  <2>2. Cardinality(B \cup {p}) = j + 1
    BY <1>1, <1>2, <2>1, FS_AddElement
  <2>3. Cardinality(B \cup {p}) <= Cardinality(C)
    BY <1>2, <2>1, FS_Subset
  <2> QED BY <1>2, <1>3, <2>2, <2>3 DEF p
<1>4. CASE ~(p <= x)
  <2>1. C \in SUBSET B
    <3>1. \A a, b, c \in Nat : a <= b /\ ~(c <= b) => a < c
      OBVIOUS
    <3>2. \A q \in O : q \in Nat
      OBVIOUS
    <3> QED BY <1>1, <1>4, <3>1, <3>2
  <2>2. Cardinality(C) <= j
    BY <1>1, <1>2, <2>1, FS_Subset
  <2> QED BY <1>2, <1>4, <2>2 DEF p
<1> QED BY <1>3, <1>4 DEF p

-----------------------------------------------------------------------------
(* Days and minutes.                                                       *)

DayMinutes == DayHours * HourMinutes

\* A day has minutes, and they have ticks.
LEMMA DayFacts ==
    /\ DayMinutes \in Nat \ {0}
    /\ Day \in Nat \ {0}
    /\ Day = DayMinutes * MinuteTicks
<1>1. \A a, b \in Nat \ {0} : a * b \in Nat \ {0}
  OBVIOUS
<1> QED BY <1>1, GridAssumption DEF DayMinutes, Day

\* A minute of the day and a tick of the minute are within the day.
LEMMA MinuteInDay ==
    ASSUME NEW o \in 0 .. DayMinutes - 1, NEW r \in 0 .. MinuteTicks - 1
    PROVE  o * MinuteTicks + r \in 0 .. Day - 1
<1>1. o \in Nat /\ DayMinutes \in Nat /\ MinuteTicks \in Nat \ {0} /\ o < DayMinutes
  BY DayFacts, GridAssumption
<1>2. o * MinuteTicks + r < DayMinutes * MinuteTicks
  BY <1>1, Lexicographic
<1>3. o * MinuteTicks \in Nat /\ DayMinutes * MinuteTicks \in Nat
  BY <1>1
<1> QED BY <1>2, <1>3, DayFacts

\* The day, the minute of the day and the tick of the minute.
LEMMA Clock ==
    ASSUME NEW t \in Nat
    PROVE  /\ t \div Day \in Nat
           /\ (t % Day) \div MinuteTicks \in 0 .. DayMinutes - 1
           /\ (t % Day) % MinuteTicks \in 0 .. MinuteTicks - 1
           /\ t = (t \div Day) * Day
                    + (((t % Day) \div MinuteTicks) * MinuteTicks + ((t % Day) % MinuteTicks))
           /\ t % MinuteTicks = (t % Day) % MinuteTicks
<1> DEFINE D == t \div Day
           u == t % Day
           x == u \div MinuteTicks
           r == u % MinuteTicks
<1>1. D \in Nat /\ u \in 0 .. Day - 1 /\ t = D * Day + u
  BY DivMod, DayFacts
<1>2. u \in Nat /\ MinuteTicks \in Nat \ {0}
  BY <1>1, DayFacts, GridAssumption
<1>3. x \in Nat /\ r \in 0 .. MinuteTicks - 1 /\ u = x * MinuteTicks + r
  BY <1>2, DivMod
<1> HIDE DEF D, u, x, r
<1>4. x < DayMinutes
  <2>1. CASE x >= DayMinutes
    <3>1. x * MinuteTicks >= DayMinutes * MinuteTicks
      <4>1. \A a, b, c \in Nat : a >= b => a * c >= b * c
        OBVIOUS
      <4> QED BY <2>1, <4>1, <1>2, <1>3, DayFacts
    <3>2. x * MinuteTicks \in Nat /\ Day \in Nat
      BY <1>2, <1>3, DayFacts
    <3>3. u >= Day
      BY <3>1, <3>2, <1>3, DayFacts
    <3> QED BY <3>3, <3>2, <1>1
  <2> QED BY <2>1, <1>3, DayFacts
<1>5. t % MinuteTicks = r
  <2>1. t = (D * DayMinutes + x) * MinuteTicks + r
    <3>1. \A a, b, c, e \in Nat : a * (b * c) + e * c = (a * b + e) * c
      OBVIOUS
    <3>2. D * (DayMinutes * MinuteTicks) + x * MinuteTicks = (D * DayMinutes + x) * MinuteTicks
      BY <3>1, <1>1, <1>2, <1>3, DayFacts
    <3>3. D * Day \in Nat /\ x * MinuteTicks \in Nat /\ (D * DayMinutes + x) * MinuteTicks \in Nat
      BY <1>1, <1>2, <1>3, DayFacts
    <3> QED BY <1>1, <1>3, <3>2, <3>3, DayFacts
  <2>2. D * DayMinutes + x \in Nat
    BY <1>1, <1>3, DayFacts
  <2> HIDE DEF D
  <2> DEFINE a == D * DayMinutes + x
  <2>3. t = a * MinuteTicks + r /\ a \in Nat
    BY <2>1, <2>2
  <2> HIDE DEF a
  <2> QED BY <2>3, <1>2, <1>3, DivModUnique
<1>6. x \in 0 .. DayMinutes - 1
  BY <1>3, <1>4, DayFacts
<1> QED BY <1>1, <1>3, <1>5, <1>6 DEF D, u, x, r

\* A time is told by its day, its minute and its tick.
LEMMA ClockUnique ==
    ASSUME NEW d \in Nat, NEW o \in 0 .. DayMinutes - 1
    PROVE  LET t == d * Day + o * MinuteTicks IN
           /\ t \in Nat
           /\ t \div Day = d
           /\ (t % Day) \div MinuteTicks = o
           /\ (t % Day) % MinuteTicks = 0
           /\ t % MinuteTicks = 0
<1> DEFINE t == d * Day + o * MinuteTicks
<1>1. o \in Nat /\ MinuteTicks \in Nat \ {0} /\ 0 \in 0 .. MinuteTicks - 1
  BY DayFacts, GridAssumption
<1>2. o * MinuteTicks \in Nat /\ o * MinuteTicks + 0 = o * MinuteTicks
  BY <1>1
<1>3. o * MinuteTicks \in 0 .. Day - 1
  BY <1>1, <1>2, MinuteInDay
<1>4. t \in Nat
  BY <1>2, DayFacts
<1>5. t \div Day = d /\ t % Day = o * MinuteTicks
  BY <1>3, DayFacts, DivModUnique
<1>6. (o * MinuteTicks) \div MinuteTicks = o /\ (o * MinuteTicks) % MinuteTicks = 0
  BY <1>1, NoRest
<1> HIDE DEF t
<1>7. t % MinuteTicks = (t % Day) % MinuteTicks
  BY <1>4, Clock
<1> QED BY <1>4, <1>5, <1>6, <1>7 DEF t
-----------------------------------------------------------------------------
(* The occurrences of a schedule in order.                                 *)

Grids == (SUBSET Every(DayMinutes)) \ {{}}

\* The offsets of a grid are minutes of the day, some and finitely many.
LEMMA GridFacts ==
    ASSUME NEW O \in Grids
    PROVE  /\ O \in SUBSET Nat /\ O \in SUBSET (0 .. DayMinutes - 1)
           /\ IsFiniteSet(O)
           /\ Cardinality(O) \in Nat \ {0}
<1>1. O \in SUBSET (0 .. DayMinutes - 1) /\ O # {}
  BY DEF Grids, Every
<1>2. IsFiniteSet(0 .. DayMinutes - 1)
  BY DayFacts, FS_Interval
<1>3. IsFiniteSet(O)
  BY <1>1, <1>2, FS_Subset
<1>4. Cardinality(O) \in Nat /\ Cardinality(O) # 0
  BY <1>1, <1>3, FS_CardinalityType, FS_EmptySet
<1> QED BY <1>1, <1>3, <1>4, DayFacts

\* The parts of an index: its day and the offset of that day.
LEMMA IndexFacts ==
    ASSUME NEW O \in Grids, NEW k \in Nat
    PROVE  LET n == Cardinality(O) IN
           /\ k \div n \in Nat
           /\ k % n \in 0 .. n - 1
           /\ k = (k \div n) * n + (k % n)
           /\ Nth(O, k % n) \in O
           /\ Nth(O, k % n) \in 0 .. DayMinutes - 1
           /\ Rank(O, Nth(O, k % n)) = k % n
<1> DEFINE n == Cardinality(O)
<1>1. n \in Nat \ {0}
  BY GridFacts
<1> HIDE DEF n
<1>2. k \div n \in Nat /\ k % n \in 0 .. n - 1 /\ k = (k \div n) * n + (k % n)
  BY <1>1, DivMod
<1> USE DEF n
<1>3. Nth(O, k % n) \in O /\ Rank(O, Nth(O, k % n)) = k % n
  BY <1>2, GridFacts, NthFacts
<1> QED BY <1>2, <1>3, GridFacts

\* Every index names a time of the grid.
LEMMA OccurrenceOccurs ==
    ASSUME NEW O \in Grids, NEW k \in Nat
    PROVE  /\ Occurrence(O, k) \in Nat
           /\ Occurs(O, Occurrence(O, k))
           /\ Occurrence(O, k) \div Day = k \div Cardinality(O)
           /\ (Occurrence(O, k) % Day) \div MinuteTicks = Nth(O, k % Cardinality(O))
<1> DEFINE n == Cardinality(O)
           d == k \div n
           o == Nth(O, k % n)
<1>1. d \in Nat /\ o \in O /\ o \in 0 .. DayMinutes - 1
  BY IndexFacts
<1>2. Occurrence(O, k) = d * Day + o * MinuteTicks
  BY DEF Occurrence
<1> HIDE DEF d, o, n
<1>3. LET t == d * Day + o * MinuteTicks IN
      /\ t \in Nat
      /\ t \div Day = d
      /\ (t % Day) \div MinuteTicks = o
      /\ t % MinuteTicks = 0
  BY <1>1, ClockUnique
<1>4. Occurs(O, Occurrence(O, k))
  BY <1>1, <1>2, <1>3 DEF Occurs
<1> QED BY <1>2, <1>3, <1>4 DEF d, o, n

\* Different indices name different times.
LEMMA OccurrenceInjective ==
    ASSUME NEW O \in Grids, NEW k \in Nat, NEW l \in Nat, Occurrence(O, k) = Occurrence(O, l)
    PROVE  k = l
<1> DEFINE n == Cardinality(O)
<1>1. k \div n = l \div n /\ Nth(O, k % n) = Nth(O, l % n)
  BY OccurrenceOccurs
<1>2. k % n = l % n
  BY <1>1, IndexFacts
<1> QED BY <1>1, <1>2, IndexFacts

\* Every time of the grid has an index.
LEMMA GridIsOccurrences ==
    ASSUME NEW O \in Grids, NEW t \in Int, Occurs(O, t)
    PROVE  \E k \in Nat : t = Occurrence(O, k)
<1> DEFINE n == Cardinality(O)
           D == t \div Day
           x == (t % Day) \div MinuteTicks
           j == Rank(O, x)
           k == D * n + j
<1>1. t \in Nat /\ t % MinuteTicks = 0 /\ x \in O
  BY DEF Occurs
<1>2. n \in Nat \ {0} /\ j \in 0 .. n - 1 /\ Nth(O, j) = x
  BY <1>1, GridFacts, RankFacts, NthOfRank
<1>3. D \in Nat /\ x \in 0 .. DayMinutes - 1
      /\ t = D * Day + (x * MinuteTicks + 0)
  BY <1>1, Clock
<1> HIDE DEF D, x, j
<1>4. k \in Nat
  BY <1>2, <1>3
<1>5. k \div n = D /\ k % n = j
  BY <1>2, <1>3, DivModUnique
<1>6. x * MinuteTicks + 0 = x * MinuteTicks
  BY <1>3, GridAssumption
<1>7. Occurrence(O, k) = D * Day + x * MinuteTicks
  BY <1>2, <1>5 DEF Occurrence
<1> QED BY <1>3, <1>4, <1>6, <1>7

\* The count of a time separates the occurrences up to it from the later ones.
LEMMA CountSeparates ==
    ASSUME NEW O \in Grids, NEW t \in Nat, NEW k \in Nat
    PROVE  /\ CountThrough(O, t) \in Nat
           /\ k < CountThrough(O, t) <=> Occurrence(O, k) <= t
<1> DEFINE n == Cardinality(O)
           d == k \div n
           j == k % n
           o == Nth(O, j)
           D == t \div Day
           x == (t % Day) \div MinuteTicks
           r == (t % Day) % MinuteTicks
           c == Cardinality({p \in O : p <= x})
<1>1. n \in Nat \ {0} /\ O \in SUBSET Nat /\ IsFiniteSet(O)
  BY GridFacts
<1>2. d \in Nat /\ j \in 0 .. n - 1 /\ k = d * n + j /\ o \in 0 .. DayMinutes - 1
  BY IndexFacts
<1>3. D \in Nat /\ x \in 0 .. DayMinutes - 1 /\ r \in 0 .. MinuteTicks - 1
      /\ t = D * Day + (x * MinuteTicks + r)
  BY Clock
<1>4. c \in Nat /\ c <= n
  BY <1>1, FS_Subset, FS_CardinalityType
<1>5. CountThrough(O, t) = D * n + c
  BY DEF CountThrough
<1>6. Occurrence(O, k) = d * Day + o * MinuteTicks
  BY DEF Occurrence
<1>7. o <= x <=> j < c
  BY <1>1, <1>2, <1>3, DayFacts, NthAtMost
<1> HIDE DEF n, d, j, o, D, x, r, c
<1>8. /\ MinuteTicks \in Nat \ {0} /\ Day \in Nat \ {0} /\ o \in Nat /\ x \in Nat /\ r \in Nat
      /\ o * MinuteTicks \in Nat /\ x * MinuteTicks \in Nat
      /\ d * Day \in Nat /\ D * Day \in Nat /\ d * n \in Nat /\ D * n \in Nat
  BY <1>1, <1>2, <1>3, DayFacts, GridAssumption
<1>9. o * MinuteTicks + 0 \in 0 .. Day - 1 /\ x * MinuteTicks + r \in 0 .. Day - 1
  <2>1. 0 \in 0 .. MinuteTicks - 1
    BY <1>8
  <2>2. o * MinuteTicks + 0 \in 0 .. Day - 1
    BY <2>1, <1>2, MinuteInDay
  <2>3. x * MinuteTicks + r \in 0 .. Day - 1
    BY <1>3, MinuteInDay
  <2> QED BY <2>2, <2>3
<1>10. CASE d < D
  <2>1. d * n + j < D * n
    BY <1>1, <1>2, <1>3, <1>10, Lexicographic
  <2>2. d * Day + (o * MinuteTicks + 0) < D * Day
    BY <1>2, <1>3, <1>8, <1>9, <1>10, Lexicographic
  <2> QED BY <2>1, <2>2, <1>2, <1>3, <1>4, <1>5, <1>6, <1>8
<1>11. CASE D < d
  <2>1. D * n + n <= d * n
    <3>1. \A a, b, e \in Nat : a < b => a * e + e <= b * e
      <4> SUFFICES ASSUME NEW a \in Nat, NEW b \in Nat, NEW e \in Nat, a < b
                   PROVE  a * e + e <= b * e
        OBVIOUS
      <4>1. (a + 1) * e <= b * e /\ (a + 1) * e = a * e + e
        OBVIOUS
      <4> QED BY <4>1
    <3> QED BY <3>1, <1>1, <1>2, <1>3, <1>11
  <2>2. D * Day + (x * MinuteTicks + r) < d * Day
    BY <1>2, <1>3, <1>8, <1>9, <1>11, Lexicographic
  <2> QED BY <2>1, <2>2, <1>1, <1>2, <1>3, <1>4, <1>5, <1>6, <1>8
<1>12. CASE d = D
  <2>1. k < CountThrough(O, t) <=> j < c
    BY <1>12, <1>1, <1>2, <1>4, <1>5, <1>8
  <2>2. Occurrence(O, k) <= t <=> o * MinuteTicks <= x * MinuteTicks + r
    BY <1>12, <1>3, <1>6, <1>8
  <2>3. o <= x => o * MinuteTicks <= x * MinuteTicks + r
    <3>1. \A a, b, e \in Nat : a <= b => a * e <= b * e
      OBVIOUS
    <3>2. o <= x => o * MinuteTicks <= x * MinuteTicks
      BY <3>1, <1>8
    <3> QED BY <3>2, <1>8
  <2>4. x < o => x * MinuteTicks + r < o * MinuteTicks
    BY <1>3, <1>8, Lexicographic
  <2> QED BY <2>1, <2>2, <2>3, <2>4, <1>4, <1>5, <1>7, <1>8
<1> QED BY <1>2, <1>3, <1>10, <1>11, <1>12

\* A later index names a later time.
LEMMA OccurrenceIncreases ==
    ASSUME NEW O \in Grids, NEW k \in Nat, NEW l \in Nat, k < l
    PROVE  Occurrence(O, k) < Occurrence(O, l)
<1> DEFINE t == Occurrence(O, l)
<1>1. t \in Nat /\ Occurrence(O, k) \in Nat
  BY OccurrenceOccurs
<1>2. Occurrence(O, k) # t
  BY OccurrenceInjective
<1>3. CountThrough(O, t) \in Nat /\ l < CountThrough(O, t)
  BY <1>1, CountSeparates
<1>4. k < CountThrough(O, t)
  BY <1>3
<1>5. Occurrence(O, k) <= t
  BY <1>1, <1>4, CountSeparates
<1> QED BY <1>1, <1>2, <1>5

-----------------------------------------------------------------------------
(* The windows.                                                            *)

\* The same for every bound of a window, -1 included.
LEMMA CountOfBound ==
    ASSUME NEW O \in Grids, NEW t \in Nat \cup {-1}
    PROVE  /\ CountThrough(O, t) \in Nat
           /\ \A k \in Nat : k < CountThrough(O, t) <=> Occurrence(O, k) <= t
<1>1. CASE t \in Nat
  BY <1>1, CountSeparates
<1>2. CASE t = -1
  <2>1. CountThrough(O, t) = 0
    BY <1>2 DEF CountThrough
  <2>2. \A k \in Nat : Occurrence(O, k) \in Nat
    BY OccurrenceOccurs
  <2> QED BY <2>1, <2>2, <1>2
<1> QED BY <1>1, <1>2

\* The occurrences of a window are those of consecutive indices.
LEMMA BetweenIsRange ==
    ASSUME NEW O \in Grids, NEW a \in Nat \cup {-1}, NEW b \in Nat \cup {-1}, a <= b
    PROVE  LET before == CountThrough(O, a)
               upTo == CountThrough(O, b)
           IN  /\ before \in Nat /\ upTo \in Nat /\ before <= upTo
               /\ Between(O, a, b) = {Occurrence(O, k) : k \in before .. upTo - 1}
               /\ IsFiniteSet(Between(O, a, b))
               /\ Cardinality(Between(O, a, b)) = upTo - before
<1> DEFINE before == CountThrough(O, a)
           upTo == CountThrough(O, b)
           I == before .. upTo - 1
           S == Between(O, a, b)
           f == [k \in I |-> Occurrence(O, k)]
<1>1. before \in Nat /\ \A k \in Nat : k < before <=> Occurrence(O, k) <= a
  BY CountOfBound
<1>2. upTo \in Nat /\ \A k \in Nat : k < upTo <=> Occurrence(O, k) <= b
  BY CountOfBound
<1> HIDE DEF before, upTo
<1>3. \A k \in Nat : Occurrence(O, k) \in Nat /\ Occurs(O, Occurrence(O, k))
  BY OccurrenceOccurs
<1>4. before <= upTo
  <2> SUFFICES ASSUME upTo < before PROVE FALSE
    BY <1>1, <1>2
  <2>1. Occurrence(O, upTo) <= a
    BY <1>1, <1>2
  <2>2. Occurrence(O, upTo) <= b
    BY <2>1, <1>2, <1>3
  <2> QED BY <2>2, <1>2
<1>5. \A k \in Nat : k \in I <=> Occurrence(O, k) \in a + 1 .. b
  <2> SUFFICES ASSUME NEW k \in Nat
               PROVE  k \in I <=> Occurrence(O, k) \in a + 1 .. b
    OBVIOUS
  <2>1. k \in I <=> ~(k < before) /\ k < upTo
    BY <1>1, <1>2
  <2>2. Occurrence(O, k) \in a + 1 .. b <=> ~(Occurrence(O, k) <= a) /\ Occurrence(O, k) <= b
    BY <1>3
  <2> QED BY <2>1, <2>2, <1>1, <1>2
<1>6. S = {Occurrence(O, k) : k \in I}
  <2>1. ASSUME NEW t \in S PROVE t \in {Occurrence(O, k) : k \in I}
    <3>1. t \in Int /\ t \in a + 1 .. b /\ Occurs(O, t)
      BY <2>1 DEF Between
    <3>2. PICK k \in Nat : t = Occurrence(O, k)
      BY <3>1, GridIsOccurrences
    <3> QED BY <3>1, <3>2, <1>5
  <2>2. ASSUME NEW k \in I PROVE Occurrence(O, k) \in S
    <3>1. k \in Nat
      BY <1>1, <1>2
    <3> QED BY <3>1, <1>3, <1>5 DEF Between
  <2> QED BY <2>1, <2>2
<1>7. IsFiniteSet(I) /\ Cardinality(I) = upTo - before
  <2>1. IsFiniteSet(I) /\ Cardinality(I) = IF before > upTo - 1 THEN 0 ELSE (upTo - 1) - before + 1
    BY <1>1, <1>2, FS_Interval
  <2> QED BY <2>1, <1>1, <1>2, <1>4
<1> HIDE DEF S
<1>8. f \in Bijection(I, S)
  <2>1. f \in [I -> S]
    BY <1>6
  <2>2. \A s \in S : \E k \in I : f[k] = s
    BY <1>6
  <2>3. \A k, l \in I : f[k] = f[l] => k = l
    <3> SUFFICES ASSUME NEW k \in I, NEW l \in I, Occurrence(O, k) = Occurrence(O, l) PROVE k = l
      OBVIOUS
    <3>1. k \in Nat /\ l \in Nat
      BY <1>1, <1>2
    <3> QED BY <3>1, OccurrenceInjective
  <2> HIDE DEF f
  <2> QED BY <2>1, <2>2, <2>3, Fun_IsBij
<1>9. IsFiniteSet(S) /\ Cardinality(S) = Cardinality(I)
  BY <1>7, <1>8, FS_Bijection DEF ExistsBijection
<1> QED BY <1>1, <1>2, <1>4, <1>6, <1>7, <1>9 DEF before, upTo, S

\* The grid arithmetic agrees with the grid, for every set of offsets and
\* every window.
THEOREM WindowsAgree ==
    ASSUME NEW O \in Grids, NEW a \in Nat \cup {-1}, NEW b \in Nat, a < b
    PROVE  WindowAgrees(O, a, b)
<1> DEFINE before == CountThrough(O, a)
           upTo == CountThrough(O, b)
           S == Between(O, a, b)
           W == Window(O, a, b)
<1>1. /\ before \in Nat /\ upTo \in Nat /\ before <= upTo
      /\ S = {Occurrence(O, k) : k \in before .. upTo - 1}
      /\ Cardinality(S) = upTo - before
  BY BetweenIsRange
<1>2. /\ W.count = upTo - before
      /\ W.count > 0 => /\ W.first = Occurrence(O, before)
                        /\ W.last = Occurrence(O, upTo - 1)
      /\ W.count > 1 => W.previous = Occurrence(O, upTo - 2)
  BY DEF Window
<1> HIDE DEF before, upTo, S, W
<1>3. \A k \in Nat : Occurrence(O, k) \in Nat
  BY OccurrenceOccurs
<1>4. \A k, l \in Nat : k <= l => Occurrence(O, k) <= Occurrence(O, l)
  <2> SUFFICES ASSUME NEW k \in Nat, NEW l \in Nat, k <= l
               PROVE  Occurrence(O, k) <= Occurrence(O, l)
    OBVIOUS
  <2>1. CASE k < l
    BY <2>1, <1>3, OccurrenceIncreases
  <2>2. CASE k = l
    BY <2>2, <1>3
  <2> QED BY <2>1, <2>2
<1>5. W.count = Cardinality(S)
  BY <1>1, <1>2
<1>6. ASSUME S # {}
      PROVE  /\ W.first \in S /\ \A t \in S : W.first <= t
             /\ W.last \in S /\ \A t \in S : t <= W.last
  <2>1. before <= upTo - 1
    BY <1>1, <1>6
  <2>2. W.first = Occurrence(O, before) /\ W.last = Occurrence(O, upTo - 1)
    BY <2>1, <1>1, <1>2
  <2>3. before \in before .. upTo - 1 /\ upTo - 1 \in before .. upTo - 1
    BY <2>1, <1>1
  <2>4. W.first \in S /\ W.last \in S
    BY <2>2, <2>3, <1>1
  <2>5. ASSUME NEW t \in S PROVE W.first <= t /\ t <= W.last
    <3>1. PICK k \in before .. upTo - 1 : t = Occurrence(O, k)
      BY <1>1
    <3>2. k \in Nat /\ upTo - 1 \in Nat /\ before <= k /\ k <= upTo - 1
      BY <1>1
    <3>3. Occurrence(O, before) <= Occurrence(O, k)
      BY <3>2, <1>1, <1>4
    <3>4. Occurrence(O, k) <= Occurrence(O, upTo - 1)
      BY <3>2, <1>1, <1>4
    <3> QED BY <2>2, <3>1, <3>3, <3>4
  <2> QED BY <2>4, <2>5
<1>7. ASSUME W.count > 1
      PROVE  /\ W.previous \in S \ {W.last}
             /\ \A t \in S \ {W.last} : t <= W.previous
  <2>1. upTo - 2 \in Nat /\ upTo - 1 \in Nat /\ before <= upTo - 2
    BY <1>1, <1>2, <1>7
  <2>2. W.previous = Occurrence(O, upTo - 2) /\ W.last = Occurrence(O, upTo - 1)
    BY <2>1, <1>1, <1>2, <1>7
  <2>3. W.previous \in S
    <3>1. upTo - 2 \in before .. upTo - 1
      BY <2>1, <1>1
    <3> QED BY <3>1, <2>2, <1>1
  <2>4. W.previous # W.last
    <3>1. upTo - 2 < upTo - 1
      BY <2>1, <1>1
    <3>2. Occurrence(O, upTo - 2) < Occurrence(O, upTo - 1)
      BY <3>1, <2>1, OccurrenceIncreases
    <3> QED BY <2>1, <2>2, <3>2, <1>3
  <2>5. ASSUME NEW t \in S \ {W.last} PROVE t <= W.previous
    <3>1. PICK k \in before .. upTo - 1 : t = Occurrence(O, k)
      BY <1>1
    <3>2. k # upTo - 1
      BY <3>1, <2>2
    <3>3. k \in Nat /\ k <= upTo - 2
      BY <3>2, <1>1
    <3>4. Occurrence(O, k) <= Occurrence(O, upTo - 2)
      BY <3>3, <2>1, <1>4
    <3> QED BY <3>1, <3>4, <2>2
  <2> QED BY <2>3, <2>4, <2>5
<1> QED BY <1>5, <1>6, <1>7 DEF WindowAgrees, W, S

-----------------------------------------------------------------------------
(* The invariant of the tables.                                            *)

RowStates == {"none", "running", "pruned"} \cup Finished

\* What is planned follows the cursor: a schedule waits for the newest
\* occurrence that passed, and only what passed has a row.
PlanInv ==
    \A s \in Schedule :
        /\ start # Never => start - 1 <= cursor[s]
        /\ pending[s] # Never =>
             /\ pending[s] \in Passed(s)
             /\ rstate[s][pending[s]] = "none"
             /\ \A t \in Passed(s) : t <= pending[s]
        /\ \A t \in Time : rstate[s][t] # "none" => t \in Passed(s)

\* An attempt begins with a row, a token and a lease belong to a running row,
\* and a token to one row.
RowInv ==
    /\ \A s \in Schedule, t \in Time :
         /\ rstate[s][t] = "none" => attempts[s][t] = 0
         /\ rstate[s][t] = "running" <=> token[s][t] # NoToken
         /\ left[s][t] > 0 => rstate[s][t] = "running"
    /\ \A s, u \in Schedule : \A t, v \in Time :
         token[s][t] = token[u][v] /\ token[s][t] # NoToken => s = u /\ t = v

\* What runs is the newest that has a row.
OrderInv ==
    \A s \in Schedule, t \in Time : rstate[s][t] = "running" =>
        \A v \in Time : v > t => rstate[s][v] = "none"

\* What a place has in memory: a claim while it is busy, an outcome when it
\* settles.
MemoryInv ==
    \A r \in Run : /\ pc[r] # "idle" => claimed[r] \in Claims
                   /\ pc[r] = "settling" => outcome[r] \in Outcomes

\* A receipt names a last occurrence of its range.
ReceiptInv ==
    \A s \in Schedule : \A receipt \in receipts[s] :
        receipt.last \in Between(OffsetsOf[s], receipt.first - 1, receipt.last)

CronInv == TypeOK /\ PlanInv /\ RowInv /\ OrderInv /\ MemoryInv

-----------------------------------------------------------------------------
(* Operators of the model.                                                 *)

\* What the assumptions say of the constants.
LEMMA ConstantFacts ==
    /\ Never \notin Int
    /\ Boundaries \subseteq Time
    /\ Time \subseteq Nat /\ 0 \in Time /\ Horizon \in Time
    /\ {Lease, MaxConcurrent, MaxAttempts, HistoryLimit} \subseteq Nat \ {0}
    /\ \A s \in Schedule : OffsetsOf[s] \in Grids
BY GridAssumption, CronAssumption DEF Time, Grids, DayMinutes

\* Times are numbers, and never is no time.
LEMMA TimesAreNumbers == \A t \in Time : t \in Nat /\ t \in Int /\ t # Never
<1>1. \A t \in Time : t \in Nat
  BY ConstantFacts
<1> QED BY <1>1, ConstantFacts

\* Pruning changes finished rows only.
LEMMA PrunedRows ==
    ASSUME NEW rows \in [Time -> RowStates]
    PROVE  /\ Pruned(rows) \in [Time -> RowStates]
           /\ \A t \in Time : \/ Pruned(rows)[t] = rows[t]
                              \/ rows[t] \in Finished /\ Pruned(rows)[t] = "pruned"
BY DEF Pruned, RowStates, Finished, Outcomes, Oldest

\* The newest finished row stays.
LEMMA PrunedNewest ==
    ASSUME NEW rows \in [Time -> RowStates], NEW t \in Time,
           \A v \in Time : v > t => rows[v] \notin Finished
    PROVE  Pruned(rows)[t] = rows[t]
<1> DEFINE finished == {v \in Time : rows[v] \in Finished}
<1>1. {u \in finished : u > t} = {}
  OBVIOUS
<1>2. ~(Cardinality({u \in finished : u > t}) >= HistoryLimit)
  BY <1>1, ConstantFacts, FS_EmptySet
<1>3. t \notin Oldest(finished)
  BY <1>2 DEF Oldest
<1> QED BY <1>3 DEF Pruned

\* A running row stays, and a row runs only if it did.
LEMMA PrunedRunning ==
    ASSUME NEW rows \in [Time -> RowStates], NEW t \in Time
    PROVE  /\ Pruned(rows)[t] = "running" <=> rows[t] = "running"
           /\ Pruned(rows)[t] = "none" <=> rows[t] = "none"
<1>1. Pruned(rows)[t] = rows[t] \/ (rows[t] \in Finished /\ Pruned(rows)[t] = "pruned")
  BY PrunedRows
<1> QED BY <1>1 DEF Finished, Outcomes

\* The window a planner closes for a schedule.
LEMMA DueFacts ==
    ASSUME TypeOK, NEW s \in Schedule, cursor[s] < now
    PROVE  LET B == Between(OffsetsOf[s], cursor[s], now) IN
           /\ WindowAgrees(OffsetsOf[s], cursor[s], now)
           /\ B \subseteq Time /\ IsFiniteSet(B)
           /\ Due(s).count = Cardinality(B) /\ Due(s).count \in Nat
           /\ Due(s).count > 0 <=> B # {}
           /\ B # {} => /\ Due(s).first \in B /\ \A t \in B : Due(s).first <= t
                        /\ Due(s).last \in B /\ \A t \in B : t <= Due(s).last
           /\ Due(s).count > 1 => /\ Due(s).previous \in B \ {Due(s).last}
                                  /\ \A t \in B \ {Due(s).last} : t <= Due(s).previous
           /\ ~(Due(s).count > 1) => Due(s).previous = Never
<1> DEFINE O == OffsetsOf[s]
           B == Between(O, cursor[s], now)
<1>1. O \in Grids
  BY ConstantFacts
<1>2. cursor[s] \in Nat \cup {-1} /\ now \in Nat /\ cursor[s] \in Int /\ now <= Horizon /\ Horizon \in Nat
  BY CronAssumption DEF TypeOK, Time
<1>3. WindowAgrees(O, cursor[s], now)
  BY <1>1, <1>2, WindowsAgree
<1>4. IsFiniteSet(B)
  <2>1. now \in Nat \cup {-1} /\ cursor[s] <= now
    BY <1>2
  <2> QED BY <2>1, <1>1, <1>2, BetweenIsRange
<1>5. B \subseteq Time
  BY <1>2 DEF Between, Time
<1>6. Due(s) = Window(O, cursor[s], now)
  BY DEF Due
<1>7. Due(s).count = Cardinality(B) /\ Due(s).count \in Nat /\ (Due(s).count > 0 <=> B # {})
  <2>1. Due(s).count = Cardinality(B)
    BY <1>3, <1>6 DEF WindowAgrees
  <2>2. Cardinality(B) \in Nat /\ (Cardinality(B) = 0 <=> B = {})
    BY <1>4, FS_CardinalityType, FS_EmptySet
  <2> QED BY <2>1, <2>2
<1>8. ~(Due(s).count > 1) => Due(s).previous = Never
  BY <1>6 DEF Window
<1> HIDE DEF B, O
<1> QED BY <1>3, <1>4, <1>5, <1>6, <1>7, <1>8 DEF WindowAgrees, B, O

\* What a planner has passed, before and after it closes a window.
LEMMA PassedTimes ==
    ASSUME TypeOK, NEW s \in Schedule
    PROVE  /\ Passed(s) \subseteq Time
           /\ \A t \in Passed(s) : start # Never /\ start <= t /\ t <= cursor[s]
<1>1. start = Never \/ start \in Nat
  BY ConstantFacts DEF TypeOK
<1>2. cursor[s] \in -1 .. Horizon
  BY DEF TypeOK
<1> QED BY <1>1, <1>2, CronAssumption DEF Passed, Between, Time

-----------------------------------------------------------------------------
(* Types.                                                                  *)

ReceiptRows == [through : Time, first : Time, last : Time, count : Nat]

\* What a planner stores for a schedule whose window holds an occurrence.
LEMMA PlannedValues ==
    ASSUME TypeOK, NEW s \in Occurring
    PROVE  /\ s \in Schedule /\ cursor[s] < now /\ Due(s).count \in Nat \ {0}
           /\ Due(s).last \in Time
           /\ SkippedBy(s) \in Nat
           /\ SkippedBy(s) > 0 => Receipt(s) \in ReceiptRows
<1>1. s \in Schedule /\ cursor[s] < now /\ Due(s).count > 0
  BY DEF Occurring
<1> DEFINE B == Between(OffsetsOf[s], cursor[s], now)
<1>2. B \subseteq Time /\ Due(s).count \in Nat /\ Due(s).first \in B /\ Due(s).last \in B
  BY <1>1, DueFacts
<1>3. /\ Due(s).count > 1 => Due(s).previous \in B
      /\ ~(Due(s).count > 1) => Due(s).previous = Never
  BY <1>1, DueFacts
<1> HIDE DEF B
<1>4. SkippedBy(s) \in Nat
  BY <1>1, <1>2 DEF SkippedBy
<1>5. ASSUME SkippedBy(s) > 0 PROVE Receipt(s) \in ReceiptRows
  <2>1. pending[s] # Never \/ Due(s).count > 1
    BY <1>1, <1>2, <1>5 DEF SkippedBy
  <2>2. pending[s] \in Time \cup {Never} /\ now \in Time
    BY <1>1 DEF TypeOK
  <2>3. \A t \in Time : t # Never
    BY ConstantFacts
  <2>4. (IF pending[s] # Never THEN pending[s] ELSE Due(s).first) \in Time
    BY <1>2, <2>2
  <2>5. (IF Due(s).previous # Never THEN Due(s).previous ELSE pending[s]) \in Time
    BY <1>2, <1>3, <2>1, <2>2, <2>3
  <2> QED BY <1>4, <2>2, <2>4, <2>5 DEF Receipt, ReceiptRows
<1> QED BY <1>1, <1>2, <1>4, <1>5

\* The type invariant with the records named.
LEMMA RowTypes ==
    TypeOK <=> /\ now \in Time
               /\ start \in Boundaries \cup {Never}
               /\ cursor \in [Schedule -> -1 .. Horizon]
               /\ pending \in [Schedule -> Time \cup {Never}]
               /\ skipped \in [Schedule -> Nat]
               /\ \A s \in Schedule : receipts[s] \subseteq ReceiptRows
               /\ rstate \in [Schedule -> [Time -> RowStates]]
               /\ attempts \in [Schedule -> [Time -> 0 .. MaxAttempts]]
               /\ token \in [Schedule -> [Time -> Token \cup {NoToken}]]
               /\ left \in [Schedule -> [Time -> 0 .. Lease]]
               /\ pc \in [Run -> {"idle", "consuming", "settling"}]
               /\ claimed \in [Run -> Claims \cup {NoClaim}]
               /\ outcome \in [Run -> Outcomes \cup {"none"}]
               /\ consumer \in [Run -> BOOLEAN]
BY DEF TypeOK, ReceiptRows, RowStates

\* Types, for a planner.
LEMMA PlanTypes ==
    ASSUME TypeOK, Plan
    PROVE  TypeOK'
<1>1. cursor' \in [Schedule -> -1 .. Horizon]
  <2>1. now \in -1 .. Horizon
    BY ConstantFacts, CronAssumption DEF TypeOK, Time
  <2>2. cursor \in [Schedule -> -1 .. Horizon]
    BY DEF TypeOK
  <2>3. cursor' = [s \in Schedule |-> IF cursor[s] < now THEN now ELSE cursor[s]]
    BY DEF Plan
  <2> QED BY <2>1, <2>2, <2>3
<1>2. pending' \in [Schedule -> Time \cup {Never}]
  <2>1. \A s \in Occurring : Due(s).last \in Time
    BY PlannedValues
  <2> QED BY <2>1 DEF Plan, TypeOK
<1>3. skipped' \in [Schedule -> Nat]
  <2>1. \A s \in Occurring : SkippedBy(s) \in Nat
    BY PlannedValues
  <2>2. \A a, b \in Nat : a + b \in Nat
    OBVIOUS
  <2> QED BY <2>1, <2>2 DEF Plan, TypeOK
<1>4. ASSUME NEW s \in Schedule PROVE receipts'[s] \subseteq ReceiptRows
  <2>1. receipts[s] \subseteq ReceiptRows
    BY RowTypes
  <2>2. CASE s \notin Occurring
    BY <2>1, <2>2 DEF Plan
  <2>3. CASE s \in Occurring
    <3> DEFINE R == receipts[s] \cup {receipt \in {Receipt(s)} : SkippedBy(s) > 0}
    <3>1. R \subseteq ReceiptRows
      BY <2>1, <2>3, PlannedValues
    <3>2. receipts'[s] = RetainedReceipts(R)
      BY <2>3 DEF Plan
    <3> HIDE DEF R
    <3> QED BY <3>1, <3>2 DEF RetainedReceipts
  <2> QED BY <2>2, <2>3
<1>5. rstate' \in [Schedule -> [Time -> RowStates]]
  <2>1. rstate \in [Schedule -> [Time -> RowStates]]
    BY RowTypes
  <2>2. \A s \in Schedule : Pruned(rstate[s]) \in [Time -> RowStates]
    BY <2>1, PrunedRows
  <2> QED BY <2>1, <2>2 DEF Plan
<1> QED BY <1>1, <1>2, <1>3, <1>4, <1>5 DEF Plan, memory, TypeOK, ReceiptRows, RowStates

\* Types, for giving a run up.
LEMMA ExhaustTypes ==
    ASSUME TypeOK, NEW r \in Run, NEW s \in Schedule, NEW t \in Time, Exhaust(r, s, t)
    PROVE  TypeOK'
<1> DEFINE row == [rstate[s] EXCEPT ![t] = "lease-exhausted"]
<1>1. rstate \in [Schedule -> [Time -> RowStates]]
  BY RowTypes
<1>2. row \in [Time -> RowStates]
  BY <1>1 DEF RowStates, Finished
<1>3. rstate' = [rstate EXCEPT ![s] = Pruned(row)]
  BY DEF Exhaust
<1> HIDE DEF row
<1>4. rstate' \in [Schedule -> [Time -> RowStates]]
  BY <1>1, <1>2, <1>3, PrunedRows
<1>5. token' \in [Schedule -> [Time -> Token \cup {NoToken}]]
  BY DEF TypeOK, Exhaust
<1> QED BY <1>4, <1>5 DEF Exhaust, schedules, memory, TypeOK, RowStates

\* Types, for a claim.
LEMMA ClaimTypes ==
    ASSUME CronInv, NEW r \in Run, NEW s \in Schedule, NEW t \in Time, NEW k \in Token,
           Claim(r, s, t, k)
    PROVE  TypeOK'
<1> USE DEF CronInv
<1>1. rstate' \in [Schedule -> [Time -> RowStates]]
  BY RowTypes DEF Claim, RowStates
<1>2. attempts[s][t] + 1 \in 0 .. MaxAttempts
  <2>1. attempts[s][t] \in Nat /\ MaxAttempts \in Nat \ {0}
    <3>1. attempts \in [Schedule -> [Time -> 0 .. MaxAttempts]]
      BY DEF TypeOK
    <3> HIDE DEF CronInv
    <3> QED BY <3>1, ConstantFacts
  <2>2. CASE rstate[s][t] = "running"
    BY <2>1, <2>2 DEF Claim, Spent
  <2>3. CASE rstate[s][t] # "running"
    <3>1. pending[s] = t
      BY <2>3 DEF Claim, IsNext, Abandoned, WaitingToRun
    <3>2. pending[s] # Never
      BY <3>1, ConstantFacts
    <3>3. attempts[s][t] = 0
      BY <3>1, <3>2 DEF PlanInv, RowInv
    <3> QED BY <2>1, <3>3
  <2> QED BY <2>2, <2>3
<1>3. attempts' \in [Schedule -> [Time -> 0 .. MaxAttempts]]
  BY <1>2 DEF Claim, TypeOK
<1>4. token' \in [Schedule -> [Time -> Token \cup {NoToken}]]
  BY DEF Claim, TypeOK
<1>5. left' \in [Schedule -> [Time -> 0 .. Lease]]
  <2>1. Lease \in 0 .. Lease
    BY ConstantFacts
  <2> QED BY <2>1 DEF Claim, TypeOK
<1>6. pending' \in [Schedule -> Time \cup {Never}]
  BY DEF Claim, TypeOK
<1>7. pc' \in [Run -> {"idle", "consuming", "settling"}] /\ consumer' \in [Run -> BOOLEAN]
  BY DEF Claim, TypeOK
<1>8. claimed' \in [Run -> Claims \cup {NoClaim}]
  <2>1. [schedule |-> s, at |-> t, token |-> k] \in Claims
    BY DEF Claims
  <2>2. claimed' = [claimed EXCEPT ![r] = [schedule |-> s, at |-> t, token |-> k]]
    BY DEF Claim
  <2>3. claimed \in [Run -> Claims \cup {NoClaim}]
    BY DEF TypeOK
  <2> HIDE DEF CronInv
  <2> QED BY <2>1, <2>2, <2>3
<1> QED BY <1>1, <1>3, <1>4, <1>5, <1>6, <1>7, <1>8 DEF Claim, TypeOK, RowStates

\* A place that forgets is idle.
LEMMA ForgetTypes ==
    ASSUME TypeOK, NEW R \in SUBSET Run, Forget(R)
    PROVE  /\ pc' \in [Run -> {"idle", "consuming", "settling"}]
           /\ claimed' \in [Run -> Claims \cup {NoClaim}]
           /\ outcome' \in [Run -> Outcomes \cup {"none"}]
BY DEF Forget, TypeOK

\* A place that settles has a claim and an outcome.
LEMMA SettlerHolds ==
    ASSUME MemoryInv, NEW r \in Run, pc[r] = "settling"
    PROVE  /\ claimed[r] \in Claims /\ outcome[r] \in Outcomes
           /\ claimed[r].schedule \in Schedule
           /\ claimed[r].at \in Time
           /\ claimed[r].token \in Token
<1>1. claimed[r] \in Claims /\ outcome[r] \in Outcomes
  BY DEF MemoryInv
<1> QED BY <1>1 DEF Claims

\* Types, for a settlement.
LEMMA SettleTypes ==
    ASSUME CronInv, NEW r \in Run, Settle(r)
    PROVE  TypeOK'
<1> DEFINE s == claimed[r].schedule
           t == claimed[r].at
           row == [rstate[s] EXCEPT ![t] = IF Owned(r) THEN outcome[r] ELSE @]
<1>1. s \in Schedule /\ t \in Time /\ outcome[r] \in Outcomes
  BY SettlerHolds DEF CronInv, Settle
<1>2. rstate \in [Schedule -> [Time -> RowStates]]
  BY RowTypes DEF CronInv
<1>3. row \in [Time -> RowStates]
  BY <1>1, <1>2 DEF RowStates, Finished
<1>4. /\ rstate' = [rstate EXCEPT ![s] = Pruned(row)]
      /\ token' = [token EXCEPT ![s][t] = IF Owned(r) THEN NoToken ELSE @]
      /\ left' = [left EXCEPT ![s][t] = IF Owned(r) THEN 0 ELSE @]
  BY DEF Settle
<1>5. Forget({r})
  BY DEF Settle
<1>6. /\ pc' \in [Run -> {"idle", "consuming", "settling"}]
      /\ claimed' \in [Run -> Claims \cup {NoClaim}]
      /\ outcome' \in [Run -> Outcomes \cup {"none"}]
  BY <1>5, ForgetTypes DEF CronInv
<1>7. /\ token \in [Schedule -> [Time -> Token \cup {NoToken}]]
      /\ left \in [Schedule -> [Time -> 0 .. Lease]]
  BY DEF CronInv, TypeOK
<1> HIDE DEF s, t, row
<1>8. rstate' \in [Schedule -> [Time -> RowStates]]
  BY <1>1, <1>2, <1>3, <1>4, PrunedRows
<1>9. token' \in [Schedule -> [Time -> Token \cup {NoToken}]]
  BY <1>1, <1>4, <1>7
<1>10. left' \in [Schedule -> [Time -> 0 .. Lease]]
  <2>1. 0 \in 0 .. Lease
    BY ConstantFacts
  <2> QED BY <2>1, <1>1, <1>4, <1>7
<1> QED BY <1>6, <1>8, <1>9, <1>10 DEF Settle, schedules, CronInv, TypeOK, RowStates

\* Types, for the clock.
LEMMA TickTypes ==
    ASSUME TypeOK, Tick
    PROVE  TypeOK'
<1>1. now' \in Time
  BY ConstantFacts, CronAssumption DEF TypeOK, Tick, Time
<1>2. left' \in [Schedule -> [Time -> 0 .. Lease]]
  <2>1. \A a \in 0 .. Lease : (IF a > 0 THEN a - 1 ELSE 0) \in 0 .. Lease
    BY ConstantFacts
  <2> QED BY <2>1 DEF TypeOK, Tick
<1> QED BY <1>1, <1>2 DEF Tick, TypeOK, schedules, memory

\* Nothing is planned at first.
LEMMA InitInv == Init => CronInv
<1> SUFFICES ASSUME Init PROVE CronInv
  OBVIOUS
<1>1. TypeOK
  <2>1. now \in Time
    BY ConstantFacts DEF Init
  <2>2. cursor \in [Schedule -> -1 .. Horizon]
    BY CronAssumption DEF Init
  <2>3. /\ attempts \in [Schedule -> [Time -> 0 .. MaxAttempts]]
        /\ left \in [Schedule -> [Time -> 0 .. Lease]]
    BY ConstantFacts DEF Init
  <2> QED BY <2>1, <2>2, <2>3 DEF Init, TypeOK
<1>2. PlanInv
  BY DEF Init, PlanInv
<1>3. RowInv
  BY DEF Init, RowInv
<1>4. MemoryInv
  BY DEF Init, MemoryInv
<1>5. OrderInv
  BY DEF Init, OrderInv
<1> QED BY <1>1, <1>2, <1>3, <1>4, <1>5 DEF CronInv

-----------------------------------------------------------------------------
(* What each action does to the rows.                                      *)

Same(u, v, s, t) == u = s /\ v = t

\* The rows after a run was given up: it ends, none begins.
LEMMA ExhaustRows ==
    ASSUME TypeOK, OrderInv, NEW r \in Run, NEW s \in Schedule, NEW t \in Time,
           Exhaust(r, s, t), NEW u \in Schedule, NEW v \in Time
    PROVE  /\ rstate'[u][v] = "none" <=> rstate[u][v] = "none"
           /\ rstate'[u][v] = "running" <=> rstate[u][v] = "running" /\ ~Same(u, v, s, t)
           /\ rstate'[u][v] = "lease-exhausted" \/ ~Same(u, v, s, t)
           /\ token'[u][v] = IF Same(u, v, s, t) THEN NoToken ELSE token[u][v]
           /\ rstate[s][t] = "running" /\ left[s][t] = 0 /\ attempts[s][t] = MaxAttempts
<1> DEFINE row == [rstate[s] EXCEPT ![t] = "lease-exhausted"]
<1>1. rstate \in [Schedule -> [Time -> RowStates]]
  BY RowTypes
<1>2. row \in [Time -> RowStates]
  BY <1>1 DEF RowStates, Finished
<1>3. /\ rstate' = [rstate EXCEPT ![s] = Pruned(row)]
      /\ rstate[s][t] = "running"
  BY DEF Exhaust
<1>4. token'[u][v] = IF Same(u, v, s, t) THEN NoToken ELSE token[u][v]
  BY DEF Exhaust, TypeOK, Same
<1>5. left[s][t] = 0
  <2>1. <<s, t>> \in Abandoned \cup WaitingToRun
    BY DEF Exhaust, IsNext
  <2>2. t \in Running(s)
    BY <1>3 DEF Running
  <2>3. <<s, t>> \notin WaitingToRun
    BY <2>2 DEF WaitingToRun
  <2> QED BY <2>1, <2>3 DEF Abandoned
<1>6. attempts[s][t] = MaxAttempts
  <2>1. attempts[s][t] >= MaxAttempts
    BY DEF Exhaust, Spent
  <2>2. attempts[s][t] \in 0 .. MaxAttempts /\ MaxAttempts \in Nat
    BY ConstantFacts DEF TypeOK
  <2> QED BY <2>1, <2>2
<1>7. \A x \in Time : row[x] = IF x = t THEN "lease-exhausted" ELSE rstate[s][x]
  BY <1>1
<1> HIDE DEF row
<1>10. Pruned(row)[t] = row[t]
  <2>1. \A x \in Time : x > t => x # t /\ rstate[s][x] = "none"
    BY <1>3, TimesAreNumbers DEF OrderInv
  <2>2. \A x \in Time : x > t => row[x] \notin Finished
    BY <1>7, <2>1 DEF Finished, Outcomes
  <2> QED BY <1>2, <2>2, PrunedNewest
<1>8. CASE u = s
  <2>1. rstate'[u] = Pruned(row)
    BY <1>1, <1>3, <1>8
  <2>2. \/ Pruned(row)[v] = row[v]
        \/ row[v] \in Finished /\ Pruned(row)[v] = "pruned"
    BY <1>2, PrunedRows
  <2> QED BY <2>1, <2>2, <1>3, <1>4, <1>5, <1>6, <1>7, <1>8, <1>10 DEF Same, Finished, Outcomes
<1>9. CASE u # s
  BY <1>1, <1>3, <1>4, <1>5, <1>6, <1>9 DEF Same
<1> QED BY <1>8, <1>9

\* The rows after a claim: one runs, under the new token.
LEMMA ClaimRows ==
    ASSUME TypeOK, NEW r \in Run, NEW s \in Schedule, NEW t \in Time, NEW k \in Token,
           Claim(r, s, t, k), NEW u \in Schedule, NEW v \in Time
    PROVE  /\ rstate'[u][v] = IF Same(u, v, s, t) THEN "running" ELSE rstate[u][v]
           /\ attempts'[u][v] = IF Same(u, v, s, t) THEN attempts[u][v] + 1 ELSE attempts[u][v]
           /\ token'[u][v] = IF Same(u, v, s, t) THEN k ELSE token[u][v]
           /\ left'[u][v] = IF Same(u, v, s, t) THEN Lease ELSE left[u][v]
           /\ pending'[u] = IF u = s /\ rstate[s][t] # "running" THEN Never ELSE pending[u]
           /\ token[u][v] # k
           /\ rstate[s][t] = "running" => left[s][t] = 0
           /\ rstate[s][t] # "running" => pending[s] = t /\ Running(s) = {}
<1>1. /\ rstate'[u][v] = IF Same(u, v, s, t) THEN "running" ELSE rstate[u][v]
      /\ attempts'[u][v] = IF Same(u, v, s, t) THEN attempts[u][v] + 1 ELSE attempts[u][v]
  BY DEF Claim, TypeOK, Same
<1>2. /\ token'[u][v] = IF Same(u, v, s, t) THEN k ELSE token[u][v]
      /\ left'[u][v] = IF Same(u, v, s, t) THEN Lease ELSE left[u][v]
  BY DEF Claim, TypeOK, Same
<1>3. pending'[u] = IF u = s /\ rstate[s][t] # "running" THEN Never ELSE pending[u]
  BY DEF Claim, TypeOK
<1>4. token[u][v] # k
  BY DEF Claim
<1>5. <<s, t>> \in Abandoned \cup WaitingToRun
  BY DEF Claim, IsNext
<1>6. rstate[s][t] = "running" => left[s][t] = 0
  BY <1>5 DEF Abandoned, WaitingToRun, Running
<1>7. rstate[s][t] # "running" => pending[s] = t /\ Running(s) = {}
  BY <1>5 DEF Abandoned, WaitingToRun
<1> QED BY <1>1, <1>2, <1>3, <1>4, <1>6, <1>7

\* The rows after a settlement: the run ends if its lease is live and owned.
LEMMA SettleRows ==
    ASSUME CronInv, NEW r \in Run, Settle(r), NEW u \in Schedule, NEW v \in Time
    PROVE  LET s == claimed[r].schedule
               t == claimed[r].at
               ends == Owned(r) /\ Same(u, v, s, t)
           IN  /\ s \in Schedule /\ t \in Time /\ outcome[r] \in Outcomes
               /\ rstate'[u][v] = "none" <=> rstate[u][v] = "none"
               /\ rstate'[u][v] = "running" <=> rstate[u][v] = "running" /\ ~ends
               /\ ends => rstate'[u][v] = outcome[r]
               /\ token'[u][v] = IF ends THEN NoToken ELSE token[u][v]
               /\ left'[u][v] = IF ends THEN 0 ELSE left[u][v]
<1> DEFINE s == claimed[r].schedule
           t == claimed[r].at
           ends == Owned(r) /\ Same(u, v, s, t)
           row == [rstate[s] EXCEPT ![t] = IF Owned(r) THEN outcome[r] ELSE @]
<1>1. s \in Schedule /\ t \in Time /\ outcome[r] \in Outcomes
  BY SettlerHolds DEF CronInv, Settle
<1>2. rstate \in [Schedule -> [Time -> RowStates]]
  BY RowTypes DEF CronInv
<1>3. row \in [Time -> RowStates]
  BY <1>1, <1>2 DEF RowStates, Finished
<1>4. /\ rstate' = [rstate EXCEPT ![s] = Pruned(row)]
      /\ token' = [token EXCEPT ![s][t] = IF Owned(r) THEN NoToken ELSE @]
      /\ left' = [left EXCEPT ![s][t] = IF Owned(r) THEN 0 ELSE @]
  BY DEF Settle
<1>5. Owned(r) => rstate[s][t] = "running"
  BY DEF Owned
<1>6. /\ token \in [Schedule -> [Time -> Token \cup {NoToken}]]
      /\ left \in [Schedule -> [Time -> 0 .. Lease]]
  BY DEF CronInv, TypeOK
<1>7. \A x \in Time : row[x] = IF x = t /\ Owned(r) THEN outcome[r] ELSE rstate[s][x]
  BY <1>1, <1>2
<1> HIDE DEF s, t, row
<1>8. token'[u][v] = IF ends THEN NoToken ELSE token[u][v]
  BY <1>1, <1>4, <1>6 DEF Same
<1>9. left'[u][v] = IF ends THEN 0 ELSE left[u][v]
  BY <1>1, <1>4, <1>6 DEF Same
<1>10. /\ rstate'[u][v] = "none" <=> rstate[u][v] = "none"
       /\ rstate'[u][v] = "running" <=> rstate[u][v] = "running" /\ ~ends
       /\ ends => rstate'[u][v] = outcome[r]
  <2>1. CASE u = s
    <3>1. rstate'[u] = Pruned(row)
      BY <1>1, <1>2, <1>4, <2>1
    <3>2. \/ Pruned(row)[v] = row[v]
          \/ row[v] \in Finished /\ Pruned(row)[v] = "pruned"
      BY <1>3, PrunedRows
    <3>3. Owned(r) => Pruned(row)[t] = row[t]
      <4> SUFFICES ASSUME Owned(r) PROVE Pruned(row)[t] = row[t]
        OBVIOUS
      <4>1. \A x \in Time : x > t => x # t /\ rstate[s][x] = "none"
        BY <1>1, <1>5, TimesAreNumbers DEF CronInv, OrderInv
      <4>2. \A x \in Time : x > t => row[x] \notin Finished
        BY <1>7, <4>1 DEF Finished, Outcomes
      <4> QED BY <1>1, <1>3, <4>2, PrunedNewest
    <3> QED BY <3>1, <3>2, <3>3, <1>1, <1>5, <1>7, <2>1 DEF Same, Finished, Outcomes
  <2>2. CASE u # s
    BY <1>1, <1>2, <1>4, <2>2 DEF Same
  <2> QED BY <2>1, <2>2
<1> QED BY <1>1, <1>8, <1>9, <1>10 DEF s, t

\* A planner begins and ends no run.
LEMMA PlanRows ==
    ASSUME TypeOK, Plan, NEW u \in Schedule, NEW v \in Time
    PROVE  /\ rstate'[u][v] = "none" <=> rstate[u][v] = "none"
           /\ rstate'[u][v] = "running" <=> rstate[u][v] = "running"
<1>1. rstate \in [Schedule -> [Time -> RowStates]]
  BY RowTypes
<1>2. rstate'[u] = IF u \in Occurring THEN Pruned(rstate[u]) ELSE rstate[u]
  BY DEF Plan
<1>3. rstate[u] \in [Time -> RowStates]
  BY <1>1
<1> QED BY <1>2, <1>3, PrunedRunning

-----------------------------------------------------------------------------
(* The invariant.                                                          *)

\* Closing a window passes its occurrences, all of them later than what
\* passed before.
LEMMA PlanPasses ==
    ASSUME TypeOK, PlanInv, Plan, NEW s \in Schedule
    PROVE  LET B == Between(OffsetsOf[s], cursor[s], now) IN
           /\ start # Never
           /\ cursor[s] <= cursor'[s] /\ cursor'[s] \in Int
           /\ s \in Occurring <=> cursor[s] < now /\ B # {}
           /\ s \in Occurring => /\ Passed(s)' = Passed(s) \cup B
                                 /\ \A t \in Passed(s), u \in B : t < u
                                 /\ \A u \in B : u > cursor[s]
           /\ s \notin Occurring => Passed(s)' = Passed(s)
<1> DEFINE O == OffsetsOf[s]
           B == Between(O, cursor[s], now)
<1>1. start # Never /\ start' = start
  BY DEF Plan
<1>2. start \in Int /\ cursor[s] \in Int /\ now \in Int /\ start - 1 <= cursor[s]
  <2>1. start \in Boundaries
    BY <1>1 DEF TypeOK
  <2>2. start \in Nat
    BY <2>1, ConstantFacts
  <2>3. cursor[s] \in -1 .. Horizon /\ now \in Nat
    BY ConstantFacts DEF TypeOK
  <2> QED BY <1>1, <2>2, <2>3, CronAssumption DEF PlanInv
<1>3. cursor'[s] = IF cursor[s] < now THEN now ELSE cursor[s]
  BY DEF Plan
<1>4. Passed(s) = Between(O, start - 1, cursor[s])
  BY <1>1 DEF Passed
<1>5. Passed(s)' = Between(O, start - 1, cursor'[s])
  BY <1>1 DEF Passed
<1> HIDE DEF O, B
<1>6. CASE cursor[s] < now
  <2>1. s \in Occurring <=> B # {}
    BY <1>6, DueFacts DEF Occurring, B, O
  <2>2. Passed(s)' = Passed(s) \cup B
    <3>1. cursor'[s] = now
      BY <1>3, <1>6
    <3>2. \A t \in Int : t \in start - 1 + 1 .. now
                            <=> t \in start - 1 + 1 .. cursor[s] \/ t \in cursor[s] + 1 .. now
      BY <1>2, <1>6
    <3> QED BY <1>2, <1>4, <1>5, <3>1, <3>2 DEF Between, B
  <2>3. \A u \in B : u \in Int /\ u > cursor[s]
    BY <1>2 DEF B, Between
  <2>4. \A t \in Passed(s) : t \in Int /\ t <= cursor[s]
    BY <1>2, <1>4 DEF Between
  <2>5. \A t \in Passed(s), u \in B : t < u
    BY <2>3, <2>4, <1>2
  <2> QED BY <1>1, <1>2, <1>3, <1>6, <2>1, <2>2, <2>3, <2>5 DEF B, O
<1>7. CASE ~(cursor[s] < now)
  BY <1>1, <1>2, <1>3, <1>4, <1>5, <1>7 DEF Occurring
<1> QED BY <1>6, <1>7

\* A step that plans nothing and starts no row.
LEMMA PlanKept ==
    ASSUME PlanInv, UNCHANGED <<start, cursor, pending>>,
           \A u \in Schedule, v \in Time : rstate'[u][v] = "none" <=> rstate[u][v] = "none",
           \A u \in Schedule : pending[u] \in Time \cup {Never}
    PROVE  PlanInv'
<1>1. \A u \in Schedule : Passed(u)' = Passed(u)
  BY DEF Passed
<1> QED BY <1>1 DEF PlanInv

\* A planner lets the newest occurrence that passed wait.
LEMMA PlanKeepsPlan ==
    ASSUME CronInv, Plan
    PROVE  PlanInv'
<1> SUFFICES ASSUME NEW s \in Schedule
             PROVE  /\ start' # Never => start' - 1 <= cursor'[s]
                    /\ pending'[s] # Never =>
                         /\ pending'[s] \in Passed(s)'
                         /\ rstate'[s][pending'[s]] = "none"
                         /\ \A t \in Passed(s)' : t <= pending'[s]
                    /\ \A t \in Time : rstate'[s][t] # "none" => t \in Passed(s)'
  BY DEF PlanInv
<1> DEFINE B == Between(OffsetsOf[s], cursor[s], now)
<1>1. TypeOK /\ PlanInv
  BY DEF CronInv
<1>2. start' - 1 <= cursor'[s]
  <2>1. start' = start /\ start \in Boundaries
    BY <1>1 DEF Plan, TypeOK
  <2>2. start \in Int /\ cursor[s] \in Int
    BY <1>1, <2>1, ConstantFacts, CronAssumption DEF TypeOK
  <2>3. start - 1 <= cursor[s]
    BY <1>1, <2>1, PlanPasses DEF PlanInv
  <2>4. cursor[s] <= cursor'[s] /\ cursor'[s] \in Int
    BY <1>1, PlanPasses
  <2> QED BY <2>1, <2>2, <2>3, <2>4
<1>3. Passed(s) \subseteq Passed(s)' /\ Passed(s) \subseteq Time
  BY <1>1, PlanPasses, PassedTimes
<1>4. \A t \in Time : rstate'[s][t] # "none" => t \in Passed(s)'
  BY <1>1, <1>3, PlanRows DEF PlanInv
<1>5. CASE s \in Occurring
  <2>1. /\ cursor[s] < now /\ B # {}
        /\ Passed(s)' = Passed(s) \cup B
        /\ \A t \in Passed(s), u \in B : t < u
    BY <1>1, <1>5, PlanPasses
  <2>2. Due(s).last \in B /\ \A t \in B : t <= Due(s).last
    BY <1>1, <2>1, DueFacts
  <2>3. B \subseteq Time
    BY <1>1, <2>1, DueFacts
  <2>4. pending'[s] = Due(s).last
    BY <1>5 DEF Plan
  <2> HIDE DEF B
  <2>5. pending'[s] \in Passed(s)'
    BY <2>1, <2>2, <2>4
  <2>6. \A t \in Passed(s)' : t <= pending'[s]
    <3>1. Due(s).last \in Int /\ \A t \in Passed(s) : t \in Int
      BY <1>3, <2>2, <2>3, TimesAreNumbers
    <3>2. \A t \in Passed(s) : t < Due(s).last
      BY <2>1, <2>2
    <3>3. \A t \in Passed(s) : t <= Due(s).last
      BY <3>1, <3>2
    <3> QED BY <2>1, <2>2, <2>4, <3>3
  <2>7. rstate'[s][pending'[s]] = "none"
    <3>1. Due(s).last \notin Passed(s)
      <4>1. ~(Due(s).last < Due(s).last)
        BY <2>2, <2>3, TimesAreNumbers
      <4> QED BY <2>1, <2>2, <4>1
    <3>2. rstate[s][Due(s).last] = "none"
      BY <1>1, <2>2, <2>3, <3>1 DEF PlanInv
    <3> QED BY <1>1, <2>2, <2>3, <2>4, <3>2, PlanRows
  <2> QED BY <1>2, <1>4, <2>5, <2>6, <2>7
<1>6. CASE s \notin Occurring
  <2>1. pending'[s] = pending[s] /\ Passed(s)' = Passed(s)
    BY <1>1, <1>6, PlanPasses DEF Plan
  <2>2. pending[s] # Never => rstate'[s][pending[s]] = "none"
    BY <1>1, <1>3, PlanRows DEF PlanInv
  <2> QED BY <1>1, <1>2, <1>4, <2>1, <2>2 DEF PlanInv
<1> QED BY <1>5, <1>6

\* A registration plans nothing.
LEMMA RegisterKeepsPlan ==
    ASSUME CronInv, NEW b \in Boundaries, Register(b)
    PROVE  PlanInv'
<1> SUFFICES ASSUME NEW s \in Schedule
             PROVE  /\ start' # Never => start' - 1 <= cursor'[s]
                    /\ pending'[s] = Never
                    /\ \A t \in Time : rstate'[s][t] = "none"
  BY DEF PlanInv
<1>1. start = Never /\ start' = b /\ cursor'[s] = b - 1 /\ b \in Int
      /\ pending' = pending /\ rstate' = rstate
  BY ConstantFacts DEF Register, runs
<1>2. Passed(s) = {}
  BY <1>1 DEF Passed
<1>3. pending[s] = Never /\ \A t \in Time : rstate[s][t] = "none"
  BY <1>2 DEF CronInv, PlanInv
<1> QED BY <1>1, <1>3

\* A claim takes what waits, and nothing waits after it.
LEMMA ClaimKeepsPlan ==
    ASSUME CronInv, NEW r \in Run, NEW s \in Schedule, NEW t \in Time, NEW k \in Token,
           Claim(r, s, t, k)
    PROVE  PlanInv'
<1>1. TypeOK /\ PlanInv /\ start' = start /\ cursor' = cursor
  BY DEF CronInv, Claim
<1>2. \A u \in Schedule : Passed(u)' = Passed(u) /\ Passed(u) \subseteq Time
  BY <1>1, PassedTimes DEF Passed
<1>3. t \in Passed(s)
  <2>1. CASE rstate[s][t] = "running"
    BY <1>1, <2>1 DEF PlanInv
  <2>2. CASE rstate[s][t] # "running"
    <3>1. pending[s] = t /\ t # Never
      BY <1>1, <2>2, ClaimRows, ConstantFacts
    <3> QED BY <1>1, <3>1 DEF PlanInv
  <2> QED BY <2>1, <2>2
<1>4. ASSUME NEW u \in Schedule, NEW v \in Time, rstate'[u][v] # "none"
      PROVE  v \in Passed(u)
  <2>1. CASE Same(u, v, s, t)
    BY <1>3, <2>1 DEF Same
  <2>2. CASE ~Same(u, v, s, t)
    BY <1>1, <1>4, <2>2, ClaimRows DEF PlanInv
  <2> QED BY <2>1, <2>2
<1>5. ASSUME NEW u \in Schedule, pending'[u] # Never
      PROVE  pending'[u] = pending[u] /\ rstate'[u][pending[u]] = "none"
  <2>1. pending'[u] = pending[u] /\ (u = s => rstate[s][t] = "running")
    BY <1>1, <1>5, ClaimRows
  <2>2. pending[u] \in Time /\ rstate[u][pending[u]] = "none"
    BY <1>1, <1>2, <1>5, <2>1 DEF PlanInv
  <2>3. ~Same(u, pending[u], s, t)
    BY <2>1, <2>2 DEF Same
  <2> QED BY <1>1, <2>1, <2>2, <2>3, ClaimRows
<1> QED BY <1>1, <1>2, <1>4, <1>5 DEF PlanInv

\* Every step keeps the plan.
LEMMA NextPlan ==
    ASSUME CronInv, [Next]_vars
    PROVE  PlanInv'
<1>1. TypeOK /\ PlanInv /\ OrderInv /\ \A u \in Schedule : pending[u] \in Time \cup {Never}
  BY DEF CronInv, TypeOK
<1>2. ASSUME NEW b \in Boundaries, Register(b) PROVE PlanInv'
  BY <1>2, RegisterKeepsPlan
<1>3. CASE Plan
  BY <1>3, PlanKeepsPlan
<1>4. ASSUME NEW r \in Run, NEW s \in Schedule, NEW t \in Time, Exhaust(r, s, t) PROVE PlanInv'
  <2>1. UNCHANGED <<start, cursor, pending>>
    BY <1>4 DEF Exhaust, schedules
  <2>2. \A u \in Schedule, v \in Time : rstate'[u][v] = "none" <=> rstate[u][v] = "none"
    BY <1>1, <1>4, ExhaustRows
  <2> QED BY <1>1, <2>1, <2>2, PlanKept
<1>5. ASSUME NEW r \in Run, NEW s \in Schedule, NEW t \in Time, NEW k \in Token,
             Claim(r, s, t, k)
      PROVE  PlanInv'
  BY <1>5, ClaimKeepsPlan
<1>6. ASSUME NEW r \in Run, Settle(r) PROVE PlanInv'
  <2>1. UNCHANGED <<start, cursor, pending>>
    BY <1>6 DEF Settle, schedules
  <2>2. \A u \in Schedule, v \in Time : rstate'[u][v] = "none" <=> rstate[u][v] = "none"
    BY <1>6, SettleRows
  <2> QED BY <1>1, <2>1, <2>2, PlanKept
<1>7. ASSUME UNCHANGED <<start, cursor, pending, rstate>> PROVE PlanInv'
  BY <1>1, <1>7, PlanKept
<1>8. ASSUME NEW r \in Run, HandlerEnds(r) \/ Abort(r) \/ HandlerExits(r) \/ SettleFails(r)
      PROVE  PlanInv'
  BY <1>7, <1>8 DEF HandlerEnds, Abort, HandlerExits, SettleFails, schedules, runs
<1>9. ASSUME NEW p \in Process, Crash(p) PROVE PlanInv'
  BY <1>7, <1>9 DEF Crash, schedules, runs
<1>10. CASE Tick
  BY <1>7, <1>10 DEF Tick, schedules
<1>11. CASE UNCHANGED vars
  BY <1>7, <1>11 DEF vars, schedules, runs
<1> QED BY <1>2, <1>3, <1>4, <1>5, <1>6, <1>8, <1>9, <1>10, <1>11 DEF Next

\* A step that changes no row, and no lease but to shorten it.
LEMMA RowsKept ==
    ASSUME RowInv, TypeOK, token' = token,
           \A u \in Schedule, v \in Time :
              /\ rstate'[u][v] = "none" <=> rstate[u][v] = "none"
              /\ rstate'[u][v] = "running" <=> rstate[u][v] = "running"
              /\ attempts'[u][v] = attempts[u][v]
              /\ left'[u][v] > 0 => left[u][v] > 0
    PROVE  RowInv'
BY DEF RowInv

\* Every step keeps the order: what begins to run is the newest.
LEMMA NextOrder ==
    ASSUME CronInv, [Next]_vars
    PROVE  OrderInv'
<1>1. TypeOK /\ OrderInv /\ PlanInv
  BY DEF CronInv
<1>2. ASSUME \A u \in Schedule, v \in Time :
                /\ rstate'[u][v] = "none" <=> rstate[u][v] = "none"
                /\ rstate'[u][v] = "running" => rstate[u][v] = "running"
      PROVE  OrderInv'
  BY <1>1, <1>2 DEF OrderInv
<1>3. ASSUME NEW r \in Run, NEW s \in Schedule, NEW t \in Time, Exhaust(r, s, t)
      PROVE  OrderInv'
  BY <1>1, <1>2, <1>3, ExhaustRows
<1>4. ASSUME NEW r \in Run, Settle(r) PROVE OrderInv'
  BY <1>2, <1>4, SettleRows
<1>5. CASE Plan
  BY <1>1, <1>2, <1>5, PlanRows
<1>6. ASSUME NEW r \in Run, NEW s \in Schedule, NEW t \in Time, NEW k \in Token,
             Claim(r, s, t, k)
      PROVE  OrderInv'
  <2>1. \A u \in Schedule, v \in Time :
            rstate'[u][v] = IF Same(u, v, s, t) THEN "running" ELSE rstate[u][v]
    BY <1>1, <1>6, ClaimRows
  <2>2. CASE rstate[s][t] = "running"
    <3>1. \A u \in Schedule, v \in Time : rstate'[u][v] = rstate[u][v]
      BY <2>1, <2>2 DEF Same
    <3> QED BY <1>2, <3>1
  <2>3. CASE rstate[s][t] # "running"
    <3>1. pending[s] = t /\ t # Never /\ Running(s) = {}
      BY <1>1, <1>6, <2>3, ClaimRows, TimesAreNumbers
    <3>2. \A v \in Time : v > t => v # t /\ v \notin Passed(s)
      BY <1>1, <3>1, TimesAreNumbers DEF PlanInv
    <3>3. \A v \in Time : v > t => v # t /\ rstate[s][v] = "none"
      BY <1>1, <3>2 DEF PlanInv
    <3>4. \A v \in Time : rstate[s][v] # "running"
      BY <3>1 DEF Running
    <3> QED BY <1>1, <2>1, <3>3, <3>4 DEF OrderInv, Same
  <2> QED BY <2>2, <2>3
<1>7. ASSUME rstate' = rstate PROVE OrderInv'
  BY <1>2, <1>7
<1> QED
  <2>1. ASSUME NEW b \in Boundaries, Register(b) PROVE OrderInv'
    BY <1>7, <2>1 DEF Register, runs
  <2>2. ASSUME NEW r \in Run, HandlerEnds(r) \/ Abort(r) \/ HandlerExits(r) \/ SettleFails(r)
        PROVE  OrderInv'
    BY <1>7, <2>2 DEF HandlerEnds, Abort, HandlerExits, SettleFails, runs
  <2>3. ASSUME NEW p \in Process, Crash(p) PROVE OrderInv'
    BY <1>7, <2>3 DEF Crash, runs
  <2>4. CASE Tick \/ UNCHANGED vars
    BY <1>7, <2>4 DEF Tick, vars, runs
  <2> QED BY <1>3, <1>4, <1>5, <1>6, <2>1, <2>2, <2>3, <2>4 DEF Next

\* Every step keeps tokens, leases and rows together.
LEMMA NextRow ==
    ASSUME CronInv, [Next]_vars
    PROVE  RowInv'
<1>1. TypeOK /\ RowInv /\ OrderInv
  BY DEF CronInv
<1>2. ASSUME UNCHANGED <<rstate, attempts, token, left>> PROVE RowInv'
  BY <1>1, <1>2 DEF RowInv
<1>3. ASSUME NEW b \in Boundaries, Register(b) PROVE RowInv'
  BY <1>2, <1>3 DEF Register, runs
<1>4. CASE Plan
  <2>1. UNCHANGED <<attempts, token, left>>
    BY <1>4 DEF Plan
  <2>2. \A u \in Schedule, v \in Time :
            /\ rstate'[u][v] = "none" <=> rstate[u][v] = "none"
            /\ rstate'[u][v] = "running" <=> rstate[u][v] = "running"
    BY <1>1, <1>4, PlanRows
  <2> QED BY <1>1, <2>1, <2>2, RowsKept
<1>5. ASSUME NEW r \in Run, NEW s \in Schedule, NEW t \in Time, Exhaust(r, s, t)
      PROVE  RowInv'
  <2>1. UNCHANGED <<attempts, left>>
    BY <1>5 DEF Exhaust
  <2>2. \A u \in Schedule, v \in Time :
            /\ rstate'[u][v] = "none" <=> rstate[u][v] = "none"
            /\ rstate'[u][v] = "running" <=> rstate[u][v] = "running" /\ ~Same(u, v, s, t)
            /\ token'[u][v] = IF Same(u, v, s, t) THEN NoToken ELSE token[u][v]
            /\ left[s][t] = 0
    BY <1>1, <1>5, ExhaustRows
  <2>3. \A u \in Schedule, v \in Time : Same(u, v, s, t) => u = s /\ v = t
    BY DEF Same
  <2>4. ~(left[s][t] > 0)
    BY <2>2
  <2> QED BY <1>1, <2>1, <2>2, <2>3, <2>4 DEF RowInv
<1>6. ASSUME NEW r \in Run, NEW s \in Schedule, NEW t \in Time, NEW k \in Token,
             Claim(r, s, t, k)
      PROVE  RowInv'
  <2>1. \A u \in Schedule, v \in Time :
            /\ rstate'[u][v] = IF Same(u, v, s, t) THEN "running" ELSE rstate[u][v]
            /\ attempts'[u][v] = IF Same(u, v, s, t) THEN attempts[u][v] + 1 ELSE attempts[u][v]
            /\ token'[u][v] = IF Same(u, v, s, t) THEN k ELSE token[u][v]
            /\ left'[u][v] = IF Same(u, v, s, t) THEN Lease ELSE left[u][v]
            /\ token[u][v] # k
    BY <1>1, <1>6, ClaimRows
  <2>2. k # NoToken
    BY CronAssumption
  <2>3. \A u, x \in Schedule : \A v, y \in Time :
            Same(u, v, s, t) /\ Same(x, y, s, t) => u = x /\ v = y
    BY DEF Same
  <2>4. \A u \in Schedule, v \in Time :
            /\ rstate'[u][v] = "none" => attempts'[u][v] = 0
            /\ rstate'[u][v] = "running" <=> token'[u][v] # NoToken
            /\ left'[u][v] > 0 => rstate'[u][v] = "running"
    BY <1>1, <2>1, <2>2 DEF RowInv
  <2>5. ASSUME NEW u \in Schedule, NEW x \in Schedule, NEW v \in Time, NEW y \in Time,
               token'[u][v] = token'[x][y], token'[u][v] # NoToken
        PROVE  u = x /\ v = y
    <3>1. CASE Same(u, v, s, t)
      <4>1. token'[x][y] = k
        BY <2>1, <2>5, <3>1
      <4>2. Same(x, y, s, t)
        BY <2>1, <4>1
      <4> QED BY <2>3, <3>1, <4>2
    <3>2. CASE ~Same(u, v, s, t)
      <4>1. token[u][v] = token'[x][y] /\ token[u][v] # k /\ token[u][v] # NoToken
        BY <2>1, <2>5, <3>2
      <4>2. ~Same(x, y, s, t) /\ token[x][y] = token[u][v]
        BY <2>1, <4>1
      <4> QED BY <1>1, <4>1, <4>2 DEF RowInv
    <3> QED BY <3>1, <3>2
  <2> QED BY <2>4, <2>5 DEF RowInv
<1>7. ASSUME NEW r \in Run, Settle(r) PROVE RowInv'
  <2> DEFINE s == claimed[r].schedule
             t == claimed[r].at
  <2>1. \A u \in Schedule, v \in Time :
            /\ rstate'[u][v] = "none" <=> rstate[u][v] = "none"
            /\ rstate'[u][v] = "running"
                  <=> rstate[u][v] = "running" /\ ~(Owned(r) /\ Same(u, v, s, t))
            /\ token'[u][v] = IF Owned(r) /\ Same(u, v, s, t) THEN NoToken ELSE token[u][v]
            /\ left'[u][v] = IF Owned(r) /\ Same(u, v, s, t) THEN 0 ELSE left[u][v]
    BY <1>7, SettleRows
  <2>2. attempts' = attempts
    BY <1>7 DEF Settle
  <2> HIDE DEF s, t
  <2>3. \A u \in Schedule, v \in Time :
            /\ rstate'[u][v] = "none" => attempts'[u][v] = 0
            /\ rstate'[u][v] = "running" <=> token'[u][v] # NoToken
            /\ left'[u][v] > 0 => rstate'[u][v] = "running"
    BY <1>1, <2>1, <2>2 DEF RowInv
  <2>4. ASSUME NEW u \in Schedule, NEW x \in Schedule, NEW v \in Time, NEW y \in Time,
               token'[u][v] = token'[x][y], token'[u][v] # NoToken
        PROVE  u = x /\ v = y
    <3>1. token[u][v] = token'[u][v] /\ token[x][y] = token'[x][y]
      BY <2>1, <2>4
    <3> QED BY <1>1, <2>4, <3>1 DEF RowInv
  <2> QED BY <2>3, <2>4 DEF RowInv
<1>8. ASSUME NEW r \in Run, HandlerEnds(r) \/ Abort(r) \/ HandlerExits(r) \/ SettleFails(r)
      PROVE  RowInv'
  BY <1>2, <1>8 DEF HandlerEnds, Abort, HandlerExits, SettleFails, runs
<1>9. ASSUME NEW p \in Process, Crash(p) PROVE RowInv'
  BY <1>2, <1>9 DEF Crash, runs
<1>10. CASE Tick
  <2>1. UNCHANGED <<rstate, attempts, token>>
    BY <1>10 DEF Tick
  <2>2. \A u \in Schedule, v \in Time : left'[u][v] = IF left[u][v] > 0 THEN left[u][v] - 1 ELSE 0
    BY <1>10 DEF Tick
  <2>3. \A u \in Schedule, v \in Time : left'[u][v] > 0 => left[u][v] > 0
    BY <2>2
  <2> QED BY <1>1, <2>1, <2>3, RowsKept
<1>11. CASE UNCHANGED vars
  BY <1>2, <1>11 DEF vars, runs
<1> QED BY <1>3, <1>4, <1>5, <1>6, <1>7, <1>8, <1>9, <1>10, <1>11 DEF Next

\* Every step keeps what the places remember.
LEMMA NextMemory ==
    ASSUME CronInv, [Next]_vars
    PROVE  MemoryInv'
<1>1. TypeOK /\ MemoryInv
  BY DEF CronInv
<1>2. ASSUME UNCHANGED memory PROVE MemoryInv'
  BY <1>1, <1>2 DEF MemoryInv, memory
<1>3. ASSUME NEW R \in SUBSET Run, Forget(R) PROVE MemoryInv'
  BY <1>1, <1>3 DEF MemoryInv, Forget
<1>4. ASSUME NEW r \in Run, NEW s \in Schedule, NEW t \in Time, NEW k \in Token,
             Claim(r, s, t, k)
      PROVE  MemoryInv'
  <2>1. [schedule |-> s, at |-> t, token |-> k] \in Claims
    BY DEF Claims
  <2>2. /\ claimed' = [claimed EXCEPT ![r] = [schedule |-> s, at |-> t, token |-> k]]
        /\ pc' = [pc EXCEPT ![r] = "consuming"]
        /\ outcome' = outcome
    BY <1>4 DEF Claim
  <2>3. pc \in [Run -> {"idle", "consuming", "settling"}] /\ claimed \in [Run -> Claims \cup {NoClaim}]
    BY <1>1 DEF TypeOK
  <2> QED BY <1>1, <2>1, <2>2, <2>3 DEF MemoryInv
<1>5. ASSUME NEW r \in Run, HandlerEnds(r) \/ Abort(r) PROVE MemoryInv'
  BY <1>1, <1>5 DEF MemoryInv, HandlerEnds, Abort, TypeOK, Outcomes
<1>6. ASSUME NEW r \in Run, Settle(r) \/ SettleFails(r) PROVE MemoryInv'
  BY <1>3, <1>6 DEF Settle, SettleFails
<1>7. ASSUME NEW p \in Process, Crash(p) PROVE MemoryInv'
  BY <1>3, <1>7 DEF Crash
<1> QED
  <2>1. ASSUME NEW b \in Boundaries, Register(b) PROVE MemoryInv'
    BY <1>2, <2>1 DEF Register
  <2>2. ASSUME NEW r \in Run, NEW s \in Schedule, NEW t \in Time, Exhaust(r, s, t)
        PROVE  MemoryInv'
    BY <1>2, <2>2 DEF Exhaust
  <2>3. ASSUME NEW r \in Run, HandlerExits(r) PROVE MemoryInv'
    BY <1>2, <2>3 DEF HandlerExits
  <2>4. CASE Plan \/ Tick \/ UNCHANGED vars
    BY <1>2, <2>4 DEF Plan, Tick, vars
  <2> QED BY <1>4, <1>5, <1>6, <1>7, <2>1, <2>2, <2>3, <2>4 DEF Next

\* Every step keeps the types.
LEMMA NextTypes ==
    ASSUME CronInv, [Next]_vars
    PROVE  TypeOK'
<1>1. TypeOK
  BY DEF CronInv
<1>2. ASSUME NEW b \in Boundaries, Register(b) PROVE TypeOK'
  <2>1. b - 1 \in -1 .. Horizon
    BY CronAssumption
  <2> QED BY <1>1, <1>2, <2>1 DEF Register, TypeOK, runs, memory
<1>3. CASE Plan
  BY <1>1, <1>3, PlanTypes
<1>4. ASSUME NEW r \in Run, NEW s \in Schedule, NEW t \in Time, Exhaust(r, s, t)
      PROVE  TypeOK'
  BY <1>1, <1>4, ExhaustTypes
<1>5. ASSUME NEW r \in Run, NEW s \in Schedule, NEW t \in Time, NEW k \in Token,
             Claim(r, s, t, k)
      PROVE  TypeOK'
  BY <1>5, ClaimTypes
<1>6. ASSUME NEW r \in Run, Settle(r) PROVE TypeOK'
  BY <1>6, SettleTypes
<1>7. ASSUME NEW r \in Run, HandlerEnds(r) \/ Abort(r) PROVE TypeOK'
  BY <1>1, <1>7 DEF HandlerEnds, Abort, TypeOK, schedules, runs, Outcomes
<1>8. ASSUME NEW r \in Run, HandlerExits(r) PROVE TypeOK'
  BY <1>1, <1>8 DEF HandlerExits, TypeOK, schedules, runs, memory
<1>9. ASSUME NEW R \in SUBSET Run, Forget(R), UNCHANGED <<now, schedules, runs>>,
             consumer' \in [Run -> BOOLEAN]
      PROVE  TypeOK'
  <2>1. /\ pc' \in [Run -> {"idle", "consuming", "settling"}]
        /\ claimed' \in [Run -> Claims \cup {NoClaim}]
        /\ outcome' \in [Run -> Outcomes \cup {"none"}]
    BY <1>1, <1>9, ForgetTypes
  <2> QED BY <1>1, <1>9, <2>1 DEF TypeOK, schedules, runs
<1>10. ASSUME NEW r \in Run, SettleFails(r) PROVE TypeOK'
  BY <1>1, <1>9, <1>10 DEF SettleFails, TypeOK
<1>11. ASSUME NEW p \in Process, Crash(p) PROVE TypeOK'
  <2>1. consumer' \in [Run -> BOOLEAN]
    BY <1>1, <1>11 DEF Crash, TypeOK
  <2>2. Forget({r \in Run : ProcessOf[r] = p}) /\ UNCHANGED <<now, schedules, runs>>
    BY <1>11 DEF Crash
  <2> QED BY <1>9, <2>1, <2>2
<1>12. CASE Tick
  BY <1>1, <1>12, TickTypes
<1>13. CASE UNCHANGED vars
  BY <1>1, <1>13 DEF vars, schedules, runs, memory, TypeOK
<1> QED
  BY <1>2, <1>3, <1>4, <1>5, <1>6, <1>7, <1>8, <1>10, <1>11, <1>12, <1>13 DEF Next

\* Every step keeps the invariant.
LEMMA NextInv == CronInv /\ [Next]_vars => CronInv'
<1> SUFFICES ASSUME CronInv, [Next]_vars PROVE CronInv'
  OBVIOUS
<1>1. TypeOK'
  BY NextTypes
<1>2. PlanInv'
  BY NextPlan
<1>3. RowInv'
  BY NextRow
<1>4. OrderInv'
  BY NextOrder
<1>5. MemoryInv'
  BY NextMemory
<1> QED BY <1>1, <1>2, <1>3, <1>4, <1>5 DEF CronInv

\* The invariant holds in every state of the system.
THEOREM InductiveInvariant == Spec => []CronInv
BY InitInv, NextInv, PTL DEF Spec

\* The rows, the plan and the memory of the runs keep their types, and a row has
\* an owner only while it runs.
THEOREM TypeCorrect == Spec => []TypeOK
<1>1. CronInv => TypeOK
  BY DEF CronInv
<1> QED BY <1>1, InductiveInvariant, PTL

\* The grid arithmetic is right for every window a planner closes, for any
\* schedule and however late the planner comes.
THEOREM WindowsAreExact == Spec => []WindowsExact
<1>1. CronInv => WindowsExact
  BY DueFacts DEF CronInv, WindowsExact
<1> QED BY <1>1, InductiveInvariant, PTL

-----------------------------------------------------------------------------
(* How a run ends.                                                         *)

\* A run ends by its owner's settlement or by exhaustion.
LEMMA RunsEnd ==
    ASSUME CronInv, [Next]_vars, NEW s \in Schedule, NEW t \in Time,
           rstate[s][t] = "running", rstate'[s][t] # "running"
    PROVE  \/ /\ left[s][t] = 0 /\ attempts[s][t] = MaxAttempts
              /\ rstate'[s][t] = "lease-exhausted"
           \/ /\ left[s][t] > 0
              /\ \E r \in Run : /\ pc[r] = "settling"
                                /\ claimed[r].schedule = s
                                /\ claimed[r].at = t
                                /\ claimed[r].token = token[s][t]
                                /\ rstate'[s][t] = outcome[r]
<1> DEFINE Ends ==
           \/ /\ left[s][t] = 0 /\ attempts[s][t] = MaxAttempts
              /\ rstate'[s][t] = "lease-exhausted"
           \/ /\ left[s][t] > 0
              /\ \E r \in Run : /\ pc[r] = "settling"
                                /\ claimed[r].schedule = s
                                /\ claimed[r].at = t
                                /\ claimed[r].token = token[s][t]
                                /\ rstate'[s][t] = outcome[r]
<1>1. TypeOK /\ OrderInv
  BY DEF CronInv
<1>2. ASSUME NEW r \in Run, NEW u \in Schedule, NEW v \in Time, Exhaust(r, u, v) PROVE Ends
  <2>1. Same(s, t, u, v) /\ left[u][v] = 0 /\ attempts[u][v] = MaxAttempts
        /\ rstate'[s][t] = "lease-exhausted"
    BY <1>1, <1>2, ExhaustRows
  <2> QED BY <2>1 DEF Same
<1>3. ASSUME NEW r \in Run, Settle(r) PROVE Ends
  <2>1. /\ Owned(r) /\ Same(s, t, claimed[r].schedule, claimed[r].at)
        /\ rstate'[s][t] = outcome[r]
    BY <1>3, SettleRows
  <2>2. /\ claimed[r].schedule = s /\ claimed[r].at = t
        /\ token[s][t] = claimed[r].token /\ left[s][t] > 0 /\ pc[r] = "settling"
    BY <1>3, <2>1 DEF Owned, Same, Settle
  <2> QED BY <2>1, <2>2
<1>4. ASSUME NEW r \in Run, NEW u \in Schedule, NEW v \in Time, NEW k \in Token,
             Claim(r, u, v, k)
      PROVE  FALSE
  BY <1>1, <1>4, ClaimRows
<1>5. ~Plan
  BY <1>1, PlanRows
<1>6. ASSUME rstate' = rstate PROVE FALSE
  BY <1>6
<1> HIDE DEF Ends
<1>7. ~Tick /\ ~UNCHANGED vars
  BY <1>6 DEF Tick, vars, runs
<1>8. ASSUME NEW b \in Boundaries, Register(b) PROVE FALSE
  BY <1>6, <1>8 DEF Register, runs
<1>9. ASSUME NEW r \in Run, HandlerEnds(r) \/ Abort(r) \/ HandlerExits(r) \/ SettleFails(r)
      PROVE  FALSE
  BY <1>6, <1>9 DEF HandlerEnds, Abort, HandlerExits, SettleFails, runs
<1>10. ASSUME NEW p \in Process, Crash(p) PROVE FALSE
  BY <1>6, <1>10 DEF Crash, runs
<1>11. Ends
  <2>1. ASSUME NEW r \in Run, NEW u \in Schedule, NEW v \in Time,
               Exhaust(r, u, v) \/ \E k \in Token : Claim(r, u, v, k)
        PROVE  Ends
    BY <1>2, <1>4, <2>1
  <2>2. ASSUME NEW r \in Run,
               \/ HandlerEnds(r) \/ Abort(r) \/ HandlerExits(r)
               \/ Settle(r) \/ SettleFails(r)
        PROVE  Ends
    BY <1>3, <1>9, <2>2
  <2>3. Next
    BY <1>7
  <2>4. \/ \E r \in Run, u \in Schedule, v \in Time :
              Exhaust(r, u, v) \/ \E k \in Token : Claim(r, u, v, k)
        \/ \E r \in Run : \/ HandlerEnds(r) \/ Abort(r) \/ HandlerExits(r)
                          \/ Settle(r) \/ SettleFails(r)
    BY <1>5, <1>7, <1>8, <1>10, <2>3 DEF Next
  <2> QED BY <2>1, <2>2, <2>4
<1> QED BY <1>11 DEF Ends

\* A run ends with the outcome of the claim that holds its live lease, or is
\* given up when the lease of its last attempt is over.
THEOREM OwnersFinish == Spec => OnlyOwnersFinish
<1>1. CronInv /\ [Next]_vars =>
        [\A s \in Schedule, t \in Time :
           rstate[s][t] = "running" /\ rstate'[s][t] # "running" =>
              \/ /\ left[s][t] = 0 /\ attempts[s][t] = MaxAttempts
                 /\ rstate'[s][t] = "lease-exhausted"
              \/ /\ left[s][t] > 0
                 /\ \E r \in Run : /\ pc[r] = "settling"
                                   /\ claimed[r].schedule = s
                                   /\ claimed[r].at = t
                                   /\ claimed[r].token = token[s][t]
                                   /\ rstate'[s][t] = outcome[r]]_vars
  BY RunsEnd
<1> QED BY <1>1, InductiveInvariant, PTL DEF Spec, OnlyOwnersFinish

-----------------------------------------------------------------------------
(* What is skipped.                                                        *)

SkipInv == CountsExact /\ ReceiptsExact /\ ReceiptInv

\* What a planner skips as it gives schedule s a new pending occurrence.
GivingWay(s) ==
    (Between(OffsetsOf[s], cursor[s], now) \ {Due(s).last})
        \cup {t \in Time : pending[s] = t}

\* A step without a planner skips nothing.
LEMMA SkippedKept ==
    ASSUME UNCHANGED <<start, cursor>>, NEW s \in Schedule,
           Passed(s) \subseteq Time,
           \A t \in Time : (rstate'[s][t] = "none" /\ pending'[s] # t)
                              <=> (rstate[s][t] = "none" /\ pending[s] # t)
    PROVE  SkippedOf(s)' = SkippedOf(s) /\ Passed(s)' = Passed(s)
<1>1. Passed(s)' = Passed(s)
  BY DEF Passed
<1> QED BY <1>1 DEF SkippedOf

\* A step that skips nothing keeps the account of the skips.
LEMMA SkipsKept ==
    ASSUME SkipInv, UNCHANGED <<skipped, receipts>>,
           \A s \in Schedule : SkippedOf(s)' = SkippedOf(s) /\ Passed(s)' = Passed(s)
    PROVE  SkipInv'
<1>1. CountsExact'
  BY DEF SkipInv, CountsExact
<1>2. ReceiptsExact'
  BY DEF SkipInv, ReceiptsExact
<1>3. ReceiptInv'
  BY DEF SkipInv, ReceiptInv
<1> QED BY <1>1, <1>2, <1>3 DEF SkipInv

\* The planner counts what gives way, and no more.
LEMMA GivingWayCounts ==
    ASSUME CronInv, NEW s \in Occurring
    PROVE  /\ IsFiniteSet(GivingWay(s))
           /\ Cardinality(GivingWay(s)) = SkippedBy(s)
           /\ GivingWay(s) \subseteq Time
<1> DEFINE B == Between(OffsetsOf[s], cursor[s], now)
           L == B \ {Due(s).last}
           P == {t \in Time : pending[s] = t}
<1>1. s \in Schedule /\ cursor[s] < now /\ Due(s).count > 0 /\ TypeOK /\ PlanInv
  BY DEF Occurring, CronInv
<1>2. /\ B \subseteq Time /\ IsFiniteSet(B)
      /\ Due(s).count = Cardinality(B) /\ Due(s).count \in Nat
      /\ Due(s).last \in B
  BY <1>1, DueFacts
<1>3. IsFiniteSet(L) /\ Cardinality(L) = Due(s).count - 1
  BY <1>2, FS_RemoveElement
<1>4. CASE pending[s] = Never
  <2>1. P = {}
    BY <1>4, TimesAreNumbers
  <2>2. GivingWay(s) = L
    BY <2>1 DEF GivingWay
  <2>3. SkippedBy(s) = Due(s).count - 1
    BY <1>2, <1>4 DEF SkippedBy
  <2> QED BY <1>2, <1>3, <2>2, <2>3
<1>5. CASE pending[s] # Never
  <2>1. pending[s] \in Time /\ pending[s] \in Passed(s)
    BY <1>1, <1>5 DEF TypeOK, PlanInv
  <2>2. P = {pending[s]}
    BY <2>1
  <2>3. pending[s] \notin B
    <3>1. pending[s] <= cursor[s] /\ pending[s] \in Int /\ cursor[s] \in Int
      BY <1>1, <2>1, PassedTimes, TimesAreNumbers DEF TypeOK
    <3> QED BY <3>1 DEF Between
  <2>4. GivingWay(s) = L \cup {pending[s]} /\ pending[s] \notin L
    BY <2>2, <2>3 DEF GivingWay
  <2> HIDE DEF L, B
  <2>5. IsFiniteSet(GivingWay(s)) /\ Cardinality(GivingWay(s)) = Cardinality(L) + 1
    BY <1>3, <2>4, FS_AddElement
  <2>6. SkippedBy(s) = Due(s).count - 1 + 1
    BY <1>5 DEF SkippedBy
  <2>7. GivingWay(s) \subseteq Time
    BY <1>2, <2>1, <2>4 DEF L
  <2> QED BY <1>2, <1>3, <2>5, <2>6, <2>7
<1> QED BY <1>4, <1>5

\* Closing a window adds what gives way to what was skipped before.
LEMMA PlanSkips ==
    ASSUME CronInv, Plan, NEW s \in Schedule
    PROVE  /\ s \notin Occurring => SkippedOf(s)' = SkippedOf(s) /\ Passed(s)' = Passed(s)
           /\ s \in Occurring =>
                /\ SkippedOf(s)' = SkippedOf(s) \cup GivingWay(s)
                /\ SkippedOf(s) \cap GivingWay(s) = {}
                /\ Passed(s) \subseteq Passed(s)'
                /\ Due(s).last \in Passed(s)'
                /\ \A t \in GivingWay(s) : t < Due(s).last
<1>1. TypeOK /\ PlanInv
  BY DEF CronInv
<1>2. Passed(s) \subseteq Time
  BY <1>1, PassedTimes
<1>3. \A t \in Time : rstate'[s][t] = "none" <=> rstate[s][t] = "none"
  BY <1>1, PlanRows
<1>4. CASE s \notin Occurring
  <2>1. pending'[s] = pending[s] /\ Passed(s)' = Passed(s)
    BY <1>1, <1>4, PlanPasses DEF Plan
  <2> QED BY <1>2, <1>3, <1>4, <2>1 DEF SkippedOf
<1>5. CASE s \in Occurring
  <2> DEFINE B == Between(OffsetsOf[s], cursor[s], now)
             last == Due(s).last
  <2>1. /\ cursor[s] < now /\ B # {}
        /\ Passed(s)' = Passed(s) \cup B
        /\ \A t \in Passed(s), u \in B : t < u
    BY <1>1, <1>5, PlanPasses
  <2>2. B \subseteq Time /\ last \in B /\ \A t \in B : t <= last
    BY <1>1, <2>1, DueFacts
  <2>3. pending'[s] = last
    BY <1>5 DEF Plan
  <2>4. pending[s] # Never =>
            pending[s] \in Passed(s) /\ rstate[s][pending[s]] = "none"
    BY <1>1 DEF PlanInv
  <2>5. \A t \in B : t \notin Passed(s)
    <3>1. \A t \in B : ~(t < t)
      BY <2>2, TimesAreNumbers
    <3> QED BY <2>1, <3>1
  <2>6. \A t \in B : rstate[s][t] = "none"
    BY <1>1, <2>2, <2>5 DEF PlanInv
  <2> HIDE DEF B, last
  <2>7. \A t \in Time : pending[s] = t => t \in Passed(s) /\ rstate[s][t] = "none"
    BY <2>4, TimesAreNumbers
  <2>8. GivingWay(s) = (B \ {last}) \cup {t \in Time : pending[s] = t}
    BY DEF GivingWay, B, last
  <2>9. SkippedOf(s)' = SkippedOf(s) \cup GivingWay(s)
    <3>1. SkippedOf(s)' = {t \in Passed(s)' : rstate'[s][t] = "none" /\ pending'[s] # t}
      BY DEF SkippedOf
    <3>2. ASSUME NEW t \in Passed(s)
          PROVE  t \in SkippedOf(s)' <=> t \in SkippedOf(s) \cup GivingWay(s)
      <4>1. t \in Time /\ t \notin B /\ t # last
        BY <1>2, <2>2, <2>5
      <4> QED BY <3>1, <4>1, <1>3, <2>1, <2>3, <2>7, <2>8 DEF SkippedOf
    <3>3. ASSUME NEW t \in B
          PROVE  t \in SkippedOf(s)' <=> t \in SkippedOf(s) \cup GivingWay(s)
      <4>1. t \in Time /\ t \notin Passed(s) /\ rstate[s][t] = "none"
        BY <2>2, <2>5, <2>6
      <4>2. pending[s] # t
        BY <4>1, <2>7
      <4> QED BY <3>1, <4>1, <4>2, <1>3, <2>1, <2>3, <2>8 DEF SkippedOf
    <3>4. SkippedOf(s)' \subseteq Passed(s) \cup B
      BY <3>1, <2>1
    <3>5. SkippedOf(s) \cup GivingWay(s) \subseteq Passed(s) \cup B
      BY <2>7, <2>8 DEF SkippedOf
    <3> QED BY <3>2, <3>3, <3>4, <3>5
  <2>10. SkippedOf(s) \cap GivingWay(s) = {}
    BY <2>5, <2>8 DEF SkippedOf
  <2>11. \A t \in GivingWay(s) : t < last
    <3>1. \A t \in B \ {last} : t < last
      <4>1. \A t \in B : t \in Int
        BY <2>2, TimesAreNumbers
      <4> QED BY <4>1, <2>2
    <3>2. \A t \in Time : pending[s] = t => t < last
      BY <2>1, <2>2, <2>7
    <3> QED BY <3>1, <3>2, <2>8
  <2> QED BY <1>5, <2>1, <2>2, <2>9, <2>10, <2>11 DEF last
<1> QED BY <1>4, <1>5

\* A receipt names what gives way, and no other occurrence.
LEMMA ReceiptRange ==
    ASSUME CronInv, Plan, NEW s \in Occurring, SkippedBy(s) > 0
    PROVE  /\ Between(OffsetsOf[s], Receipt(s).first - 1, Receipt(s).last) = GivingWay(s)
           /\ Receipt(s).last \in GivingWay(s)
           /\ IF pending[s] # Never THEN Receipt(s).first = pending[s]
              ELSE Receipt(s).first \in Time /\ Receipt(s).first > cursor[s]
<1> DEFINE O == OffsetsOf[s]
           B == Between(O, cursor[s], now)
           last == Due(s).last
           previous == Due(s).previous
           p == pending[s]
           G == GivingWay(s)
           first == Receipt(s).first
           end == Receipt(s).last
<1>1. s \in Schedule /\ cursor[s] < now /\ TypeOK /\ PlanInv
  BY DEF Occurring, CronInv
<1>2. cursor[s] \in Int /\ now \in Int /\ start # Never /\ start \in Int
  <2>1. cursor[s] \in Int /\ now \in Int
    BY <1>1, TimesAreNumbers DEF TypeOK
  <2>2. start # Never /\ start \in Boundaries
    BY <1>1 DEF TypeOK, Plan
  <2>3. start \in Int
    BY <2>2, ConstantFacts, TimesAreNumbers
  <2> QED BY <2>1, <2>2, <2>3
<1>3. /\ B \subseteq Time /\ IsFiniteSet(B) /\ last \in B
      /\ Due(s).count = Cardinality(B) /\ Due(s).count \in Nat /\ Due(s).count > 0
      /\ \A t \in B : t <= last
      /\ Due(s).first \in B /\ \A t \in B : Due(s).first <= t
  BY <1>1, DueFacts DEF Occurring
<1>4. /\ Due(s).count > 1 => /\ previous \in B \ {last}
                             /\ \A t \in B \ {last} : t <= previous
      /\ ~(Due(s).count > 1) => previous = Never
  BY <1>1, DueFacts
<1>5. /\ first = IF p # Never THEN p ELSE Due(s).first
      /\ end = IF previous # Never THEN previous ELSE p
  BY DEF Receipt
<1>6. G = (B \ {last}) \cup {t \in Time : p = t}
  BY DEF GivingWay
<1>7. Passed(s) = Between(O, start - 1, cursor[s])
  BY <1>2 DEF Passed
<1>8. p # Never => /\ p \in Passed(s) /\ p \in Time
                   /\ \A t \in Passed(s) : t <= p
  BY <1>1 DEF PlanInv, TypeOK
<1>9. p # Never \/ Due(s).count > 1
  BY <1>3 DEF SkippedBy
<1>10. /\ \A t \in B : t \in Int /\ cursor[s] < t /\ t <= now /\ Occurs(O, t)
       /\ \A t \in Int : cursor[s] < t /\ t <= now /\ Occurs(O, t) => t \in B
       /\ \A t \in Passed(s) : t \in Int /\ start <= t /\ t <= cursor[s] /\ Occurs(O, t)
       /\ \A t \in Int : start <= t /\ t <= cursor[s] /\ Occurs(O, t) => t \in Passed(s)
  BY <1>2, <1>7 DEF Between
<1>11. \A t : t \in Between(O, first - 1, end) <=> t \in first - 1 + 1 .. end /\ Occurs(O, t)
  BY DEF Between
<1> HIDE DEF O, B, last, previous, p, G, first, end
<1>12. CASE Due(s).count > 1
  <2>1. /\ previous \in B /\ previous # last /\ previous \in Int /\ previous # Never
        /\ end = previous /\ previous < last
    <3>1. previous \in B /\ previous # last /\ previous \in Time
      BY <1>3, <1>4, <1>12
    <3>2. previous \in Int /\ previous # Never /\ last \in Int
      BY <1>3, <3>1, TimesAreNumbers
    <3> QED BY <3>1, <3>2, <1>3, <1>5
  <2>2. first \in Time /\ first \in Int
        /\ IF p # Never THEN first = p ELSE first = Due(s).first /\ first > cursor[s]
    <3>1. Due(s).first \in Time /\ Due(s).first > cursor[s]
      BY <1>2, <1>3, <1>10
    <3>2. first \in Time
      BY <3>1, <1>5, <1>8
    <3> QED BY <3>1, <3>2, <1>5, TimesAreNumbers
  <2>3. ASSUME NEW t \in Int, first <= t, t <= previous, Occurs(O, t) PROVE t \in G
    <3>1. CASE t > cursor[s]
      <4>1. t <= now
        BY <1>2, <1>10, <2>1, <2>3
      <4>2. t \in B
        BY <1>2, <1>10, <2>3, <3>1, <4>1
      <4>3. t # last
        BY <1>10, <1>3, <2>1, <2>3
      <4> QED BY <1>6, <4>2, <4>3
    <3>2. CASE t <= cursor[s]
      <4>1. p # Never /\ first = p
        BY <1>2, <2>2, <2>3, <3>2
      <4>2. start <= t
        BY <1>2, <1>8, <1>10, <2>3, <4>1
      <4>3. t \in Passed(s)
        BY <1>10, <2>3, <3>2, <4>2
      <4>4. t <= p /\ p <= t /\ p \in Int
        BY <1>8, <2>2, <2>3, <4>1, <4>3
      <4>5. t = p
        BY <4>4
      <4> QED BY <1>6, <1>8, <4>1, <4>5
    <3> QED BY <1>2, <3>1, <3>2
  <2>4. ASSUME NEW t \in G PROVE t \in Int /\ first <= t /\ t <= previous /\ Occurs(O, t)
    <3>1. CASE t \in B \ {last}
      <4>1. t \in Int /\ t <= previous /\ Occurs(O, t) /\ cursor[s] < t
        BY <1>4, <1>10, <1>12, <3>1
      <4>2. first <= t
        <5>1. CASE p = Never
          BY <1>3, <1>5, <3>1, <5>1
        <5>2. CASE p # Never
          BY <1>2, <1>8, <1>10, <2>2, <4>1, <5>2
        <5> QED BY <5>1, <5>2
      <4> QED BY <4>1, <4>2
    <3>2. CASE t \in Time /\ p = t
      <4>1. p # Never
        BY <3>2, TimesAreNumbers
      <4>2. t \in Int /\ t <= cursor[s] /\ Occurs(O, t)
        BY <1>8, <1>10, <3>2, <4>1
      <4>3. cursor[s] < previous
        BY <1>10, <2>1
      <4> QED BY <1>2, <2>1, <2>2, <3>2, <4>1, <4>2, <4>3
    <3> QED BY <1>6, <3>1, <3>2
  <2>5. Between(O, first - 1, end) = G
    <3>1. \A t : t \in Between(O, first - 1, end)
                    <=> t \in Int /\ first <= t /\ t <= previous /\ Occurs(O, t)
      BY <1>11, <2>1, <2>2
    <3> QED BY <2>3, <2>4, <3>1
  <2>6. end \in G
    BY <1>6, <2>1
  <2> QED BY <2>2, <2>5, <2>6 DEF O, p, G, first, end
<1>13. CASE ~(Due(s).count > 1)
  <2>1. p # Never /\ first = p /\ end = p /\ p \in Int
    BY <1>4, <1>5, <1>8, <1>9, <1>13, TimesAreNumbers
  <2>2. B = {last}
    <3>1. Cardinality(B) = 1
      BY <1>3, <1>13
    <3>2. PICK x : B = {x}
      BY <1>3, <3>1, FS_Singleton
    <3> QED BY <1>3, <3>2
  <2>3. G = {p}
    BY <1>6, <1>8, <2>1, <2>2
  <2>4. Between(O, first - 1, end) = {p}
    <3>1. \A t : t \in p - 1 + 1 .. p <=> t = p
      BY <2>1
    <3>2. Occurs(O, p)
      BY <1>8, <1>10, <2>1
    <3>3. \A t : t \in Between(O, first - 1, end) <=> t = p
      BY <1>11, <2>1, <3>1, <3>2
    <3> QED BY <3>3
  <2> QED BY <2>1, <2>3, <2>4 DEF O, p, G, first, end
<1> QED BY <1>12, <1>13

\* A planner counts what it skips.
LEMMA PlanCounts ==
    ASSUME CronInv, SkipInv, Plan
    PROVE  CountsExact'
<1> SUFFICES ASSUME NEW s \in Schedule
             PROVE  /\ skipped'[s] = Cardinality(SkippedOf(s)')
                    /\ \A t \in SkippedOf(s)' : \E u \in Passed(s)' : t < u
  BY DEF CountsExact
<1>1. /\ skipped[s] = Cardinality(SkippedOf(s))
      /\ \A t \in SkippedOf(s) : \E u \in Passed(s) : t < u
  BY DEF SkipInv, CountsExact
<1>2. CASE s \notin Occurring
  BY <1>1, <1>2, PlanSkips DEF Plan
<1>3. CASE s \in Occurring
  <2>1. /\ SkippedOf(s)' = SkippedOf(s) \cup GivingWay(s)
        /\ SkippedOf(s) \cap GivingWay(s) = {}
        /\ Passed(s) \subseteq Passed(s)' /\ Due(s).last \in Passed(s)'
        /\ \A t \in GivingWay(s) : t < Due(s).last
    BY <1>3, PlanSkips
  <2>2. IsFiniteSet(GivingWay(s)) /\ Cardinality(GivingWay(s)) = SkippedBy(s)
    BY <1>3, GivingWayCounts
  <2>3. IsFiniteSet(SkippedOf(s))
    <3>1. IsFiniteSet(Time)
      BY CronAssumption, FS_Interval DEF Time
    <3>2. SkippedOf(s) \subseteq Time
      BY PassedTimes DEF SkippedOf, CronInv
    <3> QED BY <3>1, <3>2, FS_Subset
  <2>4. Cardinality(SkippedOf(s) \cup GivingWay(s)) = Cardinality(SkippedOf(s)) + SkippedBy(s)
    <3>1. Cardinality(SkippedOf(s) \cup GivingWay(s))
            = Cardinality(SkippedOf(s)) + Cardinality(GivingWay(s)) - Cardinality({})
      BY <2>1, <2>2, <2>3, FS_Union
    <3>2. Cardinality({}) = 0 /\ Cardinality(SkippedOf(s)) \in Nat /\ SkippedBy(s) \in Nat
      BY <2>2, <2>3, FS_EmptySet, FS_CardinalityType
    <3> QED BY <2>2, <3>1, <3>2
  <2>5. skipped'[s] = skipped[s] + SkippedBy(s)
    BY <1>3 DEF Plan
  <2>6. skipped'[s] = Cardinality(SkippedOf(s)')
    BY <1>1, <2>1, <2>4, <2>5
  <2>7. ASSUME NEW t \in SkippedOf(s)' PROVE \E u \in Passed(s)' : t < u
    BY <1>1, <2>1, <2>7
  <2> QED BY <2>6, <2>7
<1> QED BY <1>2, <1>3

\* A planner's receipt is of what it skips, after all earlier ones.
LEMMA PlanReceipts ==
    ASSUME CronInv, SkipInv, Plan
    PROVE  ReceiptsExact' /\ ReceiptInv'
<1> DEFINE RangeOf(s, receipt) == Between(OffsetsOf[s], receipt.first - 1, receipt.last)
           Apart(a, b) == a.last < b.first \/ b.last < a.first
<1> SUFFICES ASSUME NEW s \in Schedule
             PROVE  \A receipt \in receipts'[s] :
                        /\ RangeOf(s, receipt) \subseteq SkippedOf(s)'
                        /\ receipt.count = Cardinality(RangeOf(s, receipt))
                        /\ \A other \in receipts'[s] \ {receipt} : Apart(receipt, other)
                        /\ receipt.last \in RangeOf(s, receipt)
  BY DEF ReceiptsExact, ReceiptInv
<1>1. \A receipt \in receipts[s] :
         /\ RangeOf(s, receipt) \subseteq SkippedOf(s)
         /\ receipt.count = Cardinality(RangeOf(s, receipt))
         /\ \A other \in receipts[s] \ {receipt} : Apart(receipt, other)
         /\ receipt.last \in RangeOf(s, receipt)
  BY DEF SkipInv, ReceiptsExact, ReceiptInv
<1>2. CASE s \notin Occurring
  <2>1. receipts'[s] = receipts[s] /\ SkippedOf(s)' = SkippedOf(s)
    BY <1>2, PlanSkips DEF Plan
  <2> HIDE DEF RangeOf, Apart
  <2> QED BY <1>1, <2>1
<1>3. CASE s \in Occurring
  <2>1. SkippedOf(s)' = SkippedOf(s) \cup GivingWay(s)
    BY <1>3, PlanSkips
  <2>2. receipts'[s] \subseteq receipts[s] \cup {receipt \in {Receipt(s)} : SkippedBy(s) > 0}
    BY <1>3 DEF Plan, RetainedReceipts
  <2>3. CASE ~(SkippedBy(s) > 0)
    <3>1. receipts'[s] \subseteq receipts[s]
      BY <2>2, <2>3
    <3> HIDE DEF RangeOf, Apart
    <3> QED BY <1>1, <2>1, <3>1
  <2>4. CASE SkippedBy(s) > 0
    <3> DEFINE new == Receipt(s)
    <3>1. receipts'[s] \subseteq receipts[s] \cup {new}
      BY <2>2
    <3>2. /\ RangeOf(s, new) = GivingWay(s)
          /\ new.last \in RangeOf(s, new)
          /\ IF pending[s] # Never THEN new.first = pending[s]
             ELSE new.first \in Time /\ new.first > cursor[s]
      BY <1>3, <2>4, ReceiptRange
    <3>3. new.count = Cardinality(RangeOf(s, new))
      BY <1>3, <3>2, GivingWayCounts DEF Receipt
    <3>4. \A old \in receipts[s] : old.last < new.first
      <4> SUFFICES ASSUME NEW old \in receipts[s] PROVE old.last < new.first
        OBVIOUS
      <4>1. old.last \in SkippedOf(s)
        BY <1>1
      <4>2. old.last \in Passed(s) /\ pending[s] # old.last
        BY <4>1 DEF SkippedOf
      <4>3. old.last \in Int /\ old.last <= cursor[s] /\ cursor[s] \in Int
        BY <4>2, PassedTimes, TimesAreNumbers DEF CronInv, TypeOK
      <4>4. CASE pending[s] # Never
        <5>1. old.last <= pending[s] /\ pending[s] \in Int
          BY <4>2, <4>4, TimesAreNumbers DEF CronInv, PlanInv, TypeOK
        <5> QED BY <3>2, <4>2, <4>3, <4>4, <5>1
      <4>5. CASE pending[s] = Never
        BY <3>2, <4>3, <4>5, TimesAreNumbers
      <4> QED BY <4>4, <4>5
    <3> HIDE DEF RangeOf, new
    <3>5. \A receipt \in receipts[s] \cup {new} :
             /\ RangeOf(s, receipt) \subseteq SkippedOf(s)'
             /\ receipt.count = Cardinality(RangeOf(s, receipt))
             /\ receipt.last \in RangeOf(s, receipt)
      BY <1>1, <2>1, <3>2, <3>3
    <3>6. \A receipt, other \in receipts[s] \cup {new} :
             receipt # other => Apart(receipt, other)
      BY <1>1, <3>4
    <3> HIDE DEF Apart
    <3> QED BY <3>1, <3>5, <3>6
  <2> QED BY <2>3, <2>4
<1> QED BY <1>2, <1>3

\* Every step keeps the account of the skips.
LEMMA NextSkips ==
    ASSUME CronInv, SkipInv, [Next]_vars
    PROVE  SkipInv'
<1>1. TypeOK /\ PlanInv /\ OrderInv
  BY DEF CronInv
<1>2. \A s \in Schedule : Passed(s) \subseteq Time
  BY <1>1, PassedTimes
<1>3. ASSUME UNCHANGED <<start, cursor, pending, skipped, receipts>>,
             \A s \in Schedule, t \in Time : rstate'[s][t] = "none" <=> rstate[s][t] = "none"
      PROVE  SkipInv'
  <2>1. \A s \in Schedule : SkippedOf(s)' = SkippedOf(s) /\ Passed(s)' = Passed(s)
    BY <1>2, <1>3, SkippedKept
  <2> QED BY <1>3, <2>1, SkipsKept
<1>4. ASSUME NEW b \in Boundaries, Register(b) PROVE SkipInv'
  <2>1. UNCHANGED <<skipped, receipts, pending>>
    BY <1>4 DEF Register
  <2>2. start = Never /\ start' = b /\ b \in Int /\ \A s \in Schedule : cursor'[s] = b - 1
    BY <1>4, ConstantFacts, TimesAreNumbers DEF Register
  <2>3. \A s \in Schedule : Passed(s) = {} /\ Passed(s)' = {}
    BY <2>2 DEF Passed, Between
  <2>4. \A s \in Schedule : SkippedOf(s)' = SkippedOf(s) /\ Passed(s)' = Passed(s)
    BY <2>3 DEF SkippedOf
  <2> QED BY <2>1, <2>4, SkipsKept
<1>5. CASE Plan
  BY <1>5, PlanCounts, PlanReceipts DEF SkipInv
<1>6. ASSUME NEW r \in Run, NEW s \in Schedule, NEW t \in Time, Exhaust(r, s, t)
      PROVE  SkipInv'
  <2>1. UNCHANGED <<start, cursor, pending, skipped, receipts>>
    BY <1>6 DEF Exhaust, schedules
  <2>2. \A u \in Schedule, v \in Time : rstate'[u][v] = "none" <=> rstate[u][v] = "none"
    BY <1>1, <1>6, ExhaustRows
  <2> QED BY <1>3, <2>1, <2>2
<1>7. ASSUME NEW r \in Run, Settle(r) PROVE SkipInv'
  <2>1. UNCHANGED <<start, cursor, pending, skipped, receipts>>
    BY <1>7 DEF Settle, schedules
  <2>2. \A u \in Schedule, v \in Time : rstate'[u][v] = "none" <=> rstate[u][v] = "none"
    BY <1>7, SettleRows
  <2> QED BY <1>3, <2>1, <2>2
<1>8. ASSUME NEW r \in Run, NEW s \in Schedule, NEW t \in Time, NEW k \in Token,
             Claim(r, s, t, k)
      PROVE  SkipInv'
  <2>1. UNCHANGED <<start, cursor, skipped, receipts>>
    BY <1>8 DEF Claim
  <2>2. ASSUME NEW u \in Schedule, NEW v \in Time
        PROVE  (rstate'[u][v] = "none" /\ pending'[u] # v)
                  <=> (rstate[u][v] = "none" /\ pending[u] # v)
    <3>1. /\ rstate'[u][v] = IF Same(u, v, s, t) THEN "running" ELSE rstate[u][v]
          /\ pending'[u] = IF u = s /\ rstate[s][t] # "running" THEN Never ELSE pending[u]
          /\ rstate[s][t] # "running" => pending[s] = t
      BY <1>1, <1>8, ClaimRows
    <3>2. v # Never
      BY TimesAreNumbers
    <3> QED BY <3>1, <3>2 DEF Same
  <2>3. \A u \in Schedule : SkippedOf(u)' = SkippedOf(u) /\ Passed(u)' = Passed(u)
    BY <1>2, <2>1, <2>2, SkippedKept
  <2> QED BY <2>1, <2>3, SkipsKept
<1>9. ASSUME UNCHANGED <<start, cursor, pending, skipped, receipts, rstate>> PROVE SkipInv'
  BY <1>3, <1>9
<1>10. ASSUME NEW r \in Run, HandlerEnds(r) \/ Abort(r) \/ HandlerExits(r) \/ SettleFails(r)
       PROVE  SkipInv'
  BY <1>9, <1>10 DEF HandlerEnds, Abort, HandlerExits, SettleFails, schedules, runs
<1>11. ASSUME NEW p \in Process, Crash(p) PROVE SkipInv'
  BY <1>9, <1>11 DEF Crash, schedules, runs
<1>12. CASE Tick
  BY <1>9, <1>12 DEF Tick, schedules
<1>13. CASE UNCHANGED vars
  BY <1>9, <1>13 DEF vars, schedules, runs
<1> QED BY <1>4, <1>5, <1>6, <1>7, <1>8, <1>10, <1>11, <1>12, <1>13 DEF Next

\* The lifetime counts and the receipts account for every occurrence that
\* passed without a run, for any schedules, boundaries and delays.
THEOREM SkipsAreAccounted == Spec => []SkipsAccounted
<1>1. Init => SkipInv
  <2> SUFFICES ASSUME Init PROVE SkipInv
    OBVIOUS
  <2>1. \A s \in Schedule : SkippedOf(s) = {}
    BY DEF Init, SkippedOf, Passed
  <2>2. CountsExact
    BY <2>1, FS_EmptySet DEF CountsExact, Init
  <2>3. ReceiptsExact /\ ReceiptInv
    BY DEF ReceiptsExact, ReceiptInv, Init
  <2> QED BY <2>2, <2>3 DEF SkipInv
<1>2. CronInv /\ SkipInv /\ [Next]_vars => SkipInv'
  BY NextSkips
<1>3. SkipInv => SkipsAccounted
  BY DEF SkipInv, SkipsAccounted
<1> QED BY <1>1, <1>2, <1>3, InductiveInvariant, PTL DEF Spec

-----------------------------------------------------------------------------
(* The tables implement the occurrences.                                   *)

\* What an occurrence's fate says of the tables.
FateInv ==
    \A s \in Schedule :
        /\ Passed(s) \subseteq Occurrences[s]
        /\ \A t \in Occurrences[s] :
             /\ FateOf(s, t) \in {"ahead", "due", "skipped", "running", "done"}
             /\ FateOf(s, t) = "ahead" <=> t \notin Passed(s)
             /\ FateOf(s, t) = "due" <=> pending[s] = t
             /\ FateOf(s, t) = "running" <=> rstate[s][t] = "running"
             /\ FateOf(s, t) = "skipped" <=> t \in SkippedOf(s)

\* Occurrences are the times of the grid.
LEMMA OccurrenceTimes ==
    ASSUME NEW s \in Schedule
    PROVE  /\ Occurrences[s] = Between(OffsetsOf[s], -1, Horizon)
           /\ Occurrences[s] \subseteq Time
           /\ \A t \in Occurrences[s] : t \in Time /\ t \in Int /\ t # Never
<1>1. Occurrences[s] = Between(OffsetsOf[s], -1, Horizon)
  BY DEF Occurrences
<1>2. Occurrences[s] \subseteq Time
  BY <1>1, CronAssumption DEF Between, Time
<1> QED BY <1>1, <1>2, TimesAreNumbers

\* What the tables say of the fate of an occurrence.
LEMMA FateMeans == CronInv => FateInv
<1> SUFFICES ASSUME CronInv, NEW s \in Schedule
             PROVE  /\ Passed(s) \subseteq Occurrences[s]
                    /\ \A t \in Occurrences[s] :
                         /\ FateOf(s, t) \in {"ahead", "due", "skipped", "running", "done"}
                         /\ FateOf(s, t) = "ahead" <=> t \notin Passed(s)
                         /\ FateOf(s, t) = "due" <=> pending[s] = t
                         /\ FateOf(s, t) = "running" <=> rstate[s][t] = "running"
                         /\ FateOf(s, t) = "skipped" <=> t \in SkippedOf(s)
  BY DEF FateInv
<1>1. TypeOK /\ PlanInv
  BY DEF CronInv
<1>2. start = Never \/ (start # Never /\ start \in Nat)
  BY <1>1, ConstantFacts DEF TypeOK
<1>3. cursor[s] \in -1 .. Horizon
  BY <1>1 DEF TypeOK
<1>4. Passed(s) \subseteq Occurrences[s]
  BY <1>2, <1>3, OccurrenceTimes, CronAssumption DEF Passed, Between
<1>5. ASSUME NEW t \in Occurrences[s]
      PROVE  t \notin Passed(s) <=> (start = Never \/ t < start \/ t > cursor[s])
  <2>1. t \in Int /\ t \in Time /\ t >= 0 /\ Occurs(OffsetsOf[s], t)
    BY OccurrenceTimes, TimesAreNumbers DEF Between
  <2>2. CASE start = Never
    BY <2>2 DEF Passed
  <2>3. CASE start # Never /\ start \in Nat
    BY <1>3, <2>1, <2>3, CronAssumption DEF Passed, Between
  <2> QED BY <1>2, <2>2, <2>3
<1>6. ASSUME NEW t \in Occurrences[s]
      PROVE  /\ FateOf(s, t) \in {"ahead", "due", "skipped", "running", "done"}
             /\ FateOf(s, t) = "ahead" <=> t \notin Passed(s)
             /\ FateOf(s, t) = "due" <=> pending[s] = t
             /\ FateOf(s, t) = "running" <=> rstate[s][t] = "running"
             /\ FateOf(s, t) = "skipped" <=> t \in SkippedOf(s)
  <2>1. t \in Time /\ t # Never
    BY OccurrenceTimes
  <2>2. rstate[s][t] \in RowStates
    BY <1>1, <2>1, RowTypes
  <2>3. /\ pending[s] = t => t \in Passed(s) /\ rstate[s][t] = "none"
        /\ rstate[s][t] # "none" => t \in Passed(s)
    BY <1>1, <2>1 DEF PlanInv
  <2>4. CASE t \notin Passed(s)
    <3>1. FateOf(s, t) = "ahead"
      BY <1>5, <2>4 DEF FateOf
    <3> QED BY <2>3, <2>4, <3>1 DEF SkippedOf
  <2>5. CASE t \in Passed(s) /\ pending[s] = t
    <3>1. FateOf(s, t) = "due"
      BY <1>5, <2>3, <2>5 DEF FateOf, Finished, Outcomes
    <3> QED BY <2>3, <2>5, <3>1 DEF SkippedOf
  <2>6. CASE t \in Passed(s) /\ pending[s] # t /\ rstate[s][t] = "none"
    <3>1. FateOf(s, t) = "skipped"
      BY <1>5, <2>6 DEF FateOf, Finished, Outcomes
    <3> QED BY <2>6, <3>1 DEF SkippedOf
  <2>7. CASE t \in Passed(s) /\ pending[s] # t /\ rstate[s][t] = "running"
    <3>1. FateOf(s, t) = "running"
      BY <1>5, <2>7 DEF FateOf, Finished, Outcomes
    <3> QED BY <2>7, <3>1 DEF SkippedOf
  <2>8. CASE t \in Passed(s) /\ pending[s] # t /\ rstate[s][t] \in Finished \cup {"pruned"}
    <3>1. FateOf(s, t) = "done"
      BY <1>5, <2>8 DEF FateOf, Finished, Outcomes
    <3> QED BY <2>8, <3>1 DEF SkippedOf, Finished, Outcomes
  <2> QED BY <2>2, <2>4, <2>5, <2>6, <2>7, <2>8 DEF RowStates
<1> QED BY <1>4, <1>6

\* And after a step.
LEMMA FateMeansNext == CronInv' => FateInv'
BY FateMeans, PTL

\* The grid does not change.
LEMMA SameGrid == Occurrences' = Occurrences
BY DEF Occurrences, Between, Occurs, Day

\* The abstract specification counts as the tables do.
LEMMA SameCount == \A S : Fates!Cardinality(S) = Cardinality(S)
BY DEF Fates!Cardinality, Cardinality

\* A held occurrence runs, under one token.
LEMMA HolderMeans ==
    ASSUME CronInv, NEW s \in Schedule, NEW t \in Time
    PROVE  /\ HolderOf(s, t) \in Token \cup {NoToken}
           /\ HolderOf(s, t) # NoToken <=> left[s][t] > 0
           /\ HolderOf(s, t) # NoToken => HolderOf(s, t) = token[s][t] /\ rstate[s][t] = "running"
<1>1. token[s][t] \in Token \cup {NoToken}
  BY DEF CronInv, TypeOK
<1>2. left[s][t] > 0 => rstate[s][t] = "running" /\ token[s][t] # NoToken
  BY DEF CronInv, RowInv
<1> QED BY <1>1, <1>2 DEF HolderOf

\* What the fates see of an occurrence.
SameFate(s, t) == FateOf(s, t)' = FateOf(s, t) /\ HolderOf(s, t)' = HolderOf(s, t)

\* Where no fate changes the abstract state stands still.
LEMMA FatesStutter ==
    ASSUME \A s \in Schedule : \A t \in Occurrences[s] : SameFate(s, t)
    PROVE  UNCHANGED Fates!occurrences
BY SameGrid DEF SameFate, Fates!occurrences

\* What is the same in the tables is the same for the fates.
LEMMA FateKept ==
    ASSUME CronInv, CronInv', NEW s \in Schedule, NEW t \in Occurrences[s],
           t \in Passed(s)' <=> t \in Passed(s),
           pending'[s] = t <=> pending[s] = t,
           rstate'[s][t] = "running" <=> rstate[s][t] = "running",
           t \in SkippedOf(s)' <=> t \in SkippedOf(s)
    PROVE  FateOf(s, t)' = FateOf(s, t)
<1>1. /\ FateOf(s, t) \in {"ahead", "due", "skipped", "running", "done"}
      /\ FateOf(s, t) = "ahead" <=> t \notin Passed(s)
      /\ FateOf(s, t) = "due" <=> pending[s] = t
      /\ FateOf(s, t) = "running" <=> rstate[s][t] = "running"
      /\ FateOf(s, t) = "skipped" <=> t \in SkippedOf(s)
  BY FateMeans DEF FateInv
<1>2. /\ FateOf(s, t)' \in {"ahead", "due", "skipped", "running", "done"}
      /\ FateOf(s, t)' = "ahead" <=> t \notin Passed(s)'
      /\ FateOf(s, t)' = "due" <=> pending'[s] = t
      /\ FateOf(s, t)' = "running" <=> rstate'[s][t] = "running"
      /\ FateOf(s, t)' = "skipped" <=> t \in SkippedOf(s)'
  BY FateMeansNext, SameGrid DEF FateInv
<1> QED BY <1>1, <1>2

\* A step without a planner that starts no row and ends no run but one.
LEMMA OthersKept ==
    ASSUME CronInv, CronInv', UNCHANGED <<start, cursor, pending>>,
           \A u \in Schedule, v \in Time : rstate'[u][v] = "none" <=> rstate[u][v] = "none",
           NEW s \in Schedule, NEW t \in Occurrences[s],
           rstate'[s][t] = "running" <=> rstate[s][t] = "running"
    PROVE  FateOf(s, t)' = FateOf(s, t)
<1>1. Passed(s) \subseteq Time
  BY PassedTimes DEF CronInv
<1>2. SkippedOf(s)' = SkippedOf(s) /\ Passed(s)' = Passed(s)
  BY <1>1, SkippedKept
<1> QED BY <1>2, FateKept

\* Registration passes nothing yet.
LEMMA RegisterStutters ==
    ASSUME CronInv, CronInv', NEW b \in Boundaries, Register(b)
    PROVE  UNCHANGED Fates!occurrences
<1> SUFFICES ASSUME NEW s \in Schedule, NEW t \in Occurrences[s] PROVE SameFate(s, t)
  BY FatesStutter
<1>1. UNCHANGED <<pending, rstate, token, left>>
  BY DEF Register, runs
<1>2. start = Never /\ start' = b /\ b \in Int /\ cursor'[s] = b - 1
  BY ConstantFacts, TimesAreNumbers DEF Register
<1>3. Passed(s) = {} /\ Passed(s)' = {}
  BY <1>2 DEF Passed, Between
<1>4. SkippedOf(s) = {} /\ SkippedOf(s)' = {}
  BY <1>3 DEF SkippedOf
<1>5. FateOf(s, t)' = FateOf(s, t)
  BY <1>1, <1>3, <1>4, FateKept
<1> QED BY <1>1, <1>5 DEF SameFate, HolderOf

\* A run that is given up.
LEMMA ExhaustIsGiveUp ==
    ASSUME CronInv, CronInv', NEW r \in Run, NEW s \in Schedule, NEW t \in Time,
           Exhaust(r, s, t)
    PROVE  Fates!Next
<1>1. TypeOK /\ PlanInv /\ OrderInv
  BY DEF CronInv
<1>2. /\ UNCHANGED <<start, cursor, pending, left>>
  BY DEF Exhaust, schedules
<1>3. \A u \in Schedule, v \in Time :
         /\ rstate'[u][v] = "none" <=> rstate[u][v] = "none"
         /\ rstate'[u][v] = "running" <=> rstate[u][v] = "running" /\ ~Same(u, v, s, t)
         /\ token'[u][v] = IF Same(u, v, s, t) THEN NoToken ELSE token[u][v]
         /\ rstate[s][t] = "running" /\ left[s][t] = 0
  BY <1>1, ExhaustRows
<1>4. t \in Passed(s) /\ t \in Occurrences[s]
  <2>1. t \in Passed(s)
    BY <1>1, <1>3 DEF PlanInv
  <2> QED BY <2>1, FateMeans DEF FateInv
<1>5. FateOf(s, t) = "running" /\ HolderOf(s, t) = NoToken
  BY <1>3, <1>4, FateMeans DEF FateInv, HolderOf
<1>6. FateOf(s, t)' = "done"
  <2>1. Passed(s)' = Passed(s)
    BY <1>2 DEF Passed
  <2>2. rstate'[s][t] # "running" /\ rstate'[s][t] # "none"
    BY <1>3 DEF Same
  <2>3. pending'[s] # t
    BY <1>2, <1>3, <1>4, FateMeans, <1>5 DEF FateInv
  <2>4. t \notin SkippedOf(s)'
    BY <2>2 DEF SkippedOf
  <2> QED BY <1>4, <2>1, <2>2, <2>3, <2>4, FateMeansNext, SameGrid DEF FateInv
<1>7. ASSUME NEW u \in Schedule, NEW v \in Occurrences[u], ~Same(u, v, s, t)
      PROVE  FateOf(u, v)' = FateOf(u, v)
  <2>1. v \in Time
    BY OccurrenceTimes
  <2>2. rstate'[u][v] = "running" <=> rstate[u][v] = "running"
    BY <1>3, <1>7, <2>1
  <2> QED BY <1>2, <1>3, <2>2, OthersKept
<1>8. \A u \in Schedule : \A v \in Occurrences[u] : HolderOf(u, v)' = HolderOf(u, v)
  <2> SUFFICES ASSUME NEW u \in Schedule, NEW v \in Occurrences[u]
               PROVE  HolderOf(u, v)' = HolderOf(u, v)
    OBVIOUS
  <2>1. v \in Time /\ left'[u][v] = left[u][v]
    BY <1>2, OccurrenceTimes
  <2>2. CASE Same(u, v, s, t)
    <3>1. ~(left[u][v] > 0)
      BY <1>3, <2>2 DEF Same
    <3> QED BY <2>1, <3>1 DEF HolderOf
  <2>3. CASE ~Same(u, v, s, t)
    BY <1>3, <2>1, <2>3 DEF HolderOf
  <2> QED BY <2>2, <2>3
<1>9. Fates!GiveUp(s, t)
  BY <1>4, <1>5, <1>6, <1>7, <1>8, SameGrid DEF Fates!GiveUp, Same
<1> QED BY <1>4, <1>9 DEF Fates!Next

\* There are no more holders than live leases.
LEMMA RoomForHolder ==
    ASSUME CronInv, Cardinality(Active) < MaxConcurrent
    PROVE  Fates!Cardinality(Fates!Holders) < MaxConcurrent
<1> DEFINE T == {token[run[1]][run[2]] : run \in Active}
           g == [run \in Active |-> token[run[1]][run[2]]]
<1>1. IsFiniteSet(Schedule \X Time)
  <2>1. IsFiniteSet(Time)
    BY CronAssumption, FS_Interval DEF Time
  <2> QED BY <2>1, CronAssumption, FS_Product
<1>2. Active \subseteq Schedule \X Time
  BY DEF Active
<1>3. IsFiniteSet(Active) /\ Cardinality(Active) \in Nat
  BY <1>1, <1>2, FS_Subset, FS_CardinalityType
<1>4. g \in Surjection(Active, T)
  <2>1. g \in [Active -> T]
    OBVIOUS
  <2>2. \A k \in T : \E run \in Active : g[run] = k
    OBVIOUS
  <2> QED BY <2>1, <2>2, Fun_IsSurj
<1>5. IsFiniteSet(T) /\ Cardinality(T) <= Cardinality(Active)
  BY <1>3, <1>4, FS_Surjection DEF ExistsSurjection
<1>6. Fates!Holders \subseteq T
  <2> SUFFICES ASSUME NEW k \in Fates!Holders PROVE k \in T
    OBVIOUS
  <2>1. \E s \in Schedule : \E t \in Occurrences[s] : k = HolderOf(s, t) /\ k # NoToken
    <3>1. NoToken \notin Fates!Holders
      BY DEF Fates!Holders
    <3> SUFFICES ASSUME \A s \in Schedule : \A t \in Occurrences[s] : HolderOf(s, t) # k
                 PROVE  FALSE
      BY <3>1
    <3> QED BY DEF Fates!Holders
  <2>5. PICK s \in Schedule : \E t \in Occurrences[s] : k = HolderOf(s, t) /\ k # NoToken
    BY <2>1
  <2>2. PICK t \in Occurrences[s] : k = HolderOf(s, t) /\ k # NoToken
    BY <2>5
  <2>3. t \in Time
    BY OccurrenceTimes
  <2>4. /\ left[s][t] > 0 /\ rstate[s][t] = "running" /\ k = token[s][t]
    BY <2>2, <2>3, HolderMeans
  <2>6. <<s, t>> \in Active
    BY <2>3, <2>4 DEF Active
  <2> QED BY <2>4, <2>6
<1> HIDE DEF T
<1>7. IsFiniteSet(Fates!Holders) /\ Cardinality(Fates!Holders) <= Cardinality(T)
  BY <1>5, <1>6, FS_Subset
<1>8. Cardinality(Fates!Holders) \in Nat /\ Cardinality(T) \in Nat /\ MaxConcurrent \in Nat
  BY <1>5, <1>7, FS_CardinalityType, ConstantFacts
<1> QED BY <1>3, <1>5, <1>7, <1>8, SameCount

\* A claim.
LEMMA ClaimIsTake ==
    ASSUME CronInv, CronInv', NEW r \in Run, NEW s \in Schedule, NEW t \in Time, NEW k \in Token,
           Claim(r, s, t, k)
    PROVE  Fates!Next
<1>1. TypeOK /\ PlanInv /\ UNCHANGED <<start, cursor>>
  BY DEF CronInv, Claim
<1>2. \A u \in Schedule, v \in Time :
         /\ rstate'[u][v] = IF Same(u, v, s, t) THEN "running" ELSE rstate[u][v]
         /\ token'[u][v] = IF Same(u, v, s, t) THEN k ELSE token[u][v]
         /\ left'[u][v] = IF Same(u, v, s, t) THEN Lease ELSE left[u][v]
         /\ pending'[u] = IF u = s /\ rstate[s][t] # "running" THEN Never ELSE pending[u]
         /\ token[u][v] # k
         /\ rstate[s][t] = "running" => left[s][t] = 0
         /\ rstate[s][t] # "running" => pending[s] = t /\ Running(s) = {}
  BY <1>1, ClaimRows
<1>3. t \in Passed(s) /\ t \in Occurrences[s]
  <2>1. CASE rstate[s][t] = "running"
    <3>1. t \in Passed(s)
      BY <1>1, <2>1 DEF PlanInv
    <3> QED BY <3>1, FateMeans DEF FateInv
  <2>2. CASE rstate[s][t] # "running"
    <3>1. pending[s] = t /\ t # Never
      BY <1>2, <2>2, TimesAreNumbers
    <3>2. t \in Passed(s)
      BY <1>1, <3>1 DEF PlanInv
    <3> QED BY <3>2, FateMeans DEF FateInv
  <2> QED BY <2>1, <2>2
<1>4. \/ FateOf(s, t) = "due" /\ Fates!Running(s) = {}
      \/ FateOf(s, t) = "running" /\ HolderOf(s, t) = NoToken
  <2>1. CASE rstate[s][t] = "running"
    <3>1. FateOf(s, t) = "running"
      BY <1>3, <2>1, FateMeans DEF FateInv
    <3>2. ~(left[s][t] > 0)
      BY <1>2, <2>1
    <3> QED BY <3>1, <3>2 DEF HolderOf
  <2>2. CASE rstate[s][t] # "running"
    <3>1. FateOf(s, t) = "due"
      BY <1>2, <1>3, <2>2, FateMeans DEF FateInv
    <3>2. \A v \in Time : rstate[s][v] # "running"
      BY <1>2, <2>2 DEF Running
    <3>3. \A v \in Occurrences[s] : FateOf(s, v) # "running"
      BY <3>2, FateMeans, OccurrenceTimes DEF FateInv
    <3> QED BY <3>1, <3>3 DEF Fates!Running
  <2> QED BY <2>1, <2>2
<1>5. k \notin Fates!Holders
  <2>1. \A u \in Schedule : \A v \in Occurrences[u] : HolderOf(u, v) # k
    <3> SUFFICES ASSUME NEW u \in Schedule, NEW v \in Occurrences[u] PROVE HolderOf(u, v) # k
      OBVIOUS
    <3>1. v \in Time /\ k # NoToken
      BY OccurrenceTimes, CronAssumption
    <3> QED BY <1>2, <3>1, HolderMeans
  <2> QED BY <2>1 DEF Fates!Holders
<1>6. Fates!Cardinality(Fates!Holders) < MaxConcurrent
  BY RoomForHolder DEF Claim
<1>7. FateOf(s, t)' = "running"
  <2>1. rstate'[s][t] = "running"
    BY <1>2 DEF Same
  <2> QED BY <1>3, <2>1, FateMeansNext, SameGrid DEF FateInv
<1>8. HolderOf(s, t)' = k
  <2>1. left'[s][t] = Lease /\ Lease > 0 /\ token'[s][t] = k
    BY <1>2, ConstantFacts DEF Same
  <2> QED BY <2>1 DEF HolderOf
<1>9. ASSUME NEW u \in Schedule, NEW v \in Occurrences[u], ~Same(u, v, s, t)
      PROVE  SameFate(u, v)
  <2>1. v \in Time /\ v # Never
    BY OccurrenceTimes
  <2>2. rstate'[u][v] = rstate[u][v] /\ token'[u][v] = token[u][v] /\ left'[u][v] = left[u][v]
    BY <1>2, <1>9, <2>1
  <2>3. pending'[u] = v <=> pending[u] = v
    BY <1>2, <1>9, <2>1 DEF Same
  <2>4. Passed(u)' = Passed(u)
    BY <1>1 DEF Passed
  <2>5. v \in SkippedOf(u)' <=> v \in SkippedOf(u)
    BY <2>2, <2>3, <2>4 DEF SkippedOf
  <2>6. FateOf(u, v)' = FateOf(u, v)
    BY <2>2, <2>3, <2>4, <2>5, FateKept
  <2> QED BY <2>2, <2>6 DEF SameFate, HolderOf
<1>10. Fates!Take(s, t, k)
  BY <1>3, <1>4, <1>5, <1>6, <1>7, <1>8, <1>9, SameGrid DEF Fates!Take, Same, SameFate
<1> QED BY <1>3, <1>10 DEF Fates!Next

\* A settlement that is owned, and one that is not.
LEMMA SettleIsFinish ==
    ASSUME CronInv, CronInv', NEW r \in Run, Settle(r)
    PROVE  [Fates!Next]_(Fates!occurrences)
<1>8. claimed[r].schedule \in Schedule /\ claimed[r].at \in Time
  BY SettlerHolds DEF CronInv, Settle
<1>9. PICK s \in Schedule : s = claimed[r].schedule
  BY <1>8
<1>10. PICK t \in Time : t = claimed[r].at
  BY <1>8
<1>1. TypeOK /\ PlanInv /\ UNCHANGED <<start, cursor, pending>>
  BY DEF CronInv, Settle, schedules
<1>2. s \in Schedule /\ t \in Time
  OBVIOUS
<1>3. \A u \in Schedule, v \in Time :
         /\ rstate'[u][v] = "none" <=> rstate[u][v] = "none"
         /\ rstate'[u][v] = "running"
               <=> rstate[u][v] = "running" /\ ~(Owned(r) /\ Same(u, v, s, t))
         /\ token'[u][v] = IF Owned(r) /\ Same(u, v, s, t) THEN NoToken ELSE token[u][v]
         /\ left'[u][v] = IF Owned(r) /\ Same(u, v, s, t) THEN 0 ELSE left[u][v]
  BY <1>9, <1>10, SettleRows
<1>4. Owned(r) => rstate[s][t] = "running" /\ left[s][t] > 0
  BY <1>9, <1>10 DEF Owned
<1>5. ASSUME NEW u \in Schedule, NEW v \in Occurrences[u], ~(Owned(r) /\ Same(u, v, s, t))
      PROVE  SameFate(u, v)
  <2>1. v \in Time
    BY OccurrenceTimes
  <2>2. /\ rstate'[u][v] = "running" <=> rstate[u][v] = "running"
        /\ token'[u][v] = token[u][v] /\ left'[u][v] = left[u][v]
    BY <1>3, <1>5, <2>1
  <2>3. FateOf(u, v)' = FateOf(u, v)
    BY <1>1, <1>3, <2>2, OthersKept
  <2> QED BY <2>2, <2>3 DEF SameFate, HolderOf
<1>6. CASE ~Owned(r)
  BY <1>5, <1>6, FatesStutter
<1>7. CASE Owned(r)
  <2>1. t \in Passed(s) /\ t \in Occurrences[s]
    <3>1. t \in Passed(s)
      BY <1>1, <1>2, <1>4, <1>7 DEF PlanInv
    <3> QED BY <1>2, <3>1, FateMeans DEF FateInv
  <2>2. HolderOf(s, t) # NoToken
    BY <1>2, <1>4, <1>7, HolderMeans
  <2>3. FateOf(s, t)' = "done"
    <3>1. Passed(s)' = Passed(s)
      BY <1>1 DEF Passed
    <3>2. rstate'[s][t] # "running" /\ rstate'[s][t] # "none"
      BY <1>2, <1>3, <1>4, <1>7 DEF Same
    <3>3. FateOf(s, t) = "running"
      BY <1>2, <1>4, <1>7, <2>1, FateMeans DEF FateInv
    <3>4. pending'[s] # t
      BY <1>1, <1>2, <2>1, <3>3, FateMeans DEF FateInv
    <3>5. t \notin SkippedOf(s)'
      BY <3>2 DEF SkippedOf
    <3> QED BY <1>2, <2>1, <3>1, <3>2, <3>4, <3>5, FateMeansNext, SameGrid DEF FateInv
  <2>4. HolderOf(s, t)' = NoToken
    <3>1. left'[s][t] = 0
      BY <1>2, <1>3, <1>7 DEF Same
    <3> QED BY <3>1 DEF HolderOf
  <2>5. Fates!Finish(s, t)
    BY <1>2, <1>5, <2>1, <2>2, <2>3, <2>4, SameGrid DEF Fates!Finish, Same, SameFate
  <2> QED BY <1>2, <2>1, <2>5 DEF Fates!Next
<1> QED BY <1>6, <1>7

\* Time passing takes the leases that are over.
LEMMA TickIsLapse ==
    ASSUME CronInv, CronInv', Tick
    PROVE  Fates!Next
<1>7. PICK H \in SUBSET Token :
        H = {k \in Token : \E s \in Schedule, t \in Time : token[s][t] = k /\ left[s][t] = 1}
  OBVIOUS
<1>1. UNCHANGED <<start, cursor, pending, rstate, token>>
  BY DEF Tick, schedules
<1>2. \A s \in Schedule, t \in Time : left'[s][t] = IF left[s][t] > 0 THEN left[s][t] - 1 ELSE 0
  BY DEF Tick
<1>3. ASSUME NEW s \in Schedule, NEW t \in Occurrences[s]
      PROVE  FateOf(s, t)' = FateOf(s, t)
  BY <1>1, OthersKept
<1>4. ASSUME NEW s \in Schedule, NEW t \in Occurrences[s]
      PROVE  HolderOf(s, t)' = IF HolderOf(s, t) \in H THEN NoToken ELSE HolderOf(s, t)
  <2>1. t \in Time /\ NoToken \notin Token
    BY OccurrenceTimes, CronAssumption
  <2>2. left[s][t] \in Int /\ token[s][t] \in Token \cup {NoToken}
    BY <2>1, ConstantFacts DEF CronInv, TypeOK
  <2>3. CASE ~(left[s][t] > 0)
    BY <1>2, <2>1, <2>3 DEF HolderOf
  <2>4. CASE left[s][t] = 1
    <3>1. HolderOf(s, t) = token[s][t] /\ token[s][t] # NoToken
      BY <2>1, <2>4, HolderMeans
    <3>2. token[s][t] \in H
      BY <1>7, <2>1, <2>2, <2>4, <3>1
    <3>3. HolderOf(s, t)' = NoToken
      BY <1>2, <2>1, <2>4 DEF HolderOf
    <3> QED BY <3>1, <3>2, <3>3
  <2>5. CASE left[s][t] > 1
    <3>1. HolderOf(s, t) = token[s][t] /\ token[s][t] # NoToken
      BY <2>1, <2>2, <2>5, HolderMeans
    <3>2. token[s][t] \notin H
      <4> SUFFICES ASSUME NEW u \in Schedule, NEW v \in Time,
                          token[u][v] = token[s][t], left[u][v] = 1
                   PROVE  FALSE
        BY <1>7
      <4>1. u = s /\ v = t
        BY <2>1, <3>1 DEF CronInv, RowInv
      <4> QED BY <2>5, <4>1
    <3>3. HolderOf(s, t)' = token[s][t]
      BY <1>1, <1>2, <2>1, <2>2, <2>5 DEF HolderOf
    <3> QED BY <3>1, <3>2, <3>3
  <2> QED BY <2>2, <2>3, <2>4, <2>5
<1>6. Fates!Lapse(H)
  <2> DEFINE fate == [s \in Schedule |-> [t \in Occurrences[s] |-> FateOf(s, t)]]
             holder == [s \in Schedule |-> [t \in Occurrences[s] |-> HolderOf(s, t)]]
  <2>1. fate' = fate
    BY <1>3, SameGrid
  <2>2. holder' = [s \in Schedule |-> [t \in Occurrences[s] |->
            IF holder[s][t] \in H THEN NoToken ELSE holder[s][t]]]
    BY <1>4, SameGrid
  <2> QED BY <2>1, <2>2 DEF Fates!Lapse
<1> QED BY <1>6 DEF Fates!Next

\* What closing a window does to an occurrence.
LEMMA PlanFates ==
    ASSUME CronInv, CronInv', Plan, NEW s \in Schedule, NEW t \in Occurrences[s]
    PROVE  LET B == Between(OffsetsOf[s], cursor[s], now) IN
           /\ s \notin Occurring => FateOf(s, t)' = FateOf(s, t)
           /\ s \in Occurring =>
                /\ t \in B => FateOf(s, t) = "ahead"
                /\ t \in B => FateOf(s, t)' = IF t = Due(s).last THEN "due" ELSE "skipped"
                /\ t \notin B => FateOf(s, t)' = IF FateOf(s, t) = "due" THEN "skipped"
                                                 ELSE FateOf(s, t)
<1> DEFINE B == Between(OffsetsOf[s], cursor[s], now)
           last == Due(s).last
<1>1. TypeOK /\ PlanInv /\ t \in Time /\ t # Never
  BY OccurrenceTimes DEF CronInv
<1>2. /\ rstate'[s][t] = "none" <=> rstate[s][t] = "none"
      /\ rstate'[s][t] = "running" <=> rstate[s][t] = "running"
  BY <1>1, PlanRows
<1>3. /\ FateOf(s, t) \in {"ahead", "due", "skipped", "running", "done"}
      /\ FateOf(s, t) = "ahead" <=> t \notin Passed(s)
      /\ FateOf(s, t) = "due" <=> pending[s] = t
      /\ FateOf(s, t) = "running" <=> rstate[s][t] = "running"
      /\ FateOf(s, t) = "skipped" <=> t \in SkippedOf(s)
  BY FateMeans DEF FateInv
<1>4. /\ FateOf(s, t)' \in {"ahead", "due", "skipped", "running", "done"}
      /\ FateOf(s, t)' = "ahead" <=> t \notin Passed(s)'
      /\ FateOf(s, t)' = "due" <=> pending'[s] = t
      /\ FateOf(s, t)' = "running" <=> rstate'[s][t] = "running"
      /\ FateOf(s, t)' = "skipped" <=> t \in SkippedOf(s)'
  BY FateMeansNext, SameGrid DEF FateInv
<1>5. CASE s \notin Occurring
  <2>1. SkippedOf(s)' = SkippedOf(s) /\ Passed(s)' = Passed(s) /\ pending'[s] = pending[s]
    BY <1>5, PlanSkips DEF Plan
  <2> QED BY <1>2, <1>3, <1>4, <1>5, <2>1
<1>6. CASE s \in Occurring
  <2>1. /\ Passed(s)' = Passed(s) \cup B /\ cursor[s] < now /\ B # {}
        /\ \A u \in B : u > cursor[s]
    BY <1>1, <1>6, PlanPasses
  <2>2. last \in B
    BY <1>1, <2>1, DueFacts
  <2>3. pending'[s] = last
    BY <1>6 DEF Plan
  <2>4. SkippedOf(s)' = SkippedOf(s) \cup GivingWay(s)
    BY <1>6, PlanSkips
  <2>5. GivingWay(s) = (B \ {last}) \cup {v \in Time : pending[s] = v}
    BY DEF GivingWay
  <2>6. \A u \in Passed(s) : u \in Int /\ ~(u > cursor[s])
    <3>1. cursor[s] \in Int
      BY <1>1 DEF TypeOK
    <3> QED BY <1>1, <3>1, PassedTimes, TimesAreNumbers
  <2> HIDE DEF B, last
  <2>7. t \in B => t \notin Passed(s)
    BY <2>1, <2>6
  <2>8. CASE t \in B
    <3>1. FateOf(s, t) = "ahead"
      BY <1>3, <2>7, <2>8
    <3>2. FateOf(s, t)' = IF t = last THEN "due" ELSE "skipped"
      BY <1>4, <2>3, <2>4, <2>5, <2>8
    <3> QED BY <1>6, <2>8, <3>1, <3>2 DEF B, last
  <2>9. CASE t \notin B
    <3>1. t # last /\ (t \in Passed(s)' <=> t \in Passed(s))
      BY <2>1, <2>2, <2>9
    <3>2. t \in SkippedOf(s)' <=> t \in SkippedOf(s) \/ pending[s] = t
      BY <1>1, <2>4, <2>5, <2>9
    <3>3. FateOf(s, t)' = IF FateOf(s, t) = "due" THEN "skipped" ELSE FateOf(s, t)
      BY <1>2, <1>3, <1>4, <2>3, <3>1, <3>2
    <3> QED BY <1>6, <2>9, <3>3 DEF B, last
  <2> QED BY <2>8, <2>9
<1> QED BY <1>5, <1>6

\* A planner lets time go by for each schedule.
LEMMA PlanIsPlan ==
    ASSUME CronInv, CronInv', Plan
    PROVE  Fates!Plan
<1> DEFINE fate == [s \in Schedule |-> [t \in Occurrences[s] |-> FateOf(s, t)]]
           holder == [s \in Schedule |-> [t \in Occurrences[s] |-> HolderOf(s, t)]]
<1>1. holder' = holder
  <2>1. \A s \in Schedule : \A t \in Occurrences[s] : HolderOf(s, t)' = HolderOf(s, t)
    BY DEF Plan, HolderOf
  <2> QED BY <2>1, SameGrid
<1>2. fate' = [s \in Schedule |-> [t \in Occurrences[s] |-> FateOf(s, t)']]
  BY SameGrid
<1>3. ASSUME NEW s \in Schedule PROVE Fates!PassBy(s)
  <2> DEFINE B == Between(OffsetsOf[s], cursor[s], now)
             Grid == Occurrences[s]
             A == {t \in Grid : FateOf(s, t) = "ahead"}
             P == {t \in A : FateOf(s, t)' # "ahead"}
             K == Grid \ A
  <2>1. TypeOK /\ PlanInv /\ Grid \subseteq Time /\ Passed(s) \subseteq Grid
    BY OccurrenceTimes, FateMeans DEF CronInv, FateInv
  <2>2. K = Passed(s)
    BY <2>1, FateMeans DEF FateInv
  <2>3. /\ start # Never /\ start \in Int /\ cursor[s] \in Int /\ now \in Int /\ now <= Horizon
        /\ Horizon \in Int /\ start \in Nat /\ cursor[s] >= -1
    <3>1. start # Never /\ start \in Boundaries
      BY <2>1 DEF Plan, TypeOK
    <3>2. start \in Nat
      BY <3>1, ConstantFacts
    <3>3. cursor[s] \in -1 .. Horizon /\ now \in 0 .. Horizon
      BY <2>1 DEF TypeOK, Time
    <3> QED BY <3>1, <3>2, <3>3, CronAssumption
  <2>4. P = IF s \in Occurring THEN B ELSE {}
    <3>1. CASE s \notin Occurring
      BY <3>1, PlanFates
    <3>2. CASE s \in Occurring
      <4>1. B \subseteq Grid
        <5>1. \A t \in B : t \in Int /\ cursor[s] < t /\ t <= now /\ Occurs(OffsetsOf[s], t)
          BY <2>3 DEF Between
        <5>2. \A t \in B : t \in -1 + 1 .. Horizon /\ Occurs(OffsetsOf[s], t)
          BY <2>3, <5>1
        <5> QED BY <5>2, OccurrenceTimes DEF Between
      <4>2. \A t \in B : FateOf(s, t) = "ahead" /\ FateOf(s, t)' # "ahead"
        BY <3>2, <4>1, PlanFates
      <4>3. \A t \in Grid \ B : FateOf(s, t) = "ahead" => FateOf(s, t)' = "ahead"
        BY <3>2, PlanFates
      <4> HIDE DEF B
      <4> QED BY <3>2, <4>1, <4>2, <4>3
    <3> QED BY <3>1, <3>2
  <2> HIDE DEF P, K, A
  <2>5. \A t \in P : \A u \in K : u < t
    BY <2>1, <2>2, <2>4, PlanPasses
  <2>6. ASSUME NEW v \in A \ P, NEW t \in P, v < t, NEW u \in K \cup P PROVE v < u
    <3>1. s \in Occurring /\ t \in B /\ v \in Grid /\ v \notin B
      BY <2>4, <2>6 DEF A
    <3>2. v \in Int /\ v >= 0 /\ Occurs(OffsetsOf[s], v) /\ v \notin Passed(s)
      BY <2>2, <3>1, OccurrenceTimes DEF Between, K
    <3>3. t \in Int /\ t <= now
      BY <2>3, <3>1 DEF Between
    <3>4. ~(cursor[s] < v)
      <4>1. v <= now
        BY <2>3, <2>6, <3>2, <3>3
      <4> QED BY <2>3, <3>1, <3>2, <4>1 DEF Between
    <3>5. v < start
      <4> SUFFICES ASSUME ~(v < start) PROVE FALSE
        OBVIOUS
      <4>1. v \in start - 1 + 1 .. cursor[s]
        BY <2>3, <3>2, <3>4
      <4> QED BY <2>3, <3>2, <4>1 DEF Passed, Between
    <3>6. u \in Int /\ start <= u
      <4>1. CASE u \in K
        BY <2>1, <2>2, <4>1, PassedTimes, TimesAreNumbers
      <4>2. CASE u \in P
        <5>1. u \in Int /\ cursor[s] < u
          BY <2>3, <2>4, <3>1, <4>2 DEF Between
        <5>2. start - 1 <= cursor[s]
          BY <2>1, <2>3 DEF PlanInv
        <5> QED BY <2>3, <5>1, <5>2
      <4> QED BY <4>1, <4>2
    <3> QED BY <2>3, <3>2, <3>5, <3>6
  <2>7. ASSUME NEW t \in P
        PROVE  FateOf(s, t)' = IF \A u \in P : u <= t THEN "due" ELSE "skipped"
    <3>1. s \in Occurring /\ t \in B /\ t \in Grid
      BY <2>4, <2>7 DEF P, A
    <3>2. Due(s).last \in B /\ \A u \in B : u <= Due(s).last
      BY <2>1, <3>1, DueFacts DEF Occurring
    <3>3. \A u \in B : u \in Int
      BY <2>3 DEF Between
    <3>4. t = Due(s).last <=> \A u \in B : u <= t
      BY <3>1, <3>2, <3>3
    <3>5. FateOf(s, t)' = IF t = Due(s).last THEN "due" ELSE "skipped"
      BY <3>1, PlanFates
    <3> HIDE DEF B
    <3> QED BY <2>4, <3>1, <3>4, <3>5
  <2>8. ASSUME NEW t \in Grid \ P
        PROVE  FateOf(s, t)' = IF P # {} /\ FateOf(s, t) = "due" THEN "skipped" ELSE FateOf(s, t)
    <3>1. CASE s \notin Occurring
      BY <2>4, <3>1, PlanFates
    <3>2. CASE s \in Occurring
      <4>1. B # {} /\ t \notin B
        BY <2>1, <2>4, <2>8, <3>2, PlanPasses
      <4>2. FateOf(s, t)' = IF FateOf(s, t) = "due" THEN "skipped" ELSE FateOf(s, t)
        BY <3>2, <4>1, PlanFates
      <4> HIDE DEF B
      <4> QED BY <2>4, <3>2, <4>1, <4>2
    <3> QED BY <3>1, <3>2
  <2>9. Fates!Ahead(s) = A
    BY DEF Fates!Ahead, A
  <2>10. {t \in Fates!Ahead(s) : fate'[s][t] # "ahead"} = P
    BY <1>2, <2>9 DEF P, A
  <2>11. \A t \in Grid : fate[s][t] = FateOf(s, t) /\ fate'[s][t] = FateOf(s, t)'
    BY <1>2
  <2>12. P \subseteq Grid
    BY DEF P, A
  <2>13. \A t \in P : fate'[s][t] = IF \A u \in P : u <= t THEN "due" ELSE "skipped"
    BY <2>7, <2>11, <2>12
  <2>14. \A t \in Grid \ P :
            fate'[s][t] = IF P # {} /\ fate[s][t] = "due" THEN "skipped" ELSE fate[s][t]
    BY <2>8, <2>11
  <2>15. \A v \in A \ P : \A t \in P : v < t => \A u \in K \cup P : v < u
    BY <2>6
  <2>16. K = Grid \ Fates!Ahead(s)
    BY <2>9 DEF K
  <2> HIDE DEF B
  <2> QED
    BY <2>5, <2>9, <2>10, <2>13, <2>14, <2>15, <2>16 DEF Fates!PassBy
<1> QED BY <1>1, <1>3 DEF Fates!Plan

\* Every step of the tables is one of the fates, or none.
LEMMA StepIsFateStep ==
    ASSUME CronInv, [Next]_vars
    PROVE  [Fates!Next]_(Fates!occurrences)
<1>1. CronInv'
  BY NextInv
<1>2. ASSUME UNCHANGED <<schedules, runs>> PROVE UNCHANGED Fates!occurrences
  <2>1. UNCHANGED <<start, cursor, pending, rstate, token, left>>
    BY <1>2 DEF schedules, runs
  <2> SUFFICES ASSUME NEW s \in Schedule, NEW t \in Occurrences[s] PROVE SameFate(s, t)
    BY FatesStutter
  <2>2. FateOf(s, t)' = FateOf(s, t)
    BY <1>1, <2>1, OthersKept
  <2> QED BY <2>1, <2>2 DEF SameFate, HolderOf
<1>3. ASSUME NEW b \in Boundaries, Register(b) PROVE UNCHANGED Fates!occurrences
  BY <1>1, <1>3, RegisterStutters
<1>4. CASE Plan
  BY <1>1, <1>4, PlanIsPlan DEF Fates!Next
<1>5. ASSUME NEW r \in Run, NEW s \in Schedule, NEW t \in Time, Exhaust(r, s, t)
      PROVE  Fates!Next
  BY <1>1, <1>5, ExhaustIsGiveUp
<1>6. ASSUME NEW r \in Run, NEW s \in Schedule, NEW t \in Time, NEW k \in Token,
             Claim(r, s, t, k)
      PROVE  Fates!Next
  BY <1>1, <1>6, ClaimIsTake
<1>7. ASSUME NEW r \in Run, Settle(r) PROVE [Fates!Next]_(Fates!occurrences)
  BY <1>1, <1>7, SettleIsFinish
<1>8. CASE Tick
  BY <1>1, <1>8, TickIsLapse
<1>9. ASSUME NEW r \in Run, HandlerEnds(r) \/ Abort(r) \/ HandlerExits(r) \/ SettleFails(r)
      PROVE  UNCHANGED Fates!occurrences
  BY <1>2, <1>9 DEF HandlerEnds, Abort, HandlerExits, SettleFails
<1>10. ASSUME NEW p \in Process, Crash(p) PROVE UNCHANGED Fates!occurrences
  BY <1>2, <1>10 DEF Crash
<1>11. CASE UNCHANGED vars
  BY <1>2, <1>11 DEF vars
<1> QED BY <1>3, <1>4, <1>5, <1>6, <1>7, <1>8, <1>9, <1>10, <1>11 DEF Next

\* The tables keep what the occurrences promise: none is run twice to its
\* end, run after it was skipped, run while an earlier one of its schedule is,
\* or held by two; no more than MaxConcurrent are held.
THEOREM CronIsOccurrences == Spec => ImplementsOccurrences
<1>1. Init => Fates!Init
  <2> SUFFICES ASSUME Init PROVE Fates!Init
    OBVIOUS
  <2>1. \A s \in Schedule : \A t \in Occurrences[s] :
            FateOf(s, t) = "ahead" /\ HolderOf(s, t) = NoToken
    <3> SUFFICES ASSUME NEW s \in Schedule, NEW t \in Occurrences[s]
                 PROVE  FateOf(s, t) = "ahead" /\ HolderOf(s, t) = NoToken
      OBVIOUS
    <3>1. t \in Time
      BY OccurrenceTimes
    <3>2. start = Never /\ left[s][t] = 0
      BY <3>1 DEF Init
    <3> QED BY <3>2 DEF FateOf, HolderOf
  <2> QED BY <2>1 DEF Fates!Init
<1>2. CronInv /\ [Next]_vars => [Fates!Next]_(Fates!occurrences)
  BY StepIsFateStep
<1> QED BY <1>1, <1>2, InductiveInvariant, PTL DEF Spec, ImplementsOccurrences, Fates!Spec
=============================================================================
