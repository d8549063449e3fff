------------------------------ MODULE MCPgCron ------------------------------
(* Model values for TLC: days of two hours of two minutes of one tick, a     *)
(* schedule of every minute and one of a single minute of the day.           *)
EXTENDS PgCron, TLC

CONSTANTS frequent, daily, r1, r2, p1, p2, k1, k2, k3, k4

MCOffsetsOf ==
    frequent :> Offsets(Every(DayHours), EveryNth(HourMinutes, 2))
        @@ daily :> Offsets({0}, {1})
MCProcessOf == r1 :> p1 @@ r2 :> p2
MCOneProcess == r1 :> p1

Identities == Permutations({k1, k2, k3})
=============================================================================
