-------------------------- MODULE CaptureFrontier --------------------------
(***************************************************************************)
(* What a gap-free capture promises to whoever reads its watermark: bytes  *)
(* become durable in any order and are never lost again, and the watermark *)
(* moves forward only, over heights that are all durable.                  *)
(***************************************************************************)
EXTENDS Integers

CONSTANTS Floor, \* the first height to capture
          Height \* every height there is

VARIABLES durable, \* the heights whose bytes are stored
          mark     \* the last height the watermark claims, or Floor - 1

frontier == <<durable, mark>>

Init == durable = {} /\ mark = Floor - 1

Land(H) ==
    /\ durable' = durable \cup H
    /\ UNCHANGED mark

Advance(m) ==
    /\ m > mark
    /\ Floor .. m \subseteq durable
    /\ mark' = m
    /\ UNCHANGED durable

Next == (\E H \in SUBSET Height : Land(H)) \/ (\E m \in Height : Advance(m))

Spec == Init /\ [][Next]_frontier
=============================================================================
