--------------------------- MODULE MCNativeProcess ---------------------------
(* One queue of concurrency two: a third operation can only come after one. *)
EXTENDS NativeProcess
CONSTANT queue

MCKeyOf == [o \in Op |-> queue]
MCMaxConcurrent == [k \in Key |-> 2]
MCLoopKey == [l \in Loop |-> queue]
=============================================================================
