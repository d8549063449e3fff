----------------------------- MODULE MCSyncLane -----------------------------
(* One pass of two chunks. *)
EXTENDS SyncLane, TLC
CONSTANTS m1, m2, c1, c2, p1, h1, h2

MCPassOf == c1 :> p1 @@ c2 :> p1
MCRows == c1 :> 1 @@ c2 :> 2
MCChunkOf == m1 :> c1 @@ m2 :> c2
MCDeadLetter == Main :> Dead @@ Dead :> NoQueue
MCMaxHolders == Main :> 1 @@ Dead :> 1
MCMaxRetries == Main :> 1 @@ Dead :> 1
=============================================================================
