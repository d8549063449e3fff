------------------------------ MODULE MCPgQueue ------------------------------
(* Model values for TLC: a live queue with its dead letter queue, polled by  *)
(* two slots in different processes and one dead letter slot.                *)
EXTENDS PgQueue, TLC

CONSTANTS m1, m2, d1, d2, d3, d4, r1, r2, r3, p1, p2, live, dlq

MCQueueOf == (r1 :> live) @@ (r2 :> live) @@ (r3 :> dlq)
MCProcessOf == (r1 :> p1) @@ (r2 :> p2) @@ (r3 :> p1)
MCDeadLetter == (live :> dlq) @@ (dlq :> NoQueue)
MCMaxRetries == (live :> 1) @@ (dlq :> 0)
MCBatchSize == (live :> 2) @@ (dlq :> 1)
MCOneEach == (r1 :> live) @@ (r3 :> dlq)
MCOneProcess == (r1 :> p1) @@ (r3 :> p2)
MCSerial == (live :> 1) @@ (dlq :> 1)
MCSingle == (live :> 1) @@ (dlq :> 1)
MCMaxConcurrency == (live :> 2) @@ (dlq :> 1)

Identities == Permutations({m1, m2}) \cup Permutations({d1, d2, d3, d4})
==============================================================================
