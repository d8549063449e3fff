---------------------------- MODULE MCRawCapture ----------------------------
(* Two ticks and two endpoints, one of which has pruned the first heights. *)
EXTENDS RawCapture, TLC

MCOldest == "near" :> Floor + 1 @@ "archive" :> Floor
=============================================================================
