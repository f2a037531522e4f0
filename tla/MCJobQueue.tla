----------------------------- MODULE MCJobQueue -----------------------------
(* TLC instances of JobQueue: a few customers, one of them with a burst. *)
EXTENDS JobQueue, TLC

CONSTANTS j1, j2, j3, alice, bob, w1, w2

\* alice submits a burst of two reads, bob a single one.
MCTenantOf == j1 :> alice @@ j2 :> alice @@ j3 :> bob

\* One of alice's jobs has a retry (the reads of the product have none).
MCRetries == j1 :> 1 @@ j2 :> 0 @@ j3 :> 0
=============================================================================
