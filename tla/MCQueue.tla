------------------------------ MODULE MCQueue -------------------------------
(* Queue with two jobs, buckets of two cells and a queue that starts with   *)
(* one bucket, so that it grows to three and rotates in every position.     *)
EXTENDS Queue
=============================================================================
