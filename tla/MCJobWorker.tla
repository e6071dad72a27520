---------------------------- MODULE MCJobWorker ----------------------------
(***************************************************************************)
(* A worker of each kind on the same backend, two faults for each: enough  *)
(* for a lost report to be followed by another one on the same job, and    *)
(* for both workers to hold a stale copy of it.  The second job stops the  *)
(* older worker, the third one both.                                       *)
(***************************************************************************)
EXTENDS JobWorker

CONSTANTS w1, w2
=============================================================================
