--------------------------- MODULE MCPayoutWorker ---------------------------
(***************************************************************************)
(* Two runs that may overlap, three rows: one that is not in dry_run mode, *)
(* and -- in the runs that set Foreign -- one with the target that         *)
(* routes.py.fix writes.                                                   *)
(***************************************************************************)
EXTENDS PayoutWorker

CONSTANTS w1, w2, Foreign

MCTarget == [r \in Rows |-> IF r \in Foreign THEN "crypto_send" ELSE "crypto"]
=============================================================================
