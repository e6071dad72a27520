--------------------------- MODULE MCTransactions ---------------------------
(***************************************************************************)
(* Up to three calls with one header key (one purchase, retried) and one   *)
(* call without a header, which the hash of its payload identifies.        *)
(***************************************************************************)
EXTENDS Transactions

CONSTANTS r1, r2, r3, r4, k1, k2

MCHeader == [r \in Requests |-> IF r = r4 THEN NoHeader ELSE k1]
MCHash == [r \in Requests |-> k2]
MCBank == Requests \cap {r2, r4}
=============================================================================
