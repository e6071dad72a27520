------------------------- MODULE MCStripeSettlement -------------------------
(***************************************************************************)
(* Two payments, three deliveries, two of them of the same payment, two    *)
(* runs of the worker with batches of at most two: a third row waits.      *)
(***************************************************************************)
EXTENDS StripeSettlement
CONSTANTS i1, i2, d1, d2, d3, w1, w2

MCOf == [d \in Deliveries |-> IF d = d3 THEN i2 ELSE i1]
=============================================================================
