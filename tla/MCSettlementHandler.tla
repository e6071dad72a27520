------------------------ MODULE MCSettlementHandler ------------------------
(***************************************************************************)
(* Four deliveries: a response and its duplicate -- so that the store of   *)
(* one overflows --, one that is declined, and a settlement handed to      *)
(* payout_handler.py.                                                      *)
(***************************************************************************)
EXTENDS SettlementHandler

CONSTANTS d1, d2, d3, d4, k1, k2

MCKey == [d \in Deliveries |-> IF d \in {d1, d2} THEN k1 ELSE IF d = d3 THEN NoKey ELSE k2]
=============================================================================
