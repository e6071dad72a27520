--------------------------- MODULE MCLocalLedger ---------------------------
(***************************************************************************)
(* Two purchases on one file: four appends, which overlap, collide and     *)
(* fail in every way.                                                      *)
(***************************************************************************)
EXTENDS LocalLedger

CONSTANTS r1, r2

MCKind == [r \in Requests |-> "transaction"]
=============================================================================
