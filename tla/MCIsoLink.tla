----------------------------- MODULE MCIsoLink -----------------------------
(***************************************************************************)
(* One call (calls share nothing: every attempt has its own connection and *)
(* thread), the attempts of each client as the files set them, and every   *)
(* combination of gateway, client and processor.                           *)
(***************************************************************************)
EXTENDS IsoLink
CONSTANT c1

MCMaxAttempts == [app |-> 3, to_patch |-> 3, root |-> 2]
=============================================================================
