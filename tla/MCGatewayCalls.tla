--------------------------- MODULE MCGatewayCalls ---------------------------
(***************************************************************************)
(* Two calls: two payouts, which share the event loop, or two calls that   *)
(* share nothing, so that every kind occurs.                               *)
(***************************************************************************)
EXTENDS GatewayCalls
CONSTANTS c1, c2

Mix(k, l) == [c \in Calls |-> IF c = c1 THEN k ELSE l]
MCMixes == {Mix("payout", "payout"), Mix("forward", "proxy"), Mix("sim", "patch"),
            Mix("codec", "job")}
=============================================================================
