-------------------------- MODULE PurchaseContract --------------------------
(***************************************************************************)
(* What the transaction endpoint promises to a merchant, seen from outside *)
(* the database: a purchase is identified by its idempotency key and is    *)
(* opened at most once; an open purchase is either paid (a payout is       *)
(* queued, once) or closed, never both and never again; and the merchant   *)
(* is told "approved" only of a purchase that is paid.                     *)
(***************************************************************************)
CONSTANT Keys       \* idempotency keys

VARIABLES
    opened,         \* keys of the purchases that were opened
    paid,           \* keys with a payout queued
    closed,         \* keys refused or failed
    told            \* keys some caller was told are approved

contractVars == <<opened, paid, closed, told>>

ContractInit == opened = {} /\ paid = {} /\ closed = {} /\ told = {}

Open(k) ==
    /\ k \notin opened
    /\ opened' = opened \cup {k}
    /\ UNCHANGED <<paid, closed, told>>

Pay(k) ==
    /\ k \in opened \ (paid \cup closed)
    /\ paid' = paid \cup {k}
    /\ UNCHANGED <<opened, closed, told>>

Close(k) ==
    /\ k \in opened \ (paid \cup closed)
    /\ closed' = closed \cup {k}
    /\ UNCHANGED <<opened, paid, told>>

Tell(k) ==
    /\ k \in paid
    /\ told' = told \cup {k}
    /\ UNCHANGED <<opened, paid, closed>>

ContractNext == \E k \in Keys : Open(k) \/ Pay(k) \/ Close(k) \/ Tell(k)

ContractSpec == ContractInit /\ [][ContractNext]_contractVars
=============================================================================
