--------------------------- MODULE PayoutContract ---------------------------
(***************************************************************************)
(* What a payout worker promises, seen from where the money goes: an item  *)
(* that it tried to pay is not tried again before it is settled -- and     *)
(* then never -- or a fault made the worker forget that it had tried.  So  *)
(* every payment but the first costs a fault.                              *)
(***************************************************************************)
EXTENDS Naturals

CONSTANT Items

VARIABLES
    sent,           \* how often the payment of each item was accepted
    tried,          \* the items tried and not settled
    settled,        \* the items that have their outcome
    faults          \* the crashes and lost calls so far

contractVars == <<sent, tried, settled, faults>>

ContractInit ==
    /\ sent = [i \in Items |-> 0]
    /\ tried = {} /\ settled = {}
    /\ faults = 0

\* Accepted or refused; the answer may get lost.
Try(i) ==
    /\ i \notin tried \cup settled
    /\ tried' = tried \cup {i}
    /\ sent' \in {sent, [sent EXCEPT ![i] = @ + 1]}
    /\ faults' \in {faults, faults + 1}
    /\ UNCHANGED settled

\* By this worker, or by another one.
Settle(S) ==
    /\ settled' = settled \cup S
    /\ tried' = tried \ S
    /\ UNCHANGED <<sent, faults>>

\* What others settled meanwhile is not forgotten.
Forget(S, T) ==
    /\ faults' = faults + 1
    /\ tried' = tried \ S
    /\ settled' = settled \cup T
    /\ UNCHANGED sent

ContractNext ==
    \/ \E i \in Items : Try(i)
    \/ \E S \in SUBSET Items : Settle(S)
    \/ \E S, T \in SUBSET Items : Forget(S, T)

ContractSpec == ContractInit /\ [][ContractNext]_contractVars
=============================================================================
