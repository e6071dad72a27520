-------------------------- MODULE StripeSettlement --------------------------
(***************************************************************************)
(* From a Stripe payment to its settlement: /stripe/authorize and          *)
(* /stripe/webhook of BROKEN_main.py write rows to the outbox, runs of     *)
(* settlement_worker.py mark those with the target "settlement", and       *)
(* payments_status.py tells how far a payment is.                          *)
(*                                                                         *)
(* As committed, the rows of the "parallel path" stand behind the end of   *)
(* the webhook, outside of any function.  Which rows an event writes is    *)
(* therefore a parameter of a behaviour, targets: those of the handler, or *)
(* those of the block that was to go in their place.                       *)
(*                                                                         *)
(* Stripe delivers an event again until it is acknowledged, and perhaps    *)
(* after that; each delivery has its row.                                  *)
(***************************************************************************)
EXTENDS Naturals, FiniteSets

CONSTANTS
    Intents,        \* the payments
    Deliveries,     \* the calls of the webhook
    Of,             \* the payment each delivery is about
    Runs,           \* overlapping runs of the settlement worker
    Limit           \* rows of a batch (10 in the code)

ASSUME StripeAssumption ==
    /\ Of \in [Deliveries -> Intents]
    /\ Limit \in Nat \ {0}

VARIABLES
    targets,        \* the rows an event writes; never changes
    intent,         \* Stripe's state of each payment
    told,           \* what /stripe/authorize answered
    hook,           \* where each delivery is
    at,             \* created_at of its rows
    clock,
    row,            \* the status of the rows of each delivery
    batch           \* the settlement rows each run of the worker read

vars == <<targets, intent, told, hook, at, clock, row, batch>>
stripe == <<targets, intent, told>>
webhook == <<hook, at, clock>>

\* The row of the handler, and those of the block behind it.
HandlerTargets == {"crypto_payout"}
BlockTargets == {"settlement", "crypto_payout"}

TypeOK ==
    /\ targets \in {HandlerTargets, BlockTargets}
    /\ intent \in [Intents -> {"none", "pending", "succeeded", "failed"}]
    /\ told \in [Intents -> {"none", "approved", "error"}]
    /\ hook \in [Deliveries -> {"idle", "open", "committed", "acked", "ended"}]
    /\ at \in [Deliveries -> Nat]
    /\ clock \in Nat
    /\ row \in [Deliveries -> [BlockTargets -> {"none", "PENDING", "PROCESSED"}]]
    /\ batch \in [Runs -> SUBSET Deliveries]

Init ==
    /\ targets \in {HandlerTargets, BlockTargets}
    /\ intent = [i \in Intents |-> "none"]
    /\ told = [i \in Intents |-> "none"]
    /\ hook = [d \in Deliveries |-> "idle"]
    /\ at = [d \in Deliveries |-> 0]
    /\ clock = 0
    /\ row = [d \in Deliveries |-> [t \in BlockTargets |-> "none"]]
    /\ batch = [w \in Runs |-> {}]
-----------------------------------------------------------------------------
(***************************************************************************)
(* /stripe/authorize, and Stripe.                                          *)
(***************************************************************************)
\* The intent's status is not looked at: whatever was created is approved.
Authorize(i) ==
    /\ told[i] = "none"
    /\ \E s \in {"pending", "succeeded"} : intent' = [intent EXCEPT ![i] = s]
    /\ told' = [told EXCEPT ![i] = "approved"]
    /\ UNCHANGED <<targets, webhook, row, batch>>

\* Stripe is disabled, refuses, or its answer is lost.
AuthorizeFails(i) ==
    /\ told[i] = "none"
    /\ \E s \in {"none", "failed", "pending", "succeeded"} :
           intent' = [intent EXCEPT ![i] = s]
    /\ told' = [told EXCEPT ![i] = "error"]
    /\ UNCHANGED <<targets, webhook, row, batch>>

StripeDecides(i) ==
    /\ intent[i] = "pending"
    /\ \E s \in {"succeeded", "failed"} : intent' = [intent EXCEPT ![i] = s]
    /\ UNCHANGED <<targets, told, webhook, row, batch>>
-----------------------------------------------------------------------------
(***************************************************************************)
(* /stripe/webhook.                                                        *)
(***************************************************************************)
Goes(d, place) == hook' = [hook EXCEPT ![d] = place]

\* Mutant: every event of a payment is taken for its success.
BeginAny(d) ==
    /\ hook[d] = "idle"
    /\ intent[Of[d]] # "none"
    /\ Goes(d, "open")
    /\ clock' = clock + 1
    /\ at' = [at EXCEPT ![d] = clock + 1]
    /\ UNCHANGED <<stripe, row, batch>>

\* payment_intent.succeeded, signed by Stripe.
Begin(d) ==
    /\ hook[d] = "idle"
    /\ intent[Of[d]] = "succeeded"
    /\ Goes(d, "open")
    /\ clock' = clock + 1
    /\ at' = [at EXCEPT ![d] = clock + 1]
    /\ UNCHANGED <<stripe, row, batch>>

\* A bad signature is a 400, any other event is acknowledged and forgotten.
Ignore(d) ==
    /\ hook[d] = "idle"
    /\ Goes(d, "ended")
    /\ UNCHANGED <<stripe, at, clock, row, batch>>

Commit(d) ==
    /\ hook[d] = "open"
    /\ row' = [row EXCEPT ![d] =
           [t \in BlockTargets |-> IF t \in targets THEN "PENDING" ELSE "none"]]
    /\ Goes(d, "committed")
    /\ UNCHANGED <<stripe, at, clock, batch>>

Acknowledge(d) ==
    /\ hook[d] = "committed"
    /\ Goes(d, "acked")
    /\ UNCHANGED <<stripe, at, clock, row, batch>>

\* The commit fails, or the backend dies before or after it: no 200.
HookFails(d) ==
    /\ hook[d] \in {"open", "committed"}
    /\ Goes(d, "ended")
    /\ UNCHANGED <<stripe, at, clock, row, batch>>
-----------------------------------------------------------------------------
(***************************************************************************)
(* run_once of the settlement worker, without locks and with one commit.   *)
(***************************************************************************)
Pending == {d \in Deliveries : row[d]["settlement"] = "PENDING"}

Oldest(ds) == {d \in ds : Cardinality({e \in ds : at[e] < at[d]}) < Limit}

\* Mutant: only a full batch is read.
ReadFull(w) ==
    /\ batch[w] = {}
    /\ Cardinality(Pending) >= Limit
    /\ batch' = [batch EXCEPT ![w] = Oldest(Pending)]
    /\ UNCHANGED <<stripe, webhook, row>>

Read(w) ==
    /\ batch[w] = {}
    /\ Pending # {}
    /\ batch' = [batch EXCEPT ![w] = Oldest(Pending)]
    /\ UNCHANGED <<stripe, webhook, row>>

Mark(w, status) ==
    row' = [d \in Deliveries |->
        IF d \in batch[w] THEN [row[d] EXCEPT !["settlement"] = status] ELSE row[d]]

MarkProcessed(w) ==
    /\ batch[w] # {}
    /\ Mark(w, "PROCESSED")
    /\ batch' = [batch EXCEPT ![w] = {}]
    /\ UNCHANGED <<stripe, webhook>>

\* Mutant: a run that fails writes back the status it read.
RunDiesRestoring(w) ==
    /\ batch[w] # {}
    /\ Mark(w, "PENDING")
    /\ batch' = [batch EXCEPT ![w] = {}]
    /\ UNCHANGED <<stripe, webhook>>

RunDies(w) ==
    /\ batch[w] # {}
    /\ batch' = [batch EXCEPT ![w] = {}]
    /\ UNCHANGED <<stripe, webhook, row>>
-----------------------------------------------------------------------------
(***************************************************************************)
(* /payments/{id}/status: the newest settlement row of the payment.        *)
(***************************************************************************)
\* Mutant: the rows are not filtered by target.
RowsAnyTarget(i) ==
    {d \in Deliveries : Of[d] = i /\ \E t \in BlockTargets : row[d][t] # "none"}

\* A payment without such a row is a 404.
SettlementRows(i) == {d \in Deliveries : Of[d] = i /\ row[d]["settlement"] # "none"}

Newest(i) == {d \in SettlementRows(i) : \A e \in SettlementRows(i) : at[e] <= at[d]}
Status(i, s) == \E d \in Newest(i) : row[d]["settlement"] = s

WebhookStep(d) ==
    Begin(d) \/ Ignore(d) \/ Commit(d) \/ Acknowledge(d) \/ HookFails(d)

Next ==
    \/ \E i \in Intents : Authorize(i) \/ AuthorizeFails(i) \/ StripeDecides(i)
    \/ \E d \in Deliveries : WebhookStep(d)
    \/ \E w \in Runs : Read(w) \/ MarkProcessed(w) \/ RunDies(w)

Spec == Init /\ [][Next]_vars
-----------------------------------------------------------------------------
\* The rows of an event are written together or not at all, whatever fails: an
\* acknowledged success has them all, and only a payment that succeeded has any.
RowsOfEvent ==
    \A d \in Deliveries :
        LET written == {t \in BlockTargets : row[d][t] # "none"} IN
            /\ written \in {{}, targets}
            /\ hook[d] = "acked" => written = targets
            /\ written # {} => intent[Of[d]] = "succeeded"

\* The status of a payment goes back only when the rows of another delivery of it
\* appear: overlapping and dying runs of the worker never undo one another.
BackOnlyByRedelivery ==
    [][\A i \in Intents :
          Status(i, "PROCESSED") /\ ~Status(i, "PROCESSED")' =>
              SettlementRows(i)' # SettlementRows(i)]_vars

\* Where the webhook writes settlement rows an acknowledged success has a status;
\* with the row of the handler as committed none ever has one.
StatusIffTarget ==
    \A d \in Deliveries :
        hook[d] = "acked" => (SettlementRows(Of[d]) # {} <=> "settlement" \in targets)

\* If runs of the worker are started again and again and do not die for ever, every
\* settlement row is processed, however many come later.
RowsAreProcessed ==
    (\A w \in Runs : WF_vars(Read(w)) /\ SF_vars(MarkProcessed(w)))
        => \A d \in Deliveries : d \in Pending ~> d \notin Pending
=============================================================================
