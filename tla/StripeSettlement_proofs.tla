----------------------- MODULE StripeSettlement_proofs -----------------------
(***************************************************************************)
(* What the webhook writes and the worker marks, for any number of         *)
(* payments, deliveries and runs, and any limit of a batch.                *)
(*                                                                         *)
(* RowsOfEvent needs to know when rows may exist: not before the commit    *)
(* (RowsAreWritten), only of a payment that succeeded for good             *)
(* (SucceededStays), and never by the worker, whose batches hold only rows *)
(* that are there (BatchesExist).                                          *)
(***************************************************************************)
EXTENDS StripeSettlement, TLAPS

NoRows(d) == \A t \in BlockTargets : row[d][t] = "none"
AllRows(d) == \A t \in BlockTargets : row[d][t] # "none" <=> t \in targets

RowsAreWritten ==
    \A d \in Deliveries :
        /\ NoRows(d) \/ AllRows(d)
        /\ hook[d] \in {"idle", "open"} => NoRows(d)
        /\ hook[d] \in {"committed", "acked"} => AllRows(d)

SucceededStays ==
    /\ \A i \in Intents : told[i] = "none" => intent[i] = "none"
    /\ \A d \in Deliveries :
          hook[d] = "open" \/ ~NoRows(d) => intent[Of[d]] = "succeeded"

BatchesExist ==
    \A w \in Runs : \A d \in batch[w] : row[d]["settlement"] # "none"

IInv == TypeOK /\ RowsAreWritten /\ SucceededStays /\ BatchesExist

LEMMA InitIInv == Init => IInv
BY StripeAssumption
   DEF Init, IInv, TypeOK, RowsAreWritten, SucceededStays, BatchesExist, NoRows,
       HandlerTargets, BlockTargets

LEMMA TypeStep == TypeOK /\ [Next]_vars => TypeOK'
<1> SUFFICES ASSUME TypeOK, [Next]_vars
             PROVE  TypeOK'
  OBVIOUS
<1> USE StripeAssumption DEF TypeOK, stripe, webhook, Goes, HandlerTargets, BlockTargets
<1>1. ASSUME NEW i \in Intents, Authorize(i) \/ AuthorizeFails(i) \/ StripeDecides(i)
      PROVE  TypeOK'
  <2>1. CASE Authorize(i)
    BY <2>1 DEF Authorize
  <2>2. CASE AuthorizeFails(i)
    BY <2>2 DEF AuthorizeFails
  <2>3. CASE StripeDecides(i)
    BY <2>3 DEF StripeDecides
  <2> QED
    BY <1>1, <2>1, <2>2, <2>3
<1>2. ASSUME NEW d \in Deliveries, Begin(d) \/ Ignore(d) \/ Acknowledge(d) \/ HookFails(d)
      PROVE  TypeOK'
  <2>1. CASE Begin(d)
    BY <2>1 DEF Begin
  <2>2. CASE Ignore(d)
    BY <2>2 DEF Ignore
  <2>3. CASE Acknowledge(d)
    BY <2>3 DEF Acknowledge
  <2>4. CASE HookFails(d)
    BY <2>4 DEF HookFails
  <2> QED
    BY <1>2, <2>1, <2>2, <2>3, <2>4
<1>3. ASSUME NEW d \in Deliveries, Commit(d)
      PROVE  TypeOK'
  BY <1>3 DEF Commit
<1>4. ASSUME NEW w \in Runs, Read(w) \/ RunDies(w)
      PROVE  TypeOK'
  <2>1. CASE Read(w)
    BY <2>1 DEF Read, Oldest, Pending
  <2>2. CASE RunDies(w)
    BY <2>2 DEF RunDies
  <2> QED
    BY <1>4, <2>1, <2>2
<1>5. ASSUME NEW w \in Runs, MarkProcessed(w)
      PROVE  TypeOK'
  BY <1>5 DEF MarkProcessed, Mark, BlockTargets
<1>6. CASE UNCHANGED vars
  BY <1>6 DEF vars
<1> QED
  BY <1>1, <1>2, <1>3, <1>4, <1>5, <1>6 DEF Next, WebhookStep

\* A commit writes all rows of an event, of a payment that succeeded; nothing
\* else adds a row.
LEMMA RowsStep ==
    ASSUME IInv, TypeOK', [Next]_vars
    PROVE  RowsAreWritten' /\ SucceededStays' /\ BatchesExist'
<1> USE StripeAssumption
    DEF IInv, TypeOK, stripe, webhook, Goes, RowsAreWritten, SucceededStays, BatchesExist,
        NoRows, AllRows
<1>1. ASSUME NEW i \in Intents, Authorize(i) \/ AuthorizeFails(i) \/ StripeDecides(i)
      PROVE  RowsAreWritten' /\ SucceededStays' /\ BatchesExist'
  <2>1. UNCHANGED <<targets, hook, row, batch>>
    BY <1>1 DEF Authorize, AuthorizeFails, StripeDecides
  <2>2. \A k \in Intents : intent[k] = "succeeded" => intent'[k] = "succeeded"
    BY <1>1 DEF Authorize, AuthorizeFails, StripeDecides
  <2>3. \A k \in Intents : told'[k] = "none" => intent'[k] = "none"
    BY <1>1 DEF Authorize, AuthorizeFails, StripeDecides
  <2>4. RowsAreWritten' /\ BatchesExist'
    BY <2>1
  <2>5. SucceededStays'
    BY <2>1, <2>2, <2>3
  <2> QED
    BY <2>4, <2>5
<1>2. ASSUME NEW d \in Deliveries, Begin(d) \/ Ignore(d) \/ Acknowledge(d) \/ HookFails(d)
      PROVE  RowsAreWritten' /\ SucceededStays' /\ BatchesExist'
  <2>1. UNCHANGED <<targets, intent, told, row, batch>>
    BY <1>2 DEF Begin, Ignore, Acknowledge, HookFails
  <2>2. \A e \in Deliveries : e # d => hook'[e] = hook[e]
    BY <1>2 DEF Begin, Ignore, Acknowledge, HookFails
  <2>3. \/ hook[d] = "idle" /\ hook'[d] = "ended"
        \/ hook[d] = "idle" /\ hook'[d] = "open" /\ intent[Of[d]] = "succeeded"
        \/ hook[d] = "committed" /\ hook'[d] = "acked"
        \/ hook'[d] = "ended"
    BY <1>2 DEF Begin, Ignore, Acknowledge, HookFails
  <2>4. RowsAreWritten'
    BY <2>1, <2>2, <2>3
  <2>5. SucceededStays'
    BY <2>1, <2>2, <2>3
  <2> QED
    BY <2>1, <2>4, <2>5
<1>3. ASSUME NEW d \in Deliveries, Commit(d)
      PROVE  RowsAreWritten' /\ SucceededStays' /\ BatchesExist'
  <2>1. \A e \in Deliveries : e # d => row'[e] = row[e] /\ hook'[e] = hook[e]
    BY <1>3 DEF Commit
  <2>2. AllRows(d)' /\ hook'[d] = "committed"
    BY <1>3 DEF Commit
  <2>3. \A w \in Runs : d \notin batch[w]
    BY <1>3 DEF Commit, BlockTargets
  <2> QED
    BY <1>3, <2>1, <2>2, <2>3 DEF Commit
<1>4. ASSUME NEW w \in Runs, Read(w) \/ RunDies(w)
      PROVE  RowsAreWritten' /\ SucceededStays' /\ BatchesExist'
  <2>1. UNCHANGED <<targets, intent, told, hook, row>>
    BY <1>4 DEF Read, RunDies
  <2>2. RowsAreWritten' /\ SucceededStays'
    BY <2>1
  <2>3. BatchesExist'
    <3>1. \A v \in Runs : batch'[v] \subseteq batch[v] \cup Pending
      <4>1. Oldest(Pending) \subseteq Pending
        BY DEF Oldest
      <4>2. CASE Read(w)
        BY <4>1, <4>2 DEF Read
      <4>3. CASE RunDies(w)
        BY <4>3 DEF RunDies
      <4> QED
        BY <1>4, <4>2, <4>3
    <3>2. \A e \in Pending : row[e]["settlement"] # "none"
      BY DEF Pending
    <3> QED
      BY <2>1, <3>1, <3>2
  <2> QED
    BY <2>2, <2>3
<1>5. ASSUME NEW w \in Runs, MarkProcessed(w)
      PROVE  RowsAreWritten' /\ SucceededStays' /\ BatchesExist'
  <2>1. \A e \in Deliveries, t \in BlockTargets : row'[e][t] = "none" <=> row[e][t] = "none"
    BY <1>5 DEF MarkProcessed, Mark, BlockTargets
  <2>2. UNCHANGED <<targets, intent, told, hook>>
    BY <1>5 DEF MarkProcessed
  <2>3. \A e \in Deliveries : (NoRows(e)' <=> NoRows(e)) /\ (AllRows(e)' <=> AllRows(e))
    BY <2>1, <2>2
  <2>4. RowsAreWritten' /\ SucceededStays'
    <3> HIDE DEF NoRows, AllRows
    <3> QED
      BY <2>2, <2>3
  <2>5. BatchesExist'
    <3>1. \A v \in Runs : batch'[v] \subseteq batch[v]
      BY <1>5 DEF MarkProcessed
    <3>2. \A e \in Deliveries : row[e]["settlement"] # "none" => row'[e]["settlement"] # "none"
      BY <2>1 DEF BlockTargets
    <3> SUFFICES ASSUME NEW v \in Runs, NEW e \in batch'[v]
                 PROVE  row'[e]["settlement"] # "none"
      OBVIOUS
    <3>3. e \in batch[v] /\ e \in Deliveries
      BY <3>1
    <3> QED
      BY <3>2, <3>3
  <2> QED
    BY <2>4, <2>5
<1>6. CASE UNCHANGED vars
  BY <1>6 DEF vars
<1> QED
  BY <1>1, <1>2, <1>3, <1>4, <1>5, <1>6 DEF Next, WebhookStep

LEMMA Inductive == Spec => []IInv
<1>1. IInv /\ [Next]_vars => IInv'
  BY TypeStep, RowsStep DEF IInv
<1> QED
  BY InitIInv, <1>1, PTL DEF Spec

\* A processed row stays processed, and a row keeps its place in the order.
LEMMA ProcessedStays ==
    ASSUME IInv, [Next]_vars, NEW d \in Deliveries, row[d]["settlement"] # "none"
    PROVE  /\ row[d]["settlement"] = "PROCESSED" => row'[d]["settlement"] = "PROCESSED"
           /\ at'[d] = at[d]
<1> USE DEF IInv, TypeOK, stripe, webhook, Goes, RowsAreWritten, NoRows, BlockTargets
<1>1. ASSUME NEW i \in Intents, Authorize(i) \/ AuthorizeFails(i) \/ StripeDecides(i)
      PROVE  row'[d] = row[d] /\ at'[d] = at[d]
  BY <1>1 DEF Authorize, AuthorizeFails, StripeDecides
<1>2. ASSUME NEW e \in Deliveries, WebhookStep(e)
      PROVE  row'[d] = row[d] /\ at'[d] = at[d]
  BY <1>2 DEF WebhookStep, Begin, Ignore, Commit, Acknowledge, HookFails
<1>3. ASSUME NEW w \in Runs, Read(w) \/ MarkProcessed(w) \/ RunDies(w)
      PROVE  /\ row[d]["settlement"] = "PROCESSED" => row'[d]["settlement"] = "PROCESSED"
             /\ at'[d] = at[d]
  BY <1>3 DEF Read, MarkProcessed, RunDies, Mark
<1> QED
  BY <1>1, <1>2, <1>3 DEF Next, vars
-----------------------------------------------------------------------------
\* Type correctness of the Stripe path.
THEOREM TypeCorrect == Spec => []TypeOK
<1>1. IInv => TypeOK
  BY DEF IInv
<1> QED
  BY Inductive, <1>1, PTL

\* The rows of an event appear together, and only for a payment that succeeded.
THEOREM RowsOfEventInv == Spec => []RowsOfEvent
<1>1. IInv => RowsOfEvent
  BY DEF IInv, TypeOK, RowsAreWritten, SucceededStays, NoRows, AllRows, RowsOfEvent,
         HandlerTargets, BlockTargets
<1> QED
  BY Inductive, <1>1, PTL

\* An acknowledged success has a status exactly where the webhook writes
\* settlement rows.
THEOREM StatusIffTargetInv == Spec => []StatusIffTarget
<1>1. IInv => StatusIffTarget
  <2> SUFFICES ASSUME IInv, NEW d \in Deliveries, hook[d] = "acked"
               PROVE  SettlementRows(Of[d]) # {} <=> "settlement" \in targets
    BY DEF StatusIffTarget
  <2>1. \A e \in Deliveries : NoRows(e) \/ AllRows(e)
    BY DEF IInv, RowsAreWritten
  <2>2. AllRows(d)
    BY DEF IInv, RowsAreWritten
  <2> QED
    BY <2>1, <2>2 DEF SettlementRows, NoRows, AllRows, BlockTargets
<1> QED
  BY Inductive, <1>1, PTL

\* The status of a payment goes back only by a redelivery, however runs of the
\* worker overlap and die.
THEOREM BackOnlyByRedeliveryStep == Spec => BackOnlyByRedelivery
<1>1. ASSUME IInv, [Next]_vars, NEW i \in Intents,
             Status(i, "PROCESSED"), SettlementRows(i)' = SettlementRows(i)
      PROVE  Status(i, "PROCESSED")'
  <2>1. PICK d \in Newest(i) : row[d]["settlement"] = "PROCESSED"
    BY <1>1 DEF Status
  <2>2. \A e \in SettlementRows(i) : e \in Deliveries /\ at'[e] = at[e]
    BY <1>1, ProcessedStays DEF SettlementRows
  <2>3. d \in Newest(i)'
    BY <1>1, <2>1, <2>2 DEF Newest
  <2>4. row'[d]["settlement"] = "PROCESSED"
    BY <1>1, <2>1, <2>2, ProcessedStays DEF Newest
  <2> QED
    BY <2>3, <2>4 DEF Status
<1>2. IInv /\ [Next]_vars =>
        [\A i \in Intents :
            Status(i, "PROCESSED") /\ ~Status(i, "PROCESSED")' =>
                SettlementRows(i)' # SettlementRows(i)]_vars
  BY <1>1
<1> QED
  BY Inductive, <1>2, PTL DEF Spec, BackOnlyByRedelivery
=============================================================================
