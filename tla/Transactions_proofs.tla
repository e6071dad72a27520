------------------------- MODULE Transactions_proofs -------------------------
(***************************************************************************)
(* Proofs about the transaction handler, for any set of calls, any keys,   *)
(* and with or without the uniqueness constraint.                          *)
(*                                                                         *)
(* The safety properties are not inductive: whether a commit may touch a   *)
(* row depends on where its handler is, and whether two rows may share a   *)
(* key on what a handler past its lookup has and has not done.  RowOfPc    *)
(* ties the database to the program counters, OneRowPerKey the rows to     *)
(* the keys; with them the conjunction IInv is inductive.                  *)
(***************************************************************************)
EXTENDS Transactions, TLAPS

\* What the database holds of a request, by where its handler is.
RowOfPc ==
    \A r \in Requests :
        /\ pc[r] \in {"idle", "absent"} => status[r] = "NONE"
        /\ pc[r] = "inserted" => status[r] = "PENDING" /\ auth[r] = "unsent"
        /\ pc[r] = "waiting" => status[r] = "PENDING"
        /\ pc[r] = "answering" => status[r] \in {"APPROVED", "REJECTED"}
        /\ status[r] = "NONE" => auth[r] = "unsent"
        /\ status[r] \in {"NONE", "PENDING"} => de39[r] = NoCode

OneRowPerKey ==
    UniqueKey => \A r, s \in Rows : Key(r) = Key(s) => r = s

IInv == /\ TypeOK
        /\ RowOfPc
        /\ PayoutIffApproved
        /\ ApprovedWasAuthorized
        /\ ReplyTruthful
        /\ OneRowPerKey
-----------------------------------------------------------------------------
\* A reply is well typed, and says of a row only what the row says.
LEMMA ReplyType ==
    ASSUME TypeOK, NEW r \in Requests, NEW t \in Requests
    PROVE  Reply(r, t) \in Replies
BY DEF TypeOK, Reply, Replies

\* Normalising the gateway's answer always yields a response code.
LEMMA CodeType ==
    ASSUME NEW d, NEW g \in GatewayReplies(d)
    PROVE  De39(g) \in Codes
BY DEF GatewayReplies, De39, OrElse, Codes, NoCode

\* An answer counts as an approval only if it follows one.
LEMMA RefusalStays ==
    ASSUME NEW d, d # "approved", NEW g \in GatewayReplies(d)
    PROVE  ~Approved(g)
BY DEF GatewayReplies, Approved, De39, OrElse, Codes, NoCode

\* Updating a table at one row.
LEMMA UpdateType ==
    ASSUME NEW S, NEW f \in [Requests -> S], NEW r \in Requests, NEW v \in S
    PROVE  [f EXCEPT ![r] = v] \in [Requests -> S]
OBVIOUS

\* Queueing a row keeps both tables well typed.
LEMMA QueueType ==
    ASSUME TypeOK, NEW r \in Requests
    PROVE  /\ Append(payouts[r], PayoutType(r)) \in Seq({"BANK", "CRYPTO"})
           /\ Append(outbox[r], Target(PayoutType(r)))
                \in Seq({"iso20022", "crypto_send"})
<1>1. payouts[r] \in Seq({"BANK", "CRYPTO"})
  BY DEF TypeOK
<1>2. outbox[r] \in Seq({"iso20022", "crypto_send"})
  BY DEF TypeOK
<1>3. /\ PayoutType(r) \in {"BANK", "CRYPTO"}
      /\ Target(PayoutType(r)) \in {"iso20022", "crypto_send"}
  BY DEF PayoutType, Target
<1> QED
  BY <1>1, <1>2, <1>3
-----------------------------------------------------------------------------
LEMMA InitIInv == Init => IInv
BY DEF Init, IInv, TypeOK, RowOfPc, PayoutIffApproved, ApprovedWasAuthorized,
       ReplyTruthful, OneRowPerKey, Rows, NoCode, Running, Settled, Codes, Replies

\* Type correctness is inductive by itself.
LEMMA TypeStep == TypeOK /\ [Next]_vars => TypeOK'
<1> SUFFICES ASSUME TypeOK, [Next]_vars
             PROVE  TypeOK'
  OBVIOUS
<1> USE DEF TypeOK, Running, Settled
<1>1. ASSUME NEW r \in Requests, ReplayExisting(r)
      PROVE  TypeOK'
  BY <1>1, ReplyType DEF ReplayExisting, db, RowsFor, Rows
<1>2. ASSUME NEW r \in Requests, LookupMiss(r)
      PROVE  TypeOK'
  BY <1>2 DEF LookupMiss, db
<1>3. ASSUME NEW r \in Requests, InsertPending(r)
      PROVE  TypeOK'
  BY <1>3 DEF InsertPending
<1>4. ASSUME NEW r \in Requests, InsertConflict(r)
      PROVE  TypeOK'
  BY <1>4 DEF InsertConflict, db
<1>5. ASSUME NEW r \in Requests, CallGateway(r)
      PROVE  TypeOK'
  BY <1>5 DEF CallGateway, db
<1>6. ASSUME NEW r \in Requests, CommitOutcome(r)
      PROVE  TypeOK'
  <2>1. PICK g \in GatewayReplies(auth[r]) :
            /\ de39' = [de39 EXCEPT ![r] = De39(g)]
            /\ \/ /\ Approved(g)
                  /\ status' = [status EXCEPT ![r] = "APPROVED"]
                  /\ payouts' = [payouts EXCEPT ![r] = Append(@, PayoutType(r))]
                  /\ outbox' = [outbox EXCEPT ![r] = Append(@, Target(PayoutType(r)))]
               \/ /\ ~Approved(g)
                  /\ status' = [status EXCEPT ![r] = "REJECTED"]
                  /\ UNCHANGED <<payouts, outbox>>
    BY <1>6 DEF CommitOutcome
  <2>2. /\ pc' = [pc EXCEPT ![r] = "answering"]
        /\ UNCHANGED <<auth, replies>>
    BY <1>6 DEF CommitOutcome
  <2>3. payouts' \in [Requests -> Seq({"BANK", "CRYPTO"})]
    <3>1. [payouts EXCEPT ![r] = Append(payouts[r], PayoutType(r))]
            \in [Requests -> Seq({"BANK", "CRYPTO"})]
      BY QueueType, UpdateType
    <3> QED
      BY <2>1, <3>1
  <2>4. outbox' \in [Requests -> Seq({"iso20022", "crypto_send"})]
    <3>1. [outbox EXCEPT ![r] = Append(outbox[r], Target(PayoutType(r)))]
            \in [Requests -> Seq({"iso20022", "crypto_send"})]
      BY QueueType, UpdateType
    <3> QED
      BY <2>1, <3>1
  <2>5. de39' \in [Requests -> Codes \cup {NoCode}]
    BY <2>1, CodeType
  <2>6. status' \in [Requests -> Settled \cup {"NONE", "PENDING"}]
    BY <2>1
  <2> QED
    BY <2>2, <2>3, <2>4, <2>5, <2>6
<1>7. ASSUME NEW r \in Requests, GatewayRaises(r)
      PROVE  TypeOK'
  BY <1>7 DEF GatewayRaises, Codes
<1>8. ASSUME NEW r \in Requests, Answer(r)
      PROVE  TypeOK'
  BY <1>8, ReplyType DEF Answer, db
<1>9. ASSUME NEW r \in Requests, HandlerError(r)
      PROVE  TypeOK'
  BY <1>9 DEF HandlerError, db
<1>10. ASSUME NEW r \in Requests, ProcessorDecides(r)
       PROVE  TypeOK'
  BY <1>10 DEF ProcessorDecides, db
<1>11. CASE Crash
  BY <1>11 DEF Crash, db
<1>12. CASE UNCHANGED vars
  BY <1>12 DEF vars
<1> QED
  BY <1>1, <1>2, <1>3, <1>4, <1>5, <1>6, <1>7, <1>8, <1>9, <1>10, <1>11, <1>12
     DEF Next, Request, Resume, Rest

\* TypeOK for every reachable state, whatever the constants.
THEOREM TypeCorrect == Spec => []TypeOK
<1>1. Init => TypeOK
  BY InitIInv DEF IInv
<1> QED
  BY <1>1, TypeStep, PTL DEF Spec
-----------------------------------------------------------------------------
\* The inductive step.  Steps that leave the database and the replies alone
\* can only disturb RowOfPc.
LEMMA QuietStep ==
    ASSUME IInv, TypeOK', RowOfPc', UNCHANGED <<status, de39, payouts, outbox, replies>>,
           \A r \in Requests : auth[r] = "approved" => auth'[r] = "approved"
    PROVE  IInv'
<1> USE DEF IInv
<1>1. PayoutIffApproved'
  BY DEF PayoutIffApproved
<1>2. ApprovedWasAuthorized'
  BY DEF ApprovedWasAuthorized
<1>3. ReplyTruthful'
  BY DEF ReplyTruthful
<1>4. OneRowPerKey'
  BY DEF OneRowPerKey, Rows
<1> QED
  BY <1>1, <1>2, <1>3, <1>4

\* A reply just made says of its row what the row says.
LEMMA SpeakStep ==
    ASSUME IInv, TypeOK', RowOfPc', UNCHANGED <<status, de39, payouts, outbox, auth>>,
           NEW r \in Requests, NEW t \in RowsFor(r),
           replies' = replies \cup {Reply(r, t)}
    PROVE  IInv'
<1> USE DEF IInv
<1>1. PayoutIffApproved' /\ ApprovedWasAuthorized' /\ OneRowPerKey'
  BY DEF PayoutIffApproved, ApprovedWasAuthorized, OneRowPerKey, Rows
<1>2. t \in Requests /\ Key(t) = Key(r)
  BY DEF RowsFor, Rows
<1>3. status[t] = "APPROVED" => payouts[t] # << >>
  BY <1>2 DEF PayoutIffApproved
<1>5. LET p == Reply(r, t) IN
      /\ p.txn = t /\ p.to = r /\ p.de39 = de39[t]
      /\ p.approved => status[t] = "APPROVED"
  BY DEF Reply
<1>6. ASSUME NEW p \in replies'
      PROVE  /\ Key(p.txn) = Key(p.to)
             /\ p.approved => status[p.txn] = "APPROVED" /\ payouts[p.txn] # << >>
             /\ p.de39 # NoCode => p.de39 = de39[p.txn]
  <2>1. CASE p \in replies
    BY <2>1 DEF ReplyTruthful
  <2>2. CASE p = Reply(r, t)
    BY <2>2, <1>2, <1>3, <1>5
  <2> QED
    BY <1>6, <2>1, <2>2
<1>7. ReplyTruthful'
  BY <1>6 DEF ReplyTruthful
<1> QED
  BY <1>1, <1>7

LEMMA Step == IInv /\ [Next]_vars => IInv'
<1> SUFFICES ASSUME IInv, [Next]_vars
             PROVE  IInv'
  OBVIOUS
<1>0. TypeOK /\ TypeOK'
  BY TypeStep DEF IInv
<1> USE <1>0
<1>1. ASSUME NEW r \in Requests, ReplayExisting(r)
      PROVE  IInv'
  <2>1. RowOfPc'
    BY <1>1 DEF ReplayExisting, db, RowOfPc, IInv, TypeOK
  <2> QED
    BY <1>1, <2>1, SpeakStep DEF ReplayExisting, db
<1>2. ASSUME NEW r \in Requests, LookupMiss(r)
      PROVE  IInv'
  <2>1. RowOfPc'
    BY <1>2 DEF LookupMiss, db, RowOfPc, IInv, TypeOK
  <2> QED
    BY <1>2, <2>1, QuietStep DEF LookupMiss, db
<1>3. ASSUME NEW r \in Requests, InsertPending(r)
      PROVE  IInv'
  <2>1. RowOfPc'
    BY <1>3 DEF InsertPending, RowOfPc, IInv, TypeOK
  <2>2. status[r] = "NONE"
    BY <1>3 DEF InsertPending, RowOfPc, IInv
  <2>3. PayoutIffApproved' /\ ApprovedWasAuthorized'
    BY <1>3, <2>2 DEF InsertPending, PayoutIffApproved, ApprovedWasAuthorized, IInv, TypeOK
  <2>4. ReplyTruthful'
    BY <1>3, <2>2 DEF InsertPending, ReplyTruthful, IInv, TypeOK, Replies
  <2>5. OneRowPerKey'
    BY <1>3 DEF InsertPending, OneRowPerKey, KeyTaken, RowsFor, Rows, IInv, TypeOK
  <2> QED
    BY <2>1, <2>3, <2>4, <2>5 DEF IInv
<1>4. ASSUME NEW r \in Requests, InsertConflict(r)
      PROVE  IInv'
  <2>1. RowOfPc'
    BY <1>4 DEF InsertConflict, db, RowOfPc, IInv, TypeOK
  <2> QED
    BY <1>4, <2>1, QuietStep DEF InsertConflict, db
<1>5. ASSUME NEW r \in Requests, CallGateway(r)
      PROVE  IInv'
  <2>1. RowOfPc'
    BY <1>5 DEF CallGateway, db, RowOfPc, IInv, TypeOK
  <2>2. \A s \in Requests : auth[s] = "approved" => auth'[s] = "approved"
    BY <1>5 DEF CallGateway, RowOfPc, IInv, TypeOK
  <2> QED
    BY <1>5, <2>1, <2>2, QuietStep DEF CallGateway, db
<1>6. ASSUME NEW r \in Requests, CommitOutcome(r)
      PROVE  IInv'
  <2>1. PICK g \in GatewayReplies(auth[r]) :
            /\ de39' = [de39 EXCEPT ![r] = De39(g)]
            /\ \/ /\ Approved(g)
                  /\ status' = [status EXCEPT ![r] = "APPROVED"]
                  /\ payouts' = [payouts EXCEPT ![r] = Append(@, PayoutType(r))]
                  /\ outbox' = [outbox EXCEPT ![r] = Append(@, Target(PayoutType(r)))]
               \/ /\ ~Approved(g)
                  /\ status' = [status EXCEPT ![r] = "REJECTED"]
                  /\ UNCHANGED <<payouts, outbox>>
    BY <1>6 DEF CommitOutcome
  <2>2. /\ pc[r] = "waiting"
        /\ pc' = [pc EXCEPT ![r] = "answering"]
        /\ UNCHANGED <<auth, replies>>
    BY <1>6 DEF CommitOutcome
  <2>3. status[r] = "PENDING" /\ de39[r] = NoCode
    BY <2>2 DEF RowOfPc, IInv
  <2>4. payouts[r] = << >> /\ outbox[r] = << >>
    BY <2>3 DEF PayoutIffApproved, IInv
  <2>5. RowOfPc'
    BY <2>1, <2>2, <2>3 DEF RowOfPc, IInv, TypeOK
  <2>6. PayoutIffApproved'
    <3>1. Append(payouts[r], PayoutType(r)) = <<PayoutType(r)>>
      BY <2>4
    <3>2. Append(outbox[r], Target(PayoutType(r))) = <<Target(PayoutType(r))>>
      BY <2>4
    <3> QED
      BY <2>1, <2>3, <2>4, <3>1, <3>2 DEF PayoutIffApproved, IInv, TypeOK
  <2>7. ApprovedWasAuthorized'
    <3>1. auth[r] # "approved" => ~Approved(g)
      BY <2>1, RefusalStays
    <3> QED
      BY <2>1, <2>2, <3>1 DEF ApprovedWasAuthorized, IInv, TypeOK
  <2>8. ReplyTruthful'
    <3>1. ASSUME NEW p \in replies
          PROVE  /\ p.approved => status'[p.txn] = "APPROVED" /\ payouts'[p.txn] # << >>
                 /\ p.de39 # NoCode => p.de39 = de39'[p.txn]
      <4>1. p.txn \in Requests
        BY DEF TypeOK, Replies
      <4>2. CASE p.txn = r
        BY <2>3, <4>2 DEF ReplyTruthful, IInv
      <4>3. CASE p.txn # r
        <5>1. status'[p.txn] = status[p.txn] /\ de39'[p.txn] = de39[p.txn]
          BY <2>1, <4>1, <4>3 DEF TypeOK
        <5>2. payouts'[p.txn] = payouts[p.txn]
          BY <2>1, <4>1, <4>3 DEF TypeOK
        <5> QED
          BY <5>1, <5>2 DEF ReplyTruthful, IInv
      <4> QED
        BY <4>2, <4>3
    <3> QED
      BY <2>2, <3>1 DEF ReplyTruthful, IInv
  <2>9. OneRowPerKey'
    <3>1. Rows' = Rows
      BY <2>1, <2>3 DEF Rows, TypeOK
    <3> QED
      BY <3>1 DEF OneRowPerKey, IInv
  <2> QED
    BY <2>5, <2>6, <2>7, <2>8, <2>9 DEF IInv
<1>7. ASSUME NEW r \in Requests, GatewayRaises(r)
      PROVE  IInv'
  <2>1. status[r] = "PENDING" /\ de39[r] = NoCode
    BY <1>7 DEF GatewayRaises, RowOfPc, IInv
  <2>2. RowOfPc'
    BY <1>7 DEF GatewayRaises, RowOfPc, IInv, TypeOK
  <2>3. PayoutIffApproved' /\ ApprovedWasAuthorized'
    BY <1>7, <2>1 DEF GatewayRaises, PayoutIffApproved, ApprovedWasAuthorized, IInv, TypeOK
  <2>4. ReplyTruthful'
    BY <1>7, <2>1 DEF GatewayRaises, ReplyTruthful, IInv, TypeOK, Replies
  <2>5. OneRowPerKey'
    <3>1. Rows' = Rows
      BY <1>7, <2>1 DEF GatewayRaises, Rows, TypeOK
    <3> QED
      BY <3>1 DEF OneRowPerKey, IInv
  <2> QED
    BY <2>2, <2>3, <2>4, <2>5 DEF IInv
<1>8. ASSUME NEW r \in Requests, Answer(r)
      PROVE  IInv'
  <2>1. RowOfPc'
    BY <1>8 DEF Answer, db, RowOfPc, IInv, TypeOK
  <2>2. r \in RowsFor(r)
    BY <1>8 DEF Answer, RowOfPc, IInv, RowsFor, Rows
  <2> QED
    BY <1>8, <2>1, <2>2, SpeakStep DEF Answer, db
<1>9. ASSUME NEW r \in Requests, HandlerError(r)
      PROVE  IInv'
  <2>1. RowOfPc'
    BY <1>9 DEF HandlerError, db, RowOfPc, IInv, TypeOK
  <2> QED
    BY <1>9, <2>1, QuietStep DEF HandlerError, db
<1>10. ASSUME NEW r \in Requests, ProcessorDecides(r)
       PROVE  IInv'
  <2>1. RowOfPc'
    BY <1>10 DEF ProcessorDecides, db, RowOfPc, IInv, TypeOK
  <2>2. \A s \in Requests : auth[s] = "approved" => auth'[s] = "approved"
    BY <1>10 DEF ProcessorDecides, TypeOK
  <2> QED
    BY <1>10, <2>1, <2>2, QuietStep DEF ProcessorDecides, db
<1>11. CASE Crash
  <2>1. RowOfPc'
    BY <1>11 DEF Crash, db, RowOfPc, IInv, TypeOK
  <2> QED
    BY <1>11, <2>1, QuietStep DEF Crash, db
<1>12. CASE UNCHANGED vars
  <2>1. RowOfPc'
    BY <1>12 DEF vars, RowOfPc, IInv
  <2> QED
    BY <1>12, <2>1, QuietStep DEF vars
<1> QED
  BY <1>1, <1>2, <1>3, <1>4, <1>5, <1>6, <1>7, <1>8, <1>9, <1>10, <1>11, <1>12
     DEF Next, Request, Resume, Rest

\* IInv holds in every reachable state.
LEMMA Inductive == Spec => []IInv
  BY InitIInv, Step, PTL DEF Spec

\* The payout and outbox rows of a transaction are those of its status.
THEOREM PayoutIffApprovedInv == Spec => []PayoutIffApproved
<1>1. IInv => PayoutIffApproved
  BY DEF IInv
<1> QED
  BY Inductive, <1>1, PTL

\* A payout is queued only for what the processor approved.
THEOREM ApprovedWasAuthorizedInv == Spec => []ApprovedWasAuthorized
<1>1. IInv => ApprovedWasAuthorized
  BY DEF IInv
<1> QED
  BY Inductive, <1>1, PTL

\* No caller is misled about an approval or a response code.
THEOREM ReplyTruthfulInv == Spec => []ReplyTruthful
<1>1. IInv => ReplyTruthful
  BY DEF IInv
<1> QED
  BY Inductive, <1>1, PTL

\* With the constraint, one key is authorised at most once.
THEOREM OneAuthPerKeyInv == Spec => []OneAuthPerKey
<1>1. IInv => OneAuthPerKey
  BY DEF IInv, OneAuthPerKey, OneRowPerKey, RowOfPc, Rows
<1> QED
  BY Inductive, <1>1, PTL

\* A settled row never changes.
THEOREM SettledIsFinalAct == Spec => SettledIsFinal
<1>1. ASSUME IInv, [Next]_vars, NEW r \in Requests, status[r] \in Settled
      PROVE  /\ status'[r] = status[r] /\ de39'[r] = de39[r]
             /\ payouts'[r] = payouts[r] /\ outbox'[r] = outbox[r]
  <2> USE <1>1 DEF IInv, TypeOK, RowOfPc, Settled
  <2>1. ASSUME NEW s \in Requests, Request(s) \/ ProcessorDecides(s)
        PROVE  /\ status'[r] = status[r] /\ de39'[r] = de39[r]
               /\ payouts'[r] = payouts[r] /\ outbox'[r] = outbox[r]
    <3>1. CASE InsertPending(s)
      BY <3>1 DEF InsertPending
    <3>2. CASE CommitOutcome(s)
      <4>1. s # r
        BY <3>2 DEF CommitOutcome
      <4> QED
        BY <3>2, <4>1 DEF CommitOutcome
    <3>3. CASE GatewayRaises(s)
      BY <3>3 DEF GatewayRaises
    <3> QED
      BY <2>1, <3>1, <3>2, <3>3
         DEF Request, Resume, ReplayExisting, LookupMiss, InsertConflict,
             CallGateway, Answer, HandlerError, ProcessorDecides, db
  <2> QED
    BY <2>1 DEF Next, Crash, Rest, vars, db
<1>2. IInv /\ [Next]_vars =>
        [\A r \in Requests : status[r] \in Settled =>
          /\ status'[r] = status[r] /\ de39'[r] = de39[r]
          /\ payouts'[r] = payouts[r] /\ outbox'[r] = outbox[r]]_vars
  BY <1>1
<1> QED
  BY Inductive, <1>2, PTL DEF Spec, SettledIsFinal
-----------------------------------------------------------------------------
(***************************************************************************)
(* With the constraint, the handler implements PurchaseContract.  Since a  *)
(* key has one row, the keys with a row in some status change exactly as   *)
(* that row does.                                                          *)
(***************************************************************************)
LEMMA KeyType ==
    ASSUME NEW r \in Requests
    PROVE  Key(r) \in Keys
BY RequestAssumption DEF Key

\* The keys in a set of statuses, after row r changed to status v.
LEMMA KeysAfter ==
    ASSUME TypeOK, OneRowPerKey, UniqueKey, NEW r \in Requests, NEW v,
           r \in Rows \/ RowsFor(r) = {},
           status' = [status EXCEPT ![r] = v],
           NEW S, "NONE" \notin S
    PROVE  /\ KeysWith(S)' = IF v \in S THEN KeysWith(S) \cup {Key(r)}
                                        ELSE KeysWith(S) \ {Key(r)}
           /\ Key(r) \in KeysWith(S) <=> status[r] \in S
<1>1. \A t \in Requests : status'[t] = IF t = r THEN v ELSE status[t]
  BY DEF TypeOK
<1>2. \A t \in Requests : status[t] \in S /\ Key(t) = Key(r) => t = r
  BY DEF OneRowPerKey, Rows, RowsFor
<1>3. KeysWith(S) = {Key(t) : t \in {q \in Requests : status[q] \in S}}
  BY DEF KeysWith
<1>4. KeysWith(S)' = {Key(t) : t \in {q \in Requests : status'[q] \in S}}
  BY DEF KeysWith, Key
<1>5. Key(r) \in KeysWith(S) <=> status[r] \in S
  BY <1>2, <1>3
<1>6. CASE v \in S
  <2>1. KeysWith(S)' = KeysWith(S) \cup {Key(r)}
    BY <1>1, <1>2, <1>3, <1>4, <1>6
  <2> QED
    BY <1>5, <1>6, <2>1
<1>7. CASE v \notin S
  <2>1. KeysWith(S)' = KeysWith(S) \ {Key(r)}
    BY <1>1, <1>2, <1>3, <1>4, <1>7
  <2> QED
    BY <1>5, <1>7, <2>1
<1> QED
  BY <1>6, <1>7

Told == {Key(p.to) : p \in {q \in replies : q.approved}}

\* A reply is a Tell, or says nothing of an approval.
LEMMA TellStep ==
    ASSUME IInv, NEW r \in Requests, NEW t \in RowsFor(r),
           replies' = replies \cup {Reply(r, t)}, UNCHANGED status
    PROVE  Contract!Tell(Key(r)) \/ UNCHANGED Contract!contractVars
<1>1. \A S : KeysWith(S)' = KeysWith(S)
  BY DEF KeysWith, Key
<1>2. /\ Reply(r, t).to = r
      /\ Reply(r, t).approved <=> status[t] = "APPROVED"
  BY DEF Reply
<1>3. Told' = {Key(p.to) : p \in {q \in replies \cup {Reply(r, t)} : q.approved}}
  BY DEF Told, Key
<1>4. CASE status[t] = "APPROVED"
  <2>1. Told' = Told \cup {Key(r)}
    BY <1>2, <1>3, <1>4 DEF Told
  <2>2. Key(r) \in KeysWith({"APPROVED"})
    BY <1>4 DEF KeysWith, RowsFor, Rows
  <2> QED
    BY <1>1, <2>1, <2>2 DEF Contract!Tell, Told
<1>5. CASE status[t] # "APPROVED"
  <2>1. Told' = Told
    BY <1>2, <1>3, <1>5 DEF Told
  <2> QED
    BY <1>1, <2>1 DEF Contract!contractVars, Told
<1> QED
  BY <1>4, <1>5

LEMMA ContractStep ==
    ASSUME IInv, UniqueKey, [Next]_vars
    PROVE  [Contract!ContractNext]_Contract!contractVars
<1> USE DEF IInv
<1>1. ASSUME UNCHANGED <<status, replies>>
      PROVE  UNCHANGED Contract!contractVars
  BY <1>1 DEF Contract!contractVars, KeysWith, Key
<1>2. ASSUME NEW r \in Requests, InsertPending(r)
      PROVE  Contract!Open(Key(r))
  <2>1. /\ status' = [status EXCEPT ![r] = "PENDING"]
        /\ replies' = replies
        /\ RowsFor(r) = {}
    BY <1>2 DEF InsertPending, KeyTaken
  <2>2. status[r] = "NONE"
    BY <1>2 DEF InsertPending, RowOfPc
  <2>a. ASSUME NEW S, "NONE" \notin S
        PROVE  /\ KeysWith(S)' = IF "PENDING" \in S THEN KeysWith(S) \cup {Key(r)}
                                            ELSE KeysWith(S) \ {Key(r)}
               /\ Key(r) \in KeysWith(S) <=> status[r] \in S
    BY <2>1, <2>a, KeysAfter
  <2>3. /\ KeysWith(Settled \cup {"PENDING"})' = KeysWith(Settled \cup {"PENDING"}) \cup {Key(r)}
        /\ Key(r) \notin KeysWith(Settled \cup {"PENDING"})
    BY <2>2, <2>a DEF Settled
  <2>4. /\ KeysWith({"APPROVED"})' = KeysWith({"APPROVED"}) \ {Key(r)}
        /\ Key(r) \notin KeysWith({"APPROVED"})
    BY <2>2, <2>a
  <2>5. /\ KeysWith({"REJECTED", "FAILED"})' = KeysWith({"REJECTED", "FAILED"}) \ {Key(r)}
        /\ Key(r) \notin KeysWith({"REJECTED", "FAILED"})
    BY <2>2, <2>a
  <2> QED
    BY <2>1, <2>3, <2>4, <2>5 DEF Contract!Open, Key
<1>3. ASSUME NEW r \in Requests, NEW v \in Settled, status[r] = "PENDING",
             status' = [status EXCEPT ![r] = v], replies' = replies
      PROVE  Contract!Pay(Key(r)) \/ Contract!Close(Key(r))
  <2>1. r \in Rows
    BY <1>3 DEF Rows
  <2>a. ASSUME NEW S, "NONE" \notin S
        PROVE  /\ KeysWith(S)' = IF v \in S THEN KeysWith(S) \cup {Key(r)}
                                            ELSE KeysWith(S) \ {Key(r)}
               /\ Key(r) \in KeysWith(S) <=> status[r] \in S
    BY <1>3, <2>1, <2>a, KeysAfter
  <2>2. /\ KeysWith(Settled \cup {"PENDING"})' = KeysWith(Settled \cup {"PENDING"}) \cup {Key(r)}
        /\ Key(r) \in KeysWith(Settled \cup {"PENDING"})
    BY <1>3, <2>a DEF Settled
  <2>3. /\ KeysWith({"APPROVED"})' = IF v \in {"APPROVED"}
                                     THEN KeysWith({"APPROVED"}) \cup {Key(r)}
                                     ELSE KeysWith({"APPROVED"}) \ {Key(r)}
        /\ Key(r) \in KeysWith({"APPROVED"}) <=> status[r] \in {"APPROVED"}
    BY <2>a
  <2>4. /\ KeysWith({"REJECTED", "FAILED"})' =
             IF v \in {"REJECTED", "FAILED"}
             THEN KeysWith({"REJECTED", "FAILED"}) \cup {Key(r)}
             ELSE KeysWith({"REJECTED", "FAILED"}) \ {Key(r)}
        /\ Key(r) \in KeysWith({"REJECTED", "FAILED"})
              <=> status[r] \in {"REJECTED", "FAILED"}
    BY <2>a
  <2>5. CASE v = "APPROVED"
    BY <1>3, <2>2, <2>3, <2>4, <2>5 DEF Contract!Pay, Key
  <2>6. CASE v # "APPROVED"
    BY <1>3, <2>2, <2>3, <2>4, <2>6 DEF Contract!Close, Key, Settled
  <2> QED
    BY <2>5, <2>6
<1>4. ASSUME NEW r \in Requests, Request(r)
      PROVE  \/ \E k \in Keys : Contract!Open(k) \/ Contract!Pay(k)
                                \/ Contract!Close(k) \/ Contract!Tell(k)
             \/ UNCHANGED Contract!contractVars
  <2>1. CASE ReplayExisting(r)
    BY <2>1, TellStep, KeyType DEF ReplayExisting, db
  <2>2. CASE Answer(r)
    <3>1. r \in RowsFor(r)
      BY <2>2 DEF Answer, RowOfPc, RowsFor, Rows
    <3> QED
      BY <2>2, <3>1, TellStep, KeyType DEF Answer, db
  <2>3. CASE InsertPending(r)
    BY <2>3, <1>2, KeyType
  <2>4. CASE CommitOutcome(r)
    <3>1. /\ status[r] = "PENDING" /\ replies' = replies
          /\ \E v \in Settled : status' = [status EXCEPT ![r] = v]
      BY <2>4 DEF CommitOutcome, RowOfPc, Settled
    <3> QED
      BY <3>1, <1>3, KeyType
  <2>5. CASE GatewayRaises(r)
    <3>1. /\ status[r] = "PENDING" /\ replies' = replies
          /\ \E v \in Settled : status' = [status EXCEPT ![r] = v]
      BY <2>5 DEF GatewayRaises, RowOfPc, Settled
    <3> QED
      BY <3>1, <1>3, KeyType
  <2>6. CASE LookupMiss(r) \/ InsertConflict(r) \/ CallGateway(r) \/ HandlerError(r)
    BY <2>6, <1>1 DEF LookupMiss, InsertConflict, CallGateway, HandlerError, db
  <2> QED
    BY <1>4, <2>1, <2>2, <2>3, <2>4, <2>5, <2>6 DEF Request, Resume
<1>5. ASSUME NEW r \in Requests, ProcessorDecides(r)
      PROVE  UNCHANGED Contract!contractVars
  BY <1>5, <1>1 DEF ProcessorDecides, db
<1>6. CASE Crash \/ Rest \/ UNCHANGED vars
  BY <1>6, <1>1 DEF Crash, Rest, vars, db
<1> QED
  BY <1>4, <1>5, <1>6 DEF Next, Contract!ContractNext

\* With the constraint, the endpoint keeps the purchase contract.
THEOREM ContractKept ==
    ASSUME UniqueKey
    PROVE  Spec => KeepsContract
<1>1. Init => Contract!ContractInit
  BY DEF Init, Contract!ContractInit, KeysWith, Settled
<1>2. IInv /\ [Next]_vars => [Contract!ContractNext]_Contract!contractVars
  BY ContractStep
<1> QED
  BY Inductive, <1>1, <1>2, PTL DEF Spec, KeepsContract, Contract!ContractSpec

\* What the contract is worth: a purchase is decided once, and nobody is told of
\* an approval that is not paid.
Worth ==
    /\ KeysWith({"APPROVED"}) \cap KeysWith({"REJECTED", "FAILED"}) = {}
    /\ Told \subseteq KeysWith({"APPROVED"})

LEMMA WorthStep ==
    ASSUME Worth, [Contract!ContractNext]_Contract!contractVars
    PROVE  Worth'
<1>1. ASSUME NEW k \in Keys, Contract!Open(k)
      PROVE  Worth'
  BY <1>1 DEF Worth, Told, Contract!Open
<1>2. ASSUME NEW k \in Keys, Contract!Pay(k)
      PROVE  Worth'
  BY <1>2 DEF Worth, Told, Contract!Pay
<1>3. ASSUME NEW k \in Keys, Contract!Close(k)
      PROVE  Worth'
  BY <1>3 DEF Worth, Told, Contract!Close
<1>4. ASSUME NEW k \in Keys, Contract!Tell(k)
      PROVE  Worth'
  BY <1>4 DEF Worth, Told, Contract!Tell
<1>5. CASE UNCHANGED Contract!contractVars
  BY <1>5 DEF Worth, Told, Contract!contractVars
<1> QED
  BY <1>1, <1>2, <1>3, <1>4, <1>5 DEF Contract!ContractNext

\* No retry, crash or late answer gives one purchase two outcomes: no two rows of a
\* key are one approved and one refused, and no caller is told "approved" of a key
\* that has no approved row.
THEOREM OneOutcomePerKey ==
    ASSUME UniqueKey
    PROVE  Spec => []Worth
<1>1. Contract!ContractInit => Worth
  BY DEF Contract!ContractInit, Worth, Told
<1> QED
  BY <1>1, WorthStep, ContractKept, PTL DEF KeepsContract, Contract!ContractSpec
=============================================================================
