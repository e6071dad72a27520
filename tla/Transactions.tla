---------------------------- MODULE Transactions ----------------------------
(***************************************************************************)
(* The backend's POST /transactions handler (routes.py.fix,                *)
(* create_transaction).  Every request is a coroutine; other requests run  *)
(* at each of its awaits, so one action stands for the code between two    *)
(* awaits that another request, or a crash, can tell apart:                *)
(*                                                                         *)
(*   idle -- select by idempotency key --> done (replay) | absent          *)
(*   absent -- commit PENDING --> inserted                                 *)
(*   inserted -- refresh, broadcast, call the gateway --> waiting          *)
(*   waiting -- one commit of the outcome --> answering | failed (502)     *)
(*   answering -- broadcast, reply --> done                                *)
(*                                                                         *)
(* A request that ends in an uncaught exception is "failed", one whose     *)
(* process died is "lost"; in both cases the database keeps what was       *)
(* committed before.  A transaction row is named by the request that       *)
(* inserted it.  The gateway client, the storage models and the websocket  *)
(* manager are not in the repository: they are modelled from their use.    *)
(***************************************************************************)
EXTENDS IsoWire, Sequences

CONSTANTS
    Requests,   \* the calls of the endpoint, a retry being another call
    Keys,       \* idempotency keys
    Header,     \* the Idempotency-Key header of each request, or NoHeader
    NoHeader,
    Hash,       \* canonical_request_hash of each request's payload
    Bank,       \* the requests whose payoutMethod starts with "bank"
    UniqueKey   \* does the database refuse a second row with the same key?

ASSUME RequestAssumption ==
    /\ NoHeader \notin Keys
    /\ Header \in [Requests -> Keys \cup {NoHeader}]
    /\ Hash \in [Requests -> Keys]
    /\ Bank \subseteq Requests
    /\ UniqueKey \in BOOLEAN

VARIABLES
    pc,         \* where each request's coroutine is
    status,     \* the committed status of each transaction row, or "NONE"
    de39,       \* its committed response code, or NoCode
    payouts,    \* the payout rows of each transaction
    outbox,     \* the outbox rows of each transaction
    auth,       \* what the processor made of each authorisation
    replies     \* the 200 replies sent so far

vars == <<pc, status, de39, payouts, outbox, auth, replies>>
db == <<status, de39, payouts, outbox>>

Settled == {"APPROVED", "REJECTED", "FAILED"}
Running == {"absent", "inserted", "waiting", "answering"}

\* A reply names the request it answers and the row it speaks of.
Replies == [to : Requests, txn : Requests, approved : BOOLEAN,
            de39 : Codes \cup {NoCode}]

(***************************************************************************)
(* One type invariant.                                                     *)
(***************************************************************************)
TypeOK ==
    /\ pc \in [Requests -> Running \cup {"idle", "done", "failed", "lost"}]
    /\ status \in [Requests -> Settled \cup {"NONE", "PENDING"}]
    /\ de39 \in [Requests -> Codes \cup {NoCode}]
    /\ payouts \in [Requests -> Seq({"BANK", "CRYPTO"})]
    /\ outbox \in [Requests -> Seq({"iso20022", "crypto_send"})]
    /\ auth \in [Requests -> {"unsent", "sent", "approved", "declined"}]
    /\ replies \subseteq Replies

Init ==
    /\ pc = [r \in Requests |-> "idle"]
    /\ status = [r \in Requests |-> "NONE"]
    /\ de39 = [r \in Requests |-> NoCode]
    /\ payouts = [r \in Requests |-> << >>]
    /\ outbox = [r \in Requests |-> << >>]
    /\ auth = [r \in Requests |-> "unsent"]
    /\ replies = {}

\* The header wins over the hash of the payload.
Key(r) == IF Header[r] # NoHeader THEN Header[r] ELSE Hash[r]

Rows == {t \in Requests : status[t] # "NONE"}
RowsFor(r) == {t \in Rows : Key(t) = Key(r)}

\* Mutant of the reply: a row that exists counts as approved unless refused.
ReplyOptimistic(r, t) ==
    [to |-> r, txn |-> t, approved |-> status[t] \in {"APPROVED", "PENDING"},
     de39 |-> de39[t]]

Reply(r, t) ==
    [to |-> r, txn |-> t, approved |-> status[t] = "APPROVED", de39 |-> de39[t]]

PayoutType(r) == IF r \in Bank THEN "BANK" ELSE "CRYPTO"
\* Mutant: the target of the crypto worker, which the type does not foresee.
TargetOfWorker(type) == IF type = "BANK" THEN "iso20022" ELSE "crypto"

Target(type) == IF type = "BANK" THEN "iso20022" ELSE "crypto_send"

-----------------------------------------------------------------------------
(***************************************************************************)
(* The handler.                                                            *)
(***************************************************************************)
ReplayExisting(r) ==
    /\ pc[r] = "idle"
    /\ \E t \in RowsFor(r) : replies' = replies \cup {Reply(r, t)}
    /\ pc' = [pc EXCEPT ![r] = "done"]
    /\ UNCHANGED <<db, auth>>

LookupMiss(r) ==
    /\ pc[r] = "idle"
    /\ RowsFor(r) = {}
    /\ pc' = [pc EXCEPT ![r] = "absent"]
    /\ UNCHANGED <<db, auth, replies>>

\* Mutant: the constraint is not there.
KeyNeverTaken(r) == FALSE

KeyTaken(r) == UniqueKey /\ RowsFor(r) # {}

InsertPending(r) ==
    /\ pc[r] = "absent"
    /\ ~KeyTaken(r)
    /\ status' = [status EXCEPT ![r] = "PENDING"]
    /\ pc' = [pc EXCEPT ![r] = "inserted"]
    /\ UNCHANGED <<de39, payouts, outbox, auth, replies>>

\* The constraint fires at the first commit; nothing catches it.
InsertConflict(r) ==
    /\ pc[r] = "absent"
    /\ KeyTaken(r)
    /\ pc' = [pc EXCEPT ![r] = "failed"]
    /\ UNCHANGED <<db, auth, replies>>

CallGateway(r) ==
    /\ pc[r] = "inserted"
    /\ pc' = [pc EXCEPT ![r] = "waiting"]
    /\ auth' = [auth EXCEPT ![r] = "sent"]
    /\ UNCHANGED <<db, replies>>

\* Mutant: the approval is committed before the payout and outbox rows.
CommitStatusFirst(r) ==
    /\ pc[r] = "waiting"
    /\ \E g \in GatewayReplies(auth[r]) :
        /\ de39' = [de39 EXCEPT ![r] = De39(g)]
        /\ status' = [status EXCEPT ![r] = IF Approved(g) THEN "APPROVED" ELSE "REJECTED"]
    /\ pc' = [pc EXCEPT ![r] = "answering"]
    /\ UNCHANGED <<payouts, outbox, auth, replies>>

\* The gateway's answer, which may come without the processor's decision.
CommitOutcome(r) ==
    /\ pc[r] = "waiting"
    /\ \E g \in GatewayReplies(auth[r]) :
        /\ de39' = [de39 EXCEPT ![r] = De39(g)]
        /\ \/ /\ Approved(g)
              /\ status' = [status EXCEPT ![r] = "APPROVED"]
              /\ payouts' = [payouts EXCEPT ![r] = Append(@, PayoutType(r))]
              /\ outbox' = [outbox EXCEPT ![r] = Append(@, Target(PayoutType(r)))]
           \/ /\ ~Approved(g)
              /\ status' = [status EXCEPT ![r] = "REJECTED"]
              /\ UNCHANGED <<payouts, outbox>>
    /\ pc' = [pc EXCEPT ![r] = "answering"]
    /\ UNCHANGED <<auth, replies>>

\* Mutant: the try block reaches to the end of the handler, so that a broken
\* websocket turns a committed outcome into a failure.
WideTryRaises(r) ==
    /\ pc[r] \in {"waiting", "answering"}
    /\ status' = [status EXCEPT ![r] = "FAILED"]
    /\ de39' = [de39 EXCEPT ![r] = "96"]
    /\ pc' = [pc EXCEPT ![r] = "failed"]
    /\ UNCHANGED <<payouts, outbox, auth, replies>>

\* The gateway call raised, whatever the processor did or will do: FAILED and
\* "96" are committed and the caller gets a 502.
GatewayRaises(r) ==
    /\ pc[r] = "waiting"
    /\ status' = [status EXCEPT ![r] = "FAILED"]
    /\ de39' = [de39 EXCEPT ![r] = "96"]
    /\ pc' = [pc EXCEPT ![r] = "failed"]
    /\ UNCHANGED <<payouts, outbox, auth, replies>>

\* Mutant: a handler of a refused transaction leaves without answering.
AnswerApprovedOnly(r) ==
    /\ pc[r] = "answering"
    /\ status[r] = "APPROVED"
    /\ replies' = replies \cup {Reply(r, r)}
    /\ pc' = [pc EXCEPT ![r] = "done"]
    /\ UNCHANGED <<db, auth>>

Answer(r) ==
    /\ pc[r] = "answering"
    /\ replies' = replies \cup {Reply(r, r)}
    /\ pc' = [pc EXCEPT ![r] = "done"]
    /\ UNCHANGED <<db, auth>>

\* An await outside the try block (select, commit, refresh, broadcast) raises:
\* the open session is rolled back and the caller gets a 500.
HandlerError(r) ==
    /\ pc[r] \in Running \cup {"idle"}
    /\ pc' = [pc EXCEPT ![r] = "failed"]
    /\ UNCHANGED <<db, auth, replies>>
-----------------------------------------------------------------------------
(***************************************************************************)
(* The environment: the processor decides at any time after the call, also *)
(* after the backend gave up on it; the backend's process may die.         *)
(***************************************************************************)
ProcessorDecides(r) ==
    /\ auth[r] = "sent"
    /\ \E d \in {"approved", "declined"} : auth' = [auth EXCEPT ![r] = d]
    /\ UNCHANGED <<pc, db, replies>>

Crash ==
    /\ \E r \in Requests : pc[r] \in Running
    /\ pc' = [r \in Requests |-> IF pc[r] \in Running THEN "lost" ELSE pc[r]]
    /\ UNCHANGED <<db, auth, replies>>

\* What the event loop runs for a request once it is under way.
Resume(r) ==
    \/ InsertPending(r) \/ InsertConflict(r) \/ CallGateway(r)
    \/ CommitOutcome(r) \/ GatewayRaises(r) \/ Answer(r)

Request(r) == ReplayExisting(r) \/ LookupMiss(r) \/ Resume(r) \/ HandlerError(r)

\* Every call ended: the system may rest.
Rest ==
    /\ \A r \in Requests : pc[r] \in {"done", "failed", "lost"}
    /\ UNCHANGED vars

Next ==
    \/ \E r \in Requests : Request(r) \/ ProcessorDecides(r)
    \/ Crash
    \/ Rest

Spec == Init /\ [][Next]_vars

\* The event loop resumes every ready coroutine, and the gateway client either
\* answers or raises (it has a timeout).  Calls need not arrive.
FairSpec == Spec /\ \A r \in Requests : WF_vars(Resume(r))
-----------------------------------------------------------------------------
(***************************************************************************)
(* Properties.                                                             *)
(***************************************************************************)
\* The one commit of the outcome keeps three tables together: a transaction
\* has exactly one payout row and one outbox row, of its own kind, when it is
\* APPROVED, and none otherwise -- through crashes, errors and late answers.
PayoutIffApproved ==
    \A r \in Requests :
        IF status[r] = "APPROVED"
        THEN /\ payouts[r] = <<PayoutType(r)>>
             /\ outbox[r] = <<Target(PayoutType(r))>>
        ELSE payouts[r] = << >> /\ outbox[r] = << >>

\* No payout is queued for a transaction the processor did not approve,
\* whichever fields the gateway's answer carries.
ApprovedWasAuthorized ==
    \A r \in Requests : status[r] = "APPROVED" => auth[r] = "approved"

\* A caller that was told "approved", by the first call or by a replay, was
\* told of an APPROVED row of its own key whose payout is queued; and a
\* response code that was told is the row's code, for good.
ReplyTruthful ==
    \A p \in replies :
        /\ Key(p.txn) = Key(p.to)
        /\ p.approved => status[p.txn] = "APPROVED" /\ payouts[p.txn] # << >>
        /\ p.de39 # NoCode => p.de39 = de39[p.txn]

\* With the constraint in place, two calls with one key, however they overlap
\* or follow a crash, never both reach the processor.
OneAuthPerKey ==
    UniqueKey => \A r, s \in Requests :
        auth[r] # "unsent" /\ auth[s] # "unsent" /\ Key(r) = Key(s) => r = s

\* A settled row is final: no late answer, error or other call of the same
\* key changes its status, its code or the rows queued for it.
SettledIsFinal ==
    [][\A r \in Requests : status[r] \in Settled =>
          /\ status'[r] = status[r] /\ de39'[r] = de39[r]
          /\ payouts'[r] = payouts[r] /\ outbox'[r] = outbox[r]]_vars

\* Every call that got past the lookup ends: it answers, fails, or dies with
\* the process.
EveryCallEnds ==
    \A r \in Requests : pc[r] \in Running ~> pc[r] \in {"done", "failed", "lost"}
-----------------------------------------------------------------------------
(***************************************************************************)
(* The handler keeps the purchase contract.                                *)
(***************************************************************************)
KeysWith(S) == {Key(t) : t \in {r \in Requests : status[r] \in S}}

Contract == INSTANCE PurchaseContract WITH
    opened <- KeysWith(Settled \cup {"PENDING"}),
    paid <- KeysWith({"APPROVED"}),
    closed <- KeysWith({"REJECTED", "FAILED"}),
    told <- {Key(p.to) : p \in {q \in replies : q.approved}}

\* Seen from outside, the handler is the contract: one purchase per key, paid
\* or closed once, and "approved" only said of a paid one.
KeepsContract == Contract!ContractSpec
=============================================================================
