# Closed-loop payments: a TLA+ verification project

The repository is a closed-loop card-payment stack: a merchant's terminal posts a
purchase, a backend stores it and asks a gateway, the gateway speaks ISO 8583-like
frames over TCP to a processor, and an approval queues a payout that workers carry
out on a bank interface or on a blockchain. The tree keeps several variants of most
parts side by side (`server.py`, `server.gateway.py`, `server_to_patch.py`, ...); the
specifications model the variants that carry logic, by their file names.

`PROJECT.json` is the machine-readable side of this text: components, runs, mutants
of the model, the map from definitions to source lines, findings, hazards, theorems.

## 1. The system

### 1.1 Components

| component (source) | state it keeps | operations | what makes it correct |
|---|---|---|---|
| Transaction API (`routes.py.fix`, `create_transaction`) | tables of transactions, payouts, outbox; one coroutine per request | look up by idempotency key, insert PENDING, call the gateway, commit the outcome, answer | a payout and an outbox row exactly for the approved purchases; one authorisation per key; what a caller was told stays true; settled is final |
| Local ledger endpoints (`routes.py.fix`, `/transactions/local`, `/payout/*`) | two JSON files, one thread per request | append a pending record, call the gateway, append the outcome | no record lost while appends neither overlap nor fail; no stale array brings a record in twice or a pending one above its outcome; every request answered |
| TCP clients (`app/tcp_client.py`, `tcp_client_to_patch.py`, `tcp_client.py`) | the attempt of the current call | connect, send, read, time out, back off, give up | no invented approval; bounded attempts; every call ends |
| Processors (`server_patched.py`, `processor_server_to_patch.py`, `server_fixed.py`) | one thread per connection | read a frame, decide, answer | answers in a format its clients understand |
| Gateways (`server_to_patch.py`, `server.gateway.py`, `server.py`, `server.new.py`) | none | translate HTTP to a frame and a frame to an HTTP answer | a refusal never becomes an approval |
| ISO codecs (`app/iso_codec.py`, `app/iso8583.py`, `app/iso_sim.py`) | none | pack, unpack, read a frame or what there is of one | own frames are read back; no fields are made up or taken from a part |
| Other gateway servers (`app/gateway_forward.py`, `app/gateway_payout_patch.py`, the proxy of `server_to_patch.py`, `app/server.py`) | none | forward one request over TCP or HTTP | the answer is the processor's |
| Crypto payout worker (`app/workers/crypto_payout_worker.py`) | row locks, uncommitted statuses; the outbox table | select with `FOR UPDATE SKIP LOCKED`, nonce, sign, broadcast, one commit per batch | no two runs on one row; a repeated broadcast only after a crash; SENT_ONCHAIN means broadcast |
| Job worker (`worker/worker.py` and the older `worker.py`) | the fetched batch; the backend's job table | poll, transfer (its own key, Infura, or a gateway), report | how often a job can be paid; a recorded result is what its reporter knows; every job a worker can read, and comes to, gets one |
| Settlement handler, payout handler (`settlement_handler.py`, `db.py`, `payout_handler.py`) | ledger files, settlement table | post to the gateway or the payout service, append a line, insert a row | one payout per delivery and no trace of a declined one; only the failed write of its own line keeps a settlement off the books |
| Gateway application (`gateway_app.py` and its copies, `tmp_gateway_files/gateway_app.py`) | bounded list of received posts; the event loop; tasks; an (always empty) job board | receive, store, forward the payout; `/payout` over a blocking socket with the crypto payouts an approval starts | the list holds the newest posts; an approval is the processor's; its payouts stay within it |
| Stripe endpoints, settlement worker, payment status (`BROKEN_main.py`, `app/workers/settlement_worker.py`, `app/routes/payments_status.py`) | outbox rows; batch of a run | authorize; write rows on a webhook; select, process, commit; newest row | rows of an event together or not at all; a status only goes back by redelivery; every row is processed |
| Connectors, HSM, card utilities, ISO 20022 client, signing script; telemetry, configuration, mocks, start-up; frontend, deployment | none of their own | single remote calls, formatting, counters | not modelled (section 6) |

### 1.2 How they interact

* backend -> gateway: one awaited HTTP call per purchase (`gateway_client`, not in the
  repository); it answers, or raises, and may raise after the processor approved.
* gateway -> processor: one TCP connection per attempt; the processor serves every
  connection in its own thread and knows nothing of the client's timeouts, so an
  abandoned attempt may still be served.
* backend -> workers: rows of the outbox table, each with a target name; workers
  select by target.
* job worker -> backend: `/internal/queued` and `/internal/job_result`, without a claim.
* settlement handler -> gateway application: a post with a timeout; the gateway calls
  the payout service synchronously inside an async handler, so it serves one post at a
  time and later posts time out behind it.
* one-shot gateways -> processor: one connection or HTTP request per call, never tried
  again; the reply may be torn into pieces, and the processor may die inside it.
* Stripe -> webhook -> outbox -> settlement worker -> status endpoint: an event is
  delivered again until it is acknowledged, and perhaps after that; rows are selected
  by target, without a lock, and the status endpoint reads the newest one.
* worker -> chain: a node that accepts or refuses a signed transfer by its nonce, and
  whose answer may be lost.

### 1.3 What is hard

Overlapping requests with one key, state read before an `await` and used after it,
late answers after a timeout, retries of what was already done, crashes between a
side effect and its commit, uncommitted batches, files rewritten without a lock,
three independent steps of which each may fail, replies that end in the middle,
events that are delivered twice, wirings of parts that do not speak
the same format. `PROJECT.json` lists each under "hazards" at its line.

### 1.4 Files that do not parse as committed

Some of the files are kept with broken indentation. Where a repair is unambiguous
the file is read with its indentation repaired and nothing else changed:

* `routes.py.fix` 197-199: two statements indented one level too deep after line 196;
* `settlement_handler.py` 101, `processor_server_to_patch.py` 45-46,
  `server.gateway.py` 13-14: one line at the wrong level each.

Two places have no single repair, and what they leave open is a parameter of a
behaviour that is chosen at the start:

* `gateway_app.py` 199-204: after an approval a payout is started as a task and a second
  one is awaited. In `gateway_app.py` and the identical `gateway_app.current.py` the
  awaited call is given the response. `gateway_app.fixed.py` and `gateway_app.broken.py`
  hold the same patch with its newlines as the two characters `\n`; read as newlines it
  looks for `resp_json`, which is not defined there, and then among the globals, so the
  awaited call is given `{}`. Both readings are checked (`setup.repair`).
* `BROKEN_main.py` 207-241: the rows of the "parallel path" stand behind the return of
  the webhook, outside of any function. Checked are the webhook with the row it has and
  the webhook with the two rows of the block in place of it (`targets`).

## 2. Modules

```
PurchaseContract   abstract: open -> paid | closed, told
      ^ implemented by (INSTANCE ... WITH)
Transactions       create_transaction              Transactions_proofs  (IsoWire)
IsoWire            frames, answers (operators only)
IsoCodec           the codecs over streams of pieces (operators only)
      ^ EXTENDS
IsoLink            retry loop and processors       IsoLink_proofs       (IsoWire)
GatewayCalls       one-shot calls, crypto payouts  GatewayCalls_proofs  (IsoWire, IsoCodec)
PayoutContract     abstract: try -> settle, or forget by a fault
      ^ implemented by (INSTANCE ... WITH)
PayoutWorker       outbox rows to the chain        PayoutWorker_proofs
JobWorker          polled jobs to the chain        JobWorker_proofs
LocalLedger        JSON files without a lock       LocalLedger_proofs
SettlementHandler  response -> payout and books    SettlementHandler_proofs
StripeSettlement   event -> outbox -> status       StripeSettlement_proofs
MC<module>         constants of the checked instances
```

Definitions preceded by a comment "Mutant: ..." are not part of a
specification: each is a plausible bug in one definition, kept to show that a property
notices it (`PROJECT.json`, "mutants").

### 2.1 Transactions, PurchaseContract

One action per stretch of code between two awaits that another request or a crash can
tell apart. `pc[r]` is the coroutine of call `r`; a transaction row is named after the
call that inserted it.

| action | code (`routes.py.fix`) |
|---|---|
| `ReplayExisting`, `LookupMiss` | 147-152, select by key, early return |
| `InsertPending`, `InsertConflict` | 154-168, first commit; the constraint may refuse it |
| `CallGateway` | 170-186 |
| `CommitOutcome` | 194-222, status, code, payout and outbox row in one commit |
| `GatewayRaises` | 187-192, FAILED, "96", 502 |
| `Answer` | 224-226 |
| `HandlerError` | any other await raises: rolled back, 500 |
| `ProcessorDecides`, `Crash` | environment |

The table definition is not in the repository, so whether `idempotency_key` is unique
is a constant, `UniqueKey`. What the gateway may answer is `GatewayReplies` of IsoWire:
any combination of flag and code, at any time, with or without the processor's decision
(`server.new.py` answers 200 when it has none), but an approval only if the processor
approved. That is an assumption about the other end of the call, and the link keeps it
(`AnswersAsExpected` of IsoLink, section 4).

`PurchaseContract` is the promise to the merchant without tables: a purchase is opened
once per key, then paid once or closed once, and "approved" is only told of a paid one.
`KeepsContract` states that the handler implements it under the mapping of section
"The handler keeps the purchase contract".

### 2.2 IsoWire, IsoLink

`IsoWire` reduces a frame to what its readers tell apart -- is there an MTI, is the
response code at the top of the JSON object or inside "fields", which code -- and gives
for each gateway, client and processor what it writes and what it makes of what it
reads. `Deployments` are the 32 combinations that can be wired: `tcp_client.py` takes
keywords only, which `server.py` and `server.new.py` pass, and `server.new.py` leaves out
the host that the other clients insist on.

`IsoLink` runs one of them (`deployment` is chosen at the start and never changes):
`Connect`, `ConnectFails`, `ReadAnswer`, `AttemptTimesOut`, `GiveUp` are the retry loop;
`Serve` and `Reset` are the processor's thread and the network, which act on every
connection that was opened, also on abandoned ones. `timeouts` is a history variable: the
open connections a call gave up. It is what a repeated authorisation is paid for with
(`RepeatsAreTimeouts`); how many there can be is the loop's own bound
(`AuthorisationsBounded`; `Attempts` has room for one more than any loop is to make, so
that one too many would be seen). How the backend reads a body (`De39`, `Approved`) is in
IsoWire too, since both sides of the call use it.

### 2.3 PayoutWorker, PayoutContract

A run's `held` are the rows its select locked, `todo` the ones still to take, `staged`
the statuses of the session before its commit, `current`/`nonce` the point between
`get_transaction_count` and the broadcast. `Enqueue` is the backend's commit of another
row, in any order and at any time, so that overlapping runs have batches of their own.
`Begin` is the select, `ReadNonce` and
`RefuseRow` the head of `process_payout`, `Broadcast*` the call of the node and the
status it leads to, `Commit` the single commit of line 109. `Crash` drops what is not
committed; the chain stays. The chain holds one transfer at the next nonce: since
`get_transaction_count` counts mined transfers only, two rows of a batch are signed with
the same nonce, and the second is refused or replaces the first -- a row reported
SENT_ONCHAIN need therefore not be mined, and no property says so.

`PayoutContract` is what one who pays promises, without locks, batches, polls or reports:
an item that was tried is not tried again before it is settled, and then never, unless a
fault made the payer forget that it had tried. All runs of the crypto payout worker
together keep it (`tried` are the rows with a staged status, `settled` those with a
committed one, a fault is a crash); so does each job worker by itself (`tried` is the job
it is at, `settled` the jobs with a result that it does not hold, a fault is a crash or a
lost call of its own), whatever the other workers do to the same jobs.

### 2.4 JobWorker

`Poll` fetches all queued jobs, in the order in which the backend lists them (jobs are
numbered), `Transfer*` takes the next one and broadcasts, `Report*` posts the outcome. The
fields of a job are read before the `try`: a job that lacks one (`Malformed`; `NoMerchant`
for the older worker only) raises out of `process_job` into the loop, is not reported, and
takes the rest of the batch with it (`BatchDropped`). A report may be refused (its status
is not looked at), or raise -- before or after the backend took it -- and then the except
branch reports the job as failed. `Older` are the workers that run the older `worker.py`:
its broadcasting gateway may answer without a hash, having broadcast or not
(`TransferUnconfirmed`), and then it reports a success without one, which is recorded as
"unconfirmed". Nothing claims a job, so other workers are given it too.

No compose file has a service for either worker, so nothing restarts one: `Start` is
somebody who runs the image, at any time or never.

`ReportsAreTrue` compares a result with what its reporter did: a success with a hash was
broadcast by the very worker that reports it; a failure is recorded of a job its reporter
paid at most once for each lost call or crash of its own -- a paid job is called failed
only on account of a fault of that worker. An unconfirmed success says nothing, and no
property pretends that it does.

### 2.5 LocalLedger

`_append` in its three steps: `ReadFile` (read and insert in memory), `OpenForWrite`
(`open("w")` empties the file), `WriteAndClose`. A file is empty, a whole array, or
garbage; `_read` takes what it cannot parse for an empty array. `json.dump` writes a
buffer at a time at the offset of its own descriptor, so two handlers that have the file
open at once (`colliding`) write over each other from its start: what is left is the array
of one of them, garbage, or a mixture that parses, the beginning of one text and the end of
another with the seam between two records or inside one (`Spliced`, `Torn`). A mixture may
have a record twice, or an old status above a new one. `OpenFails`, `WriteFails` and
`Crash` leave what was there, or a part of what was being written.

Two history variables name what the properties except, each for its file: `mixed` -- two
handlers had it open at once; `disturbed` -- two appends to it overlapped, a write failed
in the middle, or the server died. `OutcomeOnTop` needs only that the file is not mixed:
overlapping appends that lose records, stale arrays, failures and crashes do not put a
record in twice or a pending one above its outcome. `Contents` is what a file stands for:
while it is open for writing, what its writer read from it.

`rec`, `decided` and the actions `Gateway*` are the handler around the two appends. An
answer that is JSON but no object raises out of the handler (`AnswerUnreadable`): a 500,
and no outcome record.

### 2.6 SettlementHandler

`on_iso_response` in its steps (`Decline`, `Post`, `PostRefused`, `PostAnswered`,
`PostTimesOut`, `AppendLine`, `AppendFails`, `Insert`) and `receive_transaction` in its
two (`Receive`, `ForwardPayout`), one post at a time (`serving`). The deliveries in
`Direct` are given to `payout_handler.py` instead (`HandlePayout`, `PostPayout`), which
asks the payout service itself and writes a line but no row. `received` is a history
variable for the bounded store, `unwritten` one for the lines whose write failed.
`OnTheBooks` excepts these and nothing else; `OnePayoutPerDelivery` says of a declined
delivery that it is nowhere -- not posted, not stored, not paid, not written. The payload's
texts are left out; that the settlement payout it requests carries no address is data, not
control, and is not modelled.

### 2.7 IsoCodec

A stream is a sequence of pieces: a length, an MTI, the two halves of a JSON object with
certain keys. The two codecs order length and MTI differently. `UnpackIsoCodec` strips a
length that fits and parses the rest; `UnpackIso8583` tries MTI and length and otherwise
takes the first JSON value of the stream -- which, of a stream that starts with an MTI, is
the number 0, and then it returns an empty message, not what its docstring says (section
5). `FieldsKept` says which fields a codec may return of a stream, and of which streams
fields are lost. `Streams` are all a reader may hold of a packed message: any beginning,
with or without its length.

### 2.8 GatewayCalls

Seven kinds of call that ask the processor once: `/payout` of `gateway_app.py`,
`gateway_forward.py`, `iso_sim.py` and `iso_codec.py` over a socket, two HTTP proxies, and
the job board of `tmp_gateway_files`. The reply is a stream of IsoCodec's pieces;
`Serve` writes it, `Deliver` brings it piece by piece, `Close` ends it anywhere.
`ReadHeader`, `ReadBody`, `BodyCut`, `ReadFails` are the readers (those in `Lenient` take
the end of the connection for the end of the body), the operators `...Verdict` what each
makes of what it read. `loop` is the event loop of `gateway_app.py`, which a call blocks
from `Connect` to its reply; `Pay` makes one of the two payouts of an approval, `Approve`
answers after the awaited one. In `tmp_gateway_files/gateway_app.py` a job is looked up
before it is stored (`JobKnown` is FALSE), so `CreateJob` always refuses.

### 2.9 StripeSettlement

`Authorize` and `StripeDecides` are the payment, `Begin` ... `HookFails` one delivery of
an event to the webhook, `Read`, `MarkProcessed`, `RunDies` a run of the settlement
worker with its one commit, `Status` the status endpoint. Rows carry `at`, their
created_at. A run selects its rows once and without a lock, so the batches of two runs may
be the same.

## 3. Runs

Each property of a passing run has a mutant that breaks it. Types are checked in the runs
`Transactions` and `GatewayCalls`; those of the other modules are proved (section 4) and
not checked again.

| run | instance | what it shows |
|---|---|---|
| `Transactions` | 4 calls, 3 of them sharing keys, both payout kinds, unique key, any number of crashes | payouts and outbox rows exactly for APPROVED; no payout without the processor's approval; replies stay true; one authorisation per key; settled is final; calls end; the purchase contract is implemented |
| `IsoLink` | 1 call, 32 wirings, 3/3/2 attempts | no false approval in any wiring; an approval is hidden only by an exhausted loop where the parts understand each other; at most one authorisation per attempt, and a second one only after an attempt that was given up; calls end |
| `IsoLinkFormat` | the same | violated on purpose: `ApprovalGetsThrough` |
| `GatewayCalls` | 2 calls in 4 mixes of the 7 kinds, 4 processors, both repairs | answers are the processor's, and an approval was read to its end; the two payouts of an approval stay within its amount; calls end and leave no payout waiting; of whole and cut streams the codecs return the fields of whole objects only, `iso_codec` reads every whole payload with MTI and fields, `iso8583` none that begins with an MTI it cannot frame |
| `PayoutWorker` | 2 runs, 4 rows (one not in dry_run mode, one with a foreign target), 1 crash | no row held twice; broadcasts at most 1 + crashes; SENT_ONCHAIN was broadcast; statuses final; the runs together keep the payout contract; every row settles |
| `PayoutWorkerDryRun`, `PayoutWorkerTarget` | the same | violated on purpose: `DryRunMovesNoMoney`, `EveryCryptoRowSettles` |
| `JobWorker` | a worker of each version, 3 jobs (one without a merchant, one malformed), 2 faults each | a worker repeats a broadcast only after a fault; what is recorded is what its reporter knows; each worker keeps the payout contract; a worker that is kept running settles every job before the first it cannot read |
| `LocalLedger` | 2 purchases on one file, 1 crash, any number of failing writes | a file that is not open twice at once has no pending record above its outcome and no record twice; undisturbed files lose nothing; an undisturbed append is one atomic insertion in front; requests are answered |
| `SettlementHandler` | 4 deliveries (a duplicate, one declined, one to the payout handler), store of 1, 2 faults | one payout request per delivery, no trace of a declined one; completed calls are on the books but for failed writes of their own line; the store is the newest posts; calls end |
| `SettlementHandlerDb` | the same | violated on purpose: `PersistedInDb` |
| `StripeSettlement` | 2 payments, 3 deliveries (2 of one payment), 2 runs, batches of 2, both sets of rows | the rows of an event are all there or none; a status exists exactly where settlement rows are written; only a redelivery takes a status back; every row is processed |

### 3.1 Bounds

* `Requests`, `Keys`: three calls on related keys give the replay, the lost insert race
  and a replay of a replay; a fourth is independent. More calls repeat these pairs, and
  the theorems hold for any number.
* `Calls = {c1}` in IsoLink: calls share no state (each attempt has a connection and a
  thread of its own); the theorems hold for any number. The attempts are the code's.
* `MaxCrashes`, `MaxFaults`: name the only unbounded counters; one crash is enough to
  separate a broadcast from its commit, two faults per worker make a repetition of a
  repetition. The theorems hold for any bound.
* `Rows = {1,2,3,4}`: two ordinary rows, so that a batch meets its own nonce or two runs
  meet each other's, and two special ones.
* `StoreMax = 1` with two posted deliveries, so that the store overflows (200 in the
  code); the theorem holds for any bound.
* `Jobs = {1, 2, 3}`: the first can be read by both workers, the second by the newer one,
  the third by neither; so every worker has a job in front of one that stops it.
* LocalLedger has two requests on one file: files share nothing, and a third request, which
  meets the others' arrays as the second does, takes the mixtures of three texts beyond the
  time of a run. The theorems hold for any number, on both files.
* `Older = {w2}`: one worker of each version; two of one version are the theorems' case.
* `Mixes`: two payout calls, which share the event loop, and three pairs of calls that
  share nothing, so that each kind occurs. A third call adds nobody to share with but a
  third payout call, which waits as the second does.
* `Amount = 7`: not a multiple of ten, so that a tenth is no whole number of minor units.
* Streams of at most four pieces, cut at every piece: a reply has no more.
* `Limit = 2` with three deliveries, so that a row is left out of a batch (10 in the code).
* Nonces, `mined`, `paid`, `broadcasts` are bounded by the rows and crashes.

### 3.2 Fairness

Weak fairness of the steps of code that is under way, never of the environment:

* Transactions: `Resume(r)`, the event loop resumes ready coroutines; the gateway call
  answers or raises. Calls need not arrive, processors need not decide.
* IsoLink: `ClientStep(c)`, the timeouts of the client fire; processors owe nothing.
* PayoutWorker: `Work(w)`, the container restarts the process (`docker-compose.yml`); the
  chain owes nothing beyond an answer or an exception.
* JobWorker: `Work(w)`, the endless loop of a worker that runs. Starting one is not fair:
  `EveryJobSettles` is about a worker that somebody keeps running from some time on, which
  is its antecedent.
* LocalLedger: `Handle(r)`, including `GatewayRaises`: the forwarding call has a
  timeout. Not the gateway's answer.
* SettlementHandler: `Handle(d)`, including `PostTimesOut`. Not the gateway.
* GatewayCalls: `CallStep(c)`: the timeouts of sockets and HTTP calls expire and the event
  loop resumes what can run. Nobody has to call, and the processor and the network owe
  nothing; a crash of the gateway is not made fair.
* StripeSettlement: none in the specification. Nothing in the repository schedules
  `run_once`, so `RowsAreProcessed` says what follows if somebody does: if runs are started
  again and again (weak fairness of `Read`) and do not die for ever (strong fairness of
  `MarkProcessed`).

`CHECK_DEADLOCK FALSE` stands where the system really may stop: workers without rows or
jobs, calls that all ended, deliveries that were all acknowledged.

## 4. Proofs

Checked by TLAPS for every value of the constants.

| module | theorems | assumptions |
|---|---|---|
| `Transactions_proofs` | `TypeCorrect`, `PayoutIffApprovedInv`, `ApprovedWasAuthorizedInv`, `ReplyTruthfulInv`, `OneAuthPerKeyInv`, `SettledIsFinalAct`, `ContractKept`, `OneOutcomePerKey` | `RequestAssumption`; those on keys (`OneAuthPerKeyInv`, `ContractKept`, `OneOutcomePerKey`) also `UniqueKey` |
| `IsoLink_proofs` | `TypeCorrect`, `NoFalseApprovalInv`, `RefusedOnlyWhenExhaustedInv`, `AuthorisationsBoundedInv`, `RepeatsAreTimeoutsInv`, `AttemptsNotReusedStep`, `AnswersAsExpectedInv` | `AttemptsAssumption` |
| `GatewayCalls_proofs` | `TypeCorrect`, `AnswerIsVerdictInv`, `NeverOverpaidInv`, `AnyStreamKept`, `CodecsKeepFieldsInv`, `OnePayoutAtATimeStep` | `GatewayAssumption` |
| `PayoutWorker_proofs` | `TypeCorrect`, `OneHolderInv`, `BroadcastsBoundedInv`, `SentWasBroadcastInv`, `OthersUntouchedInv`, `SettledIsFinalStep`, `ContractKept`, `ContractBounds` | `WorkerAssumption` |
| `JobWorker_proofs` | `TypeCorrect`, `BroadcastsBoundedInv`, `ReportsAreTrueStep`, `ContractKept` | `JobAssumption` |
| `LocalLedger_proofs` | `TypeCorrect`, `OutcomeOnTopInv`, `KeptUnlessDisturbedInv`, `AppendIsAtomicStep` | `LedgerAssumption` |
| `SettlementHandler_proofs` | `TypeCorrect`, `OnePayoutPerDeliveryInv`, `OnTheBooksInv`, `StoreIsNewestInv` | `SettlementAssumption` |
| `StripeSettlement_proofs` | `TypeCorrect`, `RowsOfEventInv`, `StatusIffTargetInv`, `BackOnlyByRedeliveryStep` | `StripeAssumption` |

The arguments. Each invariant `IInv` was first checked by TLC on the instance of its run.

* Transactions. The properties speak of the tables, but whether a step may touch a row
  depends on where its coroutine is. `RowOfPc` ties each row to its program counter
  (an "answering" call has a settled row, an "inserted" one a PENDING row not yet sent),
  `OneRowPerKey` says that rows of one key are one row when the constraint holds.
  `ContractKept` then maps every step to a step of the contract or to a stutter: the
  insert opens a key, the outcome pays or closes it, an approved reply tells it. What the
  contract is worth is proved from the contract alone and carried over by `ContractKept`
  (`OneOutcomePerKey`): no key has an approved row and a refused or failed one, and
  nobody is told "approved" of a key that has no approved row.
* IsoLink. What frames and answers are is a finite matter, settled once:
  `ApprovalIsOfFrame` (an answer taken for an approval carries the frame's code) and
  `CompatibleApproves`. The loop adds `AnswerOfLastAttempt`: until the loop is over there
  is no answer, then it is that of the attempt the call waits for. `ConnectionsBegun` puts
  the served attempts among the first `Limit`, which bounds their number; `OthersGivenUp`
  counts the connections ever opened against those given up. `AnswersAsExpectedInv`
  discharges what Transactions assumes: every body a gateway answers over the link, in any
  wiring, is a member of the same `GatewayReplies`, with the decision "approved" only if
  the processor approves and served the call.
* PayoutWorker. `Batches` and `Staging` describe the open transactions -- what is locked
  is PENDING and for this worker, what is staged is locked and done with -- and
  `Unsettled` is the strengthening of the bound: a row nobody has settled, not even in an
  open transaction, owes each of its broadcasts to a crash. `Waiting` does the same for
  the transfer at the node. `ContractKept` maps a broadcast, or the refusal of a row, to a
  try, a commit to the settlement of its batch, a crash to forgetting what was staged; that
  a row is tried once needs `Batches` (nobody else holds it, and it has no outcome).
  `ContractBounds` derives `BroadcastsBounded` from the contract alone, without the
  worker's invariant.
* JobWorker. `SpareFault`: whenever a worker can still come to broadcast a job, because
  the job is in its batch or is queued and not being reported by it, it has a fault to its
  name for every broadcast it made of it. `ReportIsTrue` is the same bookkeeping for what
  a worker is about to report, and `RecordedIsTrue` carries it into the step that records
  it: only the worker at a job records its result. The contract of a worker speaks of the
  jobs of all: `OthersSettle` shows that what another worker records at most settles a job
  for this one, `OwnStep` goes through the worker's own actions, and a report that is
  refused or lost, or a crash, is the fault that lets a job be tried again. The jobs of a
  batch that is dropped go back to the backend untried (`BatchDroppedSettles`).
* LocalLedger. `Sole`: a file that is not mixed has one writer at most, which does not
  collide, so what a step leaves in it is an array that somebody held, or none (`FileStep`
  with `TornAlone`). `Fresh` says of every place of such a file a record can be -- the
  file, or an array some handler is about to write over it -- what may be there while its
  request is where it is: nothing before the first append, no outcome before the second.
  Order follows, however stale the array is that is written. That mixtures are arrays of
  records at all, which the types need, is `SplicedType`. `Lone`: in an undisturbed file the
  only handler inside `_append` holds everything that was ever appended. `Held`: its array
  is its record in front of what the file stood for when it was read; since nobody else
  changes the file meanwhile, the whole append takes effect in the step that closes it.
* SettlementHandler. `OneRequest` locates the one post of a delivery: not made, in the
  inbox, being served, or forwarded. `NoTrace`: a declined delivery is in none of these
  places, nor in the store, which is filled from the inbox alone. `Written`: a call that is
  past its line has one, or the write failed. `StoreIsEnd`: the store is the end of
  `received` of the length it may have.
* GatewayCalls. The second half of a JSON object is the last piece of every reply, so a
  reader that finds an object has read it all (`CutShape`, `VerdictSound`); `Money` counts
  a tenth of the amount for each payout already made. `AnyStreamKept` is about the codecs by
  themselves and any sequence of pieces, in any number and order; `CodecsKeepFieldsInv`
  applies it to what has arrived of a reply. `OnePayoutAtATimeStep` needs only that a
  payout call that waits for its reply holds the event loop.
* StripeSettlement. `RowsAreWritten` ties the rows of a delivery to the point its handler
  has reached; `BatchesExist` says that a run only holds settlement rows that exist, so
  that marking them creates none.

Only model-checked: the eight liveness properties (they rest on fairness and ENABLED,
which the prover does not treat). Every other property of a passing run is a theorem. No
recursive definition is used, so nothing is left to induction over data. Proved and in no
run: `OthersUntouched`, `AttemptsNotReused`, `AnswersAsExpected`,
`OnePayoutAtATime` and six type invariants.

What the proofs changed: `CommitOutcome` once waited for the processor's decision. The
attempt to discharge the assumption by the link showed that `server.new.py` answers
without one, and the guard went; all properties of Transactions hold without it.

## 5. Where the code disagrees with what is said of it

| run | said | done |
|---|---|---|
| `IsoLinkFormat` | `app/tcp_client.py:69-70`: response with same format, returns parsed dict | the code inside "fields" is never looked at; `server_to_patch.py:89-91` turns the approval into a 502 |
| `PayoutWorkerDryRun` | `crypto_payout_worker.py:46`: "Only dry_run allowed" | a dry_run row is signed, broadcast and mined |
| `PayoutWorkerTarget` | `routes.py.fix:212`: outbox entry for the payout worker | the row has the target `crypto_send`, the worker selects `crypto`; no other worker in the repository takes it (`docker-compose.yml:150` starts an `outbox_processor` that is not in it) |
| `SettlementHandlerDb` | `settlement_handler.py:1`: DB persistence | a dict is bound to the Text column `raw_json`; the insert raises and the exception is swallowed |

One more disagreement is stated as what the code does, and holds, rather than as a run that
is violated: `app/iso8583.py:12-13` and `61-62` say that without framing the first JSON
object of the bytes is parsed. `unpack_iso` decodes the first JSON value, and of a message
that begins with an MTI it cannot frame, as two of the processors answer, that is the MTI's
leading zero, a number: what it returns is an empty message, with MTI 0000, and no error.
`FieldsKept`, and with it `CodecsKeepFields`, names these streams (`Lost`) and says that
the fields of every one of them are lost; `AnyStreamKept` proves it of any pieces.

Seen on the way, and no contradiction of anything the repository says of itself:

* a repeated call of a key is answered from whatever row there is: PENDING while the first
  is under way (`ReplyTruthful` says what such an answer is worth);
* a job without one of its fields stops a worker at it in every poll, and the jobs listed
  behind it are never reached (`BatchDropped`);
* two writers of a local ledger file may leave an array that parses and has a record twice
  (`Torn`);
* each approved `/payout` starts two crypto payouts, of a tenth of the amount each
  (`NeverOverpaid`);
* the job board of `tmp_gateway_files/gateway_app.py` refuses every job (`CreateJob`);
* the row of the Stripe webhook as committed has a target no worker of the repository
  selects, and its payment never has a status (`StatusIffTarget`);
* a redelivered event takes a processed payment back to PENDING (`BackOnlyByRedelivery`).

## 6. Not modelled

* Connectors, HSM, card utilities, ISO 20022 client, `send_crypto_signonly.py`: single
  remote calls, formatting and checks without a state of their own; the signing script is
  run by hand and sends nothing.
* Telemetry, configuration, mocks, start-up, frontend, deployment.
* Endpoints that change nothing: health checks, metrics, websocket echoes, the payout
  status proxy of `server_to_patch.py`.
* The nonces of job workers that share an account: acceptance and refusal of a transfer
  are a free choice there, which covers a collision but not which transfer survives it.
* External code, modelled from its use only: the database and its constraint,
  `gateway_client`, the websocket manager, the job endpoints, the payout service, Stripe,
  TCP, the node and the chain.
* Texts, masks, field contents, logging, and validation that refuses a request before
  anything changed. Amounts appear where they are paid out (GatewayCalls) only. What the
  four gateways make of an amount on the wire -- `int(float * 100)` or `round`, an
  unparsable one taken for 0.0 (`server.new.py:94-97`), an absent one left out or taken
  for 0 -- is one conversion in floating point with no behaviour around it.
* One chain from a purchase to its transfer (Transactions, then PayoutWorker): as
  committed the two disagree on the target of the row between them (`PayoutWorkerTarget`),
  so nothing that is true of the joined system goes beyond what is true of its parts.

## 7. Plan

Done, in this order: Transactions with its contract; IsoWire, IsoLink; PayoutWorker;
JobWorker; LocalLedger; SettlementHandler; StripeSettlement; IsoCodec and
GatewayCalls; proofs about all of them; the contract of the payout workers, and the
assumption of Transactions about its gateway, discharged by the link.

Left, should the code move on: the joined system above, once writer and reader of the
outbox agree on a target; a claim of jobs, once `/internal/queued` gives one, with
`BroadcastsBounded` as the property to strengthen; the outbox processor that
`docker-compose.yml` starts, once it is in the repository.
