---------------------------- MODULE PayoutWorker ----------------------------
(***************************************************************************)
(* app/workers/crypto_payout_worker.py: a one-shot run, started over and   *)
(* over by its container.  A run locks every PENDING "crypto" outbox row   *)
(* that no other run has locked, takes them in the order of creation --    *)
(* asks the node for the account's nonce, signs, broadcasts -- and commits *)
(* all new statuses in one transaction at the very end.  The backend adds  *)
(* rows meanwhile, so that runs that overlap have batches of their own.    *)
(*                                                                         *)
(* The chain is external: the node holds at most one transfer at the next  *)
(* nonce; it refuses a used nonce, and a second transfer at the next nonce *)
(* is refused or replaces the first, depending on the gas prices.          *)
(***************************************************************************)
EXTENDS Naturals, FiniteSets

CONSTANTS
    Rows,           \* outbox rows, numbered in order of creation
    Target,         \* the target of each row
    DryRun,         \* the rows whose payload says mode = "dry_run"
    NoRow,
    Workers,        \* runs of the worker that may overlap
    MaxCrashes      \* bound on the crashes of runs

ASSUME WorkerAssumption ==
    /\ Rows \subseteq Nat
    /\ Target \in [Rows -> {"crypto", "crypto_send", "crypto_payout"}]
    /\ DryRun \subseteq Rows
    /\ NoRow \notin Rows
    /\ MaxCrashes \in Nat

VARIABLES
    status,         \* committed status of each row, "NONE" before it exists
    held,           \* the rows each run has locked
    todo,           \* the rows of its batch a run has not taken yet
    staged,         \* the statuses a run has set and not committed
    current,        \* the row a run is at between nonce and broadcast, or NoRow
    nonce,          \* the nonce that run was told
    mined,          \* number of transfers of the account in the chain
    pending,        \* the row whose transfer waits at the next nonce, or NoRow
    paid,           \* how often each row's transfer was mined
    broadcasts,     \* how often each row's transfer was accepted by the node
    crashes

vars == <<status, held, todo, staged, current, nonce,
          mined, pending, paid, broadcasts, crashes>>
run == <<held, todo, staged, current, nonce>>
chain == <<mined, pending, paid, broadcasts>>

Outcomes == {"SENT_ONCHAIN", "FAILED"}

TypeOK ==
    /\ status \in [Rows -> Outcomes \cup {"NONE", "PENDING"}]
    /\ held \in [Workers -> SUBSET Rows]
    /\ todo \in [Workers -> SUBSET Rows]
    /\ staged \in [Workers -> [Rows -> Outcomes \cup {"PENDING"}]]
    /\ current \in [Workers -> Rows \cup {NoRow}]
    /\ nonce \in [Workers -> Nat]
    /\ mined \in Nat
    /\ pending \in Rows \cup {NoRow}
    /\ paid \in [Rows -> Nat]
    /\ broadcasts \in [Rows -> Nat]
    /\ crashes \in 0..MaxCrashes

AllPending == [r \in Rows |-> "PENDING"]

Init ==
    /\ status = [r \in Rows |-> "NONE"]
    /\ held = [w \in Workers |-> {}]
    /\ todo = [w \in Workers |-> {}]
    /\ staged = [w \in Workers |-> AllPending]
    /\ current = [w \in Workers |-> NoRow]
    /\ nonce = [w \in Workers |-> 0]
    /\ mined = 0
    /\ pending = NoRow
    /\ paid = [r \in Rows |-> 0]
    /\ broadcasts = [r \in Rows |-> 0]
    /\ crashes = 0

Locked == UNION {held[w] : w \in Workers}

\* Mutant: select without with_for_update(skip_locked=True).
SelectedUnlocked == {r \in Rows : Target[r] = "crypto" /\ status[r] = "PENDING"}

Selected ==
    {r \in Rows : Target[r] = "crypto" /\ status[r] = "PENDING"} \ Locked

\* The first row of the batch that is still to do.
IsNext(w, r) == r \in todo[w] /\ \A q \in todo[w] : r <= q
-----------------------------------------------------------------------------
\* A purchase is approved: the backend commits its outbox row.
Enqueue(r) ==
    /\ status[r] = "NONE"
    /\ status' = [status EXCEPT ![r] = "PENDING"]
    /\ UNCHANGED <<run, chain, crashes>>

Begin(w) ==
    /\ held[w] = {}
    /\ Selected # {}
    /\ held' = [held EXCEPT ![w] = Selected]
    /\ todo' = [todo EXCEPT ![w] = Selected]
    /\ UNCHANGED <<status, staged, current, nonce, chain, crashes>>

\* Past the mode check; get_transaction_count counts mined transfers only.
ReadNonce(w, r) ==
    /\ current[w] = NoRow
    /\ IsNext(w, r)
    /\ r \in DryRun
    /\ todo' = [todo EXCEPT ![w] = @ \ {r}]
    /\ current' = [current EXCEPT ![w] = r]
    /\ nonce' = [nonce EXCEPT ![w] = mined]
    /\ UNCHANGED <<status, held, staged, chain, crashes>>

\* The mode is not "dry_run", the payload is unusable or the node is away: the
\* row is marked FAILED and the batch goes on.
RefuseRow(w, r) ==
    /\ current[w] = NoRow
    /\ IsNext(w, r)
    /\ todo' = [todo EXCEPT ![w] = @ \ {r}]
    /\ staged' = [staged EXCEPT ![w][r] = "FAILED"]
    /\ UNCHANGED <<status, held, current, nonce, chain, crashes>>

\* What the node does with a transfer it accepts.
NodeAccepts(w) ==
    /\ nonce[w] = mined
    /\ pending' = current[w]
    /\ broadcasts' = [broadcasts EXCEPT ![current[w]] = @ + 1]
    /\ UNCHANGED <<mined, paid>>

Mark(w, s) ==
    /\ staged' = [staged EXCEPT ![w][current[w]] = s]
    /\ current' = [current EXCEPT ![w] = NoRow]
    /\ UNCHANGED <<status, held, todo, nonce, crashes>>

Broadcast(w) ==
    /\ current[w] # NoRow
    /\ NodeAccepts(w)
    /\ Mark(w, "SENT_ONCHAIN")

\* Mutant: a broadcast that raised leaves the row PENDING, to be tried again.
BroadcastAnswerLostRetry(w) ==
    /\ current[w] # NoRow
    /\ NodeAccepts(w)
    /\ Mark(w, "PENDING")

\* The node took the transfer, its answer was lost: send_raw_transaction raises.
BroadcastAnswerLost(w) ==
    /\ current[w] # NoRow
    /\ NodeAccepts(w)
    /\ Mark(w, "FAILED")

\* Mutant: the status is set before the call that may raise.
BroadcastRefusedSent(w) ==
    /\ current[w] # NoRow
    /\ Mark(w, "SENT_ONCHAIN")
    /\ UNCHANGED chain

\* Nonce too low, replacement underpriced, no funds, or the node is away.
BroadcastRefused(w) ==
    /\ current[w] # NoRow
    /\ Mark(w, "FAILED")
    /\ UNCHANGED chain

\* Mutant: the commit drops the rows that failed.
CommitSentOnly(w) ==
    /\ held[w] # {} /\ todo[w] = {} /\ current[w] = NoRow
    /\ status' = [r \in Rows |-> IF r \in held[w] /\ staged[w][r] = "SENT_ONCHAIN"
                                 THEN staged[w][r] ELSE status[r]]
    /\ held' = [held EXCEPT ![w] = {}]
    /\ staged' = [staged EXCEPT ![w] = AllPending]
    /\ UNCHANGED <<todo, current, nonce, chain, crashes>>

\* Mutant: the commit writes every row the run knows, not only its own.
CommitWholeTable(w) ==
    /\ held[w] # {} /\ todo[w] = {} /\ current[w] = NoRow
    /\ status' = staged[w]
    /\ held' = [held EXCEPT ![w] = {}]
    /\ staged' = [staged EXCEPT ![w] = AllPending]
    /\ UNCHANGED <<todo, current, nonce, chain, crashes>>

Commit(w) ==
    /\ held[w] # {} /\ todo[w] = {} /\ current[w] = NoRow
    /\ status' = [r \in Rows |-> IF r \in held[w] THEN staged[w][r] ELSE status[r]]
    /\ held' = [held EXCEPT ![w] = {}]
    /\ staged' = [staged EXCEPT ![w] = AllPending]
    /\ UNCHANGED <<todo, current, nonce, chain, crashes>>

\* The process dies, or the commit fails: the database rolls back and unlocks,
\* the chain does not.
Crash(w) ==
    /\ held[w] # {}
    /\ crashes < MaxCrashes
    /\ crashes' = crashes + 1
    /\ held' = [held EXCEPT ![w] = {}]
    /\ todo' = [todo EXCEPT ![w] = {}]
    /\ staged' = [staged EXCEPT ![w] = AllPending]
    /\ current' = [current EXCEPT ![w] = NoRow]
    /\ UNCHANGED <<status, nonce, chain>>

Mine ==
    /\ pending # NoRow
    /\ mined' = mined + 1
    /\ paid' = [paid EXCEPT ![pending] = @ + 1]
    /\ pending' = NoRow
    /\ UNCHANGED <<status, run, broadcasts, crashes>>

Work(w) ==
    \/ Begin(w) \/ Commit(w)
    \/ \E r \in Rows : ReadNonce(w, r) \/ RefuseRow(w, r)
    \/ Broadcast(w) \/ BroadcastAnswerLost(w) \/ BroadcastRefused(w)

Next ==
    \/ \E w \in Workers : Work(w) \/ Crash(w)
    \/ \E r \in Rows : Enqueue(r)
    \/ Mine

Spec == Init /\ [][Next]_vars

\* Every run makes progress and its container starts it again; the chain owes
\* nothing.
FairSpec == Spec /\ \A w \in Workers : WF_vars(Work(w))
-----------------------------------------------------------------------------
\* Runs that overlap never work on the same row.
OneHolder ==
    \A v, w \in Workers : v # w => held[v] \cap held[w] = {}

\* However runs, restarts and lost answers interleave, a row's transfer is
\* broadcast at most once more than runs died: only a crash between broadcast
\* and commit can repeat it.
BroadcastsBounded == \A r \in Rows : broadcasts[r] <= 1 + crashes

\* A row is reported SENT_ONCHAIN only if the node accepted its transfer, and
\* the chain pays no row more often than it was broadcast.
SentWasBroadcast ==
    \A r \in Rows :
        /\ status[r] = "SENT_ONCHAIN" => broadcasts[r] > 0
        /\ paid[r] <= broadcasts[r]

\* A row that is not for this worker, or not in the mode it allows, never
\* reaches the chain and is never reported as sent.  (Proved, not checked.)
OthersUntouched ==
    \A r \in Rows :
        /\ Target[r] # "crypto" => status[r] \notin Outcomes /\ broadcasts[r] = 0
        /\ r \notin DryRun => status[r] # "SENT_ONCHAIN" /\ broadcasts[r] = 0

\* A row that has its outcome never changes again: no other run takes it up or
\* writes over it with what it read before.
SettledIsFinal ==
    [][\A r \in Rows : status[r] \in Outcomes => status'[r] = status[r]]_vars

\* The workers keep the contract of one who pays: what all runs have staged is what
\* was tried, and a crash is the fault.
Contract == INSTANCE PayoutContract WITH
    Items <- Rows, sent <- broadcasts, faults <- crashes,
    tried <- {r \in Rows : \E w \in Workers : staged[w][r] # "PENDING"},
    settled <- {r \in Rows : status[r] \in Outcomes}

\* However runs overlap, a row is not tried again before a crash has undone the
\* run that tried it, and never once a run committed its outcome.
KeepsContract == Contract!ContractSpec

\* Every row for this worker is eventually SENT_ONCHAIN or FAILED.
EveryRowSettles ==
    \A r \in {q \in Rows : Target[q] = "crypto"} :
        status[r] = "PENDING" ~> status[r] \in Outcomes

\* What the worker says of itself, "Only dry_run allowed in this worker": a dry
\* run moves no money.
DryRunMovesNoMoney == \A r \in DryRun : paid[r] = 0

\* What the endpoint says of the row it queues, "outbox entry for payout worker
\* (iso20022 or crypto)": the worker takes it.
EveryCryptoRowSettles ==
    \A r \in Rows : status[r] = "PENDING" ~> status[r] \in Outcomes
=============================================================================
