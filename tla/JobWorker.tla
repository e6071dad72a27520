------------------------------ MODULE JobWorker ------------------------------
(***************************************************************************)
(* worker/worker.py and the older worker.py: an endless loop that asks the *)
(* backend for the queued jobs, signs and broadcasts a transfer for each   *)
(* -- the older one through a gateway, by Infura or with a key of its own  *)
(* -- and reports the outcome.  Nothing claims a job: what keeps it from   *)
(* being paid again is the report alone, which may be refused, lost, or    *)
(* taken with its answer lost -- and then a transfer that went out is      *)
(* reported as failed.  A job that lacks a field is found out before the   *)
(* try: it has no report, and takes the rest of its batch with it.         *)
(*                                                                         *)
(* The backend's job table is external: /internal/queued lists the jobs    *)
(* without a result, oldest first, /internal/job_result records the last   *)
(* report.                                                                 *)
(***************************************************************************)
EXTENDS Naturals, FiniteSets

CONSTANTS
    Jobs,           \* numbered in the order in which the backend lists them
    NoJob,
    Malformed,      \* jobs that lack the job_id, to_address or amount
    NoMerchant,     \* jobs that lack the merchant_id
    Workers,
    Older,          \* the workers that run the older worker.py
    MaxFaults       \* bound on the lost calls and the crashes of a worker

ASSUME JobAssumption ==
    /\ Jobs \subseteq Nat /\ NoJob \notin Jobs
    /\ Older \subseteq Workers
    /\ MaxFaults \in Nat

VARIABLES
    result,         \* the backend's record of each job
    batch,          \* the jobs a worker fetched and has not taken yet
    current,        \* the job a worker reports on, or NoJob
    outcome,        \* what it is about to report
    broadcasts,     \* how often each worker's transfer of a job was accepted
    faults,         \* the lost calls and crashes of each worker so far
    running         \* the workers whose container is up

vars == <<result, batch, current, outcome, broadcasts, faults, running>>

\* A success reported without a transaction hash is "unconfirmed".
Outcomes == {"success", "unconfirmed", "failed"}

TypeOK ==
    /\ result \in [Jobs -> Outcomes \cup {"queued"}]
    /\ batch \in [Workers -> SUBSET Jobs]
    /\ current \in [Workers -> Jobs \cup {NoJob}]
    /\ outcome \in [Workers -> Outcomes]
    /\ broadcasts \in [Workers -> [Jobs -> Nat]]
    /\ faults \in [Workers -> 0..MaxFaults]
    /\ running \in [Workers -> BOOLEAN]

Init ==
    /\ result = [j \in Jobs |-> "queued"]
    /\ batch = [w \in Workers |-> {}]
    /\ current = [w \in Workers |-> NoJob]
    /\ outcome = [w \in Workers |-> "failed"]
    /\ broadcasts = [w \in Workers |-> [j \in Jobs |-> 0]]
    /\ faults = [w \in Workers |-> 0]
    /\ running = [w \in Workers |-> FALSE]

Queued == {j \in Jobs : result[j] = "queued"}

\* The fields that process_job reads first; the older one wants one more.
Unreadable(w) == Malformed \cup {j \in NoMerchant : w \in Older}

Fault(w) ==
    /\ faults[w] < MaxFaults
    /\ faults' = [faults EXCEPT ![w] = @ + 1]
-----------------------------------------------------------------------------
(***************************************************************************)
(* The loop and the transfer.                                              *)
(***************************************************************************)
Poll(w) ==
    /\ running[w] /\ current[w] = NoJob
    /\ batch[w] = {}
    /\ Queued # {}
    /\ batch' = [batch EXCEPT ![w] = Queued]
    /\ UNCHANGED <<result, current, outcome, broadcasts, faults, running>>

\* The loop comes to job j of its batch.
IsNext(w, j) ==
    /\ running[w] /\ current[w] = NoJob
    /\ j \in batch[w]
    /\ \A i \in batch[w] : j <= i

\* A field is missing: the exception leaves process_job, and the except of the
\* poll ends the batch.  Nothing is reported.
BatchDropped(w, j) ==
    /\ IsNext(w, j) /\ j \in Unreadable(w)
    /\ batch' = [batch EXCEPT ![w] = {}]
    /\ UNCHANGED <<result, current, outcome, broadcasts, faults, running>>

\* process_job goes on to report s.
Take(w, j, s) ==
    /\ IsNext(w, j) /\ j \notin Unreadable(w)
    /\ batch' = [batch EXCEPT ![w] = @ \ {j}]
    /\ current' = [current EXCEPT ![w] = j]
    /\ outcome' = [outcome EXCEPT ![w] = s]
    /\ UNCHANGED <<result, running>>

\* Mutant: the loop does not move on after a transfer.
TransferAgain(w, j) ==
    /\ IsNext(w, j) /\ j \notin Unreadable(w)
    /\ broadcasts' = [broadcasts EXCEPT ![w][j] = @ + 1]
    /\ current' = [current EXCEPT ![w] = j]
    /\ outcome' = [outcome EXCEPT ![w] = "success"]
    /\ UNCHANGED <<result, batch, faults, running>>

Transfer(w, j) ==
    /\ Take(w, j, "success")
    /\ broadcasts' = [broadcasts EXCEPT ![w][j] = @ + 1]
    /\ UNCHANGED faults

\* The node took the transfer, its answer was lost: send_raw_transaction raises.
TransferAnswerLost(w, j) ==
    /\ Take(w, j, "failed")
    /\ broadcasts' = [broadcasts EXCEPT ![w][j] = @ + 1]
    /\ Fault(w)

\* Mutant: the status is chosen before the call that may raise.
TransferFailsUnnoticed(w, j) ==
    /\ Take(w, j, "success")
    /\ UNCHANGED <<broadcasts, faults>>

\* The gateway answers 200 without a hash, whether it has broadcast or not:
\* worker.py does not look whether it got one, and reports a success without.
TransferUnconfirmed(w, j) ==
    /\ w \in Older
    /\ Take(w, j, "unconfirmed")
    /\ broadcasts' \in {broadcasts, [broadcasts EXCEPT ![w][j] = @ + 1]}
    /\ UNCHANGED faults

\* A bad address, no funds, a used nonce, a signer or a node that is away.
TransferFails(w, j) ==
    /\ Take(w, j, "failed")
    /\ UNCHANGED <<broadcasts, faults>>
-----------------------------------------------------------------------------
(***************************************************************************)
(* The report.                                                             *)
(***************************************************************************)
Record(w, s) == result' = [result EXCEPT ![current[w]] = s]
JobDone(w) ==
    /\ current' = [current EXCEPT ![w] = NoJob]
    /\ UNCHANGED <<batch, outcome, broadcasts, running>>

ReportSuccess(w) ==
    /\ current[w] # NoJob /\ outcome[w] # "failed"
    /\ Record(w, outcome[w])
    /\ JobDone(w)
    /\ UNCHANGED faults

\* The backend answers with an error status, which worker/worker.py does not
\* look at.
ReportSuccessRefused(w) ==
    /\ w \notin Older
    /\ current[w] # NoJob /\ outcome[w] # "failed"
    /\ Fault(w)
    /\ JobDone(w)
    /\ UNCHANGED result

\* The report raises -- never sent, taken with its answer lost, or for worker.py
\* refused -- and the except branch reports the job as failed.
ReportSuccessRaises(w) ==
    /\ current[w] # NoJob /\ outcome[w] # "failed"
    /\ Fault(w)
    /\ Record(w, outcome[w]) \/ UNCHANGED result
    /\ outcome' = [outcome EXCEPT ![w] = "failed"]
    /\ UNCHANGED <<batch, current, broadcasts, running>>

\* Mutant: a failure is only printed.
ReportFailureNever(w) ==
    /\ current[w] # NoJob /\ outcome[w] = "failed"
    /\ JobDone(w)
    /\ UNCHANGED <<result, faults>>

ReportFailure(w) ==
    /\ current[w] # NoJob /\ outcome[w] = "failed"
    /\ Record(w, "failed")
    /\ JobDone(w)
    /\ UNCHANGED faults

ReportFailureLost(w) ==
    /\ current[w] # NoJob /\ outcome[w] = "failed"
    /\ Fault(w)
    /\ JobDone(w)
    /\ UNCHANGED result

-----------------------------------------------------------------------------
\* Somebody runs the image: no compose file has a service for either worker, so
\* nothing restarts one.
Start(w) ==
    /\ ~running[w]
    /\ running' = [running EXCEPT ![w] = TRUE]
    /\ UNCHANGED <<result, batch, current, outcome, broadcasts, faults>>

Crash(w) ==
    /\ running[w]
    /\ Fault(w)
    /\ running' = [running EXCEPT ![w] = FALSE]
    /\ batch' = [batch EXCEPT ![w] = {}]
    /\ current' = [current EXCEPT ![w] = NoJob]
    /\ UNCHANGED <<result, outcome, broadcasts>>

Work(w) ==
    \/ Poll(w)
    \/ \E j \in Jobs :
        \/ Transfer(w, j) \/ TransferAnswerLost(w, j) \/ TransferFails(w, j)
        \/ TransferUnconfirmed(w, j) \/ BatchDropped(w, j)
    \/ ReportSuccess(w) \/ ReportSuccessRefused(w) \/ ReportSuccessRaises(w)
    \/ ReportFailure(w) \/ ReportFailureLost(w)

Next == \E w \in Workers : Work(w) \/ Start(w) \/ Crash(w)

Spec == Init /\ [][Next]_vars

\* The loop of a running worker never ends, and every call in it has a timeout.
FairSpec == Spec /\ \A w \in Workers : WF_vars(Work(w))
-----------------------------------------------------------------------------
\* A worker broadcasts a job's transfer at most once more than it lost calls or
\* died: without a fault nobody is paid twice by the same worker, and no
\* number of faults makes the repetition worse than one each.
BroadcastsBounded ==
    \A w \in Workers, j \in Jobs : broadcasts[w][j] <= 1 + faults[w]

\* What is recorded of a job is what its reporter knows: a success with a hash was
\* broadcast by the very worker that reports it, and a worker that reports a
\* failure has not paid the job -- but for one payment for each of its lost calls
\* and crashes.
ReportsAreTrue ==
    [][\A j \in Jobs : result'[j] # result[j] =>
          \E w \in Workers :
              /\ current[w] = j
              /\ result'[j] = "success" => broadcasts[w][j] > 0
              /\ result'[j] = "failed" => broadcasts[w][j] <= faults[w]]_vars

\* Each worker keeps the contract of one who pays.  It has settled a job that has
\* a result and that it holds no more.
Contract(w) == INSTANCE PayoutContract WITH
    Items <- Jobs, sent <- broadcasts[w], faults <- faults[w],
    tried <- {current[w]} \ {NoJob},
    settled <- {j \in Jobs : result[j] # "queued" /\ j \notin batch[w] \cup {current[w]}}

\* A worker pays a job again only after a fault of its own, and never once it is
\* done with a job that has a result -- whatever the other workers do.
KeepsContract ==
    /\ \A w \in Workers : Contract(w)!ContractInit
    /\ [][\A w \in Workers : [Contract(w)!ContractNext]_(Contract(w)!contractVars)]_vars

\* A worker that somebody keeps running gives every job its result in the end,
\* whatever calls are lost and whatever the other workers do -- but for the jobs
\* that it cannot read, and those listed behind one.
EveryJobSettles ==
    \A w \in Workers : <>[](running[w]) =>
        \A j \in Jobs : (\A i \in Unreadable(w) : j < i) => <>(result[j] # "queued")
=============================================================================
