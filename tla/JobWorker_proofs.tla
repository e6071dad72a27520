--------------------------- MODULE JobWorker_proofs ---------------------------
(***************************************************************************)
(* The bound on double payments of the job worker, for any number of jobs, *)
(* workers and faults.                                                     *)
(*                                                                         *)
(* BroadcastsBounded is not inductive: a job in a stale batch, or one that *)
(* is listed again, will be broadcast once more.  SpareFault says that     *)
(* whenever a worker can still come to broadcast a job, it has a fault to  *)
(* its name for every broadcast it made of it.                             *)
(***************************************************************************)
EXTENDS JobWorker, TLAPS

\* Is the worker between the transfer of the job and the end of its report?
Reporting(w, j) == current[w] = j

SpareFault ==
    \A w \in Workers, j \in Jobs :
        /\ j \in batch[w] => broadcasts[w][j] <= faults[w]
        /\ result[j] = "queued" /\ ~Reporting(w, j) => broadcasts[w][j] <= faults[w]

\* What a worker is about to report is true.  It is not at a job and has it in its
\* batch at once.
ReportIsTrue ==
    \A w \in Workers, j \in Jobs : Reporting(w, j) =>
        /\ outcome[w] = "success" => broadcasts[w][j] > 0
        /\ outcome[w] = "failed" => broadcasts[w][j] <= faults[w]
        /\ j \notin batch[w]

IInv == /\ TypeOK
        /\ SpareFault /\ BroadcastsBounded
        /\ ReportIsTrue
-----------------------------------------------------------------------------
\* The value that says that there is no job is none.
LEMMA NoJobIsNoJob == \A j \in Jobs : j # NoJob
BY JobAssumption

LEMMA InitIInv == Init => IInv
BY JobAssumption
   DEF Init, IInv, TypeOK, Outcomes, SpareFault, ReportIsTrue, BroadcastsBounded,
       Reporting

LEMMA TypeStep == TypeOK /\ [Next]_vars => TypeOK'
<1> SUFFICES ASSUME TypeOK, [Next]_vars
             PROVE  TypeOK'
  OBVIOUS
<1> USE DEF TypeOK, Outcomes, Fault, Record, JobDone, IsNext, Take
<1>1. ASSUME NEW w \in Workers, Poll(w)
      PROVE  TypeOK'
  BY <1>1 DEF Poll, Queued
<1>2. ASSUME NEW w \in Workers, NEW j \in Jobs, Transfer(w, j)
      PROVE  TypeOK'
  BY <1>2 DEF Transfer
<1>3. ASSUME NEW w \in Workers, NEW j \in Jobs, TransferAnswerLost(w, j)
      PROVE  TypeOK'
  BY <1>3, JobAssumption DEF TransferAnswerLost
<1>4. ASSUME NEW w \in Workers, NEW j \in Jobs, TransferFails(w, j)
      PROVE  TypeOK'
  BY <1>4 DEF TransferFails
<1>5. ASSUME NEW w \in Workers, ReportSuccess(w)
      PROVE  TypeOK'
  BY <1>5 DEF ReportSuccess
<1>6. ASSUME NEW w \in Workers, ReportSuccessRefused(w)
      PROVE  TypeOK'
  BY <1>6, JobAssumption DEF ReportSuccessRefused
<1>7. ASSUME NEW w \in Workers, ReportSuccessRaises(w)
      PROVE  TypeOK'
  BY <1>7, JobAssumption DEF ReportSuccessRaises
<1>8. ASSUME NEW w \in Workers, ReportFailure(w)
      PROVE  TypeOK'
  BY <1>8 DEF ReportFailure
<1>9. ASSUME NEW w \in Workers, ReportFailureLost(w)
      PROVE  TypeOK'
  BY <1>9, JobAssumption DEF ReportFailureLost
<1>10. ASSUME NEW w \in Workers, Crash(w)
       PROVE  TypeOK'
  BY <1>10, JobAssumption DEF Crash
<1>11. ASSUME NEW w \in Workers, NEW j \in Jobs, TransferUnconfirmed(w, j)
       PROVE  TypeOK'
  <2>1. CASE UNCHANGED broadcasts
    BY <1>11, <2>1 DEF TransferUnconfirmed
  <2>2. CASE broadcasts' = [broadcasts EXCEPT ![w][j] = @ + 1]
    BY <1>11, <2>2 DEF TransferUnconfirmed
  <2> QED
    BY <1>11, <2>1, <2>2 DEF TransferUnconfirmed
<1>12. ASSUME NEW w \in Workers, NEW j \in Jobs, BatchDropped(w, j)
       PROVE  TypeOK'
  BY <1>12 DEF BatchDropped
<1>13. ASSUME NEW w \in Workers, Start(w)
       PROVE  TypeOK'
  BY <1>13 DEF Start
<1>14. CASE UNCHANGED vars
  BY <1>14 DEF vars
<1> QED
  BY <1>1, <1>2, <1>3, <1>4, <1>5, <1>6, <1>7, <1>8, <1>9, <1>10, <1>11, <1>12, <1>13, <1>14
     DEF Next, Work

\* Every step that can bring a job back to a worker, or lets the worker off a
\* report, costs that worker a fault or gives the job its result.
LEMMA SpareFaultStep ==
    ASSUME TypeOK, TypeOK', SpareFault, BroadcastsBounded, [Next]_vars
    PROVE  SpareFault' /\ BroadcastsBounded'
<1> USE NoJobIsNoJob DEF TypeOK, Outcomes, SpareFault, BroadcastsBounded, Reporting, Fault, Record, JobDone, IsNext, Take
<1>1. ASSUME NEW w \in Workers, Poll(w)
      PROVE  SpareFault' /\ BroadcastsBounded'
  BY <1>1 DEF Poll, Queued
<1>2. ASSUME NEW w \in Workers, NEW j \in Jobs, Transfer(w, j)
      PROVE  SpareFault' /\ BroadcastsBounded'
  BY <1>2 DEF Transfer
<1>3. ASSUME NEW w \in Workers, NEW j \in Jobs, TransferAnswerLost(w, j)
      PROVE  SpareFault' /\ BroadcastsBounded'
  BY <1>3 DEF TransferAnswerLost
<1>4. ASSUME NEW w \in Workers, NEW j \in Jobs, TransferFails(w, j)
      PROVE  SpareFault' /\ BroadcastsBounded'
  BY <1>4 DEF TransferFails
<1>5. ASSUME NEW w \in Workers, ReportSuccess(w)
      PROVE  SpareFault' /\ BroadcastsBounded'
  BY <1>5 DEF ReportSuccess
<1>6. ASSUME NEW w \in Workers, ReportSuccessRefused(w)
      PROVE  SpareFault' /\ BroadcastsBounded'
  BY <1>6 DEF ReportSuccessRefused
<1>7. ASSUME NEW w \in Workers, ReportSuccessRaises(w)
      PROVE  SpareFault' /\ BroadcastsBounded'
  BY <1>7 DEF ReportSuccessRaises
<1>8. ASSUME NEW w \in Workers, ReportFailure(w)
      PROVE  SpareFault' /\ BroadcastsBounded'
  BY <1>8 DEF ReportFailure
<1>9. ASSUME NEW w \in Workers, ReportFailureLost(w)
      PROVE  SpareFault' /\ BroadcastsBounded'
  BY <1>9 DEF ReportFailureLost
<1>10. ASSUME NEW w \in Workers, Crash(w)
      PROVE  SpareFault' /\ BroadcastsBounded'
  BY <1>10 DEF Crash
<1>11. ASSUME NEW w \in Workers, NEW j \in Jobs, TransferUnconfirmed(w, j)
       PROVE  SpareFault' /\ BroadcastsBounded'
  <2>1. CASE UNCHANGED broadcasts
    BY <1>11, <2>1 DEF TransferUnconfirmed
  <2>2. CASE broadcasts' = [broadcasts EXCEPT ![w][j] = @ + 1]
    BY <1>11, <2>2 DEF TransferUnconfirmed
  <2> QED
    BY <1>11, <2>1, <2>2 DEF TransferUnconfirmed
<1>12. ASSUME NEW w \in Workers, NEW j \in Jobs, BatchDropped(w, j)
       PROVE  SpareFault' /\ BroadcastsBounded'
  BY <1>12 DEF BatchDropped
<1>13. ASSUME NEW w \in Workers, Start(w)
       PROVE  SpareFault' /\ BroadcastsBounded'
  BY <1>13 DEF Start
<1>14. CASE UNCHANGED vars
  BY <1>14 DEF vars
<1> QED
  BY <1>1, <1>2, <1>3, <1>4, <1>5, <1>6, <1>7, <1>8, <1>9, <1>10, <1>11, <1>12, <1>13, <1>14
     DEF Next, Work

\* A worker that takes a job comes to it with a fault for every payment it made.
LEMMA ReportStep ==
    ASSUME TypeOK, TypeOK', SpareFault, BroadcastsBounded, ReportIsTrue, [Next]_vars
    PROVE  ReportIsTrue'
<1> USE NoJobIsNoJob DEF TypeOK, Outcomes, SpareFault, BroadcastsBounded, ReportIsTrue, Reporting, Fault, Record, JobDone, IsNext, Take
<1>1. ASSUME NEW w \in Workers, Poll(w)
      PROVE  ReportIsTrue'
  BY <1>1 DEF Poll, Queued
<1>2. ASSUME NEW w \in Workers, NEW j \in Jobs, Transfer(w, j)
      PROVE  ReportIsTrue'
  BY <1>2 DEF Transfer
<1>3. ASSUME NEW w \in Workers, NEW j \in Jobs, TransferAnswerLost(w, j)
      PROVE  ReportIsTrue'
  BY <1>3 DEF TransferAnswerLost
<1>4. ASSUME NEW w \in Workers, NEW j \in Jobs, TransferFails(w, j)
      PROVE  ReportIsTrue'
  BY <1>4 DEF TransferFails
<1>5. ASSUME NEW w \in Workers, ReportSuccess(w)
      PROVE  ReportIsTrue'
  BY <1>5 DEF ReportSuccess
<1>6. ASSUME NEW w \in Workers, ReportSuccessRefused(w)
      PROVE  ReportIsTrue'
  BY <1>6 DEF ReportSuccessRefused
<1>7. ASSUME NEW w \in Workers, ReportSuccessRaises(w)
      PROVE  ReportIsTrue'
  BY <1>7 DEF ReportSuccessRaises
<1>8. ASSUME NEW w \in Workers, ReportFailure(w)
      PROVE  ReportIsTrue'
  BY <1>8 DEF ReportFailure
<1>9. ASSUME NEW w \in Workers, ReportFailureLost(w)
      PROVE  ReportIsTrue'
  BY <1>9 DEF ReportFailureLost
<1>10. ASSUME NEW w \in Workers, Crash(w)
      PROVE  ReportIsTrue'
  BY <1>10 DEF Crash
<1>11. ASSUME NEW w \in Workers, NEW j \in Jobs, TransferUnconfirmed(w, j)
       PROVE  ReportIsTrue'
  <2>1. CASE UNCHANGED broadcasts
    BY <1>11, <2>1 DEF TransferUnconfirmed
  <2>2. CASE broadcasts' = [broadcasts EXCEPT ![w][j] = @ + 1]
    BY <1>11, <2>2 DEF TransferUnconfirmed
  <2> QED
    BY <1>11, <2>1, <2>2 DEF TransferUnconfirmed
<1>12. ASSUME NEW w \in Workers, NEW j \in Jobs, BatchDropped(w, j)
       PROVE  ReportIsTrue'
  BY <1>12 DEF BatchDropped
<1>13. ASSUME NEW w \in Workers, Start(w)
       PROVE  ReportIsTrue'
  BY <1>13 DEF Start
<1>14. CASE UNCHANGED vars
  BY <1>14 DEF vars
<1> QED
  BY <1>1, <1>2, <1>3, <1>4, <1>5, <1>6, <1>7, <1>8, <1>9, <1>10, <1>11, <1>12, <1>13, <1>14
     DEF Next, Work

\* Only the worker at the job records its result, and the one it has.
LEMMA RecordedIsTrue ==
    ASSUME IInv, [Next]_vars, NEW j \in Jobs, result'[j] # result[j]
    PROVE  \E w \in Workers :
               /\ current[w] = j
               /\ result'[j] = "success" => broadcasts[w][j] > 0
               /\ result'[j] = "failed" => broadcasts[w][j] <= faults[w]
<1>1. PICK w \in Workers : Record(w, outcome[w])
  BY DEF Next, Work, vars, Poll, BatchDropped, IsNext, Take, Transfer, TransferAnswerLost,
         TransferFails, TransferUnconfirmed, ReportSuccess, ReportSuccessRefused,
         ReportSuccessRaises, ReportFailure, ReportFailureLost, Start, Crash
<1>2. current[w] = j /\ result'[j] = outcome[w]
  BY <1>1 DEF IInv, TypeOK, Record
<1> QED
  BY <1>2 DEF IInv, ReportIsTrue, Reporting

LEMMA Inductive == Spec => []IInv
<1>1. IInv /\ [Next]_vars => IInv'
  BY TypeStep, SpareFaultStep, ReportStep DEF IInv
<1> QED
  BY InitIInv, <1>1, PTL DEF Spec
-----------------------------------------------------------------------------
\* Type correctness of the job worker.
THEOREM TypeCorrect == Spec => []TypeOK
<1>1. IInv => TypeOK
  BY DEF IInv
<1> QED
  BY Inductive, <1>1, PTL

\* A worker broadcasts a job's transfer at most once more than it lost calls or
\* died.
THEOREM BroadcastsBoundedInv == Spec => []BroadcastsBounded
<1>1. IInv => BroadcastsBounded
  BY DEF IInv
<1> QED
  BY Inductive, <1>1, PTL

\* What is recorded is what its reporter knows: a success with a hash was broadcast
\* by the worker that reports it, a failure was paid at most once for each of the
\* reporter's lost calls and crashes.
THEOREM ReportsAreTrueStep == Spec => ReportsAreTrue
<1>1. IInv /\ [Next]_vars =>
          [\A j \in Jobs : result'[j] # result[j] =>
              \E w \in Workers :
                  /\ current[w] = j
                  /\ result'[j] = "success" => broadcasts[w][j] > 0
                  /\ result'[j] = "failed" => broadcasts[w][j] <= faults[w]]_vars
  BY RecordedIsTrue
<1> QED
  BY <1>1, Inductive, PTL DEF Spec, ReportsAreTrue
-----------------------------------------------------------------------------
(***************************************************************************)
(* Each worker implements PayoutContract, among any number of others.      *)
(* What it tried is the job it reports on; a step of another worker gives  *)
(* jobs their results and settles those that this one does not hold.       *)
(***************************************************************************)
TriedBy(w) == {current[w]} \ {NoJob}
SettledFor(w) == {j \in Jobs : result[j] # "queued" /\ j \notin batch[w] \cup {current[w]}}

\* No step takes a result back.
LEMMA ResultsStay ==
    ASSUME IInv, [Next]_vars
    PROVE  \A j \in Jobs : result[j] # "queued" => result'[j] # "queued"
<1>1. ASSUME NEW v \in Workers, Record(v, outcome[v])
      PROVE  \A j \in Jobs : result[j] # "queued" => result'[j] # "queued"
  BY <1>1 DEF IInv, TypeOK, Outcomes, Record
<1>2. result' = result \/ \E v \in Workers : Record(v, outcome[v])
  BY DEF Next, Work, vars, Poll, BatchDropped, Start, Take, Transfer, TransferAnswerLost, TransferFails,
         TransferUnconfirmed, ReportSuccess, ReportSuccessRefused,
         ReportSuccessRaises, ReportFailure, ReportFailureLost, Crash
<1> QED
  BY <1>1, <1>2

\* To take a job is to try it.
LEMMA TakeTries ==
    ASSUME IInv, NEW w \in Workers, NEW j \in Jobs, NEW s \in Outcomes,
           Take(w, j, s),
           broadcasts'[w] \in {broadcasts[w], [broadcasts[w] EXCEPT ![j] = @ + 1]},
           faults'[w] \in {faults[w], faults[w] + 1}
    PROVE  Contract(w)!ContractNext
<1>1. TypeOK
  BY DEF IInv
<1>2. /\ current[w] = NoJob /\ j \in batch[w]
      /\ current'[w] = j /\ batch'[w] = batch[w] \ {j}
      /\ result' = result
  BY <1>1 DEF TypeOK, IsNext, Take
<1>3. j \notin TriedBy(w) \cup SettledFor(w)
  BY <1>2 DEF TriedBy, SettledFor
<1>4. TriedBy(w)' = TriedBy(w) \cup {j}
  BY <1>2, NoJobIsNoJob DEF TriedBy
<1>5. SettledFor(w)' = SettledFor(w)
  BY <1>2, NoJobIsNoJob DEF SettledFor
<1>6. Contract(w)!Try(j)
  BY <1>3, <1>4, <1>5 DEF Contract!Try, TriedBy, SettledFor
<1> QED
  BY <1>6 DEF Contract!ContractNext

\* What a worker holds and is at is settled only through it; what gets a result
\* outside of its hands is settled for it at once.
LEMMA OthersSettle ==
    ASSUME IInv, [Next]_vars, NEW w \in Workers,
           UNCHANGED <<batch[w], current[w], broadcasts[w], faults[w]>>
    PROVE  Contract(w)!ContractNext
<1>1. PICK S \in SUBSET Jobs :
          S = {j \in Jobs : result'[j] # "queued" /\ j \notin batch[w] \cup {current[w]}}
  OBVIOUS
<1>2. SettledFor(w)' = SettledFor(w) \cup S
  BY <1>1, ResultsStay DEF SettledFor
<1>3. TriedBy(w)' = TriedBy(w) \ S
  BY <1>1 DEF TriedBy
<1>4. Contract(w)!Settle(S)
  BY <1>2, <1>3 DEF Contract!Settle, TriedBy, SettledFor
<1> QED
  BY <1>4 DEF Contract!ContractNext

\* Only queued jobs are fetched: none of them is settled.
LEMMA PollSettlesNothing ==
    ASSUME IInv, NEW w \in Workers, Poll(w)
    PROVE  UNCHANGED Contract(w)!contractVars
<1>1. /\ batch[w] = {} /\ batch'[w] = Queued
      /\ UNCHANGED <<result, current, broadcasts, faults>>
  BY DEF IInv, TypeOK, Poll
<1>2. SettledFor(w)' = SettledFor(w)
  BY <1>1 DEF SettledFor, Queued
<1> QED
  BY <1>1, <1>2 DEF Contract!contractVars, TriedBy, SettledFor

\* Whoever reports is done with the job, which has a result now.
LEMMA ReportSettles ==
    ASSUME IInv, NEW w \in Workers, ReportSuccess(w) \/ ReportFailure(w)
    PROVE  Contract(w)!ContractNext
<1>1. PICK j \in Jobs : j = current[w]
  BY DEF IInv, TypeOK, ReportSuccess, ReportFailure
<1>2. PICK s \in Outcomes :
          /\ result' = [result EXCEPT ![j] = s]
          /\ current'[w] = NoJob /\ batch'[w] = batch[w]
          /\ UNCHANGED <<broadcasts, faults>>
  BY <1>1 DEF IInv, TypeOK, Outcomes, ReportSuccess, ReportFailure, Record, JobDone
<1>3. j \notin batch[w]
  BY <1>1 DEF IInv, ReportIsTrue, Reporting
<1>4. SettledFor(w)' = SettledFor(w) \cup {j}
  BY <1>1, <1>2, <1>3, NoJobIsNoJob DEF SettledFor, IInv, TypeOK, Outcomes
<1>5. TriedBy(w)' = TriedBy(w) \ {j}
  BY <1>1, <1>2 DEF TriedBy
<1>6. Contract(w)!Settle({j})
  BY <1>2, <1>4, <1>5 DEF Contract!Settle, TriedBy, SettledFor
<1> QED
  BY <1>6 DEF Contract!ContractNext

\* A report that is lost, and a crash, are faults of the worker: it drops the job
\* that it tried, and may come back to it.
LEMMA DropForgets ==
    ASSUME IInv, NEW w \in Workers, Fault(w),
           UNCHANGED <<result, broadcasts>>,
           current'[w] = NoJob, batch'[w] \in {batch[w], {}}
    PROVE  Contract(w)!ContractNext
<1>1. PICK S \in SUBSET Jobs : S = TriedBy(w)
  BY DEF IInv, TypeOK, TriedBy
<1>2. PICK T \in SUBSET Jobs :
          T = {j \in Jobs : result[j] # "queued" /\ j \notin batch'[w]}
  OBVIOUS
<1>3. SettledFor(w)' = SettledFor(w) \cup T
  BY <1>2, NoJobIsNoJob DEF SettledFor
<1>4. TriedBy(w)' = TriedBy(w) \ S
  BY <1>1 DEF TriedBy
<1>5. faults'[w] = faults[w] + 1
  BY DEF IInv, TypeOK, Fault
<1>6. Contract(w)!Forget(S, T)
  BY <1>3, <1>4, <1>5 DEF Contract!Forget, TriedBy, SettledFor
<1> QED
  BY <1>6 DEF Contract!ContractNext

\* A report that raises may have been taken: the worker holds on to the job.
LEMMA RaiseForgetsNothing ==
    ASSUME IInv, NEW w \in Workers, ReportSuccessRaises(w)
    PROVE  Contract(w)!ContractNext
<1>1. /\ UNCHANGED <<batch, current, broadcasts>>
      /\ faults'[w] = faults[w] + 1
      /\ \A j \in Jobs : j # current[w] => result'[j] = result[j]
  BY DEF IInv, TypeOK, ReportSuccessRaises, Fault, Record
<1>2. SettledFor(w)' = SettledFor(w)
  BY <1>1 DEF SettledFor
<1>3. Contract(w)!Forget({}, {})
  BY <1>1, <1>2 DEF Contract!Forget, TriedBy, SettledFor
<1> QED
  BY <1>3 DEF Contract!ContractNext

\* The jobs of a batch that is given up are left to the backend: those that have
\* a result by now are settled.
LEMMA BatchDroppedSettles ==
    ASSUME IInv, NEW w \in Workers, NEW j \in Jobs, BatchDropped(w, j)
    PROVE  Contract(w)!ContractNext
<1>1. /\ current[w] = NoJob /\ batch'[w] = {}
      /\ UNCHANGED <<result, current, broadcasts, faults>>
  BY DEF IInv, TypeOK, BatchDropped, IsNext
<1>2. PICK S \in SUBSET Jobs : S = {i \in Jobs : result[i] # "queued"}
  OBVIOUS
<1>3. SettledFor(w)' = SettledFor(w) \cup S
  BY <1>1, <1>2, NoJobIsNoJob DEF SettledFor
<1>4. TriedBy(w)' = TriedBy(w) \ S
  BY <1>1 DEF TriedBy
<1>5. Contract(w)!Settle(S)
  BY <1>1, <1>3, <1>4 DEF Contract!Settle, TriedBy, SettledFor
<1> QED
  BY <1>5 DEF Contract!ContractNext

\* A start changes nothing that the contract speaks of.
LEMMA StartSettlesNothing ==
    ASSUME IInv, NEW w \in Workers, Start(w)
    PROVE  UNCHANGED Contract(w)!contractVars
BY DEF Start, Contract!contractVars

\* What a worker does itself.
LEMMA OwnStep ==
    ASSUME IInv, NEW w \in Workers, Work(w) \/ Start(w) \/ Crash(w)
    PROVE  [Contract(w)!ContractNext]_(Contract(w)!contractVars)
<1>1. TypeOK
  BY DEF IInv
<1>2. ASSUME NEW j \in Jobs, Transfer(w, j) \/ TransferAnswerLost(w, j)
      PROVE  Contract(w)!ContractNext
  <2>1. broadcasts'[w] = [broadcasts[w] EXCEPT ![j] = @ + 1]
    BY <1>1, <1>2 DEF TypeOK, Transfer, TransferAnswerLost
  <2>2. faults'[w] \in {faults[w], faults[w] + 1}
    BY <1>1, <1>2 DEF TypeOK, Transfer, TransferAnswerLost, Fault
  <2> QED
    BY <1>2, <2>1, <2>2, TakeTries DEF Transfer, TransferAnswerLost, Outcomes
<1>3. ASSUME NEW j \in Jobs, TransferFails(w, j) \/ TransferUnconfirmed(w, j)
      PROVE  Contract(w)!ContractNext
  <2>1. broadcasts'[w] \in {broadcasts[w], [broadcasts[w] EXCEPT ![j] = @ + 1]}
    BY <1>1, <1>3 DEF TypeOK, TransferFails, TransferUnconfirmed
  <2>2. faults'[w] = faults[w]
    BY <1>3 DEF TransferFails, TransferUnconfirmed
  <2> QED
    BY <1>3, <2>1, <2>2, TakeTries DEF TransferFails, TransferUnconfirmed, Outcomes
<1>4. ASSUME ReportSuccessRefused(w) \/ ReportFailureLost(w) \/ Crash(w)
      PROVE  Contract(w)!ContractNext
  BY <1>1, <1>4, DropForgets
     DEF TypeOK, ReportSuccessRefused, ReportFailureLost, Crash, JobDone
<1> QED
  BY <1>2, <1>3, <1>4, PollSettlesNothing, ReportSettles, RaiseForgetsNothing,
     BatchDroppedSettles, StartSettlesNothing DEF Work

\* What another worker does.
LEMMA OthersStep ==
    ASSUME IInv, [Next]_vars, NEW w \in Workers, NEW v \in Workers, v # w,
           Work(v) \/ Start(v) \/ Crash(v)
    PROVE  UNCHANGED <<batch[w], current[w], broadcasts[w], faults[w]>>
<1> USE DEF IInv, TypeOK, Fault, JobDone, Take
<1>1. ASSUME NEW j \in Jobs,
             \/ Transfer(v, j) \/ TransferAnswerLost(v, j)
             \/ TransferFails(v, j) \/ TransferUnconfirmed(v, j)
      PROVE  UNCHANGED <<batch[w], current[w], broadcasts[w], faults[w]>>
  BY <1>1 DEF Transfer, TransferAnswerLost, TransferFails, TransferUnconfirmed
<1>2. ASSUME \/ ReportSuccess(v) \/ ReportSuccessRefused(v) \/ ReportSuccessRaises(v)
             \/ ReportFailure(v) \/ ReportFailureLost(v)
      PROVE  UNCHANGED <<batch[w], current[w], broadcasts[w], faults[w]>>
  BY <1>2 DEF ReportSuccess, ReportSuccessRefused, ReportSuccessRaises, ReportFailure,
              ReportFailureLost
<1>3. ASSUME Poll(v) \/ Start(v) \/ Crash(v)
      PROVE  UNCHANGED <<batch[w], current[w], broadcasts[w], faults[w]>>
  BY <1>3 DEF Poll, Start, Crash
<1>4. ASSUME NEW j \in Jobs, BatchDropped(v, j)
      PROVE  UNCHANGED <<batch[w], current[w], broadcasts[w], faults[w]>>
  BY <1>4 DEF BatchDropped
<1> QED
  BY <1>1, <1>2, <1>3, <1>4 DEF Work

LEMMA ContractStep ==
    ASSUME IInv, [Next]_vars
    PROVE  \A w \in Workers : [Contract(w)!ContractNext]_(Contract(w)!contractVars)
<1> SUFFICES ASSUME NEW w \in Workers
             PROVE  [Contract(w)!ContractNext]_(Contract(w)!contractVars)
  OBVIOUS
<1>1. CASE UNCHANGED vars
  BY <1>1, OthersSettle DEF vars
<1>2. ASSUME NEW v \in Workers, Work(v) \/ Start(v) \/ Crash(v)
      PROVE  [Contract(w)!ContractNext]_(Contract(w)!contractVars)
  BY <1>2, OwnStep, OthersStep, OthersSettle
<1> QED
  BY <1>1, <1>2 DEF Next

\* Every worker implements the contract, whatever the others do: it pays a job
\* again only after a fault of its own, and never once it is done with a job that
\* has a result.
THEOREM ContractKept == Spec => KeepsContract
<1>1. Init => \A w \in Workers : Contract(w)!ContractInit
  BY DEF Init, Contract!ContractInit
<1>2. IInv /\ [Next]_vars =>
          [\A w \in Workers : [Contract(w)!ContractNext]_(Contract(w)!contractVars)]_vars
  BY ContractStep
<1> QED
  BY <1>1, <1>2, Inductive, PTL DEF Spec, KeepsContract
=============================================================================
