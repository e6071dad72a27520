------------------------ MODULE PayoutWorker_proofs ------------------------
(***************************************************************************)
(* Proofs about the payout worker, for any number of rows, runs and        *)
(* crashes.  Each property relies on what a run has locked and staged but  *)
(* not committed, so the inductive invariant describes that first.         *)
(***************************************************************************)
EXTENDS PayoutWorker, TLAPS

\* What a run has locked is still PENDING in the table and is for this worker;
\* the row it is at is one of these, taken, and in the mode it allows.
Batches ==
    \A w \in Workers :
        /\ todo[w] \subseteq held[w]
        /\ \A r \in held[w] : status[r] = "PENDING" /\ Target[r] = "crypto"
        /\ current[w] # NoRow =>
              current[w] \in DryRun /\ current[w] \in held[w] \ todo[w]

\* A status is staged for rows the run has locked and is done with, and
\* SENT_ONCHAIN only after the broadcast.
Staging ==
    \A w \in Workers, r \in Rows : staged[w][r] # "PENDING" =>
        /\ r \in held[w] \ todo[w]
        /\ r # current[w]
        /\ staged[w][r] = "SENT_ONCHAIN" => r \in DryRun /\ broadcasts[r] > 0

\* A row that nobody has settled, not even in a transaction still open, owes
\* each of its broadcasts to a crash.
Unsettled ==
    \A r \in Rows :
        /\ status[r] \notin Outcomes
        /\ \A w \in Workers : staged[w][r] = "PENDING"
        => broadcasts[r] <= crashes

\* The transfer that waits at the node has not been counted as paid.
Waiting == pending # NoRow => paid[pending] < broadcasts[pending]

IInv ==
    /\ TypeOK /\ OneHolder /\ Batches /\ Staging /\ Unsettled /\ Waiting
    /\ BroadcastsBounded /\ SentWasBroadcast /\ OthersUntouched
-----------------------------------------------------------------------------
LEMMA InitIInv == Init => IInv
BY WorkerAssumption
   DEF Init, IInv, TypeOK, OneHolder, Batches, Staging, Unsettled, Waiting,
       BroadcastsBounded, SentWasBroadcast, OthersUntouched, Outcomes, AllPending

\* No step leaves the types of the variables.
LEMMA TypeStep ==
    ASSUME TypeOK, [Next]_vars
    PROVE  TypeOK'
<1> USE WorkerAssumption DEF TypeOK, Outcomes, AllPending, run, chain
<1>1. ASSUME NEW w \in Workers, Begin(w)
      PROVE  TypeOK'
  BY <1>1 DEF Begin, Selected, Locked
<1>2. ASSUME NEW w \in Workers, NEW r \in Rows, ReadNonce(w, r)
      PROVE  TypeOK'
  BY <1>2 DEF ReadNonce, IsNext
<1>3. ASSUME NEW w \in Workers, NEW r \in Rows, RefuseRow(w, r)
      PROVE  TypeOK'
  BY <1>3 DEF RefuseRow, IsNext
<1>4. ASSUME NEW w \in Workers, Broadcast(w)
      PROVE  TypeOK'
  BY <1>4 DEF Broadcast, NodeAccepts, Mark
<1>5. ASSUME NEW w \in Workers, BroadcastAnswerLost(w)
      PROVE  TypeOK'
  BY <1>5 DEF BroadcastAnswerLost, NodeAccepts, Mark
<1>6. ASSUME NEW w \in Workers, BroadcastRefused(w)
      PROVE  TypeOK'
  BY <1>6 DEF BroadcastRefused, Mark
<1>7. ASSUME NEW w \in Workers, Commit(w)
      PROVE  TypeOK'
  BY <1>7 DEF Commit
<1>8. ASSUME NEW w \in Workers, Crash(w)
      PROVE  TypeOK'
  BY <1>8 DEF Crash
<1>9. CASE Mine
  BY <1>9 DEF Mine
<1>10. ASSUME NEW r \in Rows, Enqueue(r)
       PROVE  TypeOK'
  BY <1>10 DEF Enqueue
<1>11. CASE UNCHANGED vars
  BY <1>11 DEF vars
<1> QED
  BY <1>1, <1>2, <1>3, <1>4, <1>5, <1>6, <1>7, <1>8, <1>9, <1>10, <1>11 DEF Next, Work

\* Runs take disjoint batches, of rows that stay PENDING until their own commit.
LEMMA BatchStep ==
    ASSUME TypeOK, TypeOK', OneHolder, Batches, Staging, [Next]_vars
    PROVE  OneHolder' /\ Batches'
<1> USE WorkerAssumption DEF TypeOK, OneHolder, Batches, Staging, Outcomes, AllPending, run, chain
<1>1. ASSUME NEW w \in Workers, Begin(w)
      PROVE  OneHolder' /\ Batches'
  BY <1>1 DEF Begin, Selected, Locked
<1>2. ASSUME NEW w \in Workers, NEW r \in Rows, ReadNonce(w, r)
      PROVE  OneHolder' /\ Batches'
  BY <1>2 DEF ReadNonce, IsNext
<1>3. ASSUME NEW w \in Workers, NEW r \in Rows, RefuseRow(w, r)
      PROVE  OneHolder' /\ Batches'
  BY <1>3 DEF RefuseRow, IsNext
<1>4. ASSUME NEW w \in Workers, Broadcast(w)
      PROVE  OneHolder' /\ Batches'
  BY <1>4 DEF Broadcast, NodeAccepts, Mark
<1>5. ASSUME NEW w \in Workers, BroadcastAnswerLost(w)
      PROVE  OneHolder' /\ Batches'
  BY <1>5 DEF BroadcastAnswerLost, NodeAccepts, Mark
<1>6. ASSUME NEW w \in Workers, BroadcastRefused(w)
      PROVE  OneHolder' /\ Batches'
  BY <1>6 DEF BroadcastRefused, Mark
<1>7. ASSUME NEW w \in Workers, Commit(w)
      PROVE  OneHolder' /\ Batches'
  BY <1>7 DEF Commit
<1>8. ASSUME NEW w \in Workers, Crash(w)
      PROVE  OneHolder' /\ Batches'
  BY <1>8 DEF Crash
<1>9. CASE Mine
  BY <1>9 DEF Mine
<1>10. ASSUME NEW r \in Rows, Enqueue(r)
       PROVE  OneHolder' /\ Batches'
  BY <1>10 DEF Enqueue
<1>11. CASE UNCHANGED vars
  BY <1>11 DEF vars
<1> QED
  BY <1>1, <1>2, <1>3, <1>4, <1>5, <1>6, <1>7, <1>8, <1>9, <1>10, <1>11 DEF Next, Work

\* What a run stages, it stages for a row it holds and has done with.
LEMMA StagingStep ==
    ASSUME TypeOK, TypeOK', OneHolder, Batches, Staging, [Next]_vars
    PROVE  Staging'
<1> USE WorkerAssumption DEF TypeOK, OneHolder, Batches, Staging, Outcomes, AllPending, run, chain
<1>1. ASSUME NEW w \in Workers, Begin(w)
      PROVE  Staging'
  BY <1>1 DEF Begin, Selected, Locked
<1>2. ASSUME NEW w \in Workers, NEW r \in Rows, ReadNonce(w, r)
      PROVE  Staging'
  BY <1>2 DEF ReadNonce, IsNext
<1>3. ASSUME NEW w \in Workers, NEW r \in Rows, RefuseRow(w, r)
      PROVE  Staging'
  BY <1>3 DEF RefuseRow, IsNext
<1>4. ASSUME NEW w \in Workers, Broadcast(w)
      PROVE  Staging'
  BY <1>4 DEF Broadcast, NodeAccepts, Mark
<1>5. ASSUME NEW w \in Workers, BroadcastAnswerLost(w)
      PROVE  Staging'
  BY <1>5 DEF BroadcastAnswerLost, NodeAccepts, Mark
<1>6. ASSUME NEW w \in Workers, BroadcastRefused(w)
      PROVE  Staging'
  BY <1>6 DEF BroadcastRefused, Mark
<1>7. ASSUME NEW w \in Workers, Commit(w)
      PROVE  Staging'
  BY <1>7 DEF Commit
<1>8. ASSUME NEW w \in Workers, Crash(w)
      PROVE  Staging'
  BY <1>8 DEF Crash
<1>9. CASE Mine
  BY <1>9 DEF Mine
<1>10. ASSUME NEW r \in Rows, Enqueue(r)
       PROVE  Staging'
  BY <1>10 DEF Enqueue
<1>11. CASE UNCHANGED vars
  BY <1>11 DEF vars
<1> QED
  BY <1>1, <1>2, <1>3, <1>4, <1>5, <1>6, <1>7, <1>8, <1>9, <1>10, <1>11 DEF Next, Work

\* Unsettled, for one row.
LEMMA UnsettledRow ==
    ASSUME Unsettled, NEW r \in Rows, status[r] \notin Outcomes,
           \A v \in Workers : staged[v][r] = "PENDING"
    PROVE  broadcasts[r] <= crashes
BY DEF Unsettled

\* The row a run is at is staged by no run: nobody else holds it.
LEMMA AtRow ==
    ASSUME TypeOK, OneHolder, Batches, Staging, NEW w \in Workers, current[w] # NoRow
    PROVE  /\ current[w] \in Rows
           /\ status[current[w]] = "PENDING"
           /\ \A v \in Workers : staged[v][current[w]] = "PENDING"
<1>1. /\ current[w] \in held[w] /\ held[w] \subseteq Rows
      /\ status[current[w]] = "PENDING"
  BY DEF TypeOK, Batches
<1>2. ASSUME NEW v \in Workers, staged[v][current[w]] # "PENDING"
      PROVE  FALSE
  <2>1. current[w] \in held[v] /\ current[w] # current[v]
    BY <1>1, <1>2 DEF Staging
  <2> QED
    BY <1>1, <2>1 DEF OneHolder
<1> QED
  BY <1>1, <1>2

\* Only a crash unsettles a row whose transfer was broadcast.
LEMMA BroadcastStep ==
    ASSUME TypeOK, TypeOK', OneHolder, Batches, Staging, Unsettled, BroadcastsBounded, [Next]_vars
    PROVE  Unsettled' /\ BroadcastsBounded'
<1> USE WorkerAssumption DEF TypeOK, OneHolder, Batches, Staging, Unsettled, BroadcastsBounded, Outcomes, AllPending, run, chain
<1>1. ASSUME NEW w \in Workers, Begin(w)
      PROVE  Unsettled' /\ BroadcastsBounded'
  BY <1>1 DEF Begin, Selected, Locked
<1>2. ASSUME NEW w \in Workers, NEW r \in Rows, ReadNonce(w, r)
      PROVE  Unsettled' /\ BroadcastsBounded'
  BY <1>2 DEF ReadNonce, IsNext
<1>3. ASSUME NEW w \in Workers, NEW r \in Rows, RefuseRow(w, r)
      PROVE  Unsettled' /\ BroadcastsBounded'
  BY <1>3 DEF RefuseRow, IsNext
<1>4. ASSUME NEW w \in Workers, Broadcast(w)
      PROVE  Unsettled' /\ BroadcastsBounded'
  <2>1. /\ current[w] \in Rows
        /\ broadcasts[current[w]] <= crashes
    BY <1>4, AtRow DEF Broadcast
  <2>2. /\ status' = status
        /\ crashes' = crashes
        /\ broadcasts' = [broadcasts EXCEPT ![current[w]] = @ + 1]
        /\ staged'[w][current[w]] # "PENDING"
        /\ \A v \in Workers, q \in Rows :
              q # current[w] => staged'[v][q] = staged[v][q]
    BY <1>4, <2>1 DEF Broadcast, NodeAccepts, Mark
  <2>3. BroadcastsBounded'
    BY <2>1, <2>2
  <2>4. ASSUME NEW r \in Rows, status'[r] \notin Outcomes,
               \A v \in Workers : staged'[v][r] = "PENDING"
        PROVE  broadcasts'[r] <= crashes'
    <3>1. r # current[w]
      BY <2>2, <2>4
    <3>2. \A v \in Workers : staged[v][r] = "PENDING"
      BY <2>1, <2>2, <2>4, <3>1
    <3>3. broadcasts[r] <= crashes
      BY <2>2, <2>4, <3>2, UnsettledRow
    <3> QED
      BY <2>1, <2>2, <3>1, <3>3
  <2> QED
    BY <2>3, <2>4
<1>5. ASSUME NEW w \in Workers, BroadcastAnswerLost(w)
      PROVE  Unsettled' /\ BroadcastsBounded'
  <2>1. /\ current[w] \in Rows
        /\ broadcasts[current[w]] <= crashes
    BY <1>5, AtRow DEF BroadcastAnswerLost
  <2>2. /\ status' = status
        /\ crashes' = crashes
        /\ broadcasts' = [broadcasts EXCEPT ![current[w]] = @ + 1]
        /\ staged'[w][current[w]] # "PENDING"
        /\ \A v \in Workers, q \in Rows :
              q # current[w] => staged'[v][q] = staged[v][q]
    BY <1>5, <2>1 DEF BroadcastAnswerLost, NodeAccepts, Mark
  <2>3. BroadcastsBounded'
    BY <2>1, <2>2
  <2>4. ASSUME NEW r \in Rows, status'[r] \notin Outcomes,
               \A v \in Workers : staged'[v][r] = "PENDING"
        PROVE  broadcasts'[r] <= crashes'
    <3>1. r # current[w]
      BY <2>2, <2>4
    <3>2. \A v \in Workers : staged[v][r] = "PENDING"
      BY <2>1, <2>2, <2>4, <3>1
    <3>3. broadcasts[r] <= crashes
      BY <2>2, <2>4, <3>2, UnsettledRow
    <3> QED
      BY <2>1, <2>2, <3>1, <3>3
  <2> QED
    BY <2>3, <2>4
<1>6. ASSUME NEW w \in Workers, BroadcastRefused(w)
      PROVE  Unsettled' /\ BroadcastsBounded'
  BY <1>6 DEF BroadcastRefused, Mark
<1>7. ASSUME NEW w \in Workers, Commit(w)
      PROVE  Unsettled' /\ BroadcastsBounded'
  BY <1>7 DEF Commit
<1>8. ASSUME NEW w \in Workers, Crash(w)
      PROVE  Unsettled' /\ BroadcastsBounded'
  BY <1>8 DEF Crash
<1>9. CASE Mine
  BY <1>9 DEF Mine
<1>10. ASSUME NEW r \in Rows, Enqueue(r)
       PROVE  Unsettled' /\ BroadcastsBounded'
  BY <1>10 DEF Enqueue
<1>11. CASE UNCHANGED vars
  BY <1>11 DEF vars
<1> QED
  BY <1>1, <1>2, <1>3, <1>4, <1>5, <1>6, <1>7, <1>8, <1>9, <1>10, <1>11 DEF Next, Work

\* SENT_ONCHAIN is committed only after the broadcast, and the chain mines what
\* it was sent.
LEMMA SentStep ==
    ASSUME TypeOK, TypeOK', Batches, Staging, Waiting, SentWasBroadcast, [Next]_vars
    PROVE  Waiting' /\ SentWasBroadcast'
<1> USE WorkerAssumption DEF TypeOK, Batches, Staging, Waiting, SentWasBroadcast, Outcomes, AllPending, run, chain
<1>1. ASSUME NEW w \in Workers, Begin(w)
      PROVE  Waiting' /\ SentWasBroadcast'
  BY <1>1 DEF Begin, Selected, Locked
<1>2. ASSUME NEW w \in Workers, NEW r \in Rows, ReadNonce(w, r)
      PROVE  Waiting' /\ SentWasBroadcast'
  BY <1>2 DEF ReadNonce, IsNext
<1>3. ASSUME NEW w \in Workers, NEW r \in Rows, RefuseRow(w, r)
      PROVE  Waiting' /\ SentWasBroadcast'
  BY <1>3 DEF RefuseRow, IsNext
<1>4. ASSUME NEW w \in Workers, Broadcast(w)
      PROVE  Waiting' /\ SentWasBroadcast'
  BY <1>4 DEF Broadcast, NodeAccepts, Mark
<1>5. ASSUME NEW w \in Workers, BroadcastAnswerLost(w)
      PROVE  Waiting' /\ SentWasBroadcast'
  BY <1>5 DEF BroadcastAnswerLost, NodeAccepts, Mark
<1>6. ASSUME NEW w \in Workers, BroadcastRefused(w)
      PROVE  Waiting' /\ SentWasBroadcast'
  BY <1>6 DEF BroadcastRefused, Mark
<1>7. ASSUME NEW w \in Workers, Commit(w)
      PROVE  Waiting' /\ SentWasBroadcast'
  BY <1>7 DEF Commit
<1>8. ASSUME NEW w \in Workers, Crash(w)
      PROVE  Waiting' /\ SentWasBroadcast'
  BY <1>8 DEF Crash
<1>9. CASE Mine
  BY <1>9 DEF Mine
<1>10. ASSUME NEW r \in Rows, Enqueue(r)
       PROVE  Waiting' /\ SentWasBroadcast'
  BY <1>10 DEF Enqueue
<1>11. CASE UNCHANGED vars
  BY <1>11 DEF vars
<1> QED
  BY <1>1, <1>2, <1>3, <1>4, <1>5, <1>6, <1>7, <1>8, <1>9, <1>10, <1>11 DEF Next, Work

\* Only rows for this worker are taken, and only dry runs are broadcast.
LEMMA OthersStep ==
    ASSUME TypeOK, TypeOK', Batches, Staging, OthersUntouched, [Next]_vars
    PROVE  OthersUntouched'
<1> USE WorkerAssumption DEF TypeOK, Batches, Staging, OthersUntouched, Outcomes, AllPending, run, chain
<1>1. ASSUME NEW w \in Workers, Begin(w)
      PROVE  OthersUntouched'
  BY <1>1 DEF Begin, Selected, Locked
<1>2. ASSUME NEW w \in Workers, NEW r \in Rows, ReadNonce(w, r)
      PROVE  OthersUntouched'
  BY <1>2 DEF ReadNonce, IsNext
<1>3. ASSUME NEW w \in Workers, NEW r \in Rows, RefuseRow(w, r)
      PROVE  OthersUntouched'
  BY <1>3 DEF RefuseRow, IsNext
<1>4. ASSUME NEW w \in Workers, Broadcast(w)
      PROVE  OthersUntouched'
  BY <1>4 DEF Broadcast, NodeAccepts, Mark
<1>5. ASSUME NEW w \in Workers, BroadcastAnswerLost(w)
      PROVE  OthersUntouched'
  BY <1>5 DEF BroadcastAnswerLost, NodeAccepts, Mark
<1>6. ASSUME NEW w \in Workers, BroadcastRefused(w)
      PROVE  OthersUntouched'
  BY <1>6 DEF BroadcastRefused, Mark
<1>7. ASSUME NEW w \in Workers, Commit(w)
      PROVE  OthersUntouched'
  BY <1>7 DEF Commit
<1>8. ASSUME NEW w \in Workers, Crash(w)
      PROVE  OthersUntouched'
  BY <1>8 DEF Crash
<1>9. CASE Mine
  BY <1>9 DEF Mine
<1>10. ASSUME NEW r \in Rows, Enqueue(r)
       PROVE  OthersUntouched'
  BY <1>10 DEF Enqueue
<1>11. CASE UNCHANGED vars
  BY <1>11 DEF vars
<1> QED
  BY <1>1, <1>2, <1>3, <1>4, <1>5, <1>6, <1>7, <1>8, <1>9, <1>10, <1>11 DEF Next, Work

LEMMA Inductive == IInv /\ [Next]_vars => IInv'
BY TypeStep, BatchStep, StagingStep, BroadcastStep, SentStep, OthersStep DEF IInv

LEMMA Invariance == Spec => []IInv
BY InitIInv, Inductive, PTL DEF Spec

\* The type invariant.
THEOREM TypeCorrect == Spec => []TypeOK
BY Invariance, PTL DEF IInv

\* Runs that overlap never work on the same row.
THEOREM OneHolderInv == Spec => []OneHolder
BY Invariance, PTL DEF IInv

\* Only a crash between broadcast and commit repeats a broadcast.
THEOREM BroadcastsBoundedInv == Spec => []BroadcastsBounded
BY Invariance, PTL DEF IInv

\* SENT_ONCHAIN means the node accepted the transfer; no row is paid more often
\* than it was broadcast.
THEOREM SentWasBroadcastInv == Spec => []SentWasBroadcast
BY Invariance, PTL DEF IInv

\* Rows for others, or in another mode, never reach the chain.
THEOREM OthersUntouchedInv == Spec => []OthersUntouched
BY Invariance, PTL DEF IInv

\* A row that has its outcome never changes again: a commit writes the rows its
\* run has locked, and these are PENDING.
LEMMA SettledStep ==
    ASSUME IInv, [Next]_vars, NEW q \in Rows, status[q] \in Outcomes
    PROVE  status'[q] = status[q]
<1> USE DEF IInv, TypeOK, Batches, Outcomes, run, chain
<1>1. ASSUME NEW w \in Workers, Begin(w)
      PROVE  status'[q] = status[q]
  BY <1>1 DEF Begin, Selected, Locked
<1>2. ASSUME NEW w \in Workers, NEW r \in Rows, ReadNonce(w, r)
      PROVE  status'[q] = status[q]
  BY <1>2 DEF ReadNonce, IsNext
<1>3. ASSUME NEW w \in Workers, NEW r \in Rows, RefuseRow(w, r)
      PROVE  status'[q] = status[q]
  BY <1>3 DEF RefuseRow, IsNext
<1>4. ASSUME NEW w \in Workers, Broadcast(w)
      PROVE  status'[q] = status[q]
  BY <1>4 DEF Broadcast, NodeAccepts, Mark
<1>5. ASSUME NEW w \in Workers, BroadcastAnswerLost(w)
      PROVE  status'[q] = status[q]
  BY <1>5 DEF BroadcastAnswerLost, NodeAccepts, Mark
<1>6. ASSUME NEW w \in Workers, BroadcastRefused(w)
      PROVE  status'[q] = status[q]
  BY <1>6 DEF BroadcastRefused, Mark
<1>7. ASSUME NEW w \in Workers, Commit(w)
      PROVE  status'[q] = status[q]
  BY <1>7 DEF Commit
<1>8. ASSUME NEW w \in Workers, Crash(w)
      PROVE  status'[q] = status[q]
  BY <1>8 DEF Crash
<1>9. CASE Mine
  BY <1>9 DEF Mine
<1>10. ASSUME NEW r \in Rows, Enqueue(r)
       PROVE  status'[q] = status[q]
  BY <1>10 DEF Enqueue
<1>11. CASE UNCHANGED vars
  BY <1>11 DEF vars
<1> QED
  BY <1>1, <1>2, <1>3, <1>4, <1>5, <1>6, <1>7, <1>8, <1>9, <1>10, <1>11 DEF Next, Work

THEOREM SettledIsFinalStep == Spec => SettledIsFinal
<1>1. IInv /\ [Next]_vars =>
          [\A r \in Rows : status[r] \in Outcomes => status'[r] = status[r]]_vars
  BY SettledStep
<1> QED
  BY <1>1, Invariance, PTL DEF Spec, SettledIsFinal
-----------------------------------------------------------------------------
(***************************************************************************)
(* The workers implement PayoutContract.  Tried is what some run staged;   *)
(* a step that touches neither the stages nor the table is a stutter.      *)
(***************************************************************************)
Tried == {r \in Rows : \E w \in Workers : staged[w][r] # "PENDING"}
SettledRows == {r \in Rows : status[r] \in Outcomes}

\* A run that is done with a row it holds tries it: nobody has tried it before.
LEMMA TryStep ==
    ASSUME IInv, NEW w \in Workers, NEW r \in held[w], NEW s \in Outcomes,
           staged[w][r] = "PENDING",
           staged' = [staged EXCEPT ![w][r] = s],
           broadcasts' \in {broadcasts, [broadcasts EXCEPT ![r] = @ + 1]},
           UNCHANGED <<status, crashes>>
    PROVE  Contract!ContractNext
<1>1. TypeOK /\ OneHolder /\ Batches /\ Staging
  BY DEF IInv
<1>2. r \in Rows /\ status[r] = "PENDING"
  BY <1>1 DEF TypeOK, Batches
<1>3. \A v \in Workers : staged[v][r] = "PENDING"
  <2> SUFFICES ASSUME NEW v \in Workers, v # w PROVE r \notin held[v]
    BY <1>1, <1>2 DEF Staging
  <2> QED
    BY <1>1 DEF OneHolder
<1>4. r \notin Tried \cup SettledRows
  BY <1>2, <1>3 DEF Tried, SettledRows, Outcomes
<1>5. \A v \in Workers, q \in Rows :
          staged'[v][q] = IF v = w /\ q = r THEN s ELSE staged[v][q]
  BY <1>1, <1>2 DEF TypeOK
<1>6. Tried' = Tried \cup {r}
  BY <1>2, <1>5 DEF Tried, Outcomes
<1>7. SettledRows' = SettledRows
  BY DEF SettledRows
<1>8. Contract!Try(r)
  BY <1>4, <1>6, <1>7 DEF Contract!Try, Tried, SettledRows
<1> QED
  BY <1>2, <1>8 DEF Contract!ContractNext

\* A commit settles what its run has tried.
LEMMA CommitSettles ==
    ASSUME IInv, NEW w \in Workers, Commit(w)
    PROVE  Contract!ContractNext
<1>0. PICK S \in SUBSET Rows : S = {r \in Rows : staged[w][r] # "PENDING"}
  OBVIOUS
<1>1. TypeOK /\ OneHolder /\ Batches /\ Staging
  BY DEF IInv
<1>2. /\ status' = [r \in Rows |-> IF r \in held[w] THEN staged[w][r] ELSE status[r]]
      /\ staged' = [staged EXCEPT ![w] = AllPending]
      /\ UNCHANGED <<broadcasts, crashes>>
  BY DEF Commit, chain
<1>3. \A r \in S : r \in held[w]
  BY <1>0, <1>1 DEF Staging
<1>4. \A r \in S, v \in Workers : v # w => staged[v][r] = "PENDING"
  BY <1>1, <1>3 DEF Staging, OneHolder
<1>5. \A v \in Workers, r \in Rows :
          staged'[v][r] = IF v = w THEN "PENDING" ELSE staged[v][r]
  BY <1>1, <1>2 DEF TypeOK, AllPending
<1>6. Tried' = Tried \ S
  BY <1>0, <1>4, <1>5 DEF Tried
<1>7. SettledRows' = SettledRows \cup S
  <2>1. ASSUME NEW r \in S PROVE status'[r] \in Outcomes
    BY <1>0, <1>1, <1>2, <1>3 DEF TypeOK
  <2>2. ASSUME NEW r \in Rows, r \notin S
        PROVE  status'[r] \in Outcomes <=> status[r] \in Outcomes
    <3>1. CASE r \in held[w]
      BY <1>0, <1>1, <1>2, <2>2, <3>1 DEF Batches, Outcomes
    <3>2. CASE r \notin held[w]
      BY <1>2, <3>2
    <3> QED
      BY <3>1, <3>2
  <2> QED
    BY <2>1, <2>2 DEF SettledRows
<1>8. Contract!Settle(S)
  BY <1>2, <1>6, <1>7 DEF Contract!Settle, Tried, SettledRows
<1> QED
  BY <1>8 DEF Contract!ContractNext

\* A crash is a fault: what its run has tried is forgotten.
LEMMA CrashForgets ==
    ASSUME IInv, NEW w \in Workers, Crash(w)
    PROVE  Contract!ContractNext
<1>0. PICK S \in SUBSET Rows : S = {r \in Rows : staged[w][r] # "PENDING"}
  OBVIOUS
<1>1. TypeOK /\ OneHolder /\ Staging
  BY DEF IInv
<1>2. /\ staged' = [staged EXCEPT ![w] = AllPending]
      /\ crashes' = crashes + 1
      /\ UNCHANGED <<status, broadcasts>>
  BY DEF Crash, chain
<1>3. \A r \in S, v \in Workers : v # w => staged[v][r] = "PENDING"
  BY <1>0, <1>1 DEF Staging, OneHolder
<1>4. \A v \in Workers, r \in Rows :
          staged'[v][r] = IF v = w THEN "PENDING" ELSE staged[v][r]
  BY <1>1, <1>2 DEF TypeOK, AllPending
<1>5. Tried' = Tried \ S
  BY <1>0, <1>3, <1>4 DEF Tried
<1>6. SettledRows' = SettledRows \cup {}
  BY <1>2 DEF SettledRows
<1>7. Contract!Forget(S, {})
  BY <1>2, <1>5, <1>6 DEF Contract!Forget, Tried, SettledRows
<1> QED
  BY <1>7 DEF Contract!ContractNext

\* The row a run is at, or takes, it has not staged yet.
LEMMA AtHand ==
    ASSUME IInv, NEW w \in Workers
    PROVE  /\ current[w] # NoRow =>
                  current[w] \in held[w] /\ staged[w][current[w]] = "PENDING"
           /\ \A r \in todo[w] : r \in held[w] /\ staged[w][r] = "PENDING"
BY DEF IInv, TypeOK, Batches, Staging

LEMMA ContractStep ==
    ASSUME IInv, [Next]_vars
    PROVE  [Contract!ContractNext]_Contract!contractVars
<1>1. ASSUME UNCHANGED <<status, staged, broadcasts, crashes>>
      PROVE  UNCHANGED Contract!contractVars
  BY <1>1 DEF Contract!contractVars
<1>2. ASSUME NEW w \in Workers,
             Broadcast(w) \/ BroadcastAnswerLost(w) \/ BroadcastRefused(w)
      PROVE  Contract!ContractNext
  <2>1. current[w] \in held[w] /\ staged[w][current[w]] = "PENDING"
    BY <1>2, AtHand DEF Broadcast, BroadcastAnswerLost, BroadcastRefused
  <2>2. PICK s \in Outcomes :
            /\ staged' = [staged EXCEPT ![w][current[w]] = s]
            /\ UNCHANGED <<status, crashes>>
    BY <1>2 DEF Broadcast, BroadcastAnswerLost, BroadcastRefused, Mark, Outcomes
  <2>3. broadcasts' \in {broadcasts, [broadcasts EXCEPT ![current[w]] = @ + 1]}
    BY <1>2 DEF Broadcast, BroadcastAnswerLost, BroadcastRefused, NodeAccepts, chain
  <2> QED
    BY <2>1, <2>2, <2>3, TryStep
<1>3. ASSUME NEW w \in Workers, NEW r \in Rows, RefuseRow(w, r)
      PROVE  Contract!ContractNext
  <2>1. r \in held[w] /\ staged[w][r] = "PENDING"
    BY <1>3, AtHand DEF RefuseRow, IsNext
  <2>2. /\ staged' = [staged EXCEPT ![w][r] = "FAILED"]
        /\ UNCHANGED <<status, crashes, broadcasts>>
    BY <1>3 DEF RefuseRow, chain
  <2> QED
    BY <2>1, <2>2, TryStep DEF Outcomes
<1>4. ASSUME NEW r \in Rows, Enqueue(r)
      PROVE  UNCHANGED Contract!contractVars
  <2>1. SettledRows' = SettledRows
    BY <1>4 DEF IInv, TypeOK, Enqueue, SettledRows, Outcomes
  <2> QED
    BY <1>4, <2>1 DEF Enqueue, run, chain, Contract!contractVars, SettledRows
<1>5. ASSUME NEW w \in Workers, Begin(w) \/ \E r \in Rows : ReadNonce(w, r)
      PROVE  UNCHANGED Contract!contractVars
  BY <1>1, <1>5 DEF Begin, ReadNonce, chain
<1>6. CASE Mine
  BY <1>1, <1>6 DEF Mine, run
<1>7. CASE UNCHANGED vars
  BY <1>1, <1>7 DEF vars
<1>8. ASSUME NEW w \in Workers, Work(w)
      PROVE  Contract!ContractNext \/ UNCHANGED Contract!contractVars
  BY <1>2, <1>3, <1>5, <1>8, CommitSettles DEF Work
<1> QED
  BY <1>4, <1>6, <1>7, <1>8, CrashForgets DEF Next

\* The workers, their crashes and the chain implement the contract: a row is tried
\* again only after a crash, and never once its outcome is committed.
THEOREM ContractKept == Spec => KeepsContract
<1>1. Init => Contract!ContractInit
  BY DEF Init, AllPending, Outcomes, Contract!ContractInit
<1>2. IInv /\ [Next]_vars => [Contract!ContractNext]_Contract!contractVars
  BY ContractStep
<1> QED
  BY <1>1, <1>2, Invariance, PTL DEF Spec, KeepsContract, Contract!ContractSpec

\* What the contract is worth: whoever keeps it pays an item at most once more
\* than it had faults -- and only once while it is not settled.
Worth ==
    /\ broadcasts \in [Rows -> Nat] /\ crashes \in Nat
    /\ \A r \in Rows :
          broadcasts[r] <= crashes + (IF r \in Tried \cup SettledRows THEN 1 ELSE 0)

LEMMA WorthStep ==
    ASSUME Worth, [Contract!ContractNext]_Contract!contractVars
    PROVE  Worth'
<1>1. ASSUME NEW i \in Rows, Contract!Try(i)
      PROVE  Worth'
  BY <1>1 DEF Worth, Contract!Try, Tried, SettledRows
<1>2. ASSUME NEW S \in SUBSET Rows, Contract!Settle(S)
      PROVE  Worth'
  BY <1>2 DEF Worth, Contract!Settle, Tried, SettledRows
<1>3. ASSUME NEW S \in SUBSET Rows, NEW T \in SUBSET Rows, Contract!Forget(S, T)
      PROVE  Worth'
  BY <1>3 DEF Worth, Contract!Forget, Tried, SettledRows
<1>4. CASE UNCHANGED Contract!contractVars
  BY <1>4 DEF Worth, Contract!contractVars, Tried, SettledRows
<1> QED
  BY <1>1, <1>2, <1>3, <1>4 DEF Contract!ContractNext

THEOREM ContractBounds == Contract!ContractSpec => []BroadcastsBounded
<1>1. Contract!ContractInit => Worth
  BY DEF Contract!ContractInit, Worth, Tried, SettledRows
<1>2. Worth => BroadcastsBounded
  BY DEF Worth, BroadcastsBounded
<1> QED
  BY <1>1, <1>2, WorthStep, PTL DEF Contract!ContractSpec
=============================================================================
