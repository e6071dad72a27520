---------------------- MODULE SettlementHandler_proofs ----------------------
(***************************************************************************)
(* The settlement handlers and the gateway's store, for any number of      *)
(* deliveries, any bound of the store and any number of faults.            *)
(*                                                                         *)
(* OnePayoutPerDelivery needs to know where the one request of a delivery  *)
(* can be: not posted yet, in the inbox, being served, or forwarded        *)
(* (OneRequest); that a declined one left nothing behind follows the store *)
(* as well (NoTrace).  OnTheBooks holds of every call that is past its     *)
(* line, not only of those that are done (Written).                        *)
(***************************************************************************)
EXTENDS SettlementHandler, TLAPS, SequenceTheorems

\* The request of a delivery is in at most one place.
OneRequest ==
    \A d \in Deliveries :
        /\ pc[d] \in {"idle", "paying"} \/ d \notin Approved =>
               d \notin inbox /\ serving # d /\ payouts[d] = 0
        /\ d \notin Approved => pc[d] \in {"idle", "done"}
        /\ d \in Direct => d \notin inbox /\ serving # d /\ pc[d] # "posting"
        /\ d \notin Direct => pc[d] # "paying"
        /\ d \in inbox => serving # d /\ payouts[d] = 0
        /\ serving = d => payouts[d] = 0
        /\ payouts[d] <= posts[d] /\ posts[d] <= 1
        /\ pc[d] = "idle" => posts[d] = 0
        /\ d \in inbox \/ serving = d \/ pc[d] = "paying" => posts[d] = 1

\* A declined delivery is nowhere.
NoTrace ==
    \A d \in Deliveries \ Approved :
        /\ posts[d] = 0
        /\ d \notin answered \cup lines \cup rows
        /\ \A i \in 1..Len(store) : store[i] # d

Written ==
    \A d \in Approved : pc[d] \in {"insert", "done"} => d \in lines \cup unwritten

\* The store is the end of what was received, entry by entry.
StoreIsEnd ==
    /\ Len(store) <= StoreMax
    /\ Len(store) <= Len(received)
    /\ \A i \in 1..Len(store) : store[i] = received[Len(received) - Len(store) + i]
    /\ Len(store) < StoreMax => Len(store) = Len(received)

IInv == TypeOK /\ OneRequest /\ NoTrace /\ Written /\ StoreIsEnd

LEMMA InitIInv == Init => IInv
<1> SUFFICES ASSUME Init
             PROVE  IInv
  OBVIOUS
<1> USE SettlementAssumption DEF Init
<1>1. TypeOK
  BY DEF TypeOK
<1>2. ASSUME NEW d \in Deliveries
      PROVE  /\ pc[d] = "idle" /\ payouts[d] = 0 /\ posts[d] = 0
             /\ d \notin inbox /\ serving # d
             /\ d \notin answered \cup lines \cup rows /\ 1..Len(store) = {}
  OBVIOUS
<1>3. OneRequest /\ NoTrace
  <2> HIDE DEF Init
  <2>1. ASSUME NEW d \in Deliveries
        PROVE  payouts[d] <= posts[d] /\ posts[d] <= 1
    BY <1>2
  <2>2. OneRequest
    BY <1>2, <2>1, Zenon DEF OneRequest
  <2>3. NoTrace
    BY <1>2, Zenon DEF NoTrace
  <2> QED
    BY <2>2, <2>3
<1>4. Written
  BY DEF Written
<1>5. StoreIsEnd
  BY DEF StoreIsEnd
<1> QED
  BY <1>1, <1>3, <1>4, <1>5 DEF IInv

\* pop(0) keeps the sequence a sequence of deliveries.
LEMMA BoundedType ==
    ASSUME NEW s \in Seq(Deliveries)
    PROVE  Bounded(s) \in Seq(Deliveries)
BY SettlementAssumption DEF Bounded

LEMMA TypeStep == TypeOK /\ [Next]_vars => TypeOK'
<1> SUFFICES ASSUME TypeOK, [Next]_vars
             PROVE  TypeOK'
  OBVIOUS
<1> USE SettlementAssumption DEF TypeOK, gateway, books, GoTo
<1>1. ASSUME NEW d \in Deliveries,
             \/ Decline(d) \/ Post(d) \/ PostRefused(d) \/ PostAnswered(d)
             \/ PostTimesOut(d) \/ HandlePayout(d)
      PROVE  TypeOK'
  <2>1. CASE Decline(d)
    BY <2>1 DEF Decline
  <2>2. CASE Post(d)
    BY <2>2 DEF Post
  <2>3. CASE PostRefused(d)
    BY <2>3 DEF PostRefused
  <2>4. CASE PostAnswered(d)
    BY <2>4 DEF PostAnswered
  <2>5. CASE PostTimesOut(d)
    BY <2>5 DEF PostTimesOut
  <2>6. CASE HandlePayout(d)
    BY <2>6 DEF HandlePayout
  <2> QED
    BY <1>1, <2>1, <2>2, <2>3, <2>4, <2>5, <2>6
<1>2. ASSUME NEW d \in Deliveries, AppendLine(d) \/ AppendFails(d)
      PROVE  TypeOK'
  <2>1. AfterLine(d) \in {"done", "insert"}
    BY DEF AfterLine
  <2>2. CASE AppendLine(d)
    BY <2>1, <2>2 DEF AppendLine
  <2>3. CASE AppendFails(d)
    BY <2>1, <2>3 DEF AppendFails
  <2> QED
    BY <1>2, <2>2, <2>3
<1>3. ASSUME NEW d \in Deliveries, Insert(d)
      PROVE  TypeOK'
  <2>1. InsertSettlement(d) \subseteq Deliveries
    BY DEF InsertSettlement
  <2> QED
    BY <1>3, <2>1 DEF Insert
<1>4. ASSUME NEW d \in Deliveries, PostPayout(d)
      PROVE  TypeOK'
  <2>1. PICK n \in {0, 1} : payouts' = [payouts EXCEPT ![d] = @ + n]
    BY <1>4 DEF PostPayout
  <2>2. payouts' \in [Deliveries -> Nat]
    BY <2>1
  <2> QED
    BY <1>4, <2>2 DEF PostPayout
<1>5. ASSUME NEW d \in Deliveries, Receive(d)
      PROVE  TypeOK'
  <2>1. Append(store, d) \in Seq(Deliveries) /\ Append(received, d) \in Seq(Deliveries)
    BY AppendProperties
  <2>2. store' \in Seq(Deliveries) /\ received' \in Seq(Deliveries)
    BY <1>5, <2>1, BoundedType DEF Receive
  <2> QED
    BY <1>5, <2>2 DEF Receive
<1>6. CASE ForwardPayout
  <2>1. PICK n \in {0, 1} : payouts' = [payouts EXCEPT ![serving] = @ + n]
    BY <1>6 DEF ForwardPayout
  <2>2. payouts' \in [Deliveries -> Nat]
    BY <1>6, <2>1 DEF ForwardPayout
  <2> QED
    BY <1>6, <2>2 DEF ForwardPayout
<1>7. CASE HandlerCrash
  BY <1>7 DEF HandlerCrash
<1>8. CASE GatewayCrash
  BY <1>8 DEF GatewayCrash
<1>9. CASE UNCHANGED vars
  BY <1>9 DEF vars
<1> QED
  BY <1>1, <1>2, <1>3, <1>4, <1>5, <1>6, <1>7, <1>8, <1>9 DEF Next, Handle

\* A request moves from place to place and is never doubled.
LEMMA RequestStep ==
    ASSUME TypeOK, TypeOK', OneRequest, [Next]_vars
    PROVE  OneRequest'
<1> USE SettlementAssumption DEF TypeOK, OneRequest, gateway, books, GoTo
<1>1. ASSUME NEW d \in Deliveries,
             \/ Decline(d) \/ PostRefused(d) \/ PostAnswered(d) \/ PostTimesOut(d)
      PROVE  OneRequest'
  <2>1. UNCHANGED <<inbox, serving, payouts, posts>>
    BY <1>1 DEF Decline, PostRefused, PostAnswered, PostTimesOut
  <2>2. \E place \in {"record", "done"} :
            pc' = [pc EXCEPT ![d] = place] /\ (d \in Approved \/ place = "done")
    BY <1>1 DEF Decline, PostRefused, PostAnswered, PostTimesOut
  <2> QED
    BY <2>1, <2>2
<1>2. ASSUME NEW d \in Deliveries, Post(d) \/ HandlePayout(d)
      PROVE  OneRequest'
  <2>1. CASE Post(d)
    BY <2>1 DEF Post
  <2>2. CASE HandlePayout(d)
    BY <2>2 DEF HandlePayout
  <2> QED
    BY <1>2, <2>1, <2>2
<1>3. ASSUME NEW d \in Deliveries, AppendLine(d) \/ AppendFails(d) \/ Insert(d)
      PROVE  OneRequest'
  <2>1. UNCHANGED <<inbox, serving, payouts, posts>>
    BY <1>3 DEF AppendLine, AppendFails, Insert
  <2>2. \E place \in {"insert", "done"} : pc' = [pc EXCEPT ![d] = place]
    BY <1>3 DEF AppendLine, AppendFails, AfterLine, Insert
  <2>3. d \in Approved
    BY <1>3 DEF AppendLine, AppendFails, Insert
  <2> QED
    BY <2>1, <2>2, <2>3
<1>4. ASSUME NEW d \in Deliveries, PostPayout(d)
      PROVE  OneRequest'
  <2>1. PICK n \in {0, 1} : payouts' = [payouts EXCEPT ![d] = @ + n]
    BY <1>4 DEF PostPayout
  <2>2. d \in Approved /\ d \in Direct /\ payouts[d] = 0 /\ d \notin inbox /\ serving # d
    BY <1>4 DEF PostPayout
  <2> QED
    BY <1>4, <2>1, <2>2 DEF PostPayout
<1>5. ASSUME NEW d \in Deliveries, Receive(d)
      PROVE  OneRequest'
  BY <1>5 DEF Receive
<1>6. CASE ForwardPayout
  BY <1>6 DEF ForwardPayout
<1>7. CASE HandlerCrash
  BY <1>7 DEF HandlerCrash
<1>8. CASE GatewayCrash
  BY <1>8 DEF GatewayCrash
<1>9. CASE UNCHANGED vars
  BY <1>9 DEF vars
<1> QED
  BY <1>1, <1>2, <1>3, <1>4, <1>5, <1>6, <1>7, <1>8, <1>9 DEF Next, Handle

\* A declined delivery goes nowhere; an entry of the store came through the inbox.
LEMMA TraceStep ==
    ASSUME TypeOK, TypeOK', OneRequest, NoTrace, [Next]_vars
    PROVE  NoTrace'
<1> SUFFICES ASSUME NEW e \in Deliveries \ Approved
             PROVE  /\ posts'[e] = 0
                    /\ e \notin answered' \cup lines' \cup rows'
                    /\ \A i \in 1..Len(store') : store'[i] # e
  BY DEF NoTrace
<1>0. /\ posts[e] = 0 /\ e \notin answered \cup lines \cup rows
      /\ \A i \in 1..Len(store) : store[i] # e
      /\ pc[e] \in {"idle", "done"} /\ e \notin inbox /\ serving # e
  BY DEF NoTrace, OneRequest
<1> USE <1>0, SettlementAssumption DEF gateway, books, GoTo
<1>1. ASSUME NEW d \in Deliveries,
             \/ Decline(d) \/ Post(d) \/ PostRefused(d) \/ PostAnswered(d) \/ PostTimesOut(d)
             \/ HandlePayout(d) \/ PostPayout(d)
      PROVE  posts'[e] = 0 /\ UNCHANGED <<answered, lines, rows, store>>
  <2>1. CASE Post(d) \/ HandlePayout(d)
    BY <2>1 DEF TypeOK, Post, HandlePayout
  <2>2. CASE Decline(d) \/ PostRefused(d) \/ PostAnswered(d) \/ PostTimesOut(d) \/ PostPayout(d)
    BY <2>2 DEF Decline, PostRefused, PostAnswered, PostTimesOut, PostPayout
  <2> QED
    BY <1>1, <2>1, <2>2
<1>2. ASSUME NEW d \in Deliveries, AppendLine(d) \/ AppendFails(d) \/ Insert(d)
      PROVE  posts'[e] = 0 /\ e \notin lines' \cup rows' /\ UNCHANGED <<answered, store>>
  <2>1. d # e
    BY <1>2 DEF AppendLine, AppendFails, Insert
  <2>2. CASE AppendLine(d) \/ AppendFails(d)
    BY <2>1, <2>2 DEF AppendLine, AppendFails
  <2>3. CASE Insert(d)
    BY <2>1, <2>3 DEF Insert, InsertSettlement
  <2> QED
    BY <1>2, <2>2, <2>3
<1>3. ASSUME NEW d \in Deliveries, Receive(d)
      PROVE  /\ posts'[e] = 0 /\ UNCHANGED <<answered, lines, rows>>
             /\ \A i \in 1..Len(store') : store'[i] # e
  <2>1. d # e
    BY <1>3 DEF Receive
  <2>2. PICK s \in Seq(Deliveries) : s = Append(store, d)
    BY AppendProperties DEF TypeOK
  <2>3. \A i \in 1..Len(s) : s[i] # e
    <3>1. /\ store \in Seq(Deliveries)
          /\ Len(s) = Len(store) + 1 /\ s[Len(store) + 1] = d
          /\ \A i \in 1..Len(store) : s[i] = store[i]
      BY <2>2, AppendProperties DEF TypeOK
    <3>2. ASSUME NEW i \in 1..Len(s)
          PROVE  i \in 1..Len(store) \/ i = Len(store) + 1
      BY <3>1
    <3> QED
      BY <2>1, <3>1, <3>2
  <2>4. store' = IF Len(s) > StoreMax THEN Tail(s) ELSE s
    BY <1>3, <2>2 DEF Receive, Bounded
  <2>5. ASSUME Len(s) > StoreMax, NEW i \in 1..Len(Tail(s))
        PROVE  Tail(s)[i] # e
    <3>1. Len(s) \in Nat /\ s # << >>
      BY <2>5
    <3>2. Len(Tail(s)) = Len(s) - 1 /\ Tail(s)[i] = s[i + 1]
      BY <2>5, <3>1, HeadTailProperties
    <3>3. i + 1 \in 1..Len(s)
      BY <3>1, <3>2
    <3> QED
      BY <2>3, <3>2, <3>3
  <2>6. \A i \in 1..Len(store') : store'[i] # e
    BY <2>3, <2>4, <2>5
  <2> QED
    BY <1>3, <2>6 DEF Receive
<1>4. CASE ForwardPayout
  BY <1>4 DEF ForwardPayout
<1>5. CASE HandlerCrash
  BY <1>5 DEF HandlerCrash
<1>6. CASE GatewayCrash
  BY <1>6 DEF GatewayCrash
<1>7. CASE UNCHANGED vars
  BY <1>7 DEF vars
<1> QED
  BY <1>1, <1>2, <1>3, <1>4, <1>5, <1>6, <1>7 DEF Next, Handle

\* A call gets past its line without one only by a failed write of it.
LEMMA WrittenStep ==
    ASSUME TypeOK, Written, [Next]_vars
    PROVE  Written'
<1> USE SettlementAssumption DEF TypeOK, Written, gateway, books, GoTo
<1>1. ASSUME NEW d \in Deliveries, \/ Post(d) \/ PostRefused(d) \/ PostAnswered(d)
                                   \/ PostTimesOut(d) \/ HandlePayout(d) \/ PostPayout(d)
      PROVE  Written'
  <2>1. UNCHANGED <<lines, unwritten>>
    BY <1>1 DEF Post, PostRefused, PostAnswered, PostTimesOut, HandlePayout, PostPayout
  <2>2. \E place \in {"posting", "record", "paying"} : pc' = [pc EXCEPT ![d] = place]
    BY <1>1 DEF Post, PostRefused, PostAnswered, PostTimesOut, HandlePayout, PostPayout
  <2> QED
    BY <2>1, <2>2
<1>2. ASSUME NEW d \in Deliveries, Decline(d)
      PROVE  Written'
  BY <1>2 DEF Decline
<1>3. ASSUME NEW d \in Deliveries, AppendLine(d) \/ AppendFails(d)
      PROVE  Written'
  <2>1. CASE AppendLine(d)
    BY <2>1 DEF AppendLine
  <2>2. CASE AppendFails(d)
    BY <2>2 DEF AppendFails
  <2> QED
    BY <1>3, <2>1, <2>2
<1>4. ASSUME NEW d \in Deliveries, Insert(d)
      PROVE  Written'
  BY <1>4 DEF Insert
<1>5. ASSUME NEW d \in Deliveries, Receive(d)
      PROVE  Written'
  BY <1>5 DEF Receive
<1>6. CASE ForwardPayout
  BY <1>6 DEF ForwardPayout
<1>7. CASE HandlerCrash
  BY <1>7 DEF HandlerCrash
<1>8. CASE GatewayCrash
  BY <1>8 DEF GatewayCrash
<1>9. CASE UNCHANGED vars
  BY <1>9 DEF vars
<1> QED
  BY <1>1, <1>2, <1>3, <1>4, <1>5, <1>6, <1>7, <1>8, <1>9 DEF Next, Handle

\* What is appended to both is cut off the store's front alone.
LEMMA StoreStep ==
    ASSUME TypeOK, TypeOK', StoreIsEnd, [Next]_vars
    PROVE  StoreIsEnd'
<1> USE SettlementAssumption DEF TypeOK, gateway, books
<1>1. ASSUME NEW d \in Deliveries, Receive(d)
      PROVE  StoreIsEnd'
  <2> DEFINE s == Append(store, d)
             r == Append(received, d)
  <2>1. /\ s \in Seq(Deliveries) /\ Len(s) = Len(store) + 1 /\ s[Len(store) + 1] = d
        /\ \A i \in 1..Len(store) : s[i] = store[i]
    BY AppendProperties
  <2>2. /\ r \in Seq(Deliveries) /\ Len(r) = Len(received) + 1 /\ r[Len(received) + 1] = d
        /\ \A i \in 1..Len(received) : r[i] = received[i]
    BY AppendProperties
  <2>3. Len(store) \in Nat /\ Len(received) \in Nat
    OBVIOUS
  <2>4. /\ StoreMax \in Nat /\ Len(store) <= StoreMax /\ Len(store) <= Len(received)
        /\ Len(store) < StoreMax => Len(store) = Len(received)
    BY DEF StoreIsEnd
  <2>5. \A i \in 1..Len(s) : s[i] = r[Len(r) - Len(s) + i]
    <3> SUFFICES ASSUME NEW i \in 1..Len(s)
                 PROVE  s[i] = r[Len(r) - Len(s) + i]
      OBVIOUS
    <3> HIDE DEF s, r
    <3>1. CASE i = Len(store) + 1
      <4>1. Len(r) - Len(s) + i = Len(received) + 1
        BY <3>1, <2>1, <2>2, <2>3
      <4>2. s[i] = d /\ r[Len(received) + 1] = d
        BY <3>1, <2>1, <2>2
      <4> QED
        BY <4>1, <4>2
    <3>2. CASE i # Len(store) + 1
      <4>1. i \in 1..Len(store)
        BY <3>2, <2>1, <2>3
      <4>2. Len(received) - Len(store) + i \in 1..Len(received)
        BY <4>1, <2>3 DEF StoreIsEnd
      <4>3. store[i] = received[Len(received) - Len(store) + i]
        BY <4>1 DEF StoreIsEnd
      <4>4. Len(r) - Len(s) + i = Len(received) - Len(store) + i
        BY <2>1, <2>2, <2>3, <4>1
      <4>5. s[i] = store[i]
        BY <2>1, <4>1
      <4>6. r[Len(received) - Len(store) + i] = received[Len(received) - Len(store) + i]
        BY <2>2, <4>2
      <4> QED
        BY <4>3, <4>4, <4>5, <4>6
    <3> QED
      BY <3>1, <3>2
  <2>6. store' = Bounded(s) /\ received' = r
    BY <1>1 DEF Receive
  <2> HIDE DEF s, r
  <2>7. CASE Len(s) > StoreMax
    <3>1. store' = Tail(s) /\ s # << >>
      BY <2>1, <2>3, <2>6, <2>7 DEF Bounded
    <3>2. Len(Tail(s)) = Len(s) - 1 /\ \A i \in 1..Len(Tail(s)) : Tail(s)[i] = s[i + 1]
      BY <2>1, <3>1, HeadTailProperties
    <3>3. Len(store') = Len(store)
      BY <2>1, <2>3, <3>1, <3>2
    <3>4. \A i \in 1..Len(store') : store'[i] = received'[Len(received') - Len(store') + i]
      <4> SUFFICES ASSUME NEW i \in 1..Len(store')
                   PROVE  store'[i] = received'[Len(received') - Len(store') + i]
        OBVIOUS
      <4>1. store'[i] = s[i + 1] /\ i + 1 \in 1..Len(s)
        BY <2>1, <2>3, <3>1, <3>2, <3>3
      <4>2. s[i + 1] = r[Len(r) - Len(s) + (i + 1)]
        BY <2>5, <4>1
      <4>3. Len(r) - Len(s) + (i + 1) = Len(received') - Len(store') + i
        <5>1. Len(received') = Len(r) /\ i \in Nat
          BY <2>3, <2>6, <3>3
        <5> QED
          BY <2>1, <2>2, <2>3, <3>3, <5>1
      <4> QED
        BY <2>6, <4>1, <4>2, <4>3
    <3>5. Len(store') = StoreMax /\ Len(store') <= Len(r)
      BY <2>1, <2>2, <2>3, <2>4, <2>7, <3>3
    <3>6. /\ Len(store') <= StoreMax /\ Len(store') <= Len(received')
          /\ Len(store') < StoreMax => Len(store') = Len(received')
      BY <2>4, <2>6, <3>5
    <3> QED
      BY <3>4, <3>6 DEF StoreIsEnd
  <2>8. CASE ~(Len(s) > StoreMax)
    <3>1. store' = s
      BY <2>6, <2>8 DEF Bounded
    <3>2. Len(s) <= StoreMax /\ Len(s) <= Len(r)
      BY <2>1, <2>2, <2>3, <2>4, <2>8
    <3>3. Len(s) < StoreMax => Len(s) = Len(r)
      <4>1. Len(s) = Len(store) + 1 /\ Len(r) = Len(received) + 1
        BY <2>1, <2>2
      <4>2. Len(s) < StoreMax => Len(store) < StoreMax
        BY <2>3, <2>4, <4>1
      <4> QED
        BY <2>4, <4>1, <4>2
    <3>4. \A i \in 1..Len(store') : store'[i] = received'[Len(received') - Len(store') + i]
      BY <2>5, <2>6, <3>1
    <3>5. /\ Len(store') <= StoreMax /\ Len(store') <= Len(received')
      BY <2>6, <3>1, <3>2
    <3>6. Len(store') < StoreMax => Len(store') = Len(received')
      BY <2>6, <3>1, <3>3
    <3> QED
      BY <3>4, <3>5, <3>6 DEF StoreIsEnd
  <2> QED
    BY <2>7, <2>8
<1>2. CASE GatewayCrash
  BY <1>2 DEF GatewayCrash, StoreIsEnd
<1>3. CASE UNCHANGED <<store, received>>
  BY <1>3 DEF StoreIsEnd
<1>4. ASSUME NEW d \in Deliveries, Post(d) \/ PostRefused(d) \/ HandlePayout(d) \/ Handle(d)
      PROVE  UNCHANGED <<store, received>>
  BY <1>4 DEF Handle, Decline, Post, PostRefused, PostAnswered, PostTimesOut, HandlePayout,
              AppendLine, AppendFails, Insert, PostPayout
<1> QED
  BY <1>1, <1>2, <1>3, <1>4 DEF Next, ForwardPayout, HandlerCrash, vars

LEMMA Inductive == Spec => []IInv
<1>1. IInv /\ [Next]_vars => IInv'
  BY TypeStep, RequestStep, TraceStep, WrittenStep, StoreStep DEF IInv
<1> QED
  BY InitIInv, <1>1, PTL DEF Spec
-----------------------------------------------------------------------------
\* Type correctness of the settlement path.
THEOREM TypeCorrect == Spec => []TypeOK
<1>1. IInv => TypeOK
  BY DEF IInv
<1> QED
  BY Inductive, <1>1, PTL

\* A declined response leaves no trace, and for an approved one a payout is
\* requested at most once for each delivery, and only after a post.
THEOREM OnePayoutPerDeliveryInv == Spec => []OnePayoutPerDelivery
<1>1. IInv => OnePayoutPerDelivery
  BY DEF IInv, TypeOK, OneRequest, NoTrace, OnePayoutPerDelivery
<1> QED
  BY Inductive, <1>1, PTL

\* An approved response that was handled to its end has its line, or writing that
\* line failed.
THEOREM OnTheBooksInv == Spec => []OnTheBooks
<1>1. IInv => OnTheBooks
  BY DEF IInv, Written, OnTheBooks
<1> QED
  BY Inductive, <1>1, PTL

\* The bounded store holds exactly the newest posts since the gateway started.
THEOREM StoreIsNewestInv == Spec => []StoreIsNewest
<1>1. IInv => StoreIsNewest
  <2> SUFFICES ASSUME IInv
               PROVE  StoreIsNewest
    OBVIOUS
  <2> DEFINE m == Len(received) - Len(store) + 1
             t == SubSeq(received, m, Len(received))
  <2>1. store \in Seq(Deliveries) /\ received \in Seq(Deliveries)
    BY DEF IInv, TypeOK
  <2>2. /\ Len(store) \in Nat /\ Len(received) \in Nat
        /\ m \in 1..(Len(received) + 1)
    BY <2>1 DEF IInv, StoreIsEnd
  <2>3. \A i \in m..Len(received) : received[i] \in Deliveries
    BY <2>1, <2>2
  <2>4. /\ t \in Seq(Deliveries)
        /\ Len(t) = IF m <= Len(received) THEN Len(received) - m + 1 ELSE 0
        /\ \A i \in 1..(Len(received) - m + 1) : t[i] = received[m + i - 1]
    BY <2>2, <2>3, SubSeqProperties
  <2>5. Len(t) = Len(store)
    BY <2>2, <2>4
  <2>6. \A i \in 1..Len(store) : store[i] = t[i]
    BY <2>2, <2>4 DEF IInv, StoreIsEnd
  <2>7. store = t
    BY <2>1, <2>4, <2>5, <2>6, SeqEqual
  <2>8. Len(received) >= StoreMax => Len(store) = StoreMax
    BY <2>2, SettlementAssumption DEF IInv, StoreIsEnd
  <2> QED
    BY <2>7, <2>8 DEF StoreIsNewest, IInv, StoreIsEnd
<1> QED
  BY Inductive, <1>1, PTL
=============================================================================
