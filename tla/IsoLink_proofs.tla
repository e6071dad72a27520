--------------------------- MODULE IsoLink_proofs ---------------------------
(***************************************************************************)
(* Proofs about the ISO link, for any number of calls and any number of    *)
(* attempts of each client.  What the frames and answers are is a finite   *)
(* matter, settled once by the lemmas about IsoWire; the rest is that a    *)
(* call's answer is the one its last attempt was served with.              *)
(***************************************************************************)
EXTENDS IsoLink, TLAPS, FiniteSetTheorems

\* Until its loop is over a call has no answer; then the answer is that of the
\* last attempt, or an error after all of them.
AnswerOfLastAttempt ==
    \A c \in Calls :
        /\ phase[c] \in {"idle", "waiting", "backoff"} => answer[c] = NoAnswer
        /\ phase[c] = "waiting" => attempt[c] \in Attempts
        /\ phase[c] = "returned" =>
              /\ attempt[c] \in Attempts
              /\ conn[c][attempt[c]] = "served"
              /\ answer[c] = HttpAnswer(deployment.gateway,
                                        Parsed(deployment.client, Frame))
        /\ phase[c] = "raised" => 
              /\ attempt[c] = Limit
              /\ answer[c] = ExhaustedAnswer(deployment.gateway)

\* No connection exists for an attempt that was not begun.
ConnectionsBegun ==
    \A c \in Calls, a \in Attempts : conn[c][a] # "none" => a <= attempt[c]

\* The attempts that had a connection: all but the one waited for, or answered,
\* were given up.
Opened(c) == {a \in Attempts : conn[c][a] # "none"}
InHand(c) == IF phase[c] \in {"waiting", "returned"} THEN 1 ELSE 0

OthersGivenUp ==
    \A c \in Calls :
        IsFiniteSet(Opened(c)) /\ Cardinality(Opened(c)) <= timeouts[c] + InHand(c)

IInv == TypeOK /\ AnswerOfLastAttempt /\ ConnectionsBegun /\ OthersGivenUp
-----------------------------------------------------------------------------
(***************************************************************************)
(* The wire, for every deployment.                                         *)
(***************************************************************************)
Answers == [kind : {"none", "error", "body"},
            flag : {"yes", "no", "absent"},
            code : Codes \cup {NoCode}]

DeploymentFrame(d) == ProcessorFrame(d.processor, SendsMti(d.client))
DeploymentParsed(d) == Parsed(d.client, DeploymentFrame(d))

LEMMA DeploymentParts ==
    ASSUME NEW d \in Deployments
    PROVE  d.gateway \in Gateways /\ d.client \in Clients /\ d.processor \in Processors
BY DEF Deployments

LEMMA FrameType ==
    ASSUME NEW d \in Deployments
    PROVE  DeploymentFrame(d) \in Frames
<1> USE DEF Processors, ProcessorFrame, ServerPatched, ProcessorServerToPatch,
            ServerFixed, Frames, Codes, SendsMti, DeploymentFrame
<1>1. CASE d.client \in {"app", "root"}
  BY <1>1, DeploymentParts
<1>2. CASE d.client \notin {"app", "root"}
  BY <1>2, DeploymentParts
<1> QED
  BY <1>1, <1>2

LEMMA AnswerType ==
    ASSUME NEW g \in Gateways, NEW k \in Clients, NEW f \in Frames
    PROVE  HttpAnswer(g, Parsed(k, f)) \in Answers
BY DEF Gateways, Clients, Frames, Answers, HttpAnswer, Parsed, AppParsed,
       ToPatchParsed, RootParsed, TopCode, ToPatchAnswer, GatewayAnswer,
       RootAnswer, NewAnswer, HttpError, Body, OrElse, NoCode, Codes

\* An answer the backend takes for an approval carries the code of the frame.
LEMMA ApprovalIsOfFrame ==
    ASSUME NEW g \in Gateways, NEW k \in Clients, NEW f \in Frames,
           BackendApproves(HttpAnswer(g, Parsed(k, f)))
    PROVE  Approves(f)
BY DEF Gateways, Clients, Frames, HttpAnswer, Parsed, AppParsed, ToPatchParsed,
       RootParsed, TopCode, ToPatchAnswer, GatewayAnswer, RootAnswer, NewAnswer, HttpError,
       Body, OrElse, NoCode, Codes, BackendApproves, Approved, De39, Approves

\* Where gateway and client understand each other every processor's answer is
\* taken for an approval.
LEMMA CompatibleApproves ==
    ASSUME NEW d \in Deployments, Compatible(d)
    PROVE  BackendApproves(HttpAnswer(d.gateway, DeploymentParsed(d)))
<1>1. d.gateway = "to_patch" /\ d.client = "to_patch" /\ d.processor \in Processors
  BY DeploymentParts DEF Compatible
<1>2. DeploymentFrame(d).code = "00"
  BY <1>1 DEF Processors, ProcessorFrame, ServerPatched, ProcessorServerToPatch,
              ServerFixed, SendsMti, DeploymentFrame
<1>3. DeploymentParsed(d).found = "00"
  BY <1>1, <1>2 DEF Parsed, ToPatchParsed, DeploymentParsed
<1>4. HttpAnswer(d.gateway, DeploymentParsed(d)) = Body("absent", "00")
  BY <1>1, <1>3 DEF HttpAnswer, ToPatchAnswer, NoCode
<1> QED
  BY <1>4 DEF Body, NoCode, BackendApproves, Approved, De39, OrElse

\* A body that is made of a frame, or of none at all, is one that the backend
\* reckons with.
Reply(a) == [flag |-> a.flag, code |-> a.code]

LEMMA BodyIsExpected ==
    ASSUME NEW g \in Gateways, NEW k \in Clients, NEW f \in Frames
    PROVE  /\ HttpAnswer(g, Parsed(k, f)).kind = "body" =>
                  Reply(HttpAnswer(g, Parsed(k, f)))
                      \in GatewayReplies(IF Approves(f) THEN "approved" ELSE "none")
           /\ ExhaustedAnswer(g).kind = "body" =>
                  Reply(ExhaustedAnswer(g)) \in GatewayReplies("none")
BY DEF Gateways, Clients, Frames, HttpAnswer, Parsed, AppParsed, ToPatchParsed,
       RootParsed, TopCode, ToPatchAnswer, GatewayAnswer, RootAnswer, NewAnswer, HttpError,
       Body, OrElse, NoCode, Codes, Approves, ExhaustedAnswer, Reply, GatewayReplies

\* What is left when every attempt failed is an answer, and no approval.
LEMMA ExhaustedIsRefusal ==
    ASSUME NEW g
    PROVE  ExhaustedAnswer(g) \in Answers /\ ~BackendApproves(ExhaustedAnswer(g))
BY DEF ExhaustedAnswer, NewAnswer, HttpError, Body, Answers, BackendApproves, Approved, De39,
       OrElse, NoCode, Codes
-----------------------------------------------------------------------------
(***************************************************************************)
(* The loop.                                                               *)
(***************************************************************************)
LEMMA AttemptsFacts ==
    ASSUME deployment \in Deployments
    PROVE  /\ Limit \in Nat \ {0}
           /\ Attempts \subseteq Nat
           /\ \A a \in Nat : 1 <= a /\ a <= Limit => a \in Attempts
           /\ \A a \in Attempts : 1 <= a
BY DeploymentParts, AttemptsAssumption DEF Limit, Attempts

LEMMA LinkAnswerType ==
    ASSUME deployment \in Deployments
    PROVE  HttpAnswer(deployment.gateway, Parsed(deployment.client, Frame)) \in Answers
BY DeploymentParts, FrameType, AnswerType DEF Frame, DeploymentFrame

LEMMA InitIInv == Init => IInv
<1> SUFFICES ASSUME Init
             PROVE  IInv
  OBVIOUS
<1>1. TypeOK /\ AnswerOfLastAttempt /\ ConnectionsBegun
  BY AttemptsFacts
     DEF Init, TypeOK, AnswerOfLastAttempt, ConnectionsBegun, NoAnswer, NoCode
<1>2. OthersGivenUp
  <2> SUFFICES ASSUME NEW c \in Calls
               PROVE  IsFiniteSet(Opened(c)) /\ Cardinality(Opened(c)) <= timeouts[c] + InHand(c)
    BY DEF OthersGivenUp
  <2>1. Opened(c) = {} /\ timeouts[c] = 0 /\ InHand(c) = 0
    BY DEF Init, Opened, InHand
  <2> QED
    BY <2>1, FS_EmptySet
<1> QED
  BY <1>1, <1>2 DEF IInv

\* No step leaves the types of the variables.
LEMMA TypeStep ==
    ASSUME TypeOK, AnswerOfLastAttempt, [Next]_vars
    PROVE  TypeOK'
<1>0. /\ deployment' = deployment
      /\ Limit \in Nat \ {0} /\ Attempts \subseteq Nat
      /\ Limit' = Limit
  BY AttemptsFacts DEF TypeOK, Next, ClientStep, Rest, vars, Connect, ConnectFails,
        ReadAnswer, AttemptTimesOut, GiveUp, Serve, Reset, Limit
<1> USE <1>0, LinkAnswerType, ExhaustedIsRefusal DEF TypeOK, AnswerOfLastAttempt, Answers
<1>1. ASSUME NEW c \in Calls, Connect(c)
      PROVE  TypeOK'
  <2>1. attempt' \in [Calls -> 0..Limit']
    BY <1>1 DEF Ready, Connect
  <2>2. conn' \in [Calls -> [Attempts -> {"none", "sent", "served", "reset"}]]
    <3>1. [conn[c] EXCEPT ![attempt[c] + 1] = "sent"]
             \in [Attempts -> {"none", "sent", "served", "reset"}]
      BY <1>1
    <3>2. conn' = [conn EXCEPT ![c] = [conn[c] EXCEPT ![attempt[c] + 1] = "sent"]]
      BY <1>1 DEF Connect
    <3> QED
      BY <3>1, <3>2
  <2> QED
    BY <1>1, <2>1, <2>2 DEF Connect
<1>2. ASSUME NEW c \in Calls, ConnectFails(c)
      PROVE  TypeOK'
  BY <1>2 DEF Ready, ConnectFails
<1>3. ASSUME NEW c \in Calls, ReadAnswer(c)
      PROVE  TypeOK'
  BY <1>3 DEF ReadAnswer
<1>4. ASSUME NEW c \in Calls, AttemptTimesOut(c)
      PROVE  TypeOK'
  BY <1>4 DEF AttemptTimesOut
<1>5. ASSUME NEW c \in Calls, GiveUp(c)
      PROVE  TypeOK'
  BY <1>5 DEF GiveUp
<1>6. ASSUME NEW c \in Calls, NEW a \in Attempts, Serve(c, a)
      PROVE  TypeOK'
  BY <1>6 DEF Serve
<1>7. ASSUME NEW c \in Calls, NEW a \in Attempts, Reset(c, a)
      PROVE  TypeOK'
  BY <1>7 DEF Reset
<1>8. CASE UNCHANGED vars
  BY <1>8 DEF vars
<1> QED
  BY <1>1, <1>2, <1>3, <1>4, <1>5, <1>6, <1>7, <1>8 DEF Next, ClientStep, Rest

\* A call is only answered by the attempt it waits for.
LEMMA AnswerStep ==
    ASSUME TypeOK, AnswerOfLastAttempt, [Next]_vars
    PROVE  AnswerOfLastAttempt'
<1>0. /\ deployment' = deployment
      /\ Limit \in Nat \ {0}
      /\ \A a \in Nat : 1 <= a /\ a <= Limit => a \in Attempts
      /\ Limit' = Limit
      /\ Frame' = Frame
  BY AttemptsFacts DEF TypeOK, Next, ClientStep, Rest, vars, Connect, ConnectFails,
        ReadAnswer, AttemptTimesOut, GiveUp, Serve, Reset, Limit, Frame
<1> USE <1>0 DEF TypeOK, AnswerOfLastAttempt
<1>1. ASSUME NEW c \in Calls, Connect(c)
      PROVE  AnswerOfLastAttempt'
  BY <1>1 DEF Ready, Connect
<1>2. ASSUME NEW c \in Calls, ConnectFails(c)
      PROVE  AnswerOfLastAttempt'
  BY <1>2 DEF Ready, ConnectFails
<1>3. ASSUME NEW c \in Calls, ReadAnswer(c)
      PROVE  AnswerOfLastAttempt'
  BY <1>3 DEF ReadAnswer
<1>4. ASSUME NEW c \in Calls, AttemptTimesOut(c)
      PROVE  AnswerOfLastAttempt'
  BY <1>4 DEF AttemptTimesOut
<1>5. ASSUME NEW c \in Calls, GiveUp(c)
      PROVE  AnswerOfLastAttempt'
  BY <1>5 DEF GiveUp
<1>6. ASSUME NEW c \in Calls, NEW a \in Attempts, Serve(c, a)
      PROVE  AnswerOfLastAttempt'
  BY <1>6 DEF Serve
<1>7. ASSUME NEW c \in Calls, NEW a \in Attempts, Reset(c, a)
      PROVE  AnswerOfLastAttempt'
  BY <1>7 DEF Reset
<1>8. CASE UNCHANGED vars
  BY <1>8 DEF vars
<1> QED
  BY <1>1, <1>2, <1>3, <1>4, <1>5, <1>6, <1>7, <1>8 DEF Next, ClientStep, Rest

\* A connection is opened for the attempt that begins.
LEMMA ConnectionsStep ==
    ASSUME TypeOK, ConnectionsBegun, [Next]_vars
    PROVE  ConnectionsBegun'
<1>0. Limit \in Nat \ {0} /\ Attempts \subseteq Nat
  BY AttemptsFacts DEF TypeOK
<1> USE <1>0 DEF TypeOK, ConnectionsBegun
<1>1. ASSUME NEW c \in Calls, Connect(c)
      PROVE  ConnectionsBegun'
  BY <1>1 DEF Ready, Connect
<1>2. ASSUME NEW c \in Calls, ConnectFails(c)
      PROVE  ConnectionsBegun'
  BY <1>2 DEF Ready, ConnectFails
<1>3. ASSUME NEW c \in Calls, ReadAnswer(c)
      PROVE  ConnectionsBegun'
  BY <1>3 DEF ReadAnswer
<1>4. ASSUME NEW c \in Calls, AttemptTimesOut(c)
      PROVE  ConnectionsBegun'
  BY <1>4 DEF AttemptTimesOut
<1>5. ASSUME NEW c \in Calls, GiveUp(c)
      PROVE  ConnectionsBegun'
  BY <1>5 DEF GiveUp
<1>6. ASSUME NEW c \in Calls, NEW a \in Attempts, Serve(c, a)
      PROVE  ConnectionsBegun'
  BY <1>6 DEF Serve
<1>7. ASSUME NEW c \in Calls, NEW a \in Attempts, Reset(c, a)
      PROVE  ConnectionsBegun'
  BY <1>7 DEF Reset
<1>8. CASE UNCHANGED vars
  BY <1>8 DEF vars
<1> QED
  BY <1>1, <1>2, <1>3, <1>4, <1>5, <1>6, <1>7, <1>8 DEF Next, ClientStep, Rest

\* An attempt is opened once the one before it was given up.
LEMMA GivenUpStep ==
    ASSUME TypeOK, ConnectionsBegun, OthersGivenUp, [Next]_vars
    PROVE  OthersGivenUp'
<1> SUFFICES ASSUME NEW d \in Calls
             PROVE  IsFiniteSet(Opened(d)') /\ Cardinality(Opened(d)') <= timeouts'[d] + InHand(d)'
  BY DEF OthersGivenUp
<1>0. /\ Limit \in Nat \ {0} /\ Attempts \subseteq Nat
      /\ \A a \in Nat : 1 <= a /\ a <= Limit => a \in Attempts
      /\ IsFiniteSet(Opened(d)) /\ Cardinality(Opened(d)) \in Nat
      /\ Cardinality(Opened(d)) <= timeouts[d] + InHand(d)
      /\ timeouts[d] \in Nat /\ InHand(d) \in {0, 1}
  BY AttemptsFacts, FS_CardinalityType DEF TypeOK, OthersGivenUp, InHand
<1>1. ASSUME NEW c \in Calls, Connect(c)
      PROVE  IsFiniteSet(Opened(d)') /\ Cardinality(Opened(d)') <= timeouts'[d] + InHand(d)'
  <2>1. CASE c = d
    <3>1. /\ attempt[d] + 1 \in Attempts
          /\ InHand(d) = 0 /\ InHand(d)' = 1 /\ timeouts' = timeouts
      BY <1>0, <1>1, <2>1 DEF TypeOK, Connect, Ready, InHand
    <3>2. Opened(d)' = Opened(d) \cup {attempt[d] + 1}
      BY <1>1, <2>1, <3>1 DEF TypeOK, Connect, Opened
    <3>3. /\ IsFiniteSet(Opened(d)')
          /\ Cardinality(Opened(d)') \in {Cardinality(Opened(d)), Cardinality(Opened(d)) + 1}
      <4> DEFINE S == Opened(d)
                 x == attempt[d] + 1
      <4>1. IsFiniteSet(S)
        BY <1>0
      <4> HIDE DEF S, x
      <4>2. /\ IsFiniteSet(S \cup {x})
            /\ Cardinality(S \cup {x}) \in {Cardinality(S), Cardinality(S) + 1}
        BY <4>1, FS_AddElement
      <4> QED
        BY <3>2, <4>2 DEF S, x
    <3> QED
      BY <1>0, <3>1, <3>3
  <2>2. CASE c # d
    <3>1. conn'[d] = conn[d] /\ phase'[d] = phase[d] /\ timeouts' = timeouts
      BY <1>1, <2>2 DEF TypeOK, Connect
    <3>2. Opened(d)' = Opened(d) /\ InHand(d)' = InHand(d)
      BY <3>1 DEF Opened, InHand
    <3> QED
      BY <1>0, <3>1, <3>2
  <2> QED
    BY <2>1, <2>2
<1>2. ASSUME NEW c \in Calls,
             ConnectFails(c) \/ ReadAnswer(c) \/ AttemptTimesOut(c) \/ GiveUp(c)
      PROVE  IsFiniteSet(Opened(d)') /\ Cardinality(Opened(d)') <= timeouts'[d] + InHand(d)'
  <2>1. Opened(d)' = Opened(d)
    BY <1>2 DEF ConnectFails, ReadAnswer, AttemptTimesOut, GiveUp, Opened
  <2>2. timeouts[d] + InHand(d) <= timeouts'[d] + InHand(d)' /\ timeouts'[d] + InHand(d)' \in Nat
    <3>1. CASE c = d
      <4>1. CASE ConnectFails(c)
        BY <1>0, <3>1, <4>1 DEF TypeOK, ConnectFails, Ready, InHand
      <4>2. CASE ReadAnswer(c)
        BY <1>0, <3>1, <4>2 DEF TypeOK, ReadAnswer, InHand
      <4>3. CASE AttemptTimesOut(c)
        BY <1>0, <3>1, <4>3 DEF TypeOK, AttemptTimesOut, InHand
      <4>4. CASE GiveUp(c)
        BY <1>0, <3>1, <4>4 DEF TypeOK, GiveUp, InHand
      <4> QED
        BY <1>2, <4>1, <4>2, <4>3, <4>4
    <3>2. CASE c # d
      <4>1. phase'[d] = phase[d] /\ timeouts'[d] = timeouts[d]
        BY <1>2, <3>2 DEF TypeOK, ConnectFails, ReadAnswer, AttemptTimesOut, GiveUp
      <4> QED
        BY <1>0, <4>1 DEF InHand
    <3> QED
      BY <3>1, <3>2
  <2> QED
    BY <1>0, <2>1, <2>2
<1>3. ASSUME NEW c \in Calls, NEW a \in Attempts, Serve(c, a) \/ Reset(c, a)
      PROVE  IsFiniteSet(Opened(d)') /\ Cardinality(Opened(d)') <= timeouts'[d] + InHand(d)'
  <2>1. Opened(d)' = Opened(d)
    BY <1>3 DEF TypeOK, Serve, Reset, Opened
  <2>2. timeouts' = timeouts /\ InHand(d)' = InHand(d)
    BY <1>3 DEF Serve, Reset, InHand
  <2> QED
    BY <1>0, <2>1, <2>2
<1>4. CASE UNCHANGED vars
  <2>1. Opened(d)' = Opened(d) /\ timeouts' = timeouts /\ InHand(d)' = InHand(d)
    BY <1>4 DEF vars, Opened, InHand
  <2> QED
    BY <1>0, <2>1
<1> QED
  BY <1>1, <1>2, <1>3, <1>4 DEF Next, ClientStep, Rest

LEMMA Inductive == IInv /\ [Next]_vars => IInv'
BY TypeStep, AnswerStep, ConnectionsStep, GivenUpStep DEF IInv

LEMMA Invariance == Spec => []IInv
BY InitIInv, Inductive, PTL DEF Spec

\* The type invariant.
THEOREM TypeCorrect == Spec => []TypeOK
BY Invariance, PTL DEF IInv

\* No deployment, loss, delay or repetition makes the backend see an approval
\* that the processor did not give.
THEOREM NoFalseApprovalInv == Spec => []NoFalseApproval
<1>1. IInv => NoFalseApproval
  <2> SUFFICES ASSUME IInv, NEW c \in Calls, BackendApproves(answer[c])
               PROVE  Approves(Frame) /\ Served(c) # {}
    BY DEF NoFalseApproval
  <2>1. phase[c] = "returned"
    BY ExhaustedIsRefusal DEF IInv, TypeOK, AnswerOfLastAttempt, BackendApproves, NoAnswer
  <2>2. Served(c) # {}
    BY <2>1 DEF IInv, AnswerOfLastAttempt, Served
  <2>3. /\ deployment.gateway \in Gateways /\ deployment.client \in Clients
        /\ Frame \in Frames
    BY DeploymentParts, FrameType DEF IInv, TypeOK, Frame, DeploymentFrame
  <2> QED
    BY <2>1, <2>2, <2>3, ApprovalIsOfFrame DEF IInv, AnswerOfLastAttempt
<1> QED
  BY <1>1, Invariance, PTL

\* The link delivers what the backend's model takes for granted of its gateway,
\* in every deployment, however many attempts were lost, late or repeated.
THEOREM AnswersAsExpectedInv == Spec => []AnswersAsExpected
<1>1. IInv => AnswersAsExpected
  <2> SUFFICES ASSUME IInv, NEW c \in Calls, answer[c].kind = "body"
               PROVE  Reply(answer[c]) \in
                          GatewayReplies(IF Approves(Frame) /\ Served(c) # {}
                                         THEN "approved" ELSE "none")
    BY DEF AnswersAsExpected, Reply
  <2>1. /\ deployment.gateway \in Gateways /\ deployment.client \in Clients
        /\ Frame \in Frames
    BY DeploymentParts, FrameType DEF IInv, TypeOK, Frame, DeploymentFrame
  <2>2. CASE phase[c] = "returned"
    <3>1. Served(c) # {}
      BY <2>2 DEF IInv, AnswerOfLastAttempt, Served
    <3> QED
      BY <2>1, <2>2, <3>1, BodyIsExpected DEF IInv, AnswerOfLastAttempt
  <2>3. CASE phase[c] = "raised"
    <3>1. Reply(answer[c]) \in GatewayReplies("none")
      BY <2>1, <2>3, BodyIsExpected DEF IInv, AnswerOfLastAttempt
    <3> QED
      BY <3>1 DEF GatewayReplies
  <2>4. phase[c] \in {"returned", "raised"}
    BY DEF IInv, TypeOK, AnswerOfLastAttempt, NoAnswer
  <2> QED
    BY <2>2, <2>3, <2>4
<1> QED
  BY <1>1, Invariance, PTL

\* Where gateway and client understand each other, only an exhausted loop turns
\* an approval into something else.
THEOREM RefusedOnlyWhenExhaustedInv == Spec => []RefusedOnlyWhenExhausted
<1>1. IInv => RefusedOnlyWhenExhausted
  <2> SUFFICES ASSUME IInv, Compatible(deployment), NEW c \in Calls,
                      phase[c] \in {"returned", "raised"}, ~BackendApproves(answer[c])
               PROVE  phase[c] = "raised" /\ attempt[c] = Limit
    BY DEF RefusedOnlyWhenExhausted
  <2>1. phase[c] # "returned"
    BY CompatibleApproves DEF IInv, TypeOK, AnswerOfLastAttempt, DeploymentParsed,
                              DeploymentFrame, Frame
  <2> QED
    BY <2>1 DEF IInv, AnswerOfLastAttempt
<1> QED
  BY <1>1, Invariance, PTL

\* No purchase is authorised more often than its client makes attempts: only an
\* attempt that was begun is ever served.
THEOREM AuthorisationsBoundedInv == Spec => []AuthorisationsBounded
<1>1. IInv => AuthorisationsBounded
  <2> SUFFICES ASSUME IInv, NEW c \in Calls
               PROVE  Cardinality(Served(c)) <= Limit
    BY DEF AuthorisationsBounded, Limit
  <2>1. Limit \in Nat \ {0} /\ Attempts \subseteq Nat /\ \A a \in Attempts : 1 <= a
    BY AttemptsFacts DEF IInv, TypeOK
  <2>2. Served(c) \subseteq 1..Limit
    <3> SUFFICES ASSUME NEW a \in Attempts, conn[c][a] = "served"
                 PROVE  a \in 1..Limit
      BY DEF Served
    <3>1. a <= attempt[c] /\ attempt[c] \in 0..Limit
      BY DEF IInv, TypeOK, ConnectionsBegun
    <3> QED
      BY <2>1, <3>1
  <2>3. IsFiniteSet(1..Limit) /\ Cardinality(1..Limit) = Limit
    <3>1. 1 \in Int /\ Limit \in Int /\ ~(1 > Limit) /\ Limit - 1 + 1 = Limit
      BY <2>1
    <3> QED
      BY <3>1, FS_Interval
  <2> QED
    BY <2>2, <2>3, FS_Subset
<1> QED
  BY <1>1, Invariance, PTL

\* A second authorisation is paid for with an attempt that the client gave up.
THEOREM RepeatsAreTimeoutsInv == Spec => []RepeatsAreTimeouts
<1>1. IInv => RepeatsAreTimeouts
  <2> SUFFICES ASSUME IInv, NEW c \in Calls
               PROVE  Cardinality(Served(c)) <= timeouts[c] + InHand(c)
    BY DEF RepeatsAreTimeouts, InHand
  <2>1. Served(c) \subseteq Opened(c)
    BY DEF Served, Opened
  <2>2. /\ IsFiniteSet(Opened(c)) /\ Cardinality(Opened(c)) <= timeouts[c] + InHand(c)
        /\ timeouts[c] + InHand(c) \in Nat
    BY DEF IInv, TypeOK, OthersGivenUp, InHand
  <2>3. Cardinality(Served(c)) <= Cardinality(Opened(c))
    BY <2>1, <2>2, FS_Subset
  <2>4. Cardinality(Served(c)) \in Nat /\ Cardinality(Opened(c)) \in Nat
    BY <2>1, <2>2, FS_Subset, FS_CardinalityType
  <2> QED
    BY <2>2, <2>3, <2>4
<1> QED
  BY <1>1, Invariance, PTL

\* A connection is opened once, for an attempt the call has not begun yet, and
\* ends once: no attempt is served twice.
THEOREM AttemptsNotReusedStep == Spec => AttemptsNotReused
<1>1. ASSUME IInv, [Next]_vars, NEW c \in Calls, NEW a \in Attempts,
             conn'[c][a] # conn[c][a]
      PROVE  \/ conn[c][a] = "none" /\ a > attempt[c]
             \/ conn[c][a] = "sent" /\ conn'[c][a] \in {"served", "reset"}
  <2>0. /\ Attempts \subseteq Nat /\ Limit \in Nat \ {0}
        /\ \A n \in Nat : 1 <= n /\ n <= Limit => n \in Attempts
    BY AttemptsFacts, <1>1 DEF IInv, TypeOK
  <2> USE <1>1, <2>0 DEF IInv, TypeOK, ConnectionsBegun
  <2>1. CASE Connect(c)
    BY <2>1 DEF Connect, Ready
  <2>2. CASE Serve(c, a)
    BY <2>2 DEF Serve
  <2>3. CASE Reset(c, a)
    BY <2>3 DEF Reset
  <2>4. CASE ~Connect(c) /\ ~Serve(c, a) /\ ~Reset(c, a)
    BY <2>4 DEF Next, ClientStep, Rest, vars, Connect, ConnectFails, ReadAnswer,
                AttemptTimesOut, GiveUp, Serve, Reset
  <2> QED
    BY <2>1, <2>2, <2>3, <2>4
<1>2. IInv /\ [Next]_vars =>
        [\A c \in Calls, a \in Attempts :
            conn'[c][a] # conn[c][a] =>
                \/ conn[c][a] = "none" /\ a > attempt[c]
                \/ conn[c][a] = "sent" /\ conn'[c][a] \in {"served", "reset"}]_vars
  BY <1>1
<1> QED
  BY <1>2, Invariance, PTL DEF Spec, AttemptsNotReused
=============================================================================
