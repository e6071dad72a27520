------------------------------- MODULE IsoLink -------------------------------
(***************************************************************************)
(* The ISO link between a gateway and the processor: send_iso_to_processor *)
(* opens a new TCP connection per attempt, sends one frame, waits for the  *)
(* answer with a timeout, sleeps and tries again; the processor serves     *)
(* every connection in a thread of its own and knows nothing of timeouts.  *)
(* So a request the client gave up on may still be served, and the next    *)
(* attempt is served again.                                                *)
(***************************************************************************)
EXTENDS IsoWire, FiniteSets

CONSTANTS
    Calls,          \* concurrent calls of send_iso_to_processor
    MaxAttempts     \* attempts of each client's retry loop

ASSUME AttemptsAssumption == MaxAttempts \in [Clients -> Nat \ {0}]

VARIABLES
    deployment,     \* the gateway, client and processor at work; never changes
    phase,          \* where each call is in its loop
    attempt,        \* the number of the attempt each call is in
    conn,           \* the connection of each attempt of each call
    answer,         \* the gateway's HTTP answer to each call
    timeouts        \* history: the open connections each call gave up

vars == <<deployment, phase, attempt, conn, answer, timeouts>>

\* With room for one attempt more than any loop is to make.
Attempts == UNION {1..(MaxAttempts[k] + 1) : k \in Clients}

\* Mutant: attempts are taken for retries, beside the first attempt.
LimitOfRetries == MaxAttempts[deployment.client] + 1

\* The loops of app and to_patch count attempts, that of tcp_client.py retries.
Limit == MaxAttempts[deployment.client]

NoAnswer == [kind |-> "none", flag |-> "absent", code |-> NoCode]

TypeOK ==
    /\ deployment \in Deployments
    /\ phase \in [Calls -> {"idle", "waiting", "backoff", "returned", "raised"}]
    /\ attempt \in [Calls -> 0..Limit]
    /\ conn \in [Calls -> [Attempts -> {"none", "sent", "served", "reset"}]]
    /\ answer \in [Calls -> [kind : {"none", "error", "body"},
                             flag : {"yes", "no", "absent"},
                             code : Codes \cup {NoCode}]]
    /\ timeouts \in [Calls -> Nat]

Init ==
    /\ deployment \in Deployments
    /\ phase = [c \in Calls |-> "idle"]
    /\ attempt = [c \in Calls |-> 0]
    /\ conn = [c \in Calls |-> [a \in Attempts |-> "none"]]
    /\ answer = [c \in Calls |-> NoAnswer]
    /\ timeouts = [c \in Calls |-> 0]

Frame == ProcessorFrame(deployment.processor, SendsMti(deployment.client))
Served(c) == {a \in Attempts : conn[c][a] = "served"}

\* Mutant: the next attempt does not wait for the one before it to fail.
ReadyWhileWaiting(c) == phase[c] \in {"idle", "backoff", "waiting"} /\ attempt[c] < Limit

Ready(c) == phase[c] \in {"idle", "backoff"} /\ attempt[c] < Limit
-----------------------------------------------------------------------------
(***************************************************************************)
(* The client.                                                             *)
(***************************************************************************)
Connect(c) ==
    /\ Ready(c)
    /\ attempt' = [attempt EXCEPT ![c] = @ + 1]
    /\ conn' = [conn EXCEPT ![c][attempt[c] + 1] = "sent"]
    /\ phase' = [phase EXCEPT ![c] = "waiting"]
    /\ UNCHANGED <<deployment, answer, timeouts>>

\* Refused, or the connect timeout: nothing was sent.
ConnectFails(c) ==
    /\ Ready(c)
    /\ attempt' = [attempt EXCEPT ![c] = @ + 1]
    /\ phase' = [phase EXCEPT ![c] = "backoff"]
    /\ UNCHANGED <<deployment, conn, answer, timeouts>>

\* Mutant: the answer of an earlier attempt is taken for the current one's.
ReadStaleAnswer(c) ==
    /\ phase[c] = "waiting"
    /\ Served(c) # {}
    /\ answer' = [answer EXCEPT ![c] =
           HttpAnswer(deployment.gateway, Parsed(deployment.client, Frame))]
    /\ phase' = [phase EXCEPT ![c] = "returned"]
    /\ UNCHANGED <<deployment, attempt, conn, timeouts>>

\* The answer of the current attempt arrives in time.
ReadAnswer(c) ==
    /\ phase[c] = "waiting"
    /\ conn[c][attempt[c]] = "served"
    /\ answer' = [answer EXCEPT ![c] =
           HttpAnswer(deployment.gateway, Parsed(deployment.client, Frame))]
    /\ phase' = [phase EXCEPT ![c] = "returned"]
    /\ UNCHANGED <<deployment, attempt, conn, timeouts>>

\* The read timeout, or a reset: the connection is left to itself.
AttemptTimesOut(c) ==
    /\ phase[c] = "waiting"
    /\ phase' = [phase EXCEPT ![c] = "backoff"]
    /\ timeouts' = [timeouts EXCEPT ![c] = @ + 1]
    /\ UNCHANGED <<deployment, attempt, conn, answer>>

\* Mutant: a processor that cannot be reached is stood in for.
GiveUpStandIn(c) ==
    /\ phase[c] = "backoff"
    /\ attempt[c] = Limit
    /\ phase' = [phase EXCEPT ![c] = "raised"]
    /\ answer' = [answer EXCEPT ![c] = Body("absent", "00")]
    /\ UNCHANGED <<deployment, attempt, conn, timeouts>>

\* Mutant: off by one, the loop waits for an attempt that never comes.
GiveUpLate(c) ==
    /\ phase[c] = "backoff"
    /\ attempt[c] > Limit
    /\ phase' = [phase EXCEPT ![c] = "raised"]
    /\ answer' = [answer EXCEPT ![c] = HttpError]
    /\ UNCHANGED <<deployment, attempt, conn, timeouts>>

\* Mutant: the loop gives up at the first failure.
GiveUpEarly(c) ==
    /\ phase[c] = "backoff"
    /\ phase' = [phase EXCEPT ![c] = "raised"]
    /\ answer' = [answer EXCEPT ![c] = HttpError]
    /\ UNCHANGED <<deployment, attempt, conn, timeouts>>

\* Every attempt failed: ConnectionError, a 500 or a 502, or success = False.
GiveUp(c) ==
    /\ phase[c] = "backoff"
    /\ attempt[c] = Limit
    /\ phase' = [phase EXCEPT ![c] = "raised"]
    /\ answer' = [answer EXCEPT ![c] = ExhaustedAnswer(deployment.gateway)]
    /\ UNCHANGED <<deployment, attempt, conn, timeouts>>
-----------------------------------------------------------------------------
(***************************************************************************)
(* The processor and the network.                                          *)
(***************************************************************************)
\* A handler thread reads the frame, decides and writes its answer, whether or
\* not the client still waits.
Serve(c, a) ==
    /\ conn[c][a] = "sent"
    /\ conn' = [conn EXCEPT ![c][a] = "served"]
    /\ UNCHANGED <<deployment, phase, attempt, answer, timeouts>>

\* The connection breaks before the frame is served (processor restart).
Reset(c, a) ==
    /\ conn[c][a] = "sent"
    /\ conn' = [conn EXCEPT ![c][a] = "reset"]
    /\ UNCHANGED <<deployment, phase, attempt, answer, timeouts>>

ClientStep(c) ==
    \/ Connect(c) \/ ConnectFails(c) \/ ReadAnswer(c)
    \/ AttemptTimesOut(c) \/ GiveUp(c)

Rest ==
    /\ \A c \in Calls : phase[c] \in {"returned", "raised"}
    /\ UNCHANGED vars

Next ==
    \/ \E c \in Calls : ClientStep(c)
    \/ \E c \in Calls, a \in Attempts : Serve(c, a) \/ Reset(c, a)
    \/ Rest

Spec == Init /\ [][Next]_vars

\* Timers fire and the event loop runs the client; the processor owes nothing.
FairSpec == Spec /\ \A c \in Calls : WF_vars(ClientStep(c))
-----------------------------------------------------------------------------
\* The backend takes a call for approved only if the processor served one of
\* its attempts with an approving frame -- whatever the deployment, and
\* whatever was lost, late or repeated.
NoFalseApproval ==
    \A c \in Calls :
        BackendApproves(answer[c]) => Approves(Frame) /\ Served(c) # {}

\* Every body a gateway answers is one that the backend reckons with: Transactions
\* takes GatewayReplies for granted, the link delivers it.  (Proved, not checked.)
AnswersAsExpected ==
    \A c \in Calls : answer[c].kind = "body" =>
        [flag |-> answer[c].flag, code |-> answer[c].code] \in
            GatewayReplies(IF Approves(Frame) /\ Served(c) # {} THEN "approved" ELSE "none")

\* Where gateway and client understand each other, an approving processor is
\* only ever reported as a refusal or an error when every attempt failed.
RefusedOnlyWhenExhausted ==
    Compatible(deployment) => \A c \in Calls :
        phase[c] \in {"returned", "raised"} /\ ~BackendApproves(answer[c]) =>
            phase[c] = "raised" /\ attempt[c] = Limit

\* The retry loop bounds how often one purchase is authorised: never more often
\* than its client makes attempts, late and repeated services included.
AuthorisationsBounded ==
    \A c \in Calls : Cardinality(Served(c)) <= MaxAttempts[deployment.client]

\* A purchase is authorised again only because the client gave up an earlier
\* attempt without its answer: at most one authorisation beside those given up,
\* and none beside them once the call has failed.
RepeatsAreTimeouts ==
    \A c \in Calls :
        Cardinality(Served(c)) <=
            timeouts[c] + IF phase[c] \in {"waiting", "returned"} THEN 1 ELSE 0

\* A connection is opened once, for an attempt the call has not begun yet, and
\* ends once: no attempt is served twice.  (Proved, not checked.)
AttemptsNotReused ==
    [][\A c \in Calls, a \in Attempts :
          conn'[c][a] # conn[c][a] =>
              \/ conn[c][a] = "none" /\ a > attempt[c]
              \/ conn[c][a] = "sent" /\ conn'[c][a] \in {"served", "reset"}]_vars

\* Every call ends, however slow or dead the processor is.
EveryCallEnds ==
    \A c \in Calls : phase[c] # "idle" ~> phase[c] \in {"returned", "raised"}

\* "Await framed response with same format and return parsed dict": an answer
\* in the format the client itself uses gets through to the backend.
ApprovalGetsThrough ==
    deployment.client = "app" /\ deployment.gateway = "to_patch"
    /\ Frame.mti /\ Frame.place = "fields" /\ Approves(Frame)
        => \A c \in Calls : phase[c] = "returned" => BackendApproves(answer[c])
=============================================================================
