---------------------------- MODULE GatewayCalls ----------------------------
(***************************************************************************)
(* The one-shot calls of the gateway to the processor:                     *)
(*   payout   /payout of gateway_app.py, a frame over a blocking socket in *)
(*            an async handler, and the crypto payouts an approval starts  *)
(*   forward  send_to_processor of app/gateway_forward.py                  *)
(*   sim      send_and_recv of app/iso_sim.py                              *)
(*   codec    recv_frame and unpack_iso of app/iso_codec.py                *)
(*   proxy    /payouts/payout of server_to_patch.py                        *)
(*   patch    /payouts/payout of app/gateway_payout_patch.py               *)
(*   job      /payout of tmp_gateway_files/gateway_app.py                  *)
(* None of them tries again.  A reply is the stream of pieces of IsoCodec; *)
(* it arrives piece by piece, and the processor may die in the middle.     *)
(***************************************************************************)
EXTENDS IsoWire, IsoCodec

CONSTANTS
    Calls,
    NoCall,
    Mixes,          \* which kinds of calls run together
    Amount          \* the amount in field 4 of a response that has one

SocketKinds == {"payout", "forward", "sim", "codec"}
Kinds == SocketKinds \cup {"proxy", "patch", "job"}

ASSUME GatewayAssumption ==
    /\ NoCall \notin Calls
    /\ Mixes \subseteq [Calls -> Kinds]
    /\ Amount \in Nat

VARIABLES
    setup,          \* kinds, processor and copy of gateway_app.py; never changes
    phase,          \* where each call is
    reply,          \* what the processor wrote on the connection of each call
    code,           \* the verdict of the processor
    amount,         \* field 4 of its reply, 0 if there is none
    arrived,        \* how many pieces of the reply arrived
    closed,         \* the processor's end of the connection is closed
    answer,         \* what the call returned
    loop,           \* the call that blocks the event loop of gateway_app.py
    tasks,          \* the crypto payouts of each call still to be made
    paid            \* what they paid out, in tenths of a minor unit

vars == <<setup, phase, reply, code, amount, arrived, closed, answer, loop, tasks, paid>>
wire == <<reply, code, amount, arrived, closed>>

TypeOK ==
    /\ setup \in [kind : Mixes, processor : Processors, repair : {"resp", "empty"}]
    /\ phase \in [Calls -> {"idle", "header", "body", "http", "paying", "done", "lost"}]
    /\ \A c \in Calls : reply[c] = << >> \/ reply[c][1].kind = "length"
    /\ code \in [Calls -> Codes \cup {NoCode}]
    /\ amount \in [Calls -> {0, Amount}]
    /\ \A c \in Calls : arrived[c] \in 0..Len(reply[c])
    /\ closed \in [Calls -> BOOLEAN]
    /\ answer \in [Calls -> {"none", "error", "approved", "declined",
                             "passed", "object", "raw"}]
    /\ loop \in Calls \cup {NoCall}
    /\ tasks \in [Calls -> SUBSET {"task", "await"}]
    /\ paid \in [Calls -> Nat]

Init ==
    /\ setup \in [kind : Mixes, processor : Processors, repair : {"resp", "empty"}]
    /\ phase = [c \in Calls |-> "idle"]
    /\ reply = [c \in Calls |-> << >>]
    /\ code = [c \in Calls |-> NoCode]
    /\ amount = [c \in Calls |-> 0]
    /\ arrived = [c \in Calls |-> 0]
    /\ closed = [c \in Calls |-> FALSE]
    /\ answer = [c \in Calls |-> "none"]
    /\ loop = NoCall
    /\ tasks = [c \in Calls |-> {}]
    /\ paid = [c \in Calls |-> 0]

Kind(c) == setup.kind[c]
Reading(c) == phase[c] \in {"header", "body"}

\* The readers whose body ends where the connection does, complete or not.
Lenient(c) == Kind(c) \in {"payout", "sim"}

Return(c, result) ==
    /\ answer' = [answer EXCEPT ![c] = result]
    /\ phase' = [phase EXCEPT ![c] = "done"]
    /\ loop' = IF loop = c THEN NoCall ELSE loop
-----------------------------------------------------------------------------
(***************************************************************************)
(* What the readers make of the payload of a reply, cut or whole.          *)
(***************************************************************************)
Unprefixed(s) == IF s # << >> /\ s[1].kind = "mti" THEN Tail(s) ELSE s

\* The code is looked for under "fields" alone; 91 and 96 are a 502.
PayoutVerdict(s, k) ==
    LET text == Unprefixed(s) IN
    CASE ~IsObject(text) -> "error"
      [] IsObject(text) /\ "fields" \notin text[1].keys -> "declined"
      [] OTHER -> IF k = "00" THEN "approved" ELSE IF k = "96" THEN "error" ELSE "declined"

\* Mutant: a reply that cannot be parsed counts as an approval.
ForwardVerdictLax(s, k) ==
    IF IsObject(s) /\ k # "00" THEN "declined" ELSE "approved"

\* Under "fields" or at the top; a prefix is not JSON.
ForwardVerdict(s, k) ==
    IF ~IsObject(s) THEN "error" ELSE IF k = "00" THEN "approved" ELSE "declined"

SimVerdict(s) == IF IsObject(s) THEN "object" ELSE "raw"

CodecVerdict(s) == IF UnpackIsoCodec(s).ok THEN "object" ELSE "error"

Verdict(c, s) ==
    CASE Kind(c) = "payout" -> PayoutVerdict(s, code[c])
      [] Kind(c) = "forward" -> ForwardVerdict(s, code[c])
      [] Kind(c) = "sim" -> SimVerdict(s)
      [] Kind(c) = "codec" -> CodecVerdict(s)

\* An approved payout goes on to the crypto payouts: one as a task, and one that
\* is awaited.
Decide(c, s) ==
    IF Kind(c) = "payout" /\ Verdict(c, s) = "approved"
    THEN /\ phase' = [phase EXCEPT ![c] = "paying"]
         /\ tasks' = [tasks EXCEPT ![c] = {"task", "await"}]
         /\ loop' = NoCall
         /\ UNCHANGED answer
    ELSE Return(c, Verdict(c, s)) /\ UNCHANGED tasks
-----------------------------------------------------------------------------
(***************************************************************************)
(* The calls over a socket.                                                *)
(***************************************************************************)
\* Until a payout call has its reply nothing else runs on the event loop.
Connect(c) ==
    /\ phase[c] = "idle" /\ Kind(c) \in SocketKinds
    /\ Kind(c) = "payout" => loop = NoCall
    /\ loop' = IF Kind(c) = "payout" THEN c ELSE loop
    /\ phase' = [phase EXCEPT ![c] = "header"]
    /\ UNCHANGED <<setup, wire, answer, tasks, paid>>

ConnectFails(c) ==
    /\ phase[c] = "idle" /\ Kind(c) \in SocketKinds
    /\ Kind(c) = "payout" => loop = NoCall
    /\ Return(c, "error")
    /\ UNCHANGED <<setup, wire, tasks, paid>>

ReadHeader(c) ==
    /\ phase[c] = "header"
    /\ arrived[c] >= 1
    /\ phase' = [phase EXCEPT ![c] = "body"]
    /\ UNCHANGED <<setup, wire, answer, loop, tasks, paid>>

\* Mutant: the read waits without a timeout.
ReadFailsAtEnd(c) ==
    /\ Reading(c)
    /\ closed[c]
    /\ Return(c, "error")
    /\ UNCHANGED <<setup, wire, tasks, paid>>

\* The read timeout, a reset, the end of the stream where it is an error, or a
\* length of which the first bytes come alone.
ReadFails(c) ==
    /\ Reading(c)
    /\ Return(c, "error")
    /\ UNCHANGED <<setup, wire, tasks, paid>>

ReadBody(c) ==
    /\ phase[c] = "body"
    /\ arrived[c] = Len(reply[c])
    /\ Decide(c, Tail(reply[c]))
    /\ UNCHANGED <<setup, wire, paid>>

BodyCut(c) ==
    /\ phase[c] = "body" /\ Lenient(c)
    /\ closed[c]
    /\ Decide(c, SubSeq(reply[c], 2, arrived[c]))
    /\ UNCHANGED <<setup, wire, paid>>
-----------------------------------------------------------------------------
(***************************************************************************)
(* The crypto payouts: trigger_crypto_payout, as a task and awaited.       *)
(***************************************************************************)
\* Mutant: minor units are hundredths.
AmountOfPayoutWhole(minor) == 10 * minor

\* amount_minor / 1000.0, in tenths of a minor unit.
AmountOfPayout(minor) == minor

\* The response; in gateway_app.fixed.py and .broken.py the awaited call gets {}
\* instead, as resp_json is not defined there.
MinorOf(c, t) ==
    IF t = "await" /\ setup.repair = "empty" THEN 0 ELSE amount[c]

\* The engine may be missing or raise, which is logged only.
Pay(c, t) ==
    /\ t \in tasks[c]
    /\ t = "task" => loop = NoCall
    /\ \E n \in {0, AmountOfPayout(MinorOf(c, t))} : paid' = [paid EXCEPT ![c] = @ + n]
    /\ tasks' = [tasks EXCEPT ![c] = @ \ {t}]
    /\ UNCHANGED <<setup, phase, wire, answer, loop>>

Approve(c) ==
    /\ phase[c] = "paying"
    /\ "await" \notin tasks[c]
    /\ loop = NoCall
    /\ Return(c, "approved")
    /\ UNCHANGED <<setup, wire, tasks, paid>>

GatewayCrash ==
    /\ \E c \in Calls : Kind(c) = "payout" /\ (phase[c] \in {"header", "body", "paying"} \/ tasks[c] # {})
    /\ phase' = [c \in Calls |->
           IF Kind(c) = "payout" /\ phase[c] \in {"header", "body", "paying"}
           THEN "lost" ELSE phase[c]]
    /\ tasks' = [c \in Calls |-> {}]
    /\ loop' = NoCall
    /\ UNCHANGED <<setup, wire, answer, paid>>
-----------------------------------------------------------------------------
(***************************************************************************)
(* The calls over HTTP, and the job board.                                 *)
(***************************************************************************)
\* The processor's /payout: approved, or a 400 that names what is missing.
PayoutRoute == {"00", "30"}

HttpPost(c) ==
    /\ phase[c] = "idle" /\ Kind(c) \in {"proxy", "patch"}
    /\ phase' = [phase EXCEPT ![c] = "http"]
    /\ UNCHANGED <<setup, wire, answer, loop, tasks, paid>>

\* No merchant_id: 400 before anything is sent.
ProxyRefuses(c) ==
    /\ phase[c] = "idle" /\ Kind(c) = "proxy"
    /\ Return(c, "error")
    /\ UNCHANGED <<setup, wire, tasks, paid>>

\* Mutant: the processor's own word is passed on.
PatchResultVerbatim(k) == IF k = "00" THEN "approved" ELSE k

\* proxy turns an error status into a 502; patch passes its body on with a 200.
ProxyResult(k) == IF k = "00" THEN "approved" ELSE "error"
PatchResult(k) == IF k = "00" THEN "approved" ELSE "passed"

HttpAnswered(c) ==
    /\ phase[c] = "http"
    /\ \E k \in PayoutRoute :
        /\ code' = [code EXCEPT ![c] = k]
        /\ Return(c, IF Kind(c) = "proxy" THEN ProxyResult(k) ELSE PatchResult(k))
    /\ UNCHANGED <<setup, reply, amount, arrived, closed, tasks, paid>>

HttpFails(c) ==
    /\ phase[c] = "http"
    /\ Return(c, "error")
    /\ UNCHANGED <<setup, wire, tasks, paid>>

\* _ensure_job(job_id) is evaluated inside the entry that is to be JOBS[job_id]:
\* the job is not there yet, and the answer is a 400.  JOBS stays empty, and the
\* other endpoints answer 404.
JobKnown(c) == FALSE

CreateJob(c) ==
    /\ phase[c] = "idle" /\ Kind(c) = "job"
    /\ ~JobKnown(c)
    /\ Return(c, "error")
    /\ UNCHANGED <<setup, wire, tasks, paid>>
-----------------------------------------------------------------------------
(***************************************************************************)
(* The processor and the network.                                          *)
(***************************************************************************)
\* The layouts of the repository's processors.  The verdict is a processor's own,
\* but server_fixed.py has 30 for what it cannot parse; whether field 4 is in the
\* response is its own too (none of the repository's sends it).
ReplyKeys ==
    [patched |-> {"mti", "fields"}, fallback |-> {"fields"},
     to_patch |-> {"mti", "fields"}, fixed |-> {"de39"}]

ReplyOf(p, mti) ==
    LET body == (IF ProcessorFrame(p, mti).mti THEN <<Mti>> ELSE << >>) \o Json(ReplyKeys[p])
    IN <<Length(Len(body))>> \o body

Verdicts(p, mti) == IF p = "fixed" /\ mti THEN {"30"} ELSE Codes

Serve(c) ==
    /\ Reading(c) /\ reply[c] = << >> /\ ~closed[c]
    /\ reply' = [reply EXCEPT ![c] = ReplyOf(setup.processor, Kind(c) = "payout")]
    /\ \E k \in Verdicts(setup.processor, Kind(c) = "payout"), a \in {0, Amount} :
        /\ code' = [code EXCEPT ![c] = k]
        /\ amount' = [amount EXCEPT ![c] = a]
    /\ UNCHANGED <<setup, phase, arrived, closed, answer, loop, tasks, paid>>

Deliver(c) ==
    /\ Reading(c) /\ ~closed[c]
    /\ arrived[c] < Len(reply[c])
    /\ arrived' = [arrived EXCEPT ![c] = @ + 1]
    /\ UNCHANGED <<setup, phase, reply, code, amount, closed, answer, loop, tasks, paid>>

\* At the end of the reply, or where the processor dies.
Close(c) ==
    /\ Reading(c) /\ ~closed[c]
    /\ closed' = [closed EXCEPT ![c] = TRUE]
    /\ UNCHANGED <<setup, phase, reply, code, amount, arrived, answer, loop, tasks, paid>>

CallStep(c) ==
    \/ ReadHeader(c) \/ ReadFails(c) \/ ReadBody(c) \/ BodyCut(c)
    \/ \E t \in {"task", "await"} : Pay(c, t)
    \/ Approve(c) \/ HttpAnswered(c) \/ HttpFails(c)

Next ==
    \/ \E c \in Calls :
        \/ Connect(c) \/ ConnectFails(c) \/ HttpPost(c) \/ ProxyRefuses(c) \/ CreateJob(c)
        \/ CallStep(c)
        \/ Serve(c) \/ Deliver(c) \/ Close(c)
    \/ GatewayCrash

Spec == Init /\ [][Next]_vars

\* Socket and HTTP timeouts expire, the event loop resumes what can run; nobody
\* has to call, and the processor owes nothing.
FairSpec == Spec /\ \A c \in Calls : WF_vars(CallStep(c))
-----------------------------------------------------------------------------
\* An approval is only ever the processor's own, and one whose every piece was
\* read, however the reply was torn or cut; a refusal is the processor's too.
AnswerIsVerdict ==
    \A c \in Calls :
        /\ answer[c] = "approved" => code[c] = "00" /\ arrived[c] = Len(reply[c])
        /\ answer[c] = "declined" => code[c] \in Codes \ {"00"}

\* An approval starts two payouts; together they stay within what was approved,
\* and nothing is paid for a call the processor did not approve.
NeverOverpaid ==
    \A c \in Calls : paid[c] <= IF code[c] = "00" THEN 10 * amount[c] ELSE 0

\* gateway_app.py blocks its event loop: while one payout call waits for its reply
\* every other one stays where it is, an approved one that only has to answer too.
\* (Proved, not checked.)
OnePayoutAtATime ==
    [][\A c, d \in Calls :
          /\ c # d /\ Kind(c) = "payout" /\ Kind(d) = "payout"
          /\ Reading(c) /\ Reading(c)'
          => phase'[d] = phase[d]]_vars

\* Every call that began is answered, or lost with its gateway, and leaves no
\* payout waiting.
EveryCallEnds ==
    \A c \in Calls :
        phase[c] # "idle" ~> phase[c] \in {"done", "lost"} /\ tasks[c] = {}

\* What a reader may hold of a codec's message or of a processor's reply, in
\* whole or in part, gives fields only where an object with fields was read to
\* its end; iso_codec.unpack_iso reads every whole payload that has an MTI and
\* fields in its object; and iso8583.unpack_iso, of every payload that begins with
\* an MTI, its own frames excepted, makes an empty message.
CodecsKeepFields ==
    /\ OwnStreamsKept
    /\ \A c \in Calls : \A i \in {1, 2} : FieldsKept(SubSeq(reply[c], i, arrived[c]))
    /\ \A c \in Calls :
          LET payload == SubSeq(reply[c], 2, arrived[c]) IN
              IsObject(payload) /\ Keys \subseteq payload[1].keys
                  => UnpackIsoCodec(payload).fields = "packed"
=============================================================================
