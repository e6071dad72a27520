------------------------------- MODULE IsoWire -------------------------------
(***************************************************************************)
(* What the gateways, the TCP clients and the processors of the repository *)
(* put on the ISO link and make of what they read.  A frame is reduced to  *)
(* what its readers tell apart: is there a 4-digit MTI before the JSON     *)
(* body, is the response code at the top of the JSON object or inside its  *)
(* "fields", and which code is it.                                         *)
(*                                                                         *)
(* The gateways, clients and processors are named after their files:       *)
(*   to_patch   server_to_patch.py, tcp_client_to_patch.py                 *)
(*              and processor_server_to_patch.py                           *)
(*   gateway    server.gateway.py                                          *)
(*   root       server.py and tcp_client.py                                *)
(*   new        server.new.py                                              *)
(*   app        app/tcp_client.py                                          *)
(*   patched    server_patched.py with app.iso_codec at hand               *)
(*   fallback   server_patched.py without it                               *)
(*   fixed      server_fixed.py                                            *)
(***************************************************************************)
EXTENDS Naturals

Gateways == {"to_patch", "gateway", "root", "new"}
Clients == {"app", "to_patch", "root"}
Processors == {"patched", "fallback", "to_patch", "fixed"}

NoCode == "none"
Codes == {"00", "30", "96"}

Frames == [mti : BOOLEAN, place : {"top", "fields"}, code : Codes]

\* Does the client put the MTI before the JSON body of its request?
SendsMti(client) == client \in {"app", "root"}

(***************************************************************************)
(* The frame a processor answers to a request with or without an MTI.  All *)
(* approve what they can parse; server_fixed parses the whole body as JSON *)
(* and answers 30 to a body with an MTI.  No request of the gateways has a *)
(* field 39 that processor_server_to_patch would echo.                     *)
(***************************************************************************)
ServerPatched(codec) == [mti |-> ~codec, place |-> "fields", code |-> "00"]
ProcessorServerToPatch == [mti |-> TRUE, place |-> "fields", code |-> "00"]
ServerFixed(mti) ==
    [mti |-> FALSE, place |-> "top", code |-> IF mti THEN "30" ELSE "00"]

ProcessorFrame(p, mti) ==
    CASE p = "patched" -> ServerPatched(TRUE)
      [] p = "fallback" -> ServerPatched(FALSE)
      [] p = "to_patch" -> ProcessorServerToPatch
      [] p = "fixed" -> ServerFixed(mti)

Approves(frame) == frame.code = "00"

(***************************************************************************)
(* What a client hands to its gateway: did it parse the body, the code at  *)
(* the top of the object, the code it found itself, and whether the result *)
(* has the key "success" that server.py asks for.                          *)
(***************************************************************************)
TopCode(frame) == IF frame.place = "top" THEN frame.code ELSE NoCode

AppParsed(frame) ==
    [json |-> TRUE, top |-> TopCode(frame), found |-> TopCode(frame), success |-> FALSE]

\* find_key_in searches the nested objects too.
ToPatchParsed(frame) ==
    [json |-> TRUE, top |-> TopCode(frame), found |-> frame.code, success |-> FALSE]

\* Four bytes are cut off, MTI or not.
RootParsed(frame) ==
    [json |-> frame.mti, top |-> TopCode(frame), found |-> NoCode, success |-> TRUE]

Parsed(client, frame) ==
    CASE client = "app" -> AppParsed(frame)
      [] client = "to_patch" -> ToPatchParsed(frame)
      [] client = "root" -> RootParsed(frame)

(***************************************************************************)
(* The gateway's HTTP answer: an error status, or a body with a code and   *)
(* perhaps a flag.  None of the processors sends a key "approved", so the  *)
(* gateways that read it see FALSE.                                        *)
(***************************************************************************)
HttpError == [kind |-> "error", flag |-> "absent", code |-> NoCode]
Body(flag, code) == [kind |-> "body", flag |-> flag, code |-> code]
OrElse(code, default) == IF code # NoCode THEN code ELSE default

ToPatchAnswer(p) == IF p.found = NoCode THEN HttpError ELSE Body("absent", p.found)
GatewayAnswer(p) == Body("no", OrElse(p.top, "96"))
RootAnswer(p) ==
    IF p.success /\ p.json THEN Body("no", OrElse(p.top, "96")) ELSE HttpError

\* The client's result goes out as it is, under "processor_result": the backend
\* finds neither a flag nor a code where it looks for them.
NewAnswer == Body("absent", NoCode)

HttpAnswer(gateway, p) ==
    CASE gateway = "to_patch" -> ToPatchAnswer(p)
      [] gateway = "gateway" -> GatewayAnswer(p)
      [] gateway = "root" -> RootAnswer(p)
      [] gateway = "new" -> NewAnswer

\* The answer when every attempt failed: tcp_client.py returns success = False,
\* which server.new.py hands on; the other clients raise.
ExhaustedAnswer(gateway) == IF gateway = "new" THEN NewAnswer ELSE HttpError

(***************************************************************************)
(* How the backend reads a body (create_transaction), and what it takes    *)
(* for granted of one: the gateways may turn an approval into a refusal (a *)
(* body whose code they do not find), and answer without the processor's   *)
(* decision, but never make an approval of their own.                      *)
(***************************************************************************)
\* Mutant: an answer without a code is taken for a success.
De39DefaultOk(g) == OrElse(g.code, "00")

De39(g) == OrElse(g.code, "96")
Approved(g) == g.flag = "yes" \/ (g.flag = "absent" /\ De39(g) = "00")
BackendApproves(a) == a.kind = "body" /\ Approved(a)

GatewayReplies(decision) ==
    {g \in [flag : {"yes", "no", "absent"}, code : Codes \cup {NoCode}] :
        decision # "approved" => g.flag # "yes" /\ g.code # "00"}

\* The combinations that can be wired together: the parameters of tcp_client.py
\* are keyword-only, and only server.py and server.new.py pass keywords; those
\* of server.new.py leave out the host, which the other clients insist on.
Deployments ==
    {d \in [gateway : Gateways, client : Clients, processor : Processors] :
        /\ d.client = "root" => d.gateway \in {"root", "new"}
        /\ d.gateway = "new" => d.client = "root"}

\* The combinations whose parts understand each other.
Compatible(d) == d.gateway = "to_patch" /\ d.client = "to_patch"
=============================================================================
