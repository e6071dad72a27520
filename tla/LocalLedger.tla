----------------------------- MODULE LocalLedger -----------------------------
(***************************************************************************)
(* The file-backed endpoints of routes.py.fix: /transactions/local,        *)
(* /payout/iso20022 and /payout/crypto.  Each handler runs in a thread of  *)
(* the server's pool; it appends a "pending" record to a JSON file, calls  *)
(* the gateway, and appends the record again with its outcome.  _append    *)
(* reads the whole file, inserts in front, opens the file for writing --   *)
(* which empties it -- and writes the whole array back, a buffer at a time *)
(* and without a lock; and _read takes a file it cannot parse for an empty *)
(* one.  Two handlers that have the file open at once write over each other*)
(* from its start: what they leave may still be an array, of parts of both.*)
(*                                                                         *)
(* The external gateway decides on its own and may never answer; the call  *)
(* has a timeout.                                                          *)
(***************************************************************************)
EXTENDS Naturals, Sequences, SequencesExt

CONSTANTS
    Requests,
    Kind,           \* the endpoint each request is for
    MaxCrashes      \* bound on the crashes of the server

ASSUME LedgerAssumption ==
    /\ Kind \in [Requests -> {"transaction", "iso20022", "crypto"}]
    /\ MaxCrashes \in Nat

VARIABLES
    file,           \* what each file holds
    pc,             \* where each handler is
    rec,            \* the status of the handler's record
    arr,            \* the array in the memory of a handler between read and write
    decided,        \* what the gateway decided
    appended,       \* history: the records whose append has returned
    colliding,      \* the handlers whose open file another one opened, or had open
    disturbed,      \* history: appends overlapped or failed on the file, or a crash
    mixed,          \* history: two handlers had the file open at once
    crashes

vars == <<file, pc, rec, arr, decided, appended, colliding, disturbed, mixed, crashes>>
ledger == <<file, appended, colliding, disturbed, mixed>>

Files == {"transactions", "payouts"}
File(r) == IF Kind[r] = "transaction" THEN "transactions" ELSE "payouts"

Records == [req : Requests, status : {"pending", "success", "failed"}]

\* A file is empty after open("w"), holds a parsable array, or garbage: a part of
\* a text, or the end of a longer one under a shorter one.
Empty == [state |-> "empty", list |-> << >>]
Garbage == [state |-> "garbage", list |-> << >>]
Whole(list) == [state |-> "whole", list |-> list]

TypeOK ==
    /\ file \in [Files -> [state : {"empty", "garbage", "whole"}, list : Seq(Records)]]
    /\ pc \in [Requests -> {"idle", "append", "holding", "writing", "forward",
                            "answered", "lost"}]
    /\ rec \in [Requests -> {"pending", "success", "failed"}]
    /\ arr \in [Requests -> Seq(Records)]
    /\ decided \in [Requests -> {"none", "approved", "declined"}]
    /\ appended \in [Files -> SUBSET Records]
    /\ colliding \subseteq Requests
    /\ disturbed \in [Files -> BOOLEAN]
    /\ mixed \in [Files -> BOOLEAN]
    /\ crashes \in 0..MaxCrashes

Init ==
    /\ file = [f \in Files |-> Empty]
    /\ pc = [r \in Requests |-> "idle"]
    /\ rec = [r \in Requests |-> "pending"]
    /\ arr = [r \in Requests |-> << >>]
    /\ decided = [r \in Requests |-> "none"]
    /\ appended = [f \in Files |-> {}]
    /\ colliding = {}
    /\ disturbed = [f \in Files |-> FALSE]
    /\ mixed = [f \in Files |-> FALSE]
    /\ crashes = 0

Record(r) == [req |-> r, status |-> rec[r]]

\* The handlers other than r that are inside _append on the same file.
Others(r) ==
    {s \in Requests \ {r} : File(s) = File(r) /\ pc[s] \in {"holding", "writing"}}
Writers(f) == {r \in Requests : File(r) = f /\ pc[r] = "writing"}
-----------------------------------------------------------------------------
(***************************************************************************)
(* _append: read and insert, open for writing, write and close.            *)
(***************************************************************************)
\* Mutant: arr[0] = record.
InsertOver(r, list) == <<Record(r)>> \o IF list = << >> THEN << >> ELSE Tail(list)

Insert(r, list) == <<Record(r)>> \o list

\* Mutant: arr.append(record).
ReadFileAppend(r) ==
    /\ pc[r] = "append"
    /\ arr' = [arr EXCEPT ![r] = Append(file[File(r)].list, Record(r))]
    /\ pc' = [pc EXCEPT ![r] = "holding"]
    /\ disturbed' = [disturbed EXCEPT ![File(r)] = @ \/ Others(r) # {}]
    /\ UNCHANGED <<file, rec, decided, appended, colliding, mixed, crashes>>

ReadFile(r) ==
    /\ pc[r] = "append"
    /\ arr' = [arr EXCEPT ![r] = Insert(r, file[File(r)].list)]
    /\ pc' = [pc EXCEPT ![r] = "holding"]
    /\ disturbed' = [disturbed EXCEPT ![File(r)] = @ \/ Others(r) # {}]
    /\ UNCHANGED <<file, rec, decided, appended, colliding, mixed, crashes>>

OpenForWrite(r) ==
    /\ pc[r] = "holding"
    /\ LET f == File(r)
           both == IF Writers(f) = {} THEN {} ELSE Writers(f) \cup {r} IN
       /\ file' = [file EXCEPT ![f] = Empty]
       /\ colliding' = colliding \cup both
       /\ mixed' = [mixed EXCEPT ![f] = @ \/ both # {}]
    /\ pc' = [pc EXCEPT ![r] = "writing"]
    /\ UNCHANGED <<rec, arr, decided, appended, disturbed, crashes>>

\* Arrays that begin like a and end like b: the seam is between two records, or
\* gives one the status of the other.
Spliced(a, b) ==
    LET both == DOMAIN a \cap DOMAIN b
        End(i) == SubSeq(b, i + 1, Len(b)) IN
        {SubSeq(a, 1, i) \o End(i) : i \in both \cup {0}}
          \cup {SubSeq(a, 1, i - 1) \o <<[a[i] EXCEPT !.status = b[i].status]>> \o End(i) :
                    i \in both}

\* What is in the file once some buffers of r have gone into it: each writer goes
\* on at its own offset, over or under what others wrote and are writing.
Torn(r) ==
    LET f == File(r)
        written == IF file[f].state = "whole" THEN {file[f].list} ELSE {}
        texts == written \cup {arr[s] : s \in Writers(f) \ {r}} IN
        {Garbage} \cup {Whole(m) : m \in UNION {Spliced(arr[r], t) \cup Spliced(t, arr[r]) :
                                                    t \in texts}}

WriteAndClose(r) ==
    /\ pc[r] = "writing"
    /\ \E new \in {Whole(arr[r])} \cup (IF r \in colliding THEN Torn(r) ELSE {}) :
           file' = [file EXCEPT ![File(r)] = new]
    /\ appended' = [appended EXCEPT ![File(r)] = @ \cup {Record(r)}]
    /\ pc' = [pc EXCEPT ![r] = IF rec[r] = "pending" THEN "forward" ELSE "answered"]
    /\ arr' = [arr EXCEPT ![r] = << >>]
    /\ colliding' = colliding \ {r}
    /\ UNCHANGED <<rec, decided, disturbed, mixed, crashes>>

\* The file cannot be opened, and stays; the request is answered with a 500.
OpenFails(r) ==
    /\ pc[r] = "holding"
    /\ pc' = [pc EXCEPT ![r] = "answered"]
    /\ arr' = [arr EXCEPT ![r] = << >>]
    /\ UNCHANGED <<ledger, rec, decided, crashes>>

\* The disk is full: some buffers, or none, have gone into the emptied file.
WriteFails(r) ==
    /\ pc[r] = "writing"
    /\ \E new \in {file[File(r)]} \cup Torn(r) : file' = [file EXCEPT ![File(r)] = new]
    /\ pc' = [pc EXCEPT ![r] = "answered"]
    /\ arr' = [arr EXCEPT ![r] = << >>]
    /\ colliding' = colliding \ {r}
    /\ disturbed' = [disturbed EXCEPT ![File(r)] = TRUE]
    /\ UNCHANGED <<rec, decided, appended, mixed, crashes>>
-----------------------------------------------------------------------------
(***************************************************************************)
(* The handler around it.                                                  *)
(***************************************************************************)
Accept(r) ==
    /\ pc[r] = "idle"
    /\ pc' = [pc EXCEPT ![r] = "append"]
    /\ UNCHANGED <<ledger, rec, arr, decided, crashes>>

GatewayDecides(r) ==
    /\ pc[r] = "forward"
    /\ decided[r] = "none"
    /\ \E d \in {"approved", "declined"} : decided' = [decided EXCEPT ![r] = d]
    /\ UNCHANGED <<ledger, pc, rec, arr, crashes>>

GatewayAnswers(r) ==
    /\ pc[r] = "forward"
    /\ decided[r] # "none"
    /\ rec' = [rec EXCEPT ![r] = IF decided[r] = "approved" THEN "success" ELSE "failed"]
    /\ pc' = [pc EXCEPT ![r] = "append"]
    /\ UNCHANGED <<ledger, arr, decided, crashes>>

\* The body is JSON, but not an object: resp.get raises outside of the try, and
\* the request is answered with a 500 and no second record.
AnswerUnreadable(r) ==
    /\ pc[r] = "forward"
    /\ decided[r] # "none"
    /\ pc' = [pc EXCEPT ![r] = "answered"]
    /\ UNCHANGED <<ledger, rec, arr, decided, crashes>>

\* Mutant: a call without a timeout fails only when the gateway is there.
GatewayRaisesNoTimeout(r) ==
    /\ pc[r] = "forward"
    /\ decided[r] # "none"
    /\ rec' = [rec EXCEPT ![r] = "failed"]
    /\ pc' = [pc EXCEPT ![r] = "append"]
    /\ UNCHANGED <<ledger, arr, decided, crashes>>

\* The timeout, or a broken connection, whatever the gateway decided.
GatewayRaises(r) ==
    /\ pc[r] = "forward"
    /\ rec' = [rec EXCEPT ![r] = "failed"]
    /\ pc' = [pc EXCEPT ![r] = "append"]
    /\ UNCHANGED <<ledger, arr, decided, crashes>>

\* The server dies and is started again; of what was being written some buffers,
\* or none, are in the file.
Crash ==
    /\ crashes < MaxCrashes
    /\ crashes' = crashes + 1
    /\ LET Left(f) == {file[f]} \cup UNION {Torn(r) : r \in Writers(f)} IN
       \E t \in Left("transactions"), p \in Left("payouts") :
           file' = [f \in Files |-> IF f = "transactions" THEN t ELSE p]
    /\ pc' = [r \in Requests |-> IF pc[r] \in {"idle", "answered"} THEN pc[r] ELSE "lost"]
    /\ arr' = [r \in Requests |-> << >>]
    /\ colliding' = {}
    /\ disturbed' = [f \in Files |-> TRUE]
    /\ UNCHANGED <<rec, decided, appended, mixed>>

Handle(r) ==
    \/ ReadFile(r) \/ OpenForWrite(r) \/ WriteAndClose(r)
    \/ GatewayRaises(r)

Next ==
    \/ \E r \in Requests :
        \/ Accept(r) \/ Handle(r) \/ OpenFails(r) \/ WriteFails(r)
        \/ GatewayDecides(r) \/ GatewayAnswers(r) \/ AnswerUnreadable(r)
    \/ Crash

Spec == Init /\ [][Next]_vars

\* A handler that runs gets on, and its call times out; clients and the gateway
\* owe nothing.
FairSpec == Spec /\ \A r \in Requests : WF_vars(Handle(r))
-----------------------------------------------------------------------------
\* Is every record of the array unique and no outcome below its pending record?
InOrder(list) ==
    \A i, k \in DOMAIN list : i < k /\ list[i].req = list[k].req =>
        list[i].status # "pending" /\ list[k].status = "pending"

\* As long as no two handlers had a file open at once, a reader that takes the
\* first record it finds of a request sees the outcome whenever the file has it:
\* however appends overlap, fail and get lost, no stale array can put a pending
\* record above its outcome or a record into the file twice.
OutcomeOnTop ==
    \A f \in Files : ~mixed[f] =>
        /\ InOrder(file[f].list)
        /\ \A r \in Requests : File(r) = f => InOrder(arr[r])

\* As long as no two appends to a file overlapped, none failed in the middle of
\* its write and the server did not die, every record appended to it is in it --
\* however the requests themselves overlap around their gateway calls.
KeptUnlessDisturbed ==
    \A f \in Files :
        ~disturbed[f] /\ (\A r \in Requests : File(r) = f => pc[r] # "writing") =>
            ToSet(file[f].list) = appended[f]

\* What a file stands for: while it is open for writing, what its writer read.
Contents(f) ==
    IF Writers(f) = {} THEN file[f].list ELSE Tail(arr[CHOOSE r \in Writers(f) : TRUE])

\* As long as the appends to a file are not disturbed in one of these ways, an
\* append is atomic: its record appears in front of all the others, in one step,
\* and nothing else ever changes the file.
AppendIsAtomic ==
    [][\A f \in Files : ~disturbed'[f] /\ Contents(f)' # Contents(f) =>
          \E r \in Requests :
              File(r) = f /\ WriteAndClose(r) /\ Contents(f)' = Insert(r, Contents(f))]_vars

\* Every accepted request is answered in the end, or lost with its server.
EveryRequestAnswered ==
    \A r \in Requests : pc[r] # "idle" ~> pc[r] \in {"answered", "lost"}
=============================================================================
