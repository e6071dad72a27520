-------------------------- MODULE SettlementHandler --------------------------
(***************************************************************************)
(* From an ISO response to a payout request: settlement_handler.py posts   *)
(* every approved response it is handed to the gateway's settlement        *)
(* endpoint (receive_transaction of gateway_app.py), then writes a ledger  *)
(* line, then a database row (insert_settlement of db.py).  Each of the    *)
(* three may fail without stopping the next.  The gateway keeps the last   *)
(* posts in memory and forwards a payout request; its call is synchronous  *)
(* in an async handler, so the gateway serves one post at a time and the   *)
(* handlers' posts time out behind it.                                     *)
(*                                                                         *)
(* payout_handler.py does the same without the gateway and the database:   *)
(* it posts a settlement it is handed to the payout service and writes a   *)
(* line of its own.                                                        *)
(*                                                                         *)
(* The same response may be delivered more than once: the client that asks *)
(* the processor retries, and nothing before the database looks for it.    *)
(***************************************************************************)
EXTENDS Naturals, Sequences

CONSTANTS
    Deliveries,     \* calls of on_iso_response and of payout_handler.handle
    Direct,         \* the latter
    NoDelivery,
    Key,            \* the (stan, rrn) of each delivered response, or NoKey
    NoKey,          \* of a response without rrn: never equal in the database
    Approved,       \* the deliveries with DE39 = 00, or that are a settlement
    StoreMax,       \* the bound of _transactions_store (200 in the code)
    MaxFaults       \* bound on crashes and failed writes

ASSUME SettlementAssumption ==
    /\ NoDelivery \notin Deliveries
    /\ Approved \subseteq Deliveries
    /\ Direct \subseteq Deliveries
    /\ StoreMax \in Nat \ {0}
    /\ MaxFaults \in Nat

VARIABLES
    pc,             \* where each call is
    inbox,          \* the posts that wait at the gateway
    serving,        \* the post the gateway's event loop is at, or NoDelivery
    answered,       \* the posts the gateway has answered
    store,          \* _transactions_store
    received,       \* history: all the store was ever given
    payouts,        \* how often a payout was requested for each delivery
    posts,          \* how often each delivery was posted
    lines,          \* the deliveries with a ledger line
    rows,           \* the deliveries with a database row
    unwritten,      \* history: those whose ledger line could not be written
    faults

vars == <<pc, inbox, serving, answered, store, received, payouts, posts,
          lines, rows, unwritten, faults>>
gateway == <<serving, answered, store, received, payouts>>
books == <<lines, rows, unwritten>>

TypeOK ==
    /\ pc \in [Deliveries -> {"idle", "posting", "record", "insert", "done", "lost",
                           "paying"}]
    /\ inbox \subseteq Deliveries
    /\ serving \in Deliveries \cup {NoDelivery}
    /\ answered \subseteq Deliveries
    /\ store \in Seq(Deliveries)
    /\ received \in Seq(Deliveries)
    /\ payouts \in [Deliveries -> Nat]
    /\ posts \in [Deliveries -> Nat]
    /\ lines \subseteq Deliveries
    /\ rows \subseteq Deliveries
    /\ unwritten \subseteq Deliveries
    /\ faults \in 0..MaxFaults

Init ==
    /\ pc = [d \in Deliveries |-> "idle"]
    /\ inbox = {}
    /\ serving = NoDelivery
    /\ answered = {}
    /\ store = << >>
    /\ received = << >>
    /\ payouts = [d \in Deliveries |-> 0]
    /\ posts = [d \in Deliveries |-> 0]
    /\ lines = {}
    /\ rows = {}
    /\ unwritten = {}
    /\ faults = 0

GoTo(d, place) == pc' = [pc EXCEPT ![d] = place]
-----------------------------------------------------------------------------
(***************************************************************************)
(* on_iso_response.                                                        *)
(***************************************************************************)
Decline(d) ==
    /\ pc[d] = "idle"
    /\ d \notin Approved
    /\ GoTo(d, "done")
    /\ UNCHANGED <<inbox, gateway, posts, books, faults>>

\* Mutant: DE39 is not looked at.
PostAny(d) ==
    /\ pc[d] = "idle"
    /\ inbox' = inbox \cup {d}
    /\ posts' = [posts EXCEPT ![d] = @ + 1]
    /\ GoTo(d, "posting")
    /\ UNCHANGED <<gateway, books, faults>>

Post(d) ==
    /\ pc[d] = "idle"
    /\ d \in Approved \ Direct
    /\ inbox' = inbox \cup {d}
    /\ posts' = [posts EXCEPT ![d] = @ + 1]
    /\ GoTo(d, "posting")
    /\ UNCHANGED <<gateway, books, faults>>

\* The gateway, or the payout service, cannot be reached: resp = None, and on to
\* the books.
PostRefused(d) ==
    /\ pc[d] = "idle"
    /\ d \in Approved
    /\ GoTo(d, "record")
    /\ UNCHANGED <<inbox, gateway, posts, books, faults>>

PostAnswered(d) ==
    /\ pc[d] = "posting"
    /\ d \in answered
    /\ GoTo(d, "record")
    /\ UNCHANGED <<inbox, gateway, posts, books, faults>>

\* Mutant: a post that timed out is tried again.
PostRetried(d) ==
    /\ pc[d] = "posting"
    /\ GoTo(d, "idle")
    /\ UNCHANGED <<inbox, gateway, posts, books, faults>>

\* Mutant: a failed post returns before the books.
PostGivesUp(d) ==
    /\ pc[d] = "posting"
    /\ GoTo(d, "done")
    /\ UNCHANGED <<inbox, gateway, posts, books, faults>>

\* Mutant: requests.post without a timeout.
PostWaits(d) ==
    /\ pc[d] = "posting"
    /\ d \in answered
    /\ GoTo(d, "record")
    /\ UNCHANGED <<inbox, gateway, posts, books, faults>>

\* The timeout, or a connection that breaks; the gateway may still serve it.
PostTimesOut(d) ==
    /\ pc[d] = "posting"
    /\ GoTo(d, "record")
    /\ UNCHANGED <<inbox, gateway, posts, books, faults>>

\* After its line payout_handler is done.
AfterLine(d) == IF d \in Direct THEN "done" ELSE "insert"

AppendLine(d) ==
    /\ pc[d] = "record"
    /\ lines' = lines \cup {d}
    /\ GoTo(d, AfterLine(d))
    /\ UNCHANGED <<inbox, gateway, posts, rows, unwritten, faults>>

\* _append_jsonl swallows what open and write raise.
AppendFails(d) ==
    /\ pc[d] = "record"
    /\ faults < MaxFaults
    /\ faults' = faults + 1
    /\ unwritten' = unwritten \cup {d}
    /\ GoTo(d, AfterLine(d))
    /\ UNCHANGED <<inbox, gateway, posts, lines, rows>>

\* The value on_iso_response stores under 'raw': the payload, a dict.
Raw(d) == "dict"

\* insert_settlement: raises for a value the driver cannot bind to a Text column
\* (rows as before), ignores a second row with the same stan and rrn.
InsertSettlement(d) ==
    IF Raw(d) = "dict" \/ (Key[d] # NoKey /\ \E e \in rows : Key[e] = Key[d])
    THEN rows ELSE rows \cup {d}

Insert(d) ==
    /\ pc[d] = "insert"
    /\ rows' = InsertSettlement(d)
    /\ GoTo(d, "done")
    /\ UNCHANGED <<inbox, gateway, posts, lines, unwritten, faults>>

HandlerCrash ==
    /\ faults < MaxFaults
    /\ faults' = faults + 1
    /\ pc' = [d \in Deliveries |-> IF pc[d] \in {"idle", "done"} THEN pc[d] ELSE "lost"]
    /\ UNCHANGED <<inbox, gateway, posts, books>>
-----------------------------------------------------------------------------
(***************************************************************************)
(* payout_handler.handle.                                                  *)
(***************************************************************************)
HandlePayout(d) ==
    /\ pc[d] = "idle"
    /\ d \in Approved \cap Direct
    /\ posts' = [posts EXCEPT ![d] = @ + 1]
    /\ GoTo(d, "paying")
    /\ UNCHANGED <<inbox, gateway, books, faults>>

\* Mutant: a line only for an answered request.
PostPayoutOnly(d) ==
    /\ pc[d] = "paying"
    /\ GoTo(d, "done")
    /\ UNCHANGED <<inbox, gateway, posts, books, faults>>

\* The service answered, or the request failed, which post_payout swallows; it
\* took the request or it did not.
PostPayout(d) ==
    /\ pc[d] = "paying"
    /\ \E n \in {0, 1} : payouts' = [payouts EXCEPT ![d] = @ + n]
    /\ GoTo(d, "record")
    /\ UNCHANGED <<inbox, serving, answered, store, received, posts, books, faults>>
-----------------------------------------------------------------------------
(***************************************************************************)
(* receive_transaction.                                                    *)
(***************************************************************************)
\* Mutant: the newest entry is dropped.
BoundedDropNew(s) == IF Len(s) > StoreMax THEN SubSeq(s, 1, StoreMax) ELSE s

\* pop(0) from a store that became too long.
Bounded(s) == IF Len(s) > StoreMax THEN Tail(s) ELSE s

Receive(d) ==
    /\ serving = NoDelivery
    /\ d \in inbox
    /\ inbox' = inbox \ {d}
    /\ serving' = d
    /\ store' = Bounded(Append(store, d))
    /\ received' = Append(received, d)
    /\ UNCHANGED <<pc, answered, payouts, posts, books, faults>>

\* The payout service took the request, whether or not its answer came back, or
\* did not; the post is accepted in any case.
ForwardPayout ==
    /\ serving # NoDelivery
    /\ \E n \in {0, 1} : payouts' = [payouts EXCEPT ![serving] = @ + n]
    /\ answered' = answered \cup {serving}
    /\ serving' = NoDelivery
    /\ UNCHANGED <<pc, inbox, store, received, posts, books, faults>>

GatewayCrash ==
    /\ faults < MaxFaults
    /\ faults' = faults + 1
    /\ inbox' = {}
    /\ serving' = NoDelivery
    /\ store' = << >>
    /\ received' = << >>
    /\ UNCHANGED <<pc, answered, payouts, posts, books>>

Handle(d) ==
    \/ Decline(d) \/ PostAnswered(d) \/ PostTimesOut(d)
    \/ AppendLine(d) \/ AppendFails(d) \/ Insert(d) \/ PostPayout(d)

Next ==
    \/ \E d \in Deliveries : 
        \/ Post(d) \/ PostRefused(d) \/ HandlePayout(d) \/ Handle(d) \/ Receive(d)
    \/ ForwardPayout \/ HandlerCrash \/ GatewayCrash

Spec == Init /\ [][Next]_vars

\* The thread of a call runs and its timeouts expire; the gateway owes nothing.
FairSpec == Spec /\ \A d \in Deliveries : WF_vars(Handle(d))
-----------------------------------------------------------------------------
\* A declined response leaves no trace -- no post, no entry of the gateway's
\* store, no payout, no line and no row --, and for an approved one a payout is
\* requested at most once for each delivery, and only for one that was posted,
\* however posts time out and are served late.
OnePayoutPerDelivery ==
    /\ \A d \in Deliveries : payouts[d] <= posts[d] /\ posts[d] <= 1
    /\ \A d \in Deliveries \ Approved :
          /\ posts[d] = 0
          /\ d \notin inbox \cup answered \cup lines \cup rows
          /\ \A i \in 1..Len(store) : store[i] # d

\* An approved response whose call came to its end has its ledger line, unless
\* writing that very line failed: no failure or late service of the post and no
\* crash of the gateway keeps a settlement off the books, of either handler.
OnTheBooks ==
    \A d \in Approved : pc[d] = "done" => d \in lines \cup unwritten

\* The bounded store holds exactly the newest posts since the gateway started.
StoreIsNewest ==
    /\ Len(store) <= StoreMax
    /\ store = SubSeq(received, Len(received) - Len(store) + 1, Len(received))
    /\ Len(received) >= StoreMax => Len(store) = StoreMax

\* Every call of a handler that began comes to its end.
EveryCallEnds ==
    \A d \in Deliveries : pc[d] # "idle" ~> pc[d] \in {"done", "lost"}

\* "Settlement handler with DB persistence": an approved response that was
\* handled to the end while nothing failed has a row, its own or its duplicate's.
PersistedInDb ==
    faults = 0 => \A d \in Approved \ Direct : pc[d] = "done" =>
        d \in rows \/ \E e \in rows : Key[e] = Key[d]
=============================================================================
