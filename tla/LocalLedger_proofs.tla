------------------------- MODULE LocalLedger_proofs -------------------------
(***************************************************************************)
(* The file-backed endpoints, for any number of requests and crashes.      *)
(*                                                                         *)
(* OutcomeOnTop is not inductive: a handler that reads must not find a     *)
(* record its own would be out of order with, in the file or in an array   *)
(* another handler is about to write over the file (Fresh); and as long as  *)
(* no two handlers had the file open at once, what is left of a write is    *)
(* the array, nothing or garbage (Sole).                                   *)
(* KeptUnlessDisturbed needs what a lone handler holds in memory while the *)
(* file is open (Lone).  That an append is atomic needs that the array of  *)
(* such a handler is its record in front of what the file stood for when   *)
(* it was read, and stands for still (Held).                               *)
(***************************************************************************)
EXTENDS LocalLedger, TLAPS, SequenceTheorems

Inside(r) == pc[r] \in {"holding", "writing"}

\* Is x in file f, or in an array that may be written to it?
Present(f, x) ==
    \/ x \in ToSet(file[f].list)
    \/ \E s \in Requests : File(s) = f /\ x \in ToSet(arr[s])

\* What may be present while a request is where it is.
Forwarded == \A r \in Requests : pc[r] \in {"idle", "forward"} => rec[r] = "pending"
Fresh ==
    \A r \in Requests : ~mixed[File(r)] =>
        /\ rec[r] = "pending" /\ pc[r] \in {"idle", "append"} =>
               \A x \in Records : Present(File(r), x) => x.req # r
        /\ rec[r] = "pending" \/ pc[r] = "append" =>
               \A x \in Records : Present(File(r), x) /\ x.req = r => x.status = "pending"

\* A file that no two handlers had open at once has one writer at most, and is
\* empty under it.
Sole ==
    \A r \in Requests : ~mixed[File(r)] =>
        /\ r \notin colliding
        /\ pc[r] = "writing" =>
               /\ file[File(r)] = Empty
               /\ \A s \in Requests : s # r /\ File(s) = File(r) => pc[s] # "writing"

MixedIsDisturbed == \A f \in Files : mixed[f] => disturbed[f]

\* An undisturbed file has one handler at most inside _append, and that one
\* holds all that was ever appended and its own record.
Lone ==
    \A r \in Requests : Inside(r) /\ ~disturbed[File(r)] =>
        /\ \A s \in Requests : s # r /\ File(s) = File(r) => ~Inside(s)
        /\ ToSet(arr[r]) = appended[File(r)] \cup {Record(r)}
        /\ pc[r] = "writing" => file[File(r)] = Empty

IInv == /\ TypeOK /\ Sole /\ MixedIsDisturbed
        /\ OutcomeOnTop /\ Forwarded /\ Fresh
        /\ Lone /\ KeptUnlessDisturbed

LEMMA FileType == ASSUME NEW r \in Requests PROVE File(r) \in Files
BY DEF File, Files

LEMMA RecordType == ASSUME TypeOK, NEW r \in Requests PROVE Record(r) \in Records
BY DEF TypeOK, Record, Records

LEMMA EmptySeqSet == ToSet(<< >>) = {}
BY DEF ToSet

\* A record inserted in front: what the new array has, and at which index.
LEMMA InsertProperties ==
    ASSUME TypeOK, NEW r \in Requests, NEW list \in Seq(Records)
    PROVE  /\ Insert(r, list) \in Seq(Records)
           /\ Len(Insert(r, list)) = Len(list) + 1
           /\ Insert(r, list)[1] = Record(r)
           /\ \A i \in 2..(Len(list) + 1) : Insert(r, list)[i] = list[i - 1]
           /\ ToSet(Insert(r, list)) = ToSet(list) \cup {Record(r)}
<1>1. Record(r) \in Records /\ <<Record(r)>> \in Seq(Records) /\ Len(<<Record(r)>>) = 1
  BY RecordType
<1>2. /\ Insert(r, list) \in Seq(Records)
      /\ Len(Insert(r, list)) = 1 + Len(list)
      /\ \A i \in 1..(1 + Len(list)) :
             Insert(r, list)[i] = IF i <= 1 THEN <<Record(r)>>[i] ELSE list[i - 1]
  BY <1>1, ConcatProperties DEF Insert
<1>3. Len(list) \in Nat
  OBVIOUS
<1>4. /\ Insert(r, list)[1] = Record(r)
      /\ \A i \in 2..(Len(list) + 1) : Insert(r, list)[i] = list[i - 1]
  BY <1>2, <1>3
<1>5. DOMAIN Insert(r, list) = 1..(Len(list) + 1) /\ DOMAIN list = 1..Len(list)
  BY <1>2, <1>3
<1>6. \A x \in ToSet(Insert(r, list)) : x \in ToSet(list) \cup {Record(r)}
  <2> SUFFICES ASSUME NEW i \in 1..(Len(list) + 1)
               PROVE  Insert(r, list)[i] \in ToSet(list) \cup {Record(r)}
    BY <1>5 DEF ToSet
  <2>1. CASE i = 1
    BY <1>4, <2>1
  <2>2. CASE i # 1
    <3>1. i \in 2..(Len(list) + 1) /\ i - 1 \in 1..Len(list)
      BY <1>3, <2>2
    <3> QED
      BY <1>4, <1>5, <3>1 DEF ToSet
  <2> QED
    BY <2>1, <2>2
<1>7. \A x \in ToSet(list) \cup {Record(r)} : x \in ToSet(Insert(r, list))
  <2>1. Record(r) \in ToSet(Insert(r, list))
    BY <1>3, <1>4, <1>5 DEF ToSet
  <2>2. ASSUME NEW i \in 1..Len(list)
        PROVE  list[i] \in ToSet(Insert(r, list))
    <3>1. i + 1 \in 2..(Len(list) + 1) /\ (i + 1) - 1 = i
      BY <1>3
    <3>2. Insert(r, list)[i + 1] = list[i]
      BY <1>4, <3>1
    <3> QED
      BY <1>3, <1>5, <3>1, <3>2 DEF ToSet
  <2> QED
    BY <1>5, <2>1, <2>2 DEF ToSet
<1> QED
  BY <1>2, <1>3, <1>4, <1>6, <1>7

Texts == [state : {"empty", "garbage", "whole"}, list : Seq(Records)]

\* What two arrays leave that are written over each other is an array of records.
LEMMA SplicedType ==
    ASSUME NEW a \in Seq(Records), NEW b \in Seq(Records), NEW m \in Spliced(a, b)
    PROVE  m \in Seq(Records)
<1>1. /\ DOMAIN a = 1..Len(a) /\ DOMAIN b = 1..Len(b)
      /\ Len(a) \in Nat /\ Len(b) \in Nat
  OBVIOUS
<1>2. ASSUME NEW i \in Nat, i <= Len(b)
      PROVE  SubSeq(b, i + 1, Len(b)) \in Seq(Records)
  BY <1>1, <1>2, SubSeqProperties
<1>3. ASSUME NEW i \in Nat, i <= Len(a)
      PROVE  SubSeq(a, 1, i) \in Seq(Records)
  BY <1>1, <1>3, SubSeqProperties
<1>4. ASSUME NEW i \in (DOMAIN a \cap DOMAIN b) \cup {0},
             m = SubSeq(a, 1, i) \o SubSeq(b, i + 1, Len(b))
      PROVE  m \in Seq(Records)
  <2>1. i \in Nat /\ i <= Len(a) /\ i <= Len(b)
    BY <1>1
  <2>2. SubSeq(a, 1, i) \in Seq(Records) /\ SubSeq(b, i + 1, Len(b)) \in Seq(Records)
    BY <1>2, <1>3, <2>1
  <2> QED
    BY <1>4, <2>2, ConcatProperties
<1>5. ASSUME NEW i \in DOMAIN a \cap DOMAIN b,
             m = SubSeq(a, 1, i - 1) \o <<[a[i] EXCEPT !.status = b[i].status]>>
                   \o SubSeq(b, i + 1, Len(b))
      PROVE  m \in Seq(Records)
  <2>1. i \in Nat /\ i - 1 \in Nat /\ i - 1 <= Len(a) /\ i <= Len(b)
    BY <1>1
  <2>2. SubSeq(a, 1, i - 1) \in Seq(Records) /\ SubSeq(b, i + 1, Len(b)) \in Seq(Records)
    BY <1>2, <1>3, <2>1
  <2>3. a[i] \in Records /\ b[i] \in Records
    OBVIOUS
  <2>4. [a[i] EXCEPT !.status = b[i].status] \in Records
    BY <2>3 DEF Records
  <2>5. <<[a[i] EXCEPT !.status = b[i].status]>> \in Seq(Records)
    BY <2>4
  <2>6. SubSeq(a, 1, i - 1) \o <<[a[i] EXCEPT !.status = b[i].status]>> \in Seq(Records)
    BY <2>2, <2>5, ConcatProperties
  <2> QED
    BY <1>5, <2>2, <2>6, ConcatProperties
<1> QED
  BY <1>4, <1>5 DEF Spliced

LEMMA WholeType == ASSUME NEW list \in Seq(Records) PROVE Whole(list) \in Texts
BY DEF Whole, Texts

LEMMA BlankType == Empty \in Texts /\ Garbage \in Texts
<1>1. << >> \in Seq(Records)
  OBVIOUS
<1> QED
  BY <1>1 DEF Empty, Garbage, Texts

LEMMA TornType ==
    ASSUME TypeOK, NEW r \in Requests, NEW new \in Torn(r)
    PROVE  new \in Texts
<1> DEFINE f == File(r)
           written == IF file[f].state = "whole" THEN {file[f].list} ELSE {}
           texts == written \cup {arr[s] : s \in Writers(f) \ {r}}
<1>1. arr[r] \in Seq(Records) /\ \A t \in texts : t \in Seq(Records)
  BY FileType DEF TypeOK, Writers
<1> HIDE DEF texts
<1>2. ASSUME NEW t \in texts, NEW m \in Spliced(arr[r], t) \cup Spliced(t, arr[r])
      PROVE  Whole(m) \in Texts
  BY <1>1, <1>2, SplicedType, WholeType
<1>3. new = Garbage \/ \E t \in texts :
          \E m \in Spliced(arr[r], t) \cup Spliced(t, arr[r]) : new = Whole(m)
  BY DEF Torn, texts
<1> QED
  BY <1>2, <1>3, BlankType

\* A writer that is alone leaves nothing to be put together.
LEMMA TornAlone ==
    ASSUME Sole, NEW r \in Requests, pc[r] = "writing", ~mixed[File(r)]
    PROVE  Torn(r) = {Garbage}
<1>1. file[File(r)].state # "whole" /\ Writers(File(r)) \ {r} = {}
  BY DEF Sole, Writers, Empty
<1>2. {arr[s] : s \in Writers(File(r)) \ {r}} = {}
  BY <1>1
<1>3. UNION {Spliced(arr[r], t) \cup Spliced(t, arr[r]) : t \in {}} = {}
  OBVIOUS
<1> DEFINE written == IF file[File(r)].state = "whole" THEN {file[File(r)].list} ELSE {}
           texts == written \cup {arr[s] : s \in Writers(File(r)) \ {r}}
<1>4. texts = {}
  BY <1>1, <1>2
<1>5. Torn(r) = {Garbage} \cup {Whole(m) : m \in UNION {Spliced(arr[r], t) \cup Spliced(t, arr[r]) :
                                                    t \in texts}}
  BY DEF Torn
<1> QED
  BY <1>3, <1>4, <1>5

\* What a step leaves in a file that no two handlers had open at once.
LEMMA FileStep ==
    ASSUME TypeOK, Sole, [Next]_vars, NEW f \in Files, ~mixed'[f]
    PROVE  /\ ~mixed[f]
           /\ \/ file'[f] \in {file[f], Empty, Garbage}
              \/ \E r \in Requests : File(r) = f /\ WriteAndClose(r) /\ file'[f] = Whole(arr[r])
<1> USE FileType DEF TypeOK, ledger
<1>1. ASSUME NEW r \in Requests, ReadFile(r)
      PROVE  ~mixed[f] /\ file'[f] = file[f]
  BY <1>1 DEF ReadFile
<1>2. ASSUME NEW r \in Requests, OpenForWrite(r)
      PROVE  ~mixed[f] /\ file'[f] \in {file[f], Empty}
  BY <1>2 DEF OpenForWrite
<1>3. ASSUME NEW r \in Requests, WriteAndClose(r)
      PROVE  ~mixed[f] /\ (file'[f] = file[f] \/ (File(r) = f /\ file'[f] = Whole(arr[r])))
  <2>1. mixed' = mixed /\ pc[r] = "writing"
    BY <1>3 DEF WriteAndClose
  <2>2. CASE File(r) = f
    <3>1. r \notin colliding
      BY <2>1, <2>2 DEF Sole
    <3>2. file' = [file EXCEPT ![f] = Whole(arr[r])]
      BY <1>3, <2>2, <3>1 DEF WriteAndClose
    <3> QED
      BY <2>1, <2>2, <3>2
  <2>3. CASE File(r) # f
    BY <1>3, <2>1, <2>3 DEF WriteAndClose
  <2> QED
    BY <2>2, <2>3
<1>4. ASSUME NEW r \in Requests, WriteFails(r)
      PROVE  ~mixed[f] /\ file'[f] \in {file[f], Garbage}
  <2>1. /\ mixed' = mixed /\ pc[r] = "writing"
        /\ \E new \in {file[File(r)]} \cup Torn(r) : file' = [file EXCEPT ![File(r)] = new]
    BY <1>4 DEF WriteFails
  <2>2. File(r) = f => Torn(r) = {Garbage}
    BY <2>1, TornAlone
  <2> QED
    BY <2>1, <2>2
<1>5. ASSUME NEW r \in Requests,
             \/ Accept(r) \/ OpenFails(r) \/ GatewayRaises(r) \/ GatewayDecides(r)
             \/ GatewayAnswers(r) \/ AnswerUnreadable(r)
      PROVE  ~mixed[f] /\ file'[f] = file[f]
  BY <1>5 DEF Accept, OpenFails, GatewayRaises, GatewayDecides, GatewayAnswers, AnswerUnreadable
<1>6. ASSUME Crash
      PROVE  ~mixed[f] /\ file'[f] \in {file[f], Garbage}
  <2>1. mixed' = mixed
    BY <1>6 DEF Crash
  <2>2. \A r \in Writers(f) : Torn(r) = {Garbage}
    BY <2>1, TornAlone DEF Writers
  <2>3. file'[f] \in {file[f]} \cup UNION {Torn(r) : r \in Writers(f)}
    BY <1>6 DEF Crash, Files
  <2> QED
    BY <2>1, <2>2, <2>3
<1>7. CASE UNCHANGED vars
  BY <1>7 DEF vars
<1> QED
  BY <1>1, <1>2, <1>3, <1>4, <1>5, <1>6, <1>7 DEF Next, Handle

LEMMA InitIInv == Init => IInv
<1> SUFFICES ASSUME Init
             PROVE  IInv
  OBVIOUS
<1>1. TypeOK
  BY LedgerAssumption DEF Init, TypeOK, Empty, Files
<1>2. OutcomeOnTop
  BY DEF Init, OutcomeOnTop, InOrder, Empty
<1>3. \A f \in Files, x \in Records : ~Present(f, x)
  BY EmptySeqSet DEF Init, Present, Empty
<1>4. Forwarded /\ Fresh /\ Lone
  BY <1>3, FileType DEF Init, Forwarded, Fresh, Lone, Inside
<1>6. Sole /\ MixedIsDisturbed
  BY DEF Init, Sole, MixedIsDisturbed
<1>5. KeptUnlessDisturbed
  BY EmptySeqSet DEF Init, KeptUnlessDisturbed, Empty
<1> QED
  BY <1>1, <1>2, <1>4, <1>5, <1>6 DEF IInv
-----------------------------------------------------------------------------
LEMMA TypeStep == TypeOK /\ [Next]_vars => TypeOK'
<1> SUFFICES ASSUME TypeOK, [Next]_vars
             PROVE  TypeOK'
  OBVIOUS
<1> USE LedgerAssumption, FileType DEF TypeOK, ledger
<1>1. ASSUME NEW r \in Requests, ReadFile(r)
      PROVE  TypeOK'
  <2>1. file[File(r)].list \in Seq(Records)
    OBVIOUS
  <2>2. Insert(r, file[File(r)].list) \in Seq(Records)
    BY <2>1, InsertProperties
  <2>3. (disturbed[File(r)] \/ Others(r) # {}) \in BOOLEAN
    OBVIOUS
  <2>4. arr' \in [Requests -> Seq(Records)] /\ pc' \in [Requests ->
            {"idle", "append", "holding", "writing", "forward", "answered", "lost"}]
    BY <1>1, <2>2 DEF ReadFile
  <2>5. disturbed' \in [Files -> BOOLEAN]
    BY <1>1, <2>3 DEF ReadFile
  <2> QED
    BY <1>1, <2>4, <2>5 DEF ReadFile
<1>2. ASSUME NEW r \in Requests, OpenForWrite(r)
      PROVE  TypeOK'
  <2>1. file' = [file EXCEPT ![File(r)] = Empty] /\ pc' = [pc EXCEPT ![r] = "writing"]
    BY <1>2 DEF OpenForWrite
  <2>2. file' \in [Files -> Texts]
    BY <2>1, BlankType DEF Texts
  <2>3. PICK both \in SUBSET Requests :
            /\ colliding' = colliding \cup both
            /\ mixed' = [mixed EXCEPT ![File(r)] = @ \/ both # {}]
    <3>1. CASE Writers(File(r)) = {}
      BY <1>2, <3>1 DEF OpenForWrite
    <3>2. CASE Writers(File(r)) # {}
      <4>1. Writers(File(r)) \cup {r} \in SUBSET Requests /\ Writers(File(r)) \cup {r} # {}
        BY DEF Writers
      <4> QED
        BY <1>2, <3>2, <4>1 DEF OpenForWrite
    <3> QED
      BY <3>1, <3>2
  <2>4. mixed' \in [Files -> BOOLEAN]
    BY <2>3
  <2> QED
    BY <1>2, <2>1, <2>2, <2>3, <2>4 DEF OpenForWrite, Texts
<1>3. ASSUME NEW r \in Requests, WriteAndClose(r)
      PROVE  TypeOK'
  <2>1. PICK new \in {Whole(arr[r])} \cup Torn(r) : file' = [file EXCEPT ![File(r)] = new]
    BY <1>3 DEF WriteAndClose
  <2>2. new \in Texts
    <3>1. arr[r] \in Seq(Records)
      OBVIOUS
    <3> QED
      BY <2>1, <3>1, WholeType, TornType
  <2>3. appended' \in [Files -> SUBSET Records]
    BY <1>3, RecordType DEF WriteAndClose
  <2>4. file' \in [Files -> [state : {"empty", "garbage", "whole"}, list : Seq(Records)]]
    BY <2>1, <2>2 DEF Texts
  <2>5. arr' \in [Requests -> Seq(Records)]
    BY <1>3 DEF WriteAndClose
  <2> QED
    BY <1>3, <2>3, <2>4, <2>5 DEF WriteAndClose
<1>4. ASSUME NEW r \in Requests, Accept(r) \/ GatewayRaises(r)
      PROVE  TypeOK'
  <2>1. CASE Accept(r)
    BY <2>1 DEF Accept
  <2>2. CASE GatewayRaises(r)
    BY <2>2 DEF GatewayRaises
  <2> QED
    BY <1>4, <2>1, <2>2
<1>5. ASSUME NEW r \in Requests, GatewayDecides(r) \/ GatewayAnswers(r)
      PROVE  TypeOK'
  <2>1. CASE GatewayDecides(r)
    BY <2>1 DEF GatewayDecides
  <2>2. CASE GatewayAnswers(r)
    BY <2>2 DEF GatewayAnswers
  <2> QED
    BY <1>5, <2>1, <2>2
<1>6. CASE Crash
  <2>1. \A f \in Files : file'[f] \in {file[f]} \cup UNION {Torn(r) : r \in Writers(f)}
    BY <1>6 DEF Crash, Files
  <2>2. \A f \in Files : file'[f] \in Texts
    <3>1. \A r \in Requests : \A new \in Torn(r) : new \in Texts
      BY TornType
    <3>2. \A f \in Files : Writers(f) \subseteq Requests /\ file[f] \in Texts
      BY DEF Writers, Texts
    <3>3. ASSUME NEW f \in Files
          PROVE  file'[f] \in Texts
      <4>1. file'[f] = file[f] \/ \E r \in Writers(f) : file'[f] \in Torn(r)
        BY <2>1
      <4> QED
        BY <3>1, <3>2, <4>1
    <3> QED
      BY <3>3
  <2>3. file' = [f \in Files |-> file'[f]]
    BY <1>6 DEF Crash
  <2>4. file' \in [Files -> [state : {"empty", "garbage", "whole"}, list : Seq(Records)]]
    BY <2>2, <2>3 DEF Texts
  <2> QED
    BY <1>6, <2>4 DEF Crash
<1>7. ASSUME NEW r \in Requests, WriteFails(r)
      PROVE  TypeOK'
  <2>1. PICK new \in {file[File(r)]} \cup Torn(r) : file' = [file EXCEPT ![File(r)] = new]
    BY <1>7 DEF WriteFails
  <2>2. new \in Texts
    BY <2>1, TornType DEF Texts
  <2>3. file' \in [Files -> [state : {"empty", "garbage", "whole"}, list : Seq(Records)]]
    BY <2>1, <2>2 DEF Texts
  <2>4. arr' \in [Requests -> Seq(Records)] /\ disturbed' \in [Files -> BOOLEAN]
    BY <1>7 DEF WriteFails
  <2> QED
    BY <1>7, <2>3, <2>4 DEF WriteFails
<1>8. ASSUME NEW r \in Requests, OpenFails(r) \/ AnswerUnreadable(r)
      PROVE  TypeOK'
  <2>1. CASE OpenFails(r)
    BY <2>1 DEF OpenFails
  <2>2. CASE AnswerUnreadable(r)
    BY <2>2 DEF AnswerUnreadable
  <2> QED
    BY <1>8, <2>1, <2>2
<1>9. CASE UNCHANGED vars
  BY <1>9 DEF vars
<1> QED
  BY <1>1, <1>2, <1>3, <1>4, <1>5, <1>6, <1>7, <1>8, <1>9 DEF Next, Handle

\* No two handlers have an unmixed file open; if they do, both were inside.
LEMMA SoleStep ==
    ASSUME TypeOK, TypeOK', Sole, MixedIsDisturbed, Lone, [Next]_vars
    PROVE  Sole' /\ MixedIsDisturbed'
<1> USE FileType DEF TypeOK, ledger
<1>1. ASSUME NEW r \in Requests, OpenForWrite(r)
      PROVE  Sole' /\ MixedIsDisturbed'
  <2>1. /\ pc[r] = "holding" /\ pc' = [pc EXCEPT ![r] = "writing"]
        /\ file' = [file EXCEPT ![File(r)] = Empty]
        /\ disturbed' = disturbed
    BY <1>1 DEF OpenForWrite
  <2>2. CASE Writers(File(r)) = {}
    <3>1. UNCHANGED <<colliding, mixed>>
      BY <1>1, <2>2 DEF OpenForWrite
    <3>2. \A s \in Requests : File(s) = File(r) => pc[s] # "writing"
      BY <2>2 DEF Writers
    <3> QED
      BY <2>1, <3>1, <3>2 DEF Sole, MixedIsDisturbed, File
  <2>3. CASE Writers(File(r)) # {}
    <3>1. /\ colliding' = colliding \cup (Writers(File(r)) \cup {r})
          /\ mixed' = [mixed EXCEPT ![File(r)] = TRUE]
      BY <1>1, <2>3 DEF OpenForWrite
    <3>2. disturbed[File(r)]
      BY <2>1, <2>3 DEF Lone, Inside, Writers
    <3>3. \A s \in colliding' : s \in colliding \/ File(s) = File(r)
      BY <3>1 DEF Writers
    <3>4. Sole'
      <4> SUFFICES ASSUME NEW s \in Requests, ~mixed'[File(s)]
                   PROVE  /\ s \notin colliding'
                          /\ pc'[s] = "writing" =>
                                 /\ file'[File(s)] = Empty
                                 /\ \A t \in Requests :
                                        t # s /\ File(t) = File(s) => pc'[t] # "writing"
        BY DEF Sole, File
      <4>1. File(s) # File(r) /\ ~mixed[File(s)]
        BY <3>1
      <4> QED
        BY <2>1, <3>3, <4>1 DEF Sole
    <3>5. MixedIsDisturbed'
      BY <2>1, <3>1, <3>2 DEF MixedIsDisturbed
    <3> QED
      BY <3>4, <3>5
  <2> QED
    BY <2>2, <2>3
<1>2. ASSUME NEW r \in Requests, WriteAndClose(r) \/ WriteFails(r)
      PROVE  Sole' /\ MixedIsDisturbed'
  <2>1. /\ pc[r] = "writing" /\ pc'[r] # "writing"
        /\ \A s \in Requests : s # r => pc'[s] = pc[s]
        /\ \A f \in Files : f # File(r) => file'[f] = file[f]
        /\ colliding' = colliding \ {r} /\ mixed' = mixed
        /\ \A f \in Files : disturbed[f] => disturbed'[f]
    BY <1>2 DEF WriteAndClose, WriteFails
  <2>2. \A s \in Requests : pc'[s] = "writing" /\ ~mixed[File(s)] => File(s) # File(r)
    BY <2>1 DEF Sole
  <2> QED
    BY <2>1, <2>2 DEF Sole, MixedIsDisturbed, File
<1>3. ASSUME NEW r \in Requests,
             \/ ReadFile(r) \/ OpenFails(r) \/ Accept(r) \/ GatewayRaises(r)
             \/ GatewayDecides(r) \/ GatewayAnswers(r) \/ AnswerUnreadable(r)
      PROVE  Sole' /\ MixedIsDisturbed'
  <2>1. /\ UNCHANGED <<file, colliding, mixed>>
        /\ \A s \in Requests : pc'[s] = "writing" <=> pc[s] = "writing"
    <3>1. CASE ReadFile(r)
      BY <3>1 DEF ReadFile
    <3>2. CASE \/ OpenFails(r) \/ Accept(r) \/ GatewayRaises(r)
              \/ GatewayDecides(r) \/ GatewayAnswers(r) \/ AnswerUnreadable(r)
      BY <3>2 DEF OpenFails, Accept, GatewayRaises, GatewayDecides, GatewayAnswers,
                  AnswerUnreadable
    <3> QED
      BY <1>3, <3>1, <3>2
  <2>2. \A f \in Files : disturbed[f] => disturbed'[f]
    BY <1>3 DEF ReadFile, OpenFails, Accept, GatewayRaises, GatewayDecides, GatewayAnswers,
                AnswerUnreadable
  <2> QED
    BY <2>1, <2>2 DEF Sole, MixedIsDisturbed, File
<1>4. CASE Crash
  BY <1>4 DEF Crash, Sole, MixedIsDisturbed, File
<1>5. CASE UNCHANGED vars
  BY <1>5 DEF vars, Sole, MixedIsDisturbed, File
<1> QED
  BY <1>1, <1>2, <1>3, <1>4, <1>5 DEF Next, Handle

\* Only a read gives a handler an array.
LEMMA ArraysStay ==
    ASSUME TypeOK, [Next]_vars, \A r \in Requests : ~ReadFile(r), NEW s \in Requests
    PROVE  arr'[s] = arr[s] \/ arr'[s] = << >>
<1> USE DEF TypeOK
<1>1. ASSUME NEW r \in Requests, WriteAndClose(r) \/ WriteFails(r) \/ OpenFails(r)
      PROVE  arr'[s] = arr[s] \/ arr'[s] = << >>
  BY <1>1 DEF WriteAndClose, WriteFails, OpenFails
<1>2. ASSUME NEW r \in Requests,
             \/ OpenForWrite(r) \/ Accept(r) \/ GatewayRaises(r)
             \/ GatewayDecides(r) \/ GatewayAnswers(r) \/ AnswerUnreadable(r)
      PROVE  arr'[s] = arr[s]
  BY <1>2 DEF OpenForWrite, Accept, GatewayRaises, GatewayDecides, GatewayAnswers,
              AnswerUnreadable
<1>3. CASE Crash
  BY <1>3 DEF Crash
<1>4. CASE UNCHANGED vars
  BY <1>4 DEF vars
<1> QED
  BY <1>1, <1>2, <1>3, <1>4 DEF Next, Handle

\* What a step adds to a file and the arrays for it: at most the record of a handler
\* that reads.
LEMMA PresentStep ==
    ASSUME TypeOK, Sole, [Next]_vars, NEW f \in Files, ~mixed'[f], NEW x, Present(f, x)'
    PROVE  Present(f, x) \/ \E r \in Requests : ReadFile(r) /\ File(r) = f /\ x = Record(r)
<1> USE FileType DEF TypeOK
<1>1. CASE x \in ToSet(file'[f].list)
  <2>1. CASE file'[f] \in {file[f], Empty, Garbage}
    BY <1>1, <2>1, EmptySeqSet DEF Present, Empty, Garbage
  <2>2. ASSUME NEW r \in Requests, File(r) = f, file'[f] = Whole(arr[r])
        PROVE  Present(f, x)
    BY <1>1, <2>2 DEF Present, Whole
  <2> QED
    BY <2>1, <2>2, FileStep
<1>2. ASSUME NEW s \in Requests, File(s) = f, x \in ToSet(arr'[s])
      PROVE  Present(f, x) \/ \E r \in Requests : ReadFile(r) /\ File(r) = f /\ x = Record(r)
  <2>1. ASSUME NEW r \in Requests, ReadFile(r)
        PROVE  Present(f, x) \/ (x = Record(r) /\ File(r) = f)
    <3>1. file[File(r)].list \in Seq(Records)
      OBVIOUS
    <3>2. ToSet(Insert(r, file[File(r)].list)) = ToSet(file[File(r)].list) \cup {Record(r)}
      BY <3>1, InsertProperties
    <3>3. arr'[s] = IF s = r THEN Insert(r, file[File(r)].list) ELSE arr[s]
      BY <2>1 DEF ReadFile
    <3> QED
      BY <1>2, <3>2, <3>3 DEF Present
  <2>2. ASSUME \A r \in Requests : ~ReadFile(r)
        PROVE  arr'[s] = arr[s] \/ arr'[s] = << >>
    BY <2>2, ArraysStay
  <2> QED
    BY <1>2, <2>1, <2>2, EmptySeqSet DEF Present
<1> QED
  BY <1>1, <1>2 DEF Present, File

\* A read leaves every record where it is and puts its own on top.
LEMMA OrderStep ==
    ASSUME TypeOK, TypeOK', Sole, OutcomeOnTop, Fresh, [Next]_vars
    PROVE  OutcomeOnTop'
<1> USE FileType DEF TypeOK, ledger
<1>1. InOrder(<< >>)
  BY DEF InOrder
<1>2. ASSUME NEW r \in Requests, ReadFile(r), ~mixed[File(r)]
      PROVE  InOrder(Insert(r, file[File(r)].list))
  <2> DEFINE old == file[File(r)].list
             new == Insert(r, old)
  <2>1. old \in Seq(Records) /\ Len(old) \in Nat
    OBVIOUS
  <2>2. /\ new \in Seq(Records) /\ Len(new) = Len(old) + 1 /\ new[1] = Record(r)
        /\ \A i \in 2..(Len(old) + 1) : new[i] = old[i - 1]
    <3> HIDE DEF old
    <3> QED
      BY <2>1, InsertProperties
  <2>3. InOrder(old)
    BY <1>2 DEF OutcomeOnTop
  <2>4. \A i \in 1..Len(old) : old[i] \in Records /\ Present(File(r), old[i])
    BY <2>1 DEF Present, ToSet
  <2>5. pc[r] = "append"
    BY <1>2 DEF ReadFile
  <2>6. Record(r).req = r /\ Record(r).status = rec[r]
    BY DEF Record
  <2>7. \A k \in 1..Len(old) : old[k].req = r => rec[r] # "pending" /\ old[k].status = "pending"
    BY <1>2, <2>4, <2>5 DEF Fresh
  <2>8. InOrder(new)
    <3> HIDE DEF old, new
    <3>1. ASSUME NEW i \in DOMAIN new, NEW k \in DOMAIN new,
                 i < k, new[i].req = new[k].req
          PROVE  new[i].status # "pending" /\ new[k].status = "pending"
      <4>1. i \in 1..Len(new) /\ k \in 1..Len(new) /\ DOMAIN old = 1..Len(old)
        BY <2>1, <2>2
      <4>2. k \in 2..(Len(old) + 1) /\ k - 1 \in 1..Len(old)
        BY <2>1, <2>2, <3>1, <4>1
      <4>3. new[k] = old[k - 1]
        BY <2>2, <4>2
      <4>4. CASE i = 1
        BY <2>2, <2>6, <2>7, <3>1, <4>2, <4>3, <4>4
      <4>5. CASE i # 1
        <5>1. i - 1 \in 1..Len(old) /\ i - 1 < k - 1 /\ i \in 2..(Len(old) + 1)
          BY <2>1, <2>2, <3>1, <4>1, <4>2, <4>5
        <5>2. new[i] = old[i - 1]
          BY <2>2, <5>1
        <5>3. i - 1 \in DOMAIN old /\ k - 1 \in DOMAIN old /\ old[i - 1].req = old[k - 1].req
          BY <3>1, <4>1, <4>2, <4>3, <5>1, <5>2
        <5>4. old[i - 1].status # "pending" /\ old[k - 1].status = "pending"
          BY <2>3, <5>1, <5>3 DEF InOrder
        <5> QED
          BY <4>3, <5>2, <5>4
      <4> QED
        BY <4>4, <4>5
    <3> QED
      BY <3>1 DEF InOrder
  <2> QED
    BY <2>8
<1>3. ASSUME NEW f \in Files, ~mixed'[f]
      PROVE  InOrder(file'[f].list)
  <2>1. CASE file'[f] \in {file[f], Empty, Garbage}
    <3>1. ~mixed[f]
      BY <1>3, FileStep
    <3> QED
      BY <1>1, <2>1, <3>1 DEF OutcomeOnTop, Empty, Garbage
  <2>2. ASSUME NEW r \in Requests, File(r) = f, file'[f] = Whole(arr[r])
        PROVE  InOrder(file'[f].list)
    <3>1. ~mixed[f]
      BY <1>3, FileStep
    <3> QED
      BY <2>2, <3>1 DEF OutcomeOnTop, Whole
  <2> QED
    BY <1>3, <2>1, <2>2, FileStep
<1>4. ASSUME NEW s \in Requests, ~mixed'[File(s)]
      PROVE  InOrder(arr'[s])
  <2>1. ~mixed[File(s)]
    BY <1>4, FileStep
  <2>2. ASSUME NEW r \in Requests, ReadFile(r)
        PROVE  InOrder(arr'[s])
    <3>1. arr'[s] = IF s = r THEN Insert(r, file[File(r)].list) ELSE arr[s]
      BY <2>2 DEF ReadFile
    <3>2. InOrder(arr[s])
      BY <2>1 DEF OutcomeOnTop
    <3>3. CASE s = r
      BY <1>2, <2>1, <2>2, <3>1, <3>3
    <3> QED
      BY <3>1, <3>2, <3>3
  <2>3. ASSUME \A r \in Requests : ~ReadFile(r)
        PROVE  arr'[s] = arr[s] \/ arr'[s] = << >>
    BY <2>3, ArraysStay
  <2>4. InOrder(arr[s])
    BY <2>1 DEF OutcomeOnTop
  <2> QED
    BY <1>1, <2>2, <2>3, <2>4
<1> QED
  BY <1>3, <1>4 DEF OutcomeOnTop, File

\* What each request has come to allows its records to be where they are.
LEMMA FreshStep ==
    ASSUME TypeOK, TypeOK', Sole, Forwarded, Fresh, [Next]_vars
    PROVE  Forwarded' /\ Fresh'
<1> USE FileType DEF TypeOK, ledger
<1>1. \A f \in Files : ~mixed'[f] => ~mixed[f]
  BY FileStep
<1>2. \A f \in Files, x \in Records : ~mixed'[f] /\ Present(f, x)' =>
          Present(f, x) \/ \E r \in Requests : ReadFile(r) /\ File(r) = f /\ x = Record(r)
  BY PresentStep
<1>3. \A s \in Requests : Record(s).req = s /\ Record(s).status = rec[s]
  BY DEF Record
<1>4. ASSUME NEW r \in Requests, ReadFile(r)
      PROVE  Forwarded' /\ Fresh'
  <2>1. \A s \in Requests : ReadFile(s) => s = r
    BY <1>4 DEF ReadFile
  <2>2. rec' = rec /\ pc' = [pc EXCEPT ![r] = "holding"] /\ pc[r] = "append"
    BY <1>4 DEF ReadFile
  <2>3. \A f \in Files, x \in Records : ~mixed'[f] /\ Present(f, x)' =>
            Present(f, x) \/ (x.req = r /\ x.status = rec[r])
    BY <1>2, <1>3, <2>1
  <2>4. Forwarded'
    BY <2>2 DEF Forwarded
  <2>5. Fresh'
    BY <1>1, <2>2, <2>3 DEF Fresh, File
  <2> QED
    BY <2>4, <2>5
<1>5. ASSUME \A r \in Requests : ~ReadFile(r)
      PROVE  Forwarded' /\ Fresh'
  <2>1. \A f \in Files, x \in Records : ~mixed'[f] /\ Present(f, x)' => Present(f, x)
    BY <1>2, <1>5
  <2>2. ASSUME NEW s \in Requests
        PROVE  \/ /\ rec'[s] = rec[s]
                  /\ \/ pc'[s] \in {pc[s], "writing", "answered", "lost"}
                     \/ pc'[s] = "forward" /\ rec[s] = "pending"
                     \/ pc'[s] = "append" /\ pc[s] = "idle"
               \/ pc[s] = "forward" /\ pc'[s] = "append" /\ rec'[s] # "pending"
    <3>1. CASE Crash
      BY <3>1 DEF Crash
    <3>2. ASSUME NEW r \in Requests, GatewayRaises(r) \/ GatewayAnswers(r)
          PROVE  \/ rec'[s] = rec[s] /\ pc'[s] = pc[s]
                 \/ pc[s] = "forward" /\ pc'[s] = "append" /\ rec'[s] # "pending"
      BY <3>2 DEF GatewayRaises, GatewayAnswers
    <3>3. ASSUME NEW r \in Requests,
                 \/ OpenForWrite(r) \/ WriteAndClose(r) \/ WriteFails(r) \/ OpenFails(r)
          PROVE  /\ rec'[s] = rec[s]
                 /\ \/ pc'[s] \in {pc[s], "writing", "answered"}
                    \/ pc'[s] = "forward" /\ rec[s] = "pending"
      BY <3>3 DEF OpenForWrite, WriteAndClose, WriteFails, OpenFails
    <3>4. ASSUME NEW r \in Requests,
                 Accept(r) \/ GatewayDecides(r) \/ AnswerUnreadable(r)
          PROVE  /\ rec'[s] = rec[s]
                 /\ \/ pc'[s] \in {pc[s], "answered"}
                    \/ pc'[s] = "append" /\ pc[s] = "idle"
      BY <3>4 DEF Accept, GatewayDecides, AnswerUnreadable
    <3>5. CASE UNCHANGED vars
      BY <3>5 DEF vars
    <3> QED
      BY <1>5, <3>1, <3>2, <3>3, <3>4, <3>5 DEF Next, Handle
  <2>3. Forwarded'
    BY <2>2 DEF Forwarded
  <2>4. Fresh'
    <3> SUFFICES ASSUME NEW s \in Requests, ~mixed'[File(s)]
                 PROVE  /\ rec'[s] = "pending" /\ pc'[s] \in {"idle", "append"} =>
                               \A x \in Records : Present(File(s), x)' => x.req # s
                        /\ rec'[s] = "pending" \/ pc'[s] = "append" =>
                               \A x \in Records : Present(File(s), x)' /\ x.req = s
                                                     => x.status = "pending"
      BY DEF Fresh, File, Present
    <3>1. \A x \in Records : Present(File(s), x)' => Present(File(s), x)
      BY <2>1
    <3>2. ~mixed[File(s)]
      BY <1>1
    <3>3. CASE rec'[s] = rec[s]
      <4>1. /\ rec[s] = "pending" /\ pc[s] \in {"idle", "append"} =>
                   \A x \in Records : Present(File(s), x) => x.req # s
            /\ rec[s] = "pending" \/ pc[s] = "append" =>
                   \A x \in Records : Present(File(s), x) /\ x.req = s => x.status = "pending"
        BY <3>2 DEF Fresh
      <4>2. pc'[s] = "idle" => pc[s] = "idle"
        BY <2>2, <3>3
      <4>3. pc'[s] = "append" => pc[s] = "append" \/ (pc[s] = "idle" /\ rec[s] = "pending")
                                 \/ (pc[s] = "forward" /\ rec'[s] # "pending")
        BY <2>2, <3>3 DEF Forwarded
      <4>4. pc[s] = "forward" => rec[s] = "pending"
        BY DEF Forwarded
      <4> HIDE DEF Present, Records
      <4> QED
        BY <3>1, <3>3, <4>1, <4>2, <4>3, <4>4
    <3>4. CASE pc[s] = "forward" /\ pc'[s] = "append" /\ rec'[s] # "pending"
      BY <3>1, <3>2, <3>4 DEF Fresh, Forwarded
    <3> QED
      BY <2>2, <3>3, <3>4
  <2> QED
    BY <2>3, <2>4
<1> QED
  BY <1>4, <1>5

\* One handler at a time keeps every record.
LEMMA LoneStep ==
    ASSUME TypeOK, TypeOK', Sole, MixedIsDisturbed, Lone, KeptUnlessDisturbed, [Next]_vars
    PROVE  Lone' /\ KeptUnlessDisturbed'
<1> USE FileType DEF TypeOK, ledger
<1>1. ASSUME NEW r \in Requests, ReadFile(r)
      PROVE  Lone' /\ KeptUnlessDisturbed'
  <2> DEFINE f == File(r)
  <2>1. file[f].list \in Seq(Records)
    OBVIOUS
  <2>2. ToSet(Insert(r, file[f].list)) = ToSet(file[f].list) \cup {Record(r)}
    BY <2>1, InsertProperties
  <2>3. /\ file' = file /\ rec' = rec /\ appended' = appended
        /\ pc[r] = "append" /\ pc' = [pc EXCEPT ![r] = "holding"]
        /\ \A s \in Requests : arr'[s] = IF s = r THEN Insert(r, file[f].list) ELSE arr[s]
        /\ \A g \in Files : disturbed'[g] = IF g = f THEN disturbed[f] \/ Others(r) # {}
                                                     ELSE disturbed[g]
    BY <1>1 DEF ReadFile
  <2>4. \A s \in Requests : Record(s)' = Record(s)
    BY <2>3 DEF Record
  <2>5. ASSUME ~disturbed'[f]
        PROVE  /\ ~disturbed[f]
               /\ \A s \in Requests : s # r /\ File(s) = f => ~Inside(s)
               /\ ToSet(arr'[r]) = appended[f] \cup {Record(r)}
    <3>1. ~disturbed[f] /\ Others(r) = {}
      BY <2>3, <2>5
    <3>2. \A s \in Requests : s # r /\ File(s) = f => ~Inside(s)
      BY <3>1 DEF Others, Inside
    <3>3. ToSet(file[f].list) = appended[f]
      BY <2>3, <3>1, <3>2 DEF KeptUnlessDisturbed, Inside
    <3> QED
      BY <2>2, <2>3, <3>1, <3>2, <3>3
  <2>6. Lone'
    <3> SUFFICES ASSUME NEW t \in Requests, Inside(t)', ~disturbed'[File(t)]
                 PROVE  /\ \A s \in Requests : s # t /\ File(s) = File(t) => ~Inside(s)'
                        /\ ToSet(arr'[t]) = appended'[File(t)] \cup {Record(t)'}
                        /\ pc'[t] = "writing" => file'[File(t)] = Empty
      BY DEF Lone, File
    <3>1. CASE t = r
      BY <2>3, <2>4, <2>5, <3>1 DEF Inside
    <3>2. CASE t # r /\ File(t) = f
      BY <2>3, <2>5, <3>2 DEF Inside
    <3>3. CASE t # r /\ File(t) # f
      <4>1. Inside(t) /\ ~disturbed[File(t)]
        BY <2>3, <3>3 DEF Inside
      <4>2. \A s \in Requests : File(s) = File(t) => s # r
        BY <3>3
      <4> QED
        BY <2>3, <2>4, <3>3, <4>1, <4>2 DEF Lone, Inside
    <3> QED
      BY <3>1, <3>2, <3>3
  <2>7. KeptUnlessDisturbed'
    <3> SUFFICES ASSUME NEW g \in Files, ~disturbed'[g],
                        \A s \in Requests : File(s) = g => pc'[s] # "writing"
                 PROVE  ToSet(file'[g].list) = appended'[g]
      BY DEF KeptUnlessDisturbed, File
    <3>1. ~disturbed[g] /\ \A s \in Requests : File(s) = g => pc[s] # "writing"
      BY <2>3
    <3> QED
      BY <2>3, <3>1 DEF KeptUnlessDisturbed
  <2> QED
    BY <2>6, <2>7
<1>2. ASSUME NEW r \in Requests, OpenForWrite(r)
      PROVE  Lone' /\ KeptUnlessDisturbed'
  <2>1. /\ pc[r] = "holding" /\ pc' = [pc EXCEPT ![r] = "writing"]
        /\ file' = [file EXCEPT ![File(r)] = Empty]
        /\ rec' = rec /\ arr' = arr /\ appended' = appended /\ disturbed' = disturbed
    BY <1>2 DEF OpenForWrite
  <2>2. \A s \in Requests : Record(s)' = Record(s) /\ (Inside(s)' <=> Inside(s))
    BY <2>1 DEF Record, Inside
  <2>3. \A s \in Requests : pc'[s] = "writing" => s = r \/ pc[s] = "writing"
    BY <2>1
  <2>4. Lone'
    <3> SUFFICES ASSUME NEW t \in Requests, Inside(t), ~disturbed[File(t)]
                 PROVE  /\ \A s \in Requests : s # t /\ File(s) = File(t) => ~Inside(s)
                        /\ ToSet(arr[t]) = appended[File(t)] \cup {Record(t)}
                        /\ pc'[t] = "writing" => file'[File(t)] = Empty
      BY <2>1, <2>2 DEF Lone, File
    <3> QED
      BY <2>1, <2>3 DEF Lone
  <2>5. KeptUnlessDisturbed'
    <3> SUFFICES ASSUME NEW g \in Files, ~disturbed[g],
                        \A s \in Requests : File(s) = g => pc'[s] # "writing"
                 PROVE  ToSet(file'[g].list) = appended[g]
      BY <2>1 DEF KeptUnlessDisturbed, File
    <3>1. g # File(r) /\ \A s \in Requests : File(s) = g => pc[s] # "writing"
      BY <2>1
    <3> QED
      BY <2>1, <3>1 DEF KeptUnlessDisturbed
  <2> QED
    BY <2>4, <2>5
<1>3. ASSUME NEW r \in Requests, WriteAndClose(r)
      PROVE  Lone' /\ KeptUnlessDisturbed'
  <2> DEFINE f == File(r)
  <2>1. PICK new \in {Whole(arr[r])} \cup Torn(r) :
            /\ file' = [file EXCEPT ![f] = new]
            /\ r \notin colliding => new = Whole(arr[r])
    BY <1>3 DEF WriteAndClose
  <2>2. /\ pc[r] = "writing" /\ pc'[r] \in {"forward", "answered"}
        /\ \A s \in Requests : s # r => pc'[s] = pc[s] /\ arr'[s] = arr[s]
        /\ rec' = rec /\ disturbed' = disturbed
        /\ \A g \in Files : appended'[g] = IF g = f THEN appended[f] \cup {Record(r)}
                                                    ELSE appended[g]
    BY <1>3 DEF WriteAndClose
  <2>3. \A s \in Requests : Record(s)' = Record(s)
    BY <2>2 DEF Record
  <2>4. ~disturbed[f] =>
            /\ \A s \in Requests : s # r /\ File(s) = f => ~Inside(s)
            /\ ToSet(arr[r]) = appended[f] \cup {Record(r)}
            /\ file[f] = Empty
    BY <2>2 DEF Lone, Inside
  <2>5. ~disturbed[f] => file'[f].list = arr[r]
    <3>1. ~disturbed[f] => new = Whole(arr[r])
      BY <2>1 DEF Sole, MixedIsDisturbed
    <3> QED
      BY <2>1, <3>1 DEF Whole
  <2>6. Lone'
    <3> SUFFICES ASSUME NEW t \in Requests, Inside(t)', ~disturbed[File(t)]
                 PROVE  /\ \A s \in Requests : s # t /\ File(s) = File(t) => ~Inside(s)'
                        /\ ToSet(arr'[t]) = appended'[File(t)] \cup {Record(t)'}
                        /\ pc'[t] = "writing" => file'[File(t)] = Empty
      BY <2>2 DEF Lone, File
    <3>1. t # r /\ Inside(t)
      BY <2>2 DEF Inside
    <3>2. File(t) # f
      BY <2>4, <3>1
    <3>3. \A s \in Requests : File(s) = File(t) => (Inside(s)' <=> Inside(s))
      BY <2>2, <3>2 DEF Inside
    <3>4. file'[File(t)] = file[File(t)] /\ appended'[File(t)] = appended[File(t)]
      BY <2>1, <2>2, <3>2
    <3> QED
      BY <2>2, <2>3, <3>1, <3>3, <3>4 DEF Lone
  <2>7. KeptUnlessDisturbed'
    <3> SUFFICES ASSUME NEW g \in Files, ~disturbed[g],
                        \A s \in Requests : File(s) = g => pc'[s] # "writing"
                 PROVE  ToSet(file'[g].list) = appended'[g]
      BY <2>2 DEF KeptUnlessDisturbed, File
    <3>1. CASE g = f
      BY <2>2, <2>4, <2>5, <3>1
    <3>2. CASE g # f
      <4>1. \A s \in Requests : File(s) = g => pc[s] # "writing"
        BY <2>2, <3>2
      <4>2. file'[g] = file[g] /\ appended'[g] = appended[g]
        BY <2>1, <2>2, <3>2
      <4> QED
        BY <4>1, <4>2 DEF KeptUnlessDisturbed
    <3> QED
      BY <3>1, <3>2
  <2> QED
    BY <2>6, <2>7
<1>4. ASSUME NEW r \in Requests,
             Accept(r) \/ GatewayRaises(r) \/ GatewayDecides(r) \/ GatewayAnswers(r)
      PROVE  Lone' /\ KeptUnlessDisturbed'
  <2>1. /\ UNCHANGED <<file, arr, appended, disturbed>>
        /\ \A s \in Requests : pc'[s] = pc[s] \/ pc'[s] = "append"
        /\ \A s \in Requests : Inside(s)' => rec'[s] = rec[s]
    BY <1>4 DEF Accept, GatewayRaises, GatewayDecides, GatewayAnswers, Inside
  <2>2. \A s \in Requests : Inside(s)' => Inside(s) /\ Record(s)' = Record(s) /\ pc'[s] = pc[s]
    BY <2>1 DEF Inside, Record
  <2>3. \A s \in Requests : pc[s] = "writing" => pc'[s] = "writing"
    BY <1>4 DEF Accept, GatewayRaises, GatewayDecides, GatewayAnswers
  <2>4. Lone'
    BY <2>1, <2>2 DEF Lone, File
  <2>5. KeptUnlessDisturbed'
    BY <2>1, <2>3 DEF KeptUnlessDisturbed, File
  <2> QED
    BY <2>4, <2>5
<1>7. ASSUME NEW r \in Requests, OpenFails(r) \/ AnswerUnreadable(r) \/ WriteFails(r)
      PROVE  Lone' /\ KeptUnlessDisturbed'
  <2>1. /\ UNCHANGED <<rec, appended>>
        /\ ~Inside(r)' /\ pc'[r] # "writing"
        /\ \A s \in Requests : s # r => pc'[s] = pc[s] /\ arr'[s] = arr[s]
        /\ \A f \in Files : f # File(r) => file'[f] = file[f] /\ disturbed'[f] = disturbed[f]
        /\ disturbed'[File(r)] \/ (pc[r] # "writing" /\ UNCHANGED <<file, disturbed>>)
    BY <1>7 DEF OpenFails, AnswerUnreadable, WriteFails, Inside
  <2>2. \A s \in Requests : Inside(s)' => s # r /\ Inside(s) /\ Record(s)' = Record(s)
    BY <2>1 DEF Inside, Record
  <2>3. \A f \in Files : ~disturbed'[f] => ~disturbed[f] /\ file'[f] = file[f]
    BY <2>1
  <2>4. \A s \in Requests : ~disturbed'[File(s)] => (pc'[s] = "writing" <=> pc[s] = "writing")
    BY <2>1
  <2>5. Lone'
    <3> SUFFICES ASSUME NEW t \in Requests, Inside(t)', ~disturbed'[File(t)]
                 PROVE  /\ \A s \in Requests : s # t /\ File(s) = File(t) => ~Inside(s)'
                        /\ ToSet(arr'[t]) = appended'[File(t)] \cup {Record(t)'}
                        /\ pc'[t] = "writing" => file'[File(t)] = Empty
      BY DEF Lone, File
    <3>1. t # r /\ Inside(t) /\ ~disturbed[File(t)] /\ pc'[t] = pc[t] /\ arr'[t] = arr[t]
      BY <2>1, <2>2, <2>3
    <3>2. file'[File(t)] = file[File(t)] /\ Record(t)' = Record(t) /\ appended' = appended
      BY <2>1, <2>2, <2>3
    <3>3. \A s \in Requests : Inside(s)' => Inside(s)
      BY <2>2
    <3> QED
      BY <3>1, <3>2, <3>3 DEF Lone
  <2>6. KeptUnlessDisturbed'
    <3> SUFFICES ASSUME NEW f \in Files, ~disturbed'[f],
                        \A s \in Requests : File(s) = f => pc'[s] # "writing"
                 PROVE  ToSet(file'[f].list) = appended'[f]
      BY DEF KeptUnlessDisturbed, File
    <3>1. ~disturbed[f] /\ \A s \in Requests : File(s) = f => pc[s] # "writing"
      BY <2>3, <2>4
    <3> QED
      BY <2>1, <2>3, <3>1 DEF KeptUnlessDisturbed
  <2> QED
    BY <2>5, <2>6
<1>5. CASE Crash
  BY <1>5 DEF Crash, Lone, KeptUnlessDisturbed, File
<1>6. CASE UNCHANGED vars
  BY <1>6 DEF vars, Lone, KeptUnlessDisturbed, Inside, Record, File
<1> QED
  BY <1>1, <1>2, <1>3, <1>4, <1>5, <1>6, <1>7 DEF Next, Handle

LEMMA Inductive == Spec => []IInv
<1>1. IInv /\ [Next]_vars => IInv'
  BY TypeStep, SoleStep, OrderStep, FreshStep, LoneStep DEF IInv
<1> QED
  BY InitIInv, <1>1, PTL DEF Spec
-----------------------------------------------------------------------------
\* Type correctness of the file-backed endpoints.
THEOREM TypeCorrect == Spec => []TypeOK
<1>1. IInv => TypeOK
  BY DEF IInv
<1> QED
  BY Inductive, <1>1, PTL

\* However appends overlap, fail and get lost: in a file that no two handlers had
\* open at once no pending record stands above its outcome and no record is twice.
THEOREM OutcomeOnTopInv == Spec => []OutcomeOnTop
<1>1. IInv => OutcomeOnTop
  BY DEF IInv
<1> QED
  BY Inductive, <1>1, PTL

\* While no two appends to a file overlap or fail and the server lives, every record
\* appended to it is in it.
THEOREM KeptUnlessDisturbedInv == Spec => []KeptUnlessDisturbed
<1>1. IInv => KeptUnlessDisturbed
  BY DEF IInv
<1> QED
  BY Inductive, <1>1, PTL
-----------------------------------------------------------------------------
(***************************************************************************)
(* An append is atomic while no other one overlaps it.                     *)
(***************************************************************************)
\* What a lone handler read: what it holds is that, with its record in front.
WasRead(r) == IF pc[r] = "holding" THEN file[File(r)].list ELSE Tail(arr[r])
Held ==
    \A r \in Requests :
        Inside(r) /\ ~disturbed[File(r)] => arr[r] = Insert(r, WasRead(r))

LEMMA TailOfInsert ==
    ASSUME TypeOK, NEW r \in Requests, NEW list \in Seq(Records)
    PROVE  Tail(Insert(r, list)) = list
<1> DEFINE new == Insert(r, list)
           rest == Tail(new)
<1>1. /\ new \in Seq(Records) /\ Len(new) = Len(list) + 1
      /\ \A i \in 2..(Len(list) + 1) : new[i] = list[i - 1]
  BY InsertProperties
<1> HIDE DEF new
<1>2. Len(list) \in Nat
  OBVIOUS
<1>3. /\ rest \in Seq(Records) /\ Len(rest) = Len(list)
      /\ \A i \in 1..Len(rest) : rest[i] = new[i + 1]
  BY <1>1, <1>2, EmptySeq, HeadTailProperties
<1> HIDE DEF rest
<1>4. ASSUME NEW i \in 1..Len(rest) PROVE rest[i] = list[i]
  <2>1. i + 1 \in 2..(Len(list) + 1) /\ (i + 1) - 1 = i
    BY <1>2, <1>3
  <2>2. new[i + 1] = list[(i + 1) - 1]
    BY <1>1, <2>1
  <2> QED
    BY <1>3, <2>1, <2>2
<1>5. rest = list
  BY <1>3, <1>4, SeqEqual
<1> QED
  BY <1>5 DEF rest, new

LEMMA HeldStep ==
    ASSUME IInv, Held, [Next]_vars
    PROVE  Held'
<1> USE FileType DEF IInv, TypeOK, ledger
<1>1. ASSUME NEW r \in Requests, ReadFile(r)
      PROVE  Held'
  <2>1. /\ file' = file /\ rec' = rec
        /\ pc' = [pc EXCEPT ![r] = "holding"]
        /\ arr' = [arr EXCEPT ![r] = Insert(r, file[File(r)].list)]
        /\ \A f \in Files : ~disturbed'[f] => ~disturbed[f]
    BY <1>1 DEF ReadFile
  <2>2. \A t \in Requests : Inside(t)' => t = r \/ (Inside(t) /\ pc'[t] = pc[t])
    BY <2>1 DEF Inside
  <2> QED
    BY <2>1, <2>2 DEF Held, WasRead, Insert, Record, File
<1>2. ASSUME NEW r \in Requests, OpenForWrite(r)
      PROVE  Held'
  <2>1. /\ pc[r] = "holding" /\ pc' = [pc EXCEPT ![r] = "writing"]
        /\ file' = [file EXCEPT ![File(r)] = Empty]
        /\ UNCHANGED <<rec, arr, disturbed>>
    BY <1>2 DEF OpenForWrite
  <2> SUFFICES ASSUME NEW t \in Requests, Inside(t), ~disturbed[File(t)]
               PROVE  arr[t] = Insert(t, WasRead(t)')
    BY <2>1 DEF Held, Inside, Insert, Record, File
  <2>2. arr[t] = Insert(t, WasRead(t))
    BY DEF Held
  <2>3. CASE t = r
    <3>1. WasRead(r) = file[File(r)].list /\ WasRead(r)' = Tail(arr[r])
      BY <2>1 DEF WasRead
    <3>2. Tail(Insert(r, file[File(r)].list)) = file[File(r)].list
      BY TailOfInsert
    <3> QED
      BY <2>2, <2>3, <3>1, <3>2
  <2>4. CASE t # r
    <3>1. File(t) # File(r)
      BY <2>1, <2>4 DEF Lone, Inside
    <3> QED
      BY <2>1, <2>2, <2>4, <3>1 DEF WasRead, File
  <2> QED
    BY <2>3, <2>4
<1>3. ASSUME NEW r \in Requests, WriteAndClose(r)
      PROVE  Held'
  <2>1. /\ pc[r] = "writing" /\ pc'[r] \in {"forward", "answered"}
        /\ \A s \in Requests : s # r => pc'[s] = pc[s] /\ arr'[s] = arr[s]
        /\ \A f \in Files : f # File(r) => file'[f] = file[f]
        /\ UNCHANGED <<rec, disturbed>>
    BY <1>3 DEF WriteAndClose
  <2> SUFFICES ASSUME NEW t \in Requests, Inside(t)', ~disturbed[File(t)]
               PROVE  arr'[t] = Insert(t, WasRead(t)')
    BY <2>1 DEF Held, Insert, Record, File
  <2>2. t # r /\ Inside(t)
    BY <2>1 DEF Inside
  <2>3. File(t) # File(r)
    BY <2>1, <2>2 DEF Lone, Inside
  <2>4. arr[t] = Insert(t, WasRead(t))
    BY <2>2 DEF Held
  <2> QED
    BY <2>1, <2>2, <2>3, <2>4 DEF WasRead, File
<1>4. ASSUME NEW r \in Requests,
             Accept(r) \/ GatewayRaises(r) \/ GatewayDecides(r) \/ GatewayAnswers(r)
      PROVE  Held'
  <2>1. /\ UNCHANGED <<file, arr, disturbed>>
        /\ \A s \in Requests : Inside(s)' =>
               Inside(s) /\ rec'[s] = rec[s] /\ pc'[s] = pc[s]
    BY <1>4 DEF Accept, GatewayRaises, GatewayDecides, GatewayAnswers, Inside
  <2> QED
    BY <2>1 DEF Held, WasRead, Insert, Record, File
<1>7. ASSUME NEW r \in Requests, OpenFails(r) \/ AnswerUnreadable(r) \/ WriteFails(r)
      PROVE  Held'
  <2>1. /\ rec' = rec /\ ~Inside(r)'
        /\ \A s \in Requests : s # r => pc'[s] = pc[s] /\ arr'[s] = arr[s]
        /\ \A f \in Files : ~disturbed'[f] => ~disturbed[f] /\ file'[f] = file[f]
    BY <1>7 DEF OpenFails, AnswerUnreadable, WriteFails, Inside
  <2>2. \A s \in Requests : Inside(s)' => s # r /\ Inside(s)
    BY <2>1 DEF Inside
  <2> QED
    BY <2>1, <2>2 DEF Held, WasRead, Insert, Record, File
<1>5. CASE Crash
  BY <1>5 DEF Crash, Held, File
<1>6. CASE UNCHANGED vars
  BY <1>6 DEF vars, Held, WasRead, Inside, Insert, Record, File
<1> QED
  BY <1>1, <1>2, <1>3, <1>4, <1>5, <1>6, <1>7 DEF Next, Handle

\* A file nobody has open stands for itself, one with a single writer for what
\* that one read.
Stands(f) ==
    /\ (\A s \in Requests : File(s) = f => pc[s] # "writing") =>
           Contents(f) = file[f].list
    /\ \A r \in Requests :
           /\ File(r) = f /\ pc[r] = "writing"
           /\ \A s \in Requests : s # r /\ File(s) = f => pc[s] # "writing"
           => Contents(f) = Tail(arr[r])

LEMMA ContentsOfFile == \A f \in Files : Stands(f)
<1> SUFFICES ASSUME NEW f \in Files PROVE Stands(f)
  OBVIOUS
<1> DEFINE writers == Writers(f)
<1>1. ASSUME \A s \in Requests : File(s) = f => pc[s] # "writing"
      PROVE  Contents(f) = file[f].list
  <2>1. writers = {}
    BY <1>1 DEF Writers
  <2> QED
    BY <2>1 DEF Contents
<1>2. ASSUME NEW r \in Requests, File(r) = f, pc[r] = "writing",
             \A s \in Requests : s # r /\ File(s) = f => pc[s] # "writing"
      PROVE  Contents(f) = Tail(arr[r])
  <2>1. writers = {r}
    BY <1>2 DEF Writers
  <2>2. writers # {} /\ (CHOOSE s \in writers : TRUE) = r
    BY <2>1
  <2> QED
    BY <2>2 DEF Contents
<1> QED
  BY <1>1, <1>2 DEF Stands

\* A step that leaves the open files and the arrays of their writers as they are
\* does not change what any file stands for.
LEMMA SameContents ==
    ASSUME NEW f \in Files, file'[f] = file[f],
           \A s \in Requests : File(s) = f =>
               /\ pc'[s] = "writing" <=> pc[s] = "writing"
               /\ pc[s] = "writing" => arr'[s] = arr[s]
    PROVE  Contents(f)' = Contents(f)
<1> DEFINE writers == Writers(f)
<1>1. writers' = writers
  BY DEF Writers, File
<1>2. \A s \in writers : arr'[s] = arr[s]
  BY DEF Writers
<1>3. CASE writers = {}
  BY <1>1, <1>3 DEF Contents
<1>4. CASE writers # {}
  <2>1. (CHOOSE s \in writers : TRUE) \in writers
    BY <1>4
  <2>2. Contents(f) = Tail(arr[CHOOSE s \in writers : TRUE])
    BY <1>4 DEF Contents
  <2>3. Contents(f)' = Tail(arr'[CHOOSE s \in writers' : TRUE])
    BY <1>1, <1>4 DEF Contents
  <2> QED
    BY <1>1, <1>2, <2>1, <2>2, <2>3
<1> QED
  BY <1>3, <1>4

LEMMA ContentsAfter == (\A f \in Files : Stands(f))'
BY ContentsOfFile, PTL

LEMMA AtomicStep ==
    ASSUME IInv, Held, [Next]_vars, NEW f \in Files, ~disturbed'[f],
           Contents(f)' # Contents(f)
    PROVE  \E r \in Requests :
               File(r) = f /\ WriteAndClose(r) /\ Contents(f)' = Insert(r, Contents(f))
<1> USE FileType DEF IInv, TypeOK, ledger
<1> DEFINE Alone(r) == \A s \in Requests : s # r /\ File(s) = f => ~Inside(s)
<1>1. Stands(f) /\ Stands(f)'
  BY ContentsOfFile, ContentsAfter
<1>2. ASSUME NEW r \in Requests, ReadFile(r)
      PROVE  FALSE
  BY <1>2, SameContents DEF ReadFile
<1>3. ASSUME NEW r \in Requests, OpenForWrite(r)
      PROVE  FALSE
  <2>1. /\ pc[r] = "holding" /\ pc' = [pc EXCEPT ![r] = "writing"]
        /\ file' = [file EXCEPT ![File(r)] = Empty]
        /\ UNCHANGED <<arr, disturbed>>
    BY <1>3 DEF OpenForWrite
  <2>2. CASE File(r) = f
    <3>1. Alone(r) /\ arr[r] = Insert(r, file[f].list)
      BY <2>1, <2>2 DEF Lone, Held, WasRead, Inside
    <3>2. Contents(f) = file[f].list
      BY <1>1, <2>1, <3>1 DEF Stands, Inside
    <3>3. Contents(f)' = Tail(arr[r])
      BY <1>1, <2>1, <2>2, <3>1 DEF Stands, Inside, File
    <3> QED
      BY <3>1, <3>2, <3>3, TailOfInsert
  <2>3. CASE File(r) # f
    BY <2>1, <2>3, SameContents
  <2> QED
    BY <2>2, <2>3
<1>4. ASSUME NEW r \in Requests, WriteAndClose(r)
      PROVE  File(r) = f /\ Contents(f)' = Insert(r, Contents(f))
  <2>1. PICK new \in {Whole(arr[r])} \cup Torn(r) :
            /\ file' = [file EXCEPT ![File(r)] = new]
            /\ r \notin colliding => new = Whole(arr[r])
    BY <1>4 DEF WriteAndClose
  <2>2. /\ pc[r] = "writing" /\ pc'[r] # "writing"
        /\ \A s \in Requests : s # r => pc'[s] = pc[s] /\ arr'[s] = arr[s]
        /\ disturbed' = disturbed
    BY <1>4 DEF WriteAndClose
  <2>3. File(r) = f
    BY <2>1, <2>2, SameContents
  <2>4. /\ Alone(r) /\ file[f] = Empty
        /\ arr[r] = Insert(r, Tail(arr[r]))
    BY <2>2, <2>3 DEF Lone, Held, WasRead, Inside
  <2>5. file'[f].list = arr[r]
    <3>1. new = Whole(arr[r])
      BY <2>1, <2>2, <2>3 DEF Sole, MixedIsDisturbed
    <3> QED
      BY <2>1, <2>3, <3>1 DEF Whole
  <2>6. Contents(f) = Tail(arr[r])
    BY <1>1, <2>2, <2>3, <2>4 DEF Stands, Inside
  <2>7. Contents(f)' = file'[f].list
    BY <1>1, <2>2, <2>4 DEF Stands, Inside, File
  <2> QED
    BY <2>3, <2>4, <2>5, <2>6, <2>7
<1>5. ASSUME NEW r \in Requests,
             Accept(r) \/ GatewayRaises(r) \/ GatewayDecides(r) \/ GatewayAnswers(r)
      PROVE  FALSE
  <2>1. /\ UNCHANGED <<file, arr>>
        /\ \A s \in Requests : pc'[s] = "writing" <=> pc[s] = "writing"
    BY <1>5 DEF Accept, GatewayRaises, GatewayDecides, GatewayAnswers
  <2> QED
    BY <2>1, SameContents
<1>6. CASE Crash
  BY <1>6 DEF Crash
<1>7. ASSUME NEW r \in Requests, OpenFails(r) \/ AnswerUnreadable(r) \/ WriteFails(r)
      PROVE  FALSE
  <2>1. /\ file'[f] = file[f]
        /\ \A s \in Requests : File(s) = f =>
               /\ pc'[s] = "writing" <=> pc[s] = "writing"
               /\ pc[s] = "writing" => arr'[s] = arr[s]
    BY <1>7 DEF OpenFails, AnswerUnreadable, WriteFails
  <2> QED
    BY <2>1, SameContents
<1>8. CASE UNCHANGED vars
  BY <1>8, SameContents DEF vars
<1> QED
  BY <1>2, <1>3, <1>4, <1>5, <1>6, <1>7, <1>8 DEF Next, Handle

\* As long as no two appends to a file overlap or fail and the server lives, an
\* append puts its record in front of all the others in one step, and nothing else
\* changes the file.
THEOREM AppendIsAtomicStep == Spec => AppendIsAtomic
<1>1. Init => Held
  BY DEF Init, Held, Inside
<1>2. IInv /\ Held /\ [Next]_vars =>
          [\A f \in Files : ~disturbed'[f] /\ Contents(f)' # Contents(f) =>
              \E r \in Requests :
                  File(r) = f /\ WriteAndClose(r) /\ Contents(f)' = Insert(r, Contents(f))]_vars
  BY AtomicStep
<1> QED
  BY <1>1, <1>2, Inductive, HeldStep, PTL DEF Spec, AppendIsAtomic
=============================================================================
