------------------------ MODULE GatewayCalls_proofs ------------------------
(***************************************************************************)
(* The one-shot calls, for any number and mix of calls and any amount.     *)
(*                                                                         *)
(* An answer is the processor's verdict because the second half of a JSON  *)
(* text is the last piece of every reply (Replies): a reader that finds an *)
(* object has read it all.  The two payouts of an approval are counted by  *)
(* those that are still to be made (Money).                                *)
(***************************************************************************)
EXTENDS GatewayCalls, TLAPS, SequenceTheorems

\* Only the beginning of a JSON text has keys.
Pieces ==
    {q \in [kind : {"length", "mti", "open", "close"}, n : Nat,
            keys : SUBSET {"mti", "fields", "de39"}] : q.kind # "open" => q.keys = {}}

CloseIsLast(s) == \A i \in 1..Len(s) : s[i].kind = "close" => i = Len(s)

Functions ==
    /\ reply \in [Calls -> Seq(Pieces)]
    /\ arrived \in [Calls -> Nat]

Replies ==
    \A c \in Calls :
        /\ arrived[c] <= Len(reply[c])
        /\ reply[c] # << >> =>
               reply[c][1].kind = "length" /\ CloseIsLast(reply[c]) /\ code[c] \in Codes
        /\ \A i \in 1..Len(reply[c]) :
               reply[c][i].kind = "open" /\ Kind(c) = "payout" =>
                   "fields" \in reply[c][i].keys \/ code[c] = "30"
        /\ phase[c] \in {"idle", "http"} => reply[c] = << >>
        /\ phase[c] = "body" => arrived[c] >= 1
        /\ phase[c] \in {"header", "body", "paying"} => Kind(c) \in SocketKinds

Money ==
    \A c \in Calls :
        /\ phase[c] \in {"idle", "header", "body", "http"} =>
               tasks[c] = {} /\ paid[c] = 0 /\ answer[c] = "none"
        /\ phase[c] = "paying" => arrived[c] = Len(reply[c])
        /\ phase[c] = "paying" \/ tasks[c] # {} \/ paid[c] # 0 => code[c] = "00"
        /\ paid[c] <= 2 * amount[c]
        /\ tasks[c] # {} => paid[c] <= amount[c]
        /\ tasks[c] = {"task", "await"} => paid[c] = 0

IInv == TypeOK /\ Functions /\ Replies /\ Money /\ AnswerIsVerdict
-----------------------------------------------------------------------------
(***************************************************************************)
(* The replies.                                                            *)
(***************************************************************************)
\* A piece put before a stream.
LEMMA Prefixed ==
    ASSUME NEW S, NEW x \in S, NEW t \in Seq(S)
    PROVE  /\ <<x>> \o t \in Seq(S)
           /\ Len(<<x>> \o t) = 1 + Len(t)
           /\ (<<x>> \o t)[1] = x
           /\ \A i \in 1..Len(t) : (<<x>> \o t)[i + 1] = t[i]
<1>1. <<x>> \in Seq(S) /\ Len(<<x>>) = 1 /\ <<x>>[1] = x
  OBVIOUS
<1>2. /\ <<x>> \o t \in Seq(S)
      /\ Len(<<x>> \o t) = 1 + Len(t)
      /\ \A i \in 1..(1 + Len(t)) : (<<x>> \o t)[i] = IF i <= 1 THEN <<x>>[i] ELSE t[i - 1]
  BY <1>1, ConcatProperties
<1>3. Len(t) \in Nat
  OBVIOUS
<1>4. (<<x>> \o t)[1] = x
  BY <1>1, <1>2, <1>3
<1>5. ASSUME NEW i \in 1..Len(t)
      PROVE  (<<x>> \o t)[i + 1] = t[i]
  <2>1. i + 1 \in 1..(1 + Len(t)) /\ ~(i + 1 <= 1) /\ (i + 1) - 1 = i
    BY <1>3
  <2> QED
    BY <1>2, <2>1
<1> QED
  BY <1>2, <1>4, <1>5

LEMMA ReplyShape ==
    ASSUME NEW p \in Processors, NEW mti \in BOOLEAN
    PROVE  LET s == ReplyOf(p, mti) IN
           /\ s \in Seq(Pieces)
           /\ s # << >>
           /\ s[1].kind = "length"
           /\ CloseIsLast(s)
           /\ \A i \in 1..Len(s) : s[i].kind = "open" => s[i].keys = ReplyKeys[p]
<1> DEFINE O == Piece("open", 0, ReplyKeys[p])
           C == Piece("close", 0, {})
           J == Json(ReplyKeys[p])
           B == (IF ProcessorFrame(p, mti).mti THEN <<Mti>> ELSE << >>) \o J
           s == ReplyOf(p, mti)
<1>1. ReplyKeys[p] \in SUBSET {"mti", "fields", "de39"}
  BY DEF ReplyKeys, Processors
<1>2. /\ O \in Pieces /\ C \in Pieces /\ Mti \in Pieces
      /\ \A n \in Nat : Length(n) \in Pieces
  BY <1>1 DEF Pieces, Piece, Mti, Length
<1>3. /\ O.kind = "open" /\ O.keys = ReplyKeys[p] /\ C.kind = "close" /\ Mti.kind = "mti"
      /\ \A n : Length(n).kind = "length"
  BY DEF Piece, Mti, Length
<1>4. s = <<Length(Len(B))>> \o B
  BY DEF ReplyOf
<1>5. J = <<O, C>>
  BY DEF Json
<1> HIDE DEF O, C, J
<1>6. J \in Seq(Pieces) /\ Len(J) = 2 /\ J[1] = O /\ J[2] = C
  BY <1>2, <1>5
<1>7. CASE ProcessorFrame(p, mti).mti
  <2>1. B = <<Mti>> \o J
    BY <1>7
  <2> HIDE DEF B
  <2>2. /\ B \in Seq(Pieces) /\ Len(B) = 3
        /\ B[1] = Mti /\ B[2] = J[1] /\ B[3] = J[2]
    <3>1. /\ <<Mti>> \o J \in Seq(Pieces) /\ Len(<<Mti>> \o J) = 1 + Len(J)
          /\ (<<Mti>> \o J)[1] = Mti
          /\ \A i \in 1..Len(J) : (<<Mti>> \o J)[i + 1] = J[i]
      <4>1. Mti \in Pieces /\ J \in Seq(Pieces)
        BY <1>2, <1>6
      <4> QED
        BY <4>1, Prefixed
    <3>2. B[1 + 1] = J[1] /\ B[2 + 1] = J[2]
      BY <1>6, <2>1, <3>1
    <3> QED
      BY <1>6, <2>1, <3>1, <3>2
  <2>3. /\ s \in Seq(Pieces) /\ Len(s) = 4
        /\ s[1] = Length(3) /\ s[2] = Mti /\ s[3] = O /\ s[4] = C
    <3>1. /\ s \in Seq(Pieces) /\ Len(s) = 1 + Len(B) /\ s[1] = Length(Len(B))
          /\ \A i \in 1..Len(B) : s[i + 1] = B[i]
      BY <1>2, <1>4, <2>2, Prefixed
    <3>2. s[1 + 1] = B[1] /\ s[2 + 1] = B[2] /\ s[3 + 1] = B[3]
      BY <2>2, <3>1
    <3> QED
      BY <1>6, <2>2, <3>1, <3>2
  <2> HIDE DEF s
  <2>4. \A i \in 1..Len(s) : i \in {1, 2, 3, 4}
    BY <2>3
  <2>5. CloseIsLast(s) /\ \A i \in 1..Len(s) : s[i].kind = "open" => s[i].keys = ReplyKeys[p]
    BY <1>3, <2>3, <2>4 DEF CloseIsLast
  <2>6. s[1].kind = "length"
    BY <1>3, <2>3
  <2>7. s # << >>
    BY <2>3, EmptySeq
  <2> QED
    BY <2>3, <2>5, <2>6, <2>7 DEF s
<1>8. CASE ~ProcessorFrame(p, mti).mti
  <2>1. B = J
    BY <1>6, <1>8, ConcatEmptySeq
  <2> HIDE DEF B
  <2>2. /\ s \in Seq(Pieces) /\ Len(s) = 3
        /\ s[1] = Length(2) /\ s[2] = O /\ s[3] = C
    <3>1. /\ s \in Seq(Pieces) /\ Len(s) = 1 + Len(J) /\ s[1] = Length(Len(J))
          /\ \A i \in 1..Len(J) : s[i + 1] = J[i]
      BY <1>2, <1>4, <1>6, <2>1, Prefixed
    <3>2. s[1 + 1] = J[1] /\ s[2 + 1] = J[2]
      BY <1>6, <3>1
    <3> QED
      BY <1>6, <3>1, <3>2
  <2>3. \A i \in 1..Len(s) : i \in {1, 2, 3}
    BY <2>2
  <2>4. CloseIsLast(s) /\ \A i \in 1..Len(s) : s[i].kind = "open" => s[i].keys = ReplyKeys[p]
    BY <1>3, <2>2, <2>3 DEF CloseIsLast
  <2>5. s # << >> /\ s[1].kind = "length"
    BY <1>3, <2>2
  <2> QED
    BY <2>2, <2>4, <2>5
<1> QED
  BY <1>7, <1>8

\* A reader that finds an object in what it read has read the whole reply, and the
\* object begins with a piece of it.
LEMMA CutShape ==
    ASSUME NEW s \in Seq(Pieces), NEW a \in Nat, a <= Len(s), CloseIsLast(s),
           IsObject(Unprefixed(SubSeq(s, 2, a)))
    PROVE  /\ a = Len(s)
           /\ \E i \in 1..Len(s) : Unprefixed(SubSeq(s, 2, a))[1] = s[i] /\ s[i].kind = "open"
<1>1. Len(s) \in Nat /\ \A i \in 1..Len(s) : s[i] \in Pieces
  OBVIOUS
<1>2. PICK t : t = SubSeq(s, 2, a)
  OBVIOUS
<1>3. /\ t \in Seq(Pieces)
      /\ Len(t) = IF 2 <= a THEN a - 1 ELSE 0
      /\ \A i \in 1..(a - 1) : t[i] = s[i + 1]
  <2>1. \A i \in 2..a : s[i] \in Pieces
    BY <1>1
  <2>2. /\ t \in Seq(Pieces)
        /\ Len(t) = IF 2 <= a THEN a - 2 + 1 ELSE 0
        /\ \A i \in 1..(a - 2 + 1) : t[i] = s[2 + i - 1]
    BY <1>1, <1>2, <2>1, SubSeqProperties
  <2> QED
    BY <1>1, <2>2
<1>4. ASSUME NEW n \in {2, 3}, Len(t) = n, t[n].kind = "close"
      PROVE  a = n + 1 /\ a = Len(s) /\ t[n] = s[n + 1] /\ t[n - 1] = s[n]
  <2>1. a = n + 1
    BY <1>3, <1>4
  <2>2. n \in 1..(a - 1) /\ n - 1 \in 1..(a - 1) /\ n + 1 \in 1..Len(s) /\ (n - 1) + 1 = n
    BY <1>1, <2>1
  <2>3. t[n] = s[n + 1] /\ t[n - 1] = s[n]
    BY <1>3, <2>2
  <2>4. n + 1 = Len(s)
    BY <1>4, <2>2, <2>3 DEF CloseIsLast
  <2> QED
    BY <2>1, <2>3, <2>4
<1>5. CASE t # << >> /\ t[1].kind = "mti"
  <2>1. Unprefixed(t) = Tail(t) /\ IsObject(Tail(t))
    BY <1>2, <1>5 DEF Unprefixed
  <2>2. Len(Tail(t)) = Len(t) - 1 /\ \A i \in 1..Len(Tail(t)) : Tail(t)[i] = t[i + 1]
    BY <1>3, <1>5, HeadTailProperties
  <2>3. Len(Tail(t)) = 2 /\ Tail(t)[1].kind = "open" /\ Tail(t)[2].kind = "close"
    BY <2>1 DEF IsObject
  <2>4. Len(t) \in Nat
    BY <1>3
  <2>5. Len(t) = 3 /\ Tail(t)[1] = t[1 + 1] /\ Tail(t)[2] = t[2 + 1]
    BY <2>2, <2>3, <2>4
  <2>6. Len(t) = 3 /\ Tail(t)[1] = t[2] /\ Tail(t)[2] = t[3] /\ t[3].kind = "close"
    <3>1. 1 + 1 = 2 /\ 2 + 1 = 3
      OBVIOUS
    <3> QED
      BY <2>3, <2>5, <3>1
  <2>7. a = 4 /\ a = Len(s) /\ t[3 - 1] = s[3]
    BY <1>4, <2>6
  <2>8. 3 \in 1..Len(s) /\ t[2] = s[3]
    BY <1>1, <2>7
  <2>9. Unprefixed(t)[1] = s[3] /\ s[3].kind = "open"
    BY <2>1, <2>3, <2>6, <2>8
  <2> QED
    BY <1>2, <2>7, <2>8, <2>9
<1>6. CASE ~(t # << >> /\ t[1].kind = "mti")
  <2>1. Unprefixed(t) = t /\ IsObject(t)
    BY <1>2, <1>6 DEF Unprefixed
  <2>2. Len(t) = 2 /\ t[1].kind = "open" /\ t[2].kind = "close"
    BY <2>1 DEF IsObject
  <2>3. a = 3 /\ a = Len(s) /\ t[2 - 1] = s[2]
    BY <1>4, <2>2
  <2>4. 2 \in 1..Len(s) /\ Unprefixed(t)[1] = s[2] /\ s[2].kind = "open"
    BY <1>1, <2>1, <2>2, <2>3
  <2> QED
    BY <1>2, <2>3, <2>4
<1> QED
  BY <1>5, <1>6

LEMMA TailIsCut ==
    ASSUME NEW s \in Seq(Pieces), s # << >>
    PROVE  Tail(s) = SubSeq(s, 2, Len(s))
<1>1. /\ Tail(s) \in Seq(Pieces) /\ Len(Tail(s)) = Len(s) - 1
      /\ \A i \in 1..Len(Tail(s)) : Tail(s)[i] = s[i + 1]
  BY HeadTailProperties
<1>2. Len(s) \in Nat /\ Len(s) >= 1 /\ \A i \in 2..Len(s) : s[i] \in Pieces
  OBVIOUS
<1>3. /\ SubSeq(s, 2, Len(s)) \in Seq(Pieces)
      /\ Len(SubSeq(s, 2, Len(s))) = IF 2 <= Len(s) THEN Len(s) - 2 + 1 ELSE 0
      /\ \A i \in 1..(Len(s) - 2 + 1) : SubSeq(s, 2, Len(s))[i] = s[2 + i - 1]
  BY <1>2, SubSeqProperties
<1>4. Len(SubSeq(s, 2, Len(s))) = Len(Tail(s))
  BY <1>1, <1>2, <1>3
<1>5. \A i \in 1..Len(Tail(s)) : Tail(s)[i] = SubSeq(s, 2, Len(s))[i]
  BY <1>1, <1>2, <1>3
<1> QED
  BY <1>1, <1>3, <1>4, <1>5, SeqEqual

\* What a reader may make of what it read: an approval is the processor's and of
\* the whole reply, and so is a refusal.
LEMMA VerdictSound ==
    ASSUME TypeOK, Functions, Replies, NEW c \in Calls, phase[c] = "body",
           NEW s, \/ s = Tail(reply[c]) /\ arrived[c] = Len(reply[c])
                  \/ s = SubSeq(reply[c], 2, arrived[c]) /\ Lenient(c)
    PROVE  /\ Verdict(c, s) \in {"error", "approved", "declined", "object", "raw"}
           /\ Verdict(c, s) = "approved" => code[c] = "00" /\ arrived[c] = Len(reply[c])
           /\ Verdict(c, s) = "declined" => code[c] \in Codes \ {"00"}
<1> DEFINE r == reply[c]
           a == arrived[c]
<1>1. /\ r \in Seq(Pieces) /\ a \in Nat /\ a <= Len(r) /\ a >= 1
      /\ Kind(c) \in SocketKinds
  BY DEF Functions, Replies
<1>2. r # << >>
  BY <1>1
<1>3. s = SubSeq(r, 2, a) /\ CloseIsLast(r) /\ code[c] \in Codes
  BY <1>1, <1>2, TailIsCut DEF Replies
<1>4. CASE Kind(c) = "payout"
  <2>1. IsObject(Unprefixed(s)) =>
            a = Len(r) /\ ("fields" \in Unprefixed(s)[1].keys \/ code[c] = "30")
    BY <1>1, <1>3, <1>4, CutShape DEF Replies
  <2>2. Verdict(c, s) = PayoutVerdict(s, code[c])
    BY <1>4 DEF Verdict
  <2>3. CASE ~IsObject(Unprefixed(s))
    BY <2>2, <2>3 DEF PayoutVerdict
  <2>4. CASE IsObject(Unprefixed(s)) /\ "fields" \notin Unprefixed(s)[1].keys
    <3>1. Verdict(c, s) = "declined"
      BY <2>2, <2>4 DEF PayoutVerdict
    <3> QED
      BY <2>1, <2>4, <3>1 DEF Codes
  <2>5. CASE IsObject(Unprefixed(s)) /\ "fields" \in Unprefixed(s)[1].keys
    <3>1. Verdict(c, s) = IF code[c] = "00" THEN "approved"
                          ELSE IF code[c] = "96" THEN "error" ELSE "declined"
      BY <2>2, <2>5 DEF PayoutVerdict
    <3> QED
      BY <1>3, <2>1, <2>5, <3>1
  <2> QED
    BY <2>3, <2>4, <2>5
<1>5. CASE Kind(c) = "forward"
  <2>1. Verdict(c, s) = ForwardVerdict(s, code[c]) /\ a = Len(r)
    BY <1>5 DEF Verdict, Lenient
  <2> QED
    BY <1>3, <2>1 DEF ForwardVerdict
<1>6. CASE Kind(c) = "sim"
  <2>1. Verdict(c, s) = SimVerdict(s)
    BY <1>6 DEF Verdict
  <2> QED
    BY <2>1 DEF SimVerdict
<1>7. CASE Kind(c) = "codec"
  <2>1. Verdict(c, s) = CodecVerdict(s)
    BY <1>7 DEF Verdict
  <2> QED
    BY <2>1 DEF CodecVerdict
<1> QED
  BY <1>1, <1>4, <1>5, <1>6, <1>7 DEF SocketKinds
-----------------------------------------------------------------------------
(***************************************************************************)
(* The codecs.                                                             *)
(***************************************************************************)
\* A cut of a stream is a stream, and its pieces are pieces of the stream.
LEMMA CutIsStream ==
    ASSUME NEW s \in Seq(Pieces), NEW m \in Nat \ {0}, NEW n \in Nat, n <= Len(s)
    PROVE  /\ SubSeq(s, m, n) \in Seq(Pieces)
           /\ Len(SubSeq(s, m, n)) = IF m <= n THEN n - m + 1 ELSE 0
           /\ \A i \in 1..(n - m + 1) : SubSeq(s, m, n)[i] = s[m + i - 1]
<1>1. \A i \in m..n : i \in 1..Len(s)
  OBVIOUS
<1>2. \A i \in m..n : s[i] \in Pieces
  BY <1>1
<1> QED
  BY <1>2, SubSeqProperties

\* What is an object at the place where a codec looks for it is one of the stream.
HasFields(s) == \E i \in 1..Len(s) : Whole(s, i) /\ "fields" \in s[i].keys
HasNone(s) == \E i \in 1..Len(s) : Whole(s, i) /\ "fields" \notin s[i].keys

LEMMA ObjectIsWhole ==
    ASSUME NEW s \in Seq(Pieces), NEW m \in Nat \ {0}, m + 1 <= Len(s),
           IsObject(SubSeq(s, m, m + 1))
    PROVE  /\ m \in 1..Len(s) /\ Whole(s, m)
           /\ IF "fields" \in s[m].keys THEN HasFields(s) ELSE HasNone(s)
<1>1. PICK n \in Nat : n = m + 1
  OBVIOUS
<1>2. /\ Len(s) \in Nat /\ n <= Len(s) /\ IsObject(SubSeq(s, m, n))
      /\ 1 \in 1..(n - m + 1) /\ 2 \in 1..(n - m + 1)
      /\ m + 1 - 1 = m /\ m + 2 - 1 = m + 1
  BY <1>1
<1>3. SubSeq(s, m, n)[1] = s[m + 1 - 1] /\ SubSeq(s, m, n)[2] = s[m + 2 - 1]
  BY <1>2, CutIsStream
<1>4. SubSeq(s, m, n)[1] = s[m] /\ SubSeq(s, m, n)[2] = s[m + 1]
  BY <1>2, <1>3
<1>5. s[m].kind = "open" /\ s[m + 1].kind = "close"
  BY <1>2, <1>4 DEF IsObject
<1>6. m \in 1..Len(s) /\ m < Len(s)
  BY <1>1, <1>2
<1> QED
  BY <1>5, <1>6 DEF Whole, HasFields, HasNone

\* iso_codec.unpack_iso returns the fields of a whole object, or raises.
LEMMA IsoCodecKeeps ==
    ASSUME NEW s \in Seq(Pieces)
    PROVE  \/ UnpackIsoCodec(s) = Raised
           \/ UnpackIsoCodec(s) = Result("packed", "packed") /\ HasFields(s)
<1>1. PICK p : /\ p = IF s # << >> /\ Word(s[1]) = Len(s) - 1 THEN Tail(s) ELSE s
  OBVIOUS
<1>2. UnpackIsoCodec(s) = IF IsObject(p) /\ Keys \subseteq p[1].keys
                          THEN Result("packed", "packed") ELSE Raised
  BY <1>1 DEF UnpackIsoCodec
<1> SUFFICES ASSUME IsObject(p), Keys \subseteq p[1].keys
             PROVE  HasFields(s)
  BY <1>2
<1>3. /\ Len(p) = 2 /\ p[1].kind = "open" /\ p[2].kind = "close"
      /\ "fields" \in p[1].keys
  BY DEF IsObject, Keys
<1>4. CASE p = s
  <2>1. 1 \in 1..Len(s) /\ 1 < Len(s) /\ 1 + 1 = 2
    <3>1. Len(s) = 2
      BY <1>3, <1>4
    <3> QED
      BY <3>1
  <2> QED
    BY <1>3, <1>4, <2>1 DEF HasFields, Whole
<1>5. CASE s # << >> /\ p = Tail(s)
  <2>1. /\ Len(p) = Len(s) - 1
        /\ \A i \in 1..Len(p) : p[i] = s[i + 1]
    BY <1>5, HeadTailProperties
  <2>2. Len(s) = 3 /\ p[1] = s[2] /\ p[2] = s[3]
    <3>1. Len(s) - 1 = 2
      BY <1>3, <2>1
    <3>2. \A i \in 1..2 : p[i] = s[i + 1]
      BY <1>3, <2>1
    <3>3. Len(s) \in Nat
      OBVIOUS
    <3>4. 1 \in 1..2 /\ 2 \in 1..2 /\ 1 + 1 = 2 /\ 2 + 1 = 3
      OBVIOUS
    <3>5. p[1] = s[2] /\ p[2] = s[3]
      BY <3>2, <3>4
    <3> QED
      BY <3>1, <3>3, <3>5
  <2>3. 2 \in 1..Len(s) /\ 2 < Len(s) /\ 2 + 1 = 3
    BY <2>2
  <2> QED
    BY <1>3, <2>2, <2>3 DEF HasFields, Whole
<1> QED
  BY <1>1, <1>4, <1>5

\* iso8583.unpack_iso, too, but it may return a message without fields: for an
\* object that has none, and for every stream with an MTI that it cannot frame.
LEMMA Iso8583Keeps ==
    ASSUME NEW s \in Seq(Pieces)
    PROVE  /\ LET fields == UnpackIso8583(s).fields IN
              \/ fields = "none"
              \/ fields = "packed" /\ HasFields(s)
              \/ fields = "default" /\ (Lost(s) \/ HasNone(s))
           /\ Lost(s) => UnpackIso8583(s) = Result("default", "default")
<1>1. Len(s) \in Nat /\ \A i \in 1..Len(s) : s[i] \in Pieces
  OBVIOUS
<1>2. CASE s # << >> /\ Framed(s)
  <2>1. UnpackIso8583(s).fields = Of("fields", s[3])
    BY <1>2 DEF UnpackIso8583, Result
  <2>2. PICK w : w = Word(s[2])
    OBVIOUS
  <2>3. /\ Len(s) >= 2 /\ w <= Len(s) - 2 /\ IsObject(SubSeq(s, 3, 2 + w))
    BY <1>2, <2>2 DEF Framed
  <2>4. w \in Nat
    <3>1. s[2] \in Pieces
      BY <1>1, <2>3
    <3> QED
      BY <2>2, <3>1 DEF Word, Huge, Pieces
  <2>5. 2 + w \in Nat /\ 2 + w <= Len(s)
    BY <1>1, <2>3, <2>4
  <2>6. Len(SubSeq(s, 3, 2 + w)) = IF 3 <= 2 + w THEN (2 + w) - 3 + 1 ELSE 0
    BY <2>5, CutIsStream
  <2>7. Len(SubSeq(s, 3, 2 + w)) = 2
    BY <2>3 DEF IsObject
  <2>8. w = 2 /\ 2 + w = 3 + 1
    BY <2>4, <2>6, <2>7
  <2>9. 3 + 1 <= Len(s) /\ IsObject(SubSeq(s, 3, 3 + 1))
    BY <2>3, <2>5, <2>8
  <2>10. IF "fields" \in s[3].keys THEN HasFields(s) ELSE HasNone(s)
    BY <2>9, ObjectIsWhole
  <2> QED
    BY <1>2, <2>1, <2>10 DEF Of, Lost
<1>3. CASE ~(s # << >> /\ Framed(s))
  <2>1. UnpackIso8583(s) = FirstValue(s)
    BY <1>3 DEF UnpackIso8583
  <2>2. CASE s # << >> /\ s[1].kind = "mti"
    <3>1. ~(Len(s) >= 2 /\ IsObject(SubSeq(s, 1, 2)))
      <4>1. ASSUME Len(s) >= 2 PROVE SubSeq(s, 1, 2)[1] = s[1]
        <5>1. \A i \in 1..(2 - 1 + 1) : SubSeq(s, 1, 2)[i] = s[1 + i - 1]
          BY <1>1, <4>1, CutIsStream
        <5> QED
          BY <5>1
      <4> QED
        BY <2>2, <4>1 DEF IsObject
    <3>2. FirstValue(s) = Result("default", "default")
      BY <2>2, <3>1 DEF FirstValue
    <3> QED
      BY <1>3, <2>1, <2>2, <3>2 DEF Result, Lost
  <2>3. CASE ~(s # << >> /\ s[1].kind = "mti") /\ Len(s) >= 2 /\ IsObject(SubSeq(s, 1, 2))
    <3>1. FirstValue(s).fields = Of("fields", s[1])
      BY <2>3 DEF FirstValue, Result
    <3>2. 1 + 1 = 2 /\ 1 + 1 <= Len(s)
      BY <1>1, <2>3
    <3>3. IsObject(SubSeq(s, 1, 1 + 1))
      BY <2>3, <3>2
    <3>4. IF "fields" \in s[1].keys THEN HasFields(s) ELSE HasNone(s)
      BY <3>2, <3>3, ObjectIsWhole
    <3> QED
      BY <2>1, <2>3, <3>1, <3>4 DEF Of, Lost
  <2>4. CASE ~(s # << >> /\ s[1].kind = "mti") /\ ~(Len(s) >= 2 /\ IsObject(SubSeq(s, 1, 2)))
    <3>1. FirstValue(s) = Raised
      BY <2>4 DEF FirstValue
    <3> QED
      BY <2>1, <2>4, <3>1 DEF Raised, Lost
  <2> QED
    BY <2>2, <2>3, <2>4
<1> QED
  BY <1>2, <1>3

\* Whatever a codec is given -- any pieces, in any number and order -- the fields it
\* returns are those of an object that is there as a whole; iso_codec returns
\* nothing else, and iso8583 a message without fields only for an object without
\* them and for what begins with an MTI that it cannot frame, and for all of that.
THEOREM AnyStreamKept ==
    \A s \in Seq(Pieces) : FieldsKept(s)
<1> SUFFICES ASSUME NEW s \in Seq(Pieces) PROVE FieldsKept(s)
  OBVIOUS
<1>1. Unpack("iso_codec", s) = UnpackIsoCodec(s)
  BY DEF Unpack
<1>2. Unpack("iso8583", s) = UnpackIso8583(s)
  BY DEF Unpack
<1>3. Raised.fields = "none" /\ Result("packed", "packed").fields = "packed"
  BY DEF Raised, Result
<1>4. \/ UnpackIsoCodec(s).fields = "none"
      \/ UnpackIsoCodec(s).fields = "packed" /\ HasFields(s)
  BY <1>3, IsoCodecKeeps
<1> QED
  BY <1>1, <1>2, <1>4, Iso8583Keeps DEF FieldsKept, Codecs, HasFields, HasNone

\* A text that begins with a piece of JSON is not taken for a length.
LEMMA WholePayloadRead ==
    ASSUME NEW s \in Seq(Pieces), IsObject(s), Keys \subseteq s[1].keys
    PROVE  UnpackIsoCodec(s).fields = "packed"
<1>1. Len(s) = 2 /\ s[1].kind = "open"
  BY DEF IsObject
<1>2. ~(s # << >> /\ Word(s[1]) = Len(s) - 1)
  BY <1>1 DEF Word, Huge
<1>3. UnpackIsoCodec(s) = Result("packed", "packed")
  BY <1>2 DEF UnpackIsoCodec
<1> QED
  BY <1>3 DEF Result

\* The pieces.
LEMMA PieceShape ==
    /\ Mti \in Pieces /\ Mti.kind = "mti"
    /\ Piece("close", 0, {}) \in Pieces /\ Piece("close", 0, {}).kind = "close"
    /\ \A n \in Nat : Length(n) \in Pieces /\ Word(Length(n)) = n
    /\ \A K \in SUBSET {"mti", "fields", "de39"} :
           /\ Piece("open", 0, K) \in Pieces
           /\ Piece("open", 0, K).kind = "open" /\ Piece("open", 0, K).keys = K
BY DEF Pieces, Piece, Mti, Length, Word

\* The pieces of the two messages.
LEMMA PackShape ==
    /\ Pack("iso_codec") \in Seq(Pieces) /\ Len(Pack("iso_codec")) = 3
    /\ Pack("iso_codec")[1] = Length(2)
    /\ Pack("iso_codec")[2] = Piece("open", 0, Keys)
    /\ Pack("iso_codec")[3] = Piece("close", 0, {})
    /\ Pack("iso8583") \in Seq(Pieces) /\ Len(Pack("iso8583")) = 4
    /\ Pack("iso8583")[1] = Mti /\ Pack("iso8583")[2] = Length(2)
    /\ Pack("iso8583")[3] = Piece("open", 0, {"fields"})
    /\ Pack("iso8583")[4] = Piece("close", 0, {})
<1>1. ASSUME NEW K \in SUBSET {"mti", "fields", "de39"}
      PROVE  /\ Json(K) \in Seq(Pieces) /\ Len(Json(K)) = 2
             /\ Json(K)[1] = Piece("open", 0, K) /\ Json(K)[2] = Piece("close", 0, {})
  <2>1. Piece("open", 0, K) \in Pieces /\ Piece("close", 0, {}) \in Pieces
    BY PieceShape
  <2> QED
    BY <2>1 DEF Json
<1>2. Mti \in Pieces /\ Length(2) \in Pieces
  BY PieceShape
<1>3. PICK J : J = Json(Keys)
  OBVIOUS
<1>4. PICK J2 : J2 = Json({"fields"})
  OBVIOUS
<1>5. /\ J \in Seq(Pieces) /\ Len(J) = 2
      /\ J[1] = Piece("open", 0, Keys) /\ J[2] = Piece("close", 0, {})
  BY <1>1, <1>3 DEF Keys
<1>6. /\ J2 \in Seq(Pieces) /\ Len(J2) = 2
      /\ J2[1] = Piece("open", 0, {"fields"}) /\ J2[2] = Piece("close", 0, {})
  BY <1>1, <1>4
<1>7. Pack("iso_codec") = <<Length(2)>> \o J
  BY <1>3 DEF Pack, Keys
<1>8. Pack("iso8583") = <<Mti, Length(2)>> \o J2
  BY <1>4 DEF Pack
<1>9. PICK P : P = <<Mti, Length(2)>>
  OBVIOUS
<1>10. P \in Seq(Pieces) /\ Len(P) = 2 /\ P[1] = Mti /\ P[2] = Length(2)
  BY <1>2, <1>9
<1>11. /\ Pack("iso_codec") \in Seq(Pieces) /\ Len(Pack("iso_codec")) = 1 + Len(J)
       /\ Pack("iso_codec")[1] = Length(2)
       /\ \A i \in 1..Len(J) : Pack("iso_codec")[i + 1] = J[i]
  <2>1. PICK x : x = Length(2)
    OBVIOUS
  <2>2. x \in Pieces /\ J \in Seq(Pieces) /\ Pack("iso_codec") = <<x>> \o J
    BY <1>2, <1>5, <1>7, <2>1
  <2>3. /\ <<x>> \o J \in Seq(Pieces) /\ Len(<<x>> \o J) = 1 + Len(J)
        /\ (<<x>> \o J)[1] = x
        /\ \A i \in 1..Len(J) : (<<x>> \o J)[i + 1] = J[i]
    BY <2>2, Prefixed
  <2> QED
    BY <2>1, <2>2, <2>3
<1>12. /\ Pack("iso8583") \in Seq(Pieces) /\ Len(Pack("iso8583")) = 2 + 2
       /\ \A i \in 1..(2 + 2) : Pack("iso8583")[i] = IF i <= 2 THEN P[i] ELSE J2[i - 2]
  <2>1. Pack("iso8583") = P \o J2
    BY <1>8, <1>9
  <2>2. /\ P \o J2 \in Seq(Pieces) /\ Len(P \o J2) = Len(P) + Len(J2)
        /\ \A i \in 1..(Len(P) + Len(J2)) :
               (P \o J2)[i] = IF i <= Len(P) THEN P[i] ELSE J2[i - Len(P)]
    BY <1>6, <1>10, ConcatProperties
  <2> QED
    BY <1>6, <1>10, <2>1, <2>2
<1>13. /\ Pack("iso_codec")[1 + 1] = J[1] /\ Pack("iso_codec")[2 + 1] = J[2]
  BY <1>5, <1>11
<1>14. /\ Pack("iso8583")[1] = P[1] /\ Pack("iso8583")[2] = P[2]
       /\ Pack("iso8583")[3] = J2[1] /\ Pack("iso8583")[4] = J2[2]
  BY <1>12
<1> QED
  BY <1>5, <1>6, <1>10, <1>11, <1>12, <1>13, <1>14

\* Each codec reads its own frame back.
LEMMA RoundTripHolds == RoundTrip
<1>1. Unpack("iso_codec", Pack("iso_codec")) = Result("packed", "packed")
  <2>1. PICK s : s = Pack("iso_codec")
    OBVIOUS
  <2>2. /\ s \in Seq(Pieces) /\ Len(s) = 3 /\ s[1] = Length(2)
        /\ s[2] = Piece("open", 0, Keys) /\ s[3] = Piece("close", 0, {})
    BY <2>1, PackShape
  <2>3. s # << >> /\ Word(s[1]) = Len(s) - 1
    <3>1. s # << >>
      BY <2>2, EmptySeq
    <3>2. Word(s[1]) = 2
      BY <2>2, PieceShape
    <3> QED
      BY <2>2, <3>1, <3>2
  <2>4. Len(Tail(s)) = 2 /\ Tail(s)[1] = s[2] /\ Tail(s)[2] = s[3]
    <3>1. Len(Tail(s)) = Len(s) - 1 /\ \A i \in 1..Len(Tail(s)) : Tail(s)[i] = s[i + 1]
      BY <2>2, <2>3, HeadTailProperties
    <3>2. Len(Tail(s)) = 2
      BY <2>2, <3>1
    <3>3. \A i \in 1..2 : Tail(s)[i] = s[i + 1]
      BY <3>1, <3>2
    <3>4. /\ 1 \in 1..2 /\ 1 + 1 = 2
          /\ 2 \in 1..2 /\ 2 + 1 = 3
      OBVIOUS
    <3> QED
      BY <3>2, <3>3, <3>4
  <2>5. IsObject(Tail(s)) /\ Keys \subseteq Tail(s)[1].keys
    <3>1. Keys \in SUBSET {"mti", "fields", "de39"}
      BY DEF Keys
    <3> QED
      BY <2>2, <2>4, <3>1, PieceShape DEF IsObject
  <2>6. UnpackIsoCodec(s) = Result("packed", "packed")
    BY <2>3, <2>5 DEF UnpackIsoCodec
  <2> QED
    BY <2>1, <2>6 DEF Unpack
<1>2. Unpack("iso8583", Pack("iso8583")) = Result("packed", "packed")
  <2>1. PICK s : s = Pack("iso8583")
    OBVIOUS
  <2>2. /\ s \in Seq(Pieces) /\ Len(s) = 4 /\ s[2] = Length(2)
        /\ s[3] = Piece("open", 0, {"fields"}) /\ s[4] = Piece("close", 0, {})
    BY <2>1, PackShape
  <2>3. s # << >> /\ Word(s[2]) = 2
    <3>1. s # << >>
      BY <2>2, EmptySeq
    <3>2. Word(s[2]) = 2
      BY <2>2, PieceShape
    <3> QED
      BY <3>1, <3>2
  <2>4. Len(SubSeq(s, 3, 4)) = 2 /\ SubSeq(s, 3, 4)[1] = s[3] /\ SubSeq(s, 3, 4)[2] = s[4]
    <3>1. /\ Len(SubSeq(s, 3, 4)) = 4 - 3 + 1
          /\ \A i \in 1..(4 - 3 + 1) : SubSeq(s, 3, 4)[i] = s[3 + i - 1]
      BY <2>2, CutIsStream
    <3> QED
      BY <3>1
  <2>5. IsObject(SubSeq(s, 3, 4))
    BY <2>2, <2>4, PieceShape DEF IsObject
  <2>6. Framed(s)
    <3>1. 2 + Word(s[2]) = 4 /\ Len(s) >= 2 /\ Word(s[2]) <= Len(s) - 2
      BY <2>2, <2>3
    <3> QED
      BY <2>5, <3>1 DEF Framed
  <2>7. Of("fields", s[3]) = "packed"
    <3>1. {"fields"} \in SUBSET {"mti", "fields", "de39"}
      OBVIOUS
    <3> QED
      BY <2>2, <3>1, PieceShape DEF Of
  <2> QED
    BY <2>1, <2>3, <2>6, <2>7 DEF Unpack, UnpackIso8583
<1> QED
  BY <1>1, <1>2 DEF RoundTrip, Codecs, Result

\* What a reader may hold of either message is a stream.
LEMMA OwnStreams ==
    ASSUME NEW c \in Codecs, NEW s \in Streams(c)
    PROVE  s \in Seq(Pieces)
<1>1. PICK w : w = Pack(c)
  OBVIOUS
<1>2. w \in Seq(Pieces) /\ Len(w) \in Nat
  BY <1>1, PackShape DEF Codecs
<1>3. ASSUME NEW n \in 0..Len(w)
      PROVE  SubSeq(w, 1, n) \in Seq(Pieces)
  <2>1. n \in Nat /\ n <= Len(w)
    BY <1>2
  <2> QED
    BY <1>2, <2>1, CutIsStream
<1>4. ASSUME NEW t \in Seq(Pieces), t # << >>
      PROVE  Tail(t) \in Seq(Pieces)
  BY <1>4, HeadTailProperties
<1> QED
  BY <1>1, <1>3, <1>4 DEF Streams
-----------------------------------------------------------------------------
(***************************************************************************)
(* The initial states and the steps.                                       *)
(***************************************************************************)
LEMMA InitIInv ==
    Init => IInv
<1> SUFFICES ASSUME Init PROVE IInv
  OBVIOUS
<1>1. Len(<< >>) = 0 /\ << >> \in Seq(Pieces)
  BY EmptySeq
<1>2. TypeOK
  BY <1>1 DEF Init, TypeOK
<1>3. Functions
  BY <1>1 DEF Init, Functions
<1>4. Replies
  BY <1>1 DEF Init, Replies
<1>5. Money
  BY <1>1, GatewayAssumption DEF Init, Money
<1>6. AnswerIsVerdict
  BY DEF Init, AnswerIsVerdict
<1> QED
  BY <1>2, <1>3, <1>4, <1>5, <1>6 DEF IInv

Answers == {"none", "error", "approved", "declined", "passed", "object", "raw"}
Phases == {"idle", "header", "body", "http", "paying", "done", "lost"}

\* A call returns: with an error, or with a verdict.
LEMMA ReturnStep ==
    ASSUME IInv, NEW c \in Calls, NEW r \in Answers, Return(c, r),
           UNCHANGED <<setup, wire, tasks, paid>>,
           r = "approved" => code[c] = "00" /\ arrived[c] = Len(reply[c]),
           r = "declined" => code[c] \in Codes \ {"00"}
    PROVE  IInv'
<1>1. TypeOK /\ Functions /\ Replies /\ Money /\ AnswerIsVerdict
  BY DEF IInv
<1>2. UNCHANGED <<setup, reply, code, amount, arrived, closed, tasks, paid>>
  BY DEF wire
<1>3. /\ phase' = [phase EXCEPT ![c] = "done"] /\ answer' = [answer EXCEPT ![c] = r]
      /\ loop' \in {loop, NoCall}
  BY DEF Return
<1>4. \A d \in Calls : /\ phase'[d] = IF d = c THEN "done" ELSE phase[d]
                       /\ answer'[d] = IF d = c THEN r ELSE answer[d]
  BY <1>1, <1>3 DEF TypeOK
<1>5. \A d \in Calls : Kind(d)' = Kind(d)
  BY <1>2 DEF Kind
<1>6. TypeOK'
  BY <1>1, <1>2, <1>3 DEF TypeOK, Answers
<1>7. Functions'
  BY <1>1, <1>2 DEF Functions
<1>8. Replies'
  BY <1>1, <1>2, <1>4, <1>5 DEF Replies
<1>9. Money'
  BY <1>1, <1>2, <1>4 DEF Money
<1>10. AnswerIsVerdict'
  BY <1>1, <1>2, <1>4 DEF AnswerIsVerdict
<1> QED
  BY <1>6, <1>7, <1>8, <1>9, <1>10 DEF IInv

\* A call goes on: it is sent, or its header was read.
LEMMA ProceedStep ==
    ASSUME IInv, NEW c \in Calls, Connect(c) \/ ReadHeader(c) \/ HttpPost(c)
    PROVE  IInv'
<1>1. TypeOK /\ Functions /\ Replies /\ Money /\ AnswerIsVerdict
  BY DEF IInv
<1>2. UNCHANGED <<setup, reply, code, amount, arrived, closed, answer, tasks, paid>>
  BY DEF wire, Connect, ReadHeader, HttpPost
<1>3. PICK p \in {"header", "body", "http"} : phase' = [phase EXCEPT ![c] = p]
  BY DEF Connect, ReadHeader, HttpPost
<1>4. \A d \in Calls : phase'[d] = IF d = c THEN p ELSE phase[d]
  BY <1>1, <1>3 DEF TypeOK
<1>5. \A d \in Calls : Kind(d)' = Kind(d)
  BY <1>2 DEF Kind
<1>6. phase[c] \in {"idle", "header"} /\ loop' \in {loop, c}
  BY DEF Connect, ReadHeader, HttpPost
<1>7. /\ p = "http" => phase[c] = "idle"
      /\ p = "body" => arrived[c] >= 1
      /\ p \in {"header", "body"} => Kind(c) \in SocketKinds
  <2>1. CASE Connect(c)
    <3>1. phase'[c] = "header" /\ Kind(c) \in SocketKinds
      BY <1>1, <2>1 DEF Connect, TypeOK
    <3> QED
      BY <1>4, <3>1
  <2>2. CASE ReadHeader(c)
    <3>1. phase'[c] = "body" /\ arrived[c] >= 1 /\ phase[c] = "header"
      BY <1>1, <2>2 DEF ReadHeader, TypeOK
    <3> QED
      BY <1>1, <1>4, <3>1 DEF Replies
  <2>3. CASE HttpPost(c)
    <3>1. phase'[c] = "http" /\ phase[c] = "idle"
      BY <1>1, <2>3 DEF HttpPost, TypeOK
    <3> QED
      BY <1>4, <3>1
  <2> QED
    BY <2>1, <2>2, <2>3
<1>8. TypeOK'
  BY <1>1, <1>2, <1>3, <1>6 DEF TypeOK
<1>9. Functions'
  BY <1>1, <1>2 DEF Functions
<1>10. Replies'
  BY <1>1, <1>2, <1>4, <1>5, <1>6, <1>7 DEF Replies
<1>11. Money'
  BY <1>1, <1>2, <1>4, <1>6 DEF Money
<1>12. AnswerIsVerdict'
  BY <1>1, <1>2 DEF AnswerIsVerdict
<1> QED
  BY <1>8, <1>9, <1>10, <1>11, <1>12 DEF IInv

\* A reply is read: the call returns its verdict, or goes on to the payouts.
LEMMA DecideStep ==
    ASSUME IInv, NEW c \in Calls, ReadBody(c) \/ BodyCut(c)
    PROVE  IInv'
<1>1. TypeOK /\ Functions /\ Replies /\ Money /\ AnswerIsVerdict
  BY DEF IInv
<1>2. phase[c] = "body" /\ UNCHANGED <<setup, wire, paid>>
  BY DEF ReadBody, BodyCut
<1>3. PICK s : /\ \/ s = Tail(reply[c]) /\ arrived[c] = Len(reply[c])
                  \/ s = SubSeq(reply[c], 2, arrived[c]) /\ Lenient(c)
               /\ Decide(c, s)
  BY DEF ReadBody, BodyCut
<1>4. /\ Verdict(c, s) \in {"error", "approved", "declined", "object", "raw"}
      /\ Verdict(c, s) = "approved" => code[c] = "00" /\ arrived[c] = Len(reply[c])
      /\ Verdict(c, s) = "declined" => code[c] \in Codes \ {"00"}
  BY <1>1, <1>2, <1>3, VerdictSound
<1>5. CASE Kind(c) = "payout" /\ Verdict(c, s) = "approved"
  <2>1. /\ phase' = [phase EXCEPT ![c] = "paying"]
        /\ tasks' = [tasks EXCEPT ![c] = {"task", "await"}]
        /\ loop' = NoCall /\ UNCHANGED answer
    BY <1>3, <1>5 DEF Decide
  <2>2. UNCHANGED <<setup, reply, code, amount, arrived, closed, answer, paid>>
    BY <1>2, <2>1 DEF wire
  <2>3. \A d \in Calls :
            /\ phase'[d] = IF d = c THEN "paying" ELSE phase[d]
            /\ tasks'[d] = IF d = c THEN {"task", "await"} ELSE tasks[d]
    BY <1>1, <2>1 DEF TypeOK
  <2>4. \A d \in Calls : Kind(d)' = Kind(d)
    BY <2>2 DEF Kind
  <2>5. Kind(c) \in SocketKinds /\ code[c] = "00" /\ arrived[c] = Len(reply[c])
    BY <1>4, <1>5 DEF SocketKinds
  <2>6. TypeOK'
    <3>1. {"task", "await"} \in SUBSET {"task", "await"}
      OBVIOUS
    <3> QED
      BY <1>1, <2>1, <2>2, <3>1 DEF TypeOK
  <2>7. Functions'
    BY <1>1, <2>2 DEF Functions
  <2>8. Replies'
    BY <1>1, <2>2, <2>3, <2>4, <2>5 DEF Replies
  <2>9. Money'
    <3>1. paid[c] = 0 /\ amount[c] \in Nat
      BY <1>1, <1>2, GatewayAssumption DEF Money, TypeOK
    <3>2. ASSUME NEW d \in Calls PROVE Money!(d)'
      BY <1>1, <2>2, <2>3, <2>5, <3>1 DEF Money
    <3> QED
      BY <3>2 DEF Money
  <2>10. AnswerIsVerdict'
    BY <1>1, <2>2 DEF AnswerIsVerdict
  <2> QED
    BY <2>6, <2>7, <2>8, <2>9, <2>10 DEF IInv
<1>6. CASE ~(Kind(c) = "payout" /\ Verdict(c, s) = "approved")
  <2>1. Return(c, Verdict(c, s)) /\ UNCHANGED tasks
    BY <1>3, <1>6 DEF Decide
  <2>2. Verdict(c, s) \in Answers
    BY <1>4 DEF Answers
  <2> QED
    BY <1>2, <1>4, <2>1, <2>2, ReturnStep
<1> QED
  BY <1>5, <1>6

\* One of the two payouts is made; the other one may still be to come.
LEMMA PayStep ==
    ASSUME IInv, NEW c \in Calls, NEW t \in {"task", "await"}, Pay(c, t)
    PROVE  IInv'
<1>1. TypeOK /\ Functions /\ Replies /\ Money /\ AnswerIsVerdict
  BY DEF IInv
<1>2. UNCHANGED <<setup, phase, reply, code, amount, arrived, closed, answer, loop>>
  BY DEF Pay, wire
<1>3. amount[c] \in Nat /\ MinorOf(c, t) \in {0, amount[c]}
  <2>1. amount[c] \in {0, Amount}
    BY <1>1 DEF TypeOK
  <2>2. MinorOf(c, t) \in {0, amount[c]}
    BY DEF MinorOf
  <2> QED
    BY <2>1, <2>2, GatewayAssumption
<1>4. PICK n \in {0, amount[c]} : paid' = [paid EXCEPT ![c] = @ + n]
  BY <1>3 DEF Pay, AmountOfPayout
<1>5. t \in tasks[c] /\ tasks' = [tasks EXCEPT ![c] = @ \ {t}]
  BY DEF Pay
<1>6. \A d \in Calls : /\ paid'[d] = IF d = c THEN paid[d] + n ELSE paid[d]
                       /\ tasks'[d] = IF d = c THEN tasks[d] \ {t} ELSE tasks[d]
  BY <1>1, <1>4, <1>5 DEF TypeOK
<1>7. \A d \in Calls : Kind(d)' = Kind(d)
  BY <1>2 DEF Kind
<1>8. TypeOK'
  <2>1. paid[c] + n \in Nat
    BY <1>1, <1>3, <1>4 DEF TypeOK
  <2>2. paid' \in [Calls -> Nat]
    BY <1>1, <1>4, <2>1 DEF TypeOK
  <2>3. tasks' \in [Calls -> SUBSET {"task", "await"}]
    BY <1>1, <1>5 DEF TypeOK
  <2> QED
    BY <1>1, <1>2, <2>2, <2>3 DEF TypeOK
<1>9. Functions'
  BY <1>1, <1>2 DEF Functions
<1>10. Replies'
  BY <1>1, <1>2, <1>7 DEF Replies
<1>11. Money'
  <2>1. /\ paid[c] \in Nat /\ paid[c] <= amount[c] /\ code[c] = "00"
        /\ phase[c] \notin {"idle", "header", "body", "http"}
    BY <1>1, <1>5 DEF Money, TypeOK
  <2>2. paid'[c] <= 2 * amount[c] /\ (tasks'[c] # {} => paid'[c] <= amount[c])
    <3>1. paid'[c] = paid[c] + n /\ tasks'[c] = tasks[c] \ {t}
      BY <1>6
    <3>2. tasks'[c] # {} => tasks[c] = {"task", "await"}
      BY <1>1, <1>5, <3>1 DEF TypeOK
    <3>3. tasks'[c] # {} => paid[c] = 0
      BY <1>1, <3>2 DEF Money
    <3> QED
      BY <1>3, <1>4, <2>1, <3>1, <3>3
  <2>3. tasks'[c] # {"task", "await"}
    BY <1>6
  <2>4. Money!(c)'
    BY <1>1, <1>2, <2>1, <2>2, <2>3 DEF Money
  <2>5. ASSUME NEW d \in Calls, d # c PROVE Money!(d)'
    BY <1>1, <1>2, <1>6, <2>5 DEF Money
  <2> QED
    BY <2>4, <2>5 DEF Money
<1>12. AnswerIsVerdict'
  BY <1>1, <1>2 DEF AnswerIsVerdict
<1> QED
  BY <1>8, <1>9, <1>10, <1>11, <1>12 DEF IInv

\* The gateway dies, and its payout calls and payouts with it.
LEMMA CrashStep ==
    ASSUME IInv, GatewayCrash
    PROVE  IInv'
<1>1. TypeOK /\ Functions /\ Replies /\ Money /\ AnswerIsVerdict
  BY DEF IInv
<1>2. UNCHANGED <<setup, reply, code, amount, arrived, closed, answer, paid>>
  BY DEF GatewayCrash, wire
<1>3. /\ phase' \in [Calls -> Phases]
      /\ \A d \in Calls : phase'[d] \in {phase[d], "lost"} /\ tasks'[d] = {}
      /\ tasks' \in [Calls -> SUBSET {"task", "await"}]
      /\ loop' = NoCall
  BY <1>1 DEF GatewayCrash, TypeOK, Phases
<1>4. \A d \in Calls : Kind(d)' = Kind(d)
  BY <1>2 DEF Kind
<1>5. TypeOK'
  BY <1>1, <1>2, <1>3 DEF TypeOK, Phases
<1>6. Functions'
  BY <1>1, <1>2 DEF Functions
<1>7. Replies'
  BY <1>1, <1>2, <1>3, <1>4 DEF Replies
<1>8. Money'
  BY <1>1, <1>2, <1>3 DEF Money
<1>9. AnswerIsVerdict'
  BY <1>1, <1>2 DEF AnswerIsVerdict
<1> QED
  BY <1>5, <1>6, <1>7, <1>8, <1>9 DEF IInv

\* The processor's /payout answers.
LEMMA HttpStep ==
    ASSUME IInv, NEW c \in Calls, HttpAnswered(c)
    PROVE  IInv'
<1>1. TypeOK /\ Functions /\ Replies /\ Money /\ AnswerIsVerdict
  BY DEF IInv
<1>2. /\ UNCHANGED <<setup, reply, amount, arrived, closed, tasks, paid>>
      /\ phase[c] = "http"
  BY DEF HttpAnswered
<1>3. PICK k \in PayoutRoute :
        /\ code' = [code EXCEPT ![c] = k]
        /\ Return(c, IF Kind(c) = "proxy" THEN ProxyResult(k) ELSE PatchResult(k))
  BY DEF HttpAnswered
<1>4. PICK r \in {"approved", "error", "passed"} :
        Return(c, r) /\ (r = "approved" => k = "00")
  BY <1>3 DEF ProxyResult, PatchResult
<1>5. /\ phase' = [phase EXCEPT ![c] = "done"] /\ answer' = [answer EXCEPT ![c] = r]
      /\ loop' \in {loop, NoCall} /\ k \in Codes
  BY <1>4 DEF Return, PayoutRoute, Codes
<1>6. \A d \in Calls : /\ phase'[d] = IF d = c THEN "done" ELSE phase[d]
                       /\ answer'[d] = IF d = c THEN r ELSE answer[d]
                       /\ code'[d] = IF d = c THEN k ELSE code[d]
  BY <1>1, <1>3, <1>5 DEF TypeOK
<1>7. \A d \in Calls : Kind(d)' = Kind(d)
  BY <1>2 DEF Kind
<1>8. reply[c] = << >> /\ Len(reply[c]) = 0 /\ arrived[c] = 0
  <2>1. reply[c] = << >> /\ arrived[c] <= Len(reply[c]) /\ arrived[c] \in Nat
    BY <1>1, <1>2 DEF Replies, Functions
  <2> QED
    BY <2>1, EmptySeq
<1>9. TypeOK'
  BY <1>1, <1>2, <1>3, <1>5 DEF TypeOK
<1>10. Functions'
  BY <1>1, <1>2 DEF Functions
<1>11. Replies'
  <2>1. ASSUME NEW d \in Calls, d # c PROVE Replies!(d)'
    BY <1>1, <1>2, <1>6, <1>7, <2>1 DEF Replies
  <2>2. Replies!(c)'
    BY <1>1, <1>2, <1>6, <1>7, <1>8 DEF Replies
  <2> QED
    BY <2>1, <2>2 DEF Replies
<1>12. Money'
  <2>1. ASSUME NEW d \in Calls, d # c PROVE Money!(d)'
    BY <1>1, <1>2, <1>6, <2>1 DEF Money
  <2>2. Money!(c)'
    BY <1>1, <1>2, <1>6 DEF Money
  <2> QED
    BY <2>1, <2>2 DEF Money
<1>13. AnswerIsVerdict'
  BY <1>1, <1>2, <1>4, <1>6, <1>8 DEF AnswerIsVerdict
<1> QED
  BY <1>9, <1>10, <1>11, <1>12, <1>13 DEF IInv

\* The processor writes its reply.
LEMMA ServeStep ==
    ASSUME IInv, NEW c \in Calls, Serve(c)
    PROVE  IInv'
<1> DEFINE p == setup.processor
           m == Kind(c) = "payout"
<1>1. TypeOK /\ Functions /\ Replies /\ Money /\ AnswerIsVerdict
  BY DEF IInv
<1>2. /\ UNCHANGED <<setup, phase, arrived, closed, answer, loop, tasks, paid>>
      /\ Reading(c) /\ reply[c] = << >>
      /\ reply' = [reply EXCEPT ![c] = ReplyOf(p, m)]
  BY DEF Serve
<1>3. PICK k \in Verdicts(p, m), a \in {0, Amount} :
        code' = [code EXCEPT ![c] = k] /\ amount' = [amount EXCEPT ![c] = a]
  BY DEF Serve
<1>4. p \in Processors /\ m \in BOOLEAN
  BY <1>1 DEF TypeOK
<1>5. /\ k \in Codes
      /\ m => "fields" \in ReplyKeys[p] \/ k = "30"
  BY <1>4 DEF Verdicts, Codes, ReplyKeys, Processors
<1>6. PICK s : /\ s = ReplyOf(p, m) /\ s \in Seq(Pieces) /\ s # << >>
               /\ s[1].kind = "length" /\ CloseIsLast(s)
               /\ \A i \in 1..Len(s) : s[i].kind = "open" => s[i].keys = ReplyKeys[p]
  <2>1. LET s == ReplyOf(p, m) IN
        /\ s \in Seq(Pieces) /\ s # << >>
        /\ s[1].kind = "length" /\ CloseIsLast(s)
        /\ \A i \in 1..Len(s) : s[i].kind = "open" => s[i].keys = ReplyKeys[p]
    <3> HIDE DEF p, m
    <3> QED
      BY <1>4, ReplyShape
  <2> QED
    BY <2>1
<1>7. \A d \in Calls : /\ reply'[d] = IF d = c THEN s ELSE reply[d]
                       /\ code'[d] = IF d = c THEN k ELSE code[d]
                       /\ amount'[d] = IF d = c THEN a ELSE amount[d]
  BY <1>1, <1>2, <1>3, <1>6 DEF TypeOK, Functions
<1>8. \A d \in Calls : Kind(d)' = Kind(d)
  BY <1>2 DEF Kind
<1>9. arrived[c] = 0 /\ Len(s) \in Nat /\ phase[c] = "header"
  <2>1. arrived[c] = 0
    <3>1. arrived[c] <= Len(reply[c]) /\ arrived[c] \in Nat
      BY <1>1 DEF Replies, Functions
    <3> QED
      BY <1>2, <3>1, EmptySeq
  <2>2. phase[c] # "body"
    BY <1>1, <2>1 DEF Replies
  <2> QED
    BY <1>2, <1>6, <2>1, <2>2 DEF Reading
<1>10. TypeOK'
  <2>1. \A d \in Calls : reply'[d] = << >> \/ reply'[d][1].kind = "length"
    BY <1>1, <1>6, <1>7 DEF TypeOK
  <2>2. \A d \in Calls : arrived'[d] \in 0..Len(reply'[d])
    BY <1>1, <1>2, <1>7, <1>9 DEF TypeOK
  <2>3. code' \in [Calls -> Codes \cup {NoCode}] /\ amount' \in [Calls -> {0, Amount}]
    BY <1>1, <1>3, <1>5 DEF TypeOK
  <2> QED
    BY <1>1, <1>2, <2>1, <2>2, <2>3 DEF TypeOK
<1>11. Functions'
  BY <1>1, <1>2, <1>6 DEF Functions
<1>12. Replies'
  <2>1. ASSUME NEW d \in Calls, d # c PROVE Replies!(d)'
    BY <1>1, <1>2, <1>7, <1>8, <2>1 DEF Replies
  <2>2. Kind(c) \in SocketKinds
    BY <1>1, <1>9 DEF Replies
  <2>3. Replies!(c)'
    BY <1>2, <1>5, <1>6, <1>7, <1>8, <1>9, <2>2 DEF Replies
  <2> QED
    BY <2>1, <2>3 DEF Replies
<1>13. Money'
  <2>1. ASSUME NEW d \in Calls, d # c PROVE Money!(d)'
    BY <1>1, <1>2, <1>7, <2>1 DEF Money
  <2>2. a \in Nat /\ tasks[c] = {} /\ paid[c] = 0 /\ answer[c] = "none"
    BY <1>1, <1>9, GatewayAssumption DEF Money
  <2>3. Money!(c)'
    BY <1>2, <1>7, <1>9, <2>2 DEF Money
  <2> QED
    BY <2>1, <2>3 DEF Money
<1>14. AnswerIsVerdict'
  <2>1. answer[c] = "none"
    BY <1>1, <1>9 DEF Money
  <2> QED
    BY <1>1, <1>2, <1>7, <2>1 DEF AnswerIsVerdict
<1> QED
  BY <1>10, <1>11, <1>12, <1>13, <1>14 DEF IInv

\* A piece arrives, or the connection ends.
LEMMA NetworkStep ==
    ASSUME IInv, NEW c \in Calls, Deliver(c) \/ Close(c)
    PROVE  IInv'
<1>1. TypeOK /\ Functions /\ Replies /\ Money /\ AnswerIsVerdict
  BY DEF IInv
<1>2. /\ UNCHANGED <<setup, phase, reply, code, amount, answer, loop, tasks, paid>>
      /\ Reading(c)
  BY DEF Deliver, Close
<1>3. /\ closed' \in [Calls -> BOOLEAN]
      /\ arrived' \in [Calls -> Nat]
      /\ \A d \in Calls : /\ arrived'[d] \in Nat /\ arrived'[d] <= Len(reply[d])
                          /\ d # c => arrived'[d] = arrived[d]
                          /\ arrived[d] >= 1 => arrived'[d] >= 1
  <2>1. \A d \in Calls : arrived[d] \in Nat /\ arrived[d] <= Len(reply[d]) /\ Len(reply[d]) \in Nat
    BY <1>1 DEF Functions, Replies
  <2>2. CASE Deliver(c)
    <3>1. arrived' = [arrived EXCEPT ![c] = @ + 1] /\ closed' = closed /\ arrived[c] < Len(reply[c])
      BY <2>2 DEF Deliver
    <3> QED
      BY <1>1, <2>1, <3>1 DEF Functions, TypeOK
  <2>3. CASE Close(c)
    <3>1. arrived' = arrived /\ closed' = [closed EXCEPT ![c] = TRUE]
      BY <2>3 DEF Close
    <3> QED
      BY <1>1, <2>1, <3>1 DEF Functions, TypeOK
  <2> QED
    BY <1>2, <2>2, <2>3
<1>4. \A d \in Calls : Kind(d)' = Kind(d)
  BY <1>2 DEF Kind
<1>5. phase[c] \in {"header", "body"} /\ answer[c] = "none"
  BY <1>1, <1>2 DEF Reading, Money
<1>6. TypeOK'
  <2>1. \A d \in Calls : Len(reply[d]) \in Nat
    BY <1>1 DEF Functions
  <2>2. \A d \in Calls : arrived'[d] \in 0..Len(reply[d])
    <3>1. ASSUME NEW d \in Calls
          PROVE  arrived'[d] \in 0..Len(reply[d])
      <4>1. arrived'[d] \in Nat /\ arrived'[d] <= Len(reply[d]) /\ Len(reply[d]) \in Nat
        BY <1>3, <2>1
      <4> QED
        BY <4>1
    <3> QED
      BY <3>1
  <2> QED
    BY <1>1, <1>2, <1>3, <2>2 DEF TypeOK
<1>7. Functions'
  BY <1>1, <1>2, <1>3 DEF Functions
<1>8. Replies'
  <2>1. ASSUME NEW d \in Calls PROVE Replies!(d)'
    <3>1. arrived'[d] <= Len(reply[d]) /\ (arrived[d] >= 1 => arrived'[d] >= 1)
      BY <1>3
    <3>2. Replies!(d)
      BY <1>1 DEF Replies
    <3>3. Kind(d)' = Kind(d)
      BY <1>4
    <3> QED
      BY <1>2, <3>1, <3>2, <3>3
  <2> QED
    BY <2>1 DEF Replies
<1>9. Money'
  <2>1. ASSUME NEW d \in Calls PROVE Money!(d)'
    <3>1. phase[d] = "paying" => arrived'[d] = arrived[d]
      BY <1>3, <1>5
    <3>2. Money!(d)
      BY <1>1 DEF Money
    <3> QED
      BY <1>2, <3>1, <3>2
  <2> QED
    BY <2>1 DEF Money
<1>10. AnswerIsVerdict'
  <2>1. ASSUME NEW d \in Calls PROVE AnswerIsVerdict!(d)'
    <3>1. answer[d] # "none" => arrived'[d] = arrived[d]
      BY <1>3, <1>5
    <3>2. AnswerIsVerdict!(d)
      BY <1>1 DEF AnswerIsVerdict
    <3> QED
      BY <1>2, <3>1, <3>2
  <2> QED
    BY <2>1 DEF AnswerIsVerdict
<1> QED
  BY <1>6, <1>7, <1>8, <1>9, <1>10 DEF IInv

LEMMA StutterStep ==
    ASSUME IInv, UNCHANGED vars
    PROVE  IInv'
<1>1. TypeOK' = TypeOK /\ Functions' = Functions
  BY DEF vars, TypeOK, Functions
<1>2. Replies' = Replies /\ Money' = Money /\ AnswerIsVerdict' = AnswerIsVerdict
  BY DEF vars, Replies, Money, AnswerIsVerdict, Kind
<1> QED
  BY <1>1, <1>2 DEF IInv

LEMMA Inductive ==
    IInv /\ [Next]_vars => IInv'
<1> SUFFICES ASSUME IInv, [Next]_vars PROVE IInv'
  OBVIOUS
<1>1. ASSUME NEW c \in Calls,
             \/ ConnectFails(c) \/ ReadFails(c) \/ ProxyRefuses(c) \/ HttpFails(c)
             \/ CreateJob(c)
      PROVE  IInv'
  <2>1. Return(c, "error") /\ UNCHANGED <<setup, wire, tasks, paid>>
    BY <1>1 DEF ConnectFails, ReadFails, ProxyRefuses, HttpFails, CreateJob
  <2> QED
    BY <2>1, ReturnStep DEF Answers
<1>2. ASSUME NEW c \in Calls, Approve(c)
      PROVE  IInv'
  <2>1. Return(c, "approved") /\ UNCHANGED <<setup, wire, tasks, paid>> /\ phase[c] = "paying"
    BY <1>2 DEF Approve
  <2>2. code[c] = "00" /\ arrived[c] = Len(reply[c])
    BY <2>1 DEF IInv, Money
  <2> QED
    BY <2>1, <2>2, ReturnStep DEF Answers
<1>3. ASSUME NEW c \in Calls, CallStep(c)
      PROVE  IInv'
  BY <1>1, <1>2, <1>3, ProceedStep, DecideStep, PayStep, HttpStep DEF CallStep
<1>4. CASE \E c \in Calls :
             \/ Connect(c) \/ ConnectFails(c) \/ HttpPost(c) \/ ProxyRefuses(c) \/ CreateJob(c)
             \/ CallStep(c)
             \/ Serve(c) \/ Deliver(c) \/ Close(c)
  BY <1>1, <1>3, <1>4, ProceedStep, ServeStep, NetworkStep
<1> QED
  BY <1>4, CrashStep, StutterStep DEF Next

LEMMA Invariant ==
    Spec => []IInv
<1> QED
  BY InitIInv, Inductive, PTL DEF Spec
-----------------------------------------------------------------------------
\* Every variable keeps its type, and every reply begins with its length.
THEOREM TypeCorrect ==
    Spec => []TypeOK
<1>1. IInv => TypeOK
  BY DEF IInv
<1> QED
  BY Invariant, <1>1, PTL

\* gateway_app.py, gateway_forward.py, iso_sim.py and the proxies answer with the
\* processor's own verdict, and approve only what they read to its end, however
\* the reply is torn and wherever the processor dies.
THEOREM AnswerIsVerdictInv ==
    Spec => []AnswerIsVerdict
<1>1. IInv => AnswerIsVerdict
  BY DEF IInv
<1> QED
  BY Invariant, <1>1, PTL

\* The two payouts of an approval in gateway_app.py never exceed what was approved,
\* whatever the amount: each is a tenth of it.
THEOREM NeverOverpaidInv ==
    Spec => []NeverOverpaid
<1>1. ASSUME IInv PROVE NeverOverpaid
  <2>1. ASSUME NEW c \in Calls
        PROVE  paid[c] <= IF code[c] = "00" THEN 10 * amount[c] ELSE 0
    <3>1. paid[c] \in Nat /\ amount[c] \in {0, Amount}
      BY <1>1 DEF IInv, TypeOK
    <3>2. amount[c] \in Nat
      BY <3>1, GatewayAssumption
    <3>3. paid[c] <= 2 * amount[c] /\ (paid[c] # 0 => code[c] = "00")
      BY <1>1 DEF IInv, Money
    <3> QED
      BY <3>1, <3>2, <3>3
  <2> QED
    BY <2>1 DEF NeverOverpaid
<1> QED
  BY Invariant, <1>1, PTL

\* Neither codec of the gateway makes up fields or takes them from a part of an
\* object, wherever a reply is cut and whichever layout it has; iso_codec reads
\* every whole payload that has an MTI and fields, and iso8583 loses those of every
\* payload that begins with an MTI it cannot frame.
THEOREM CodecsKeepFieldsInv ==
    Spec => []CodecsKeepFields
<1>1. ASSUME IInv PROVE CodecsKeepFields
  <2>1. OwnStreamsKept
    BY RoundTripHolds, OwnStreams, AnyStreamKept DEF OwnStreamsKept
  <2>2. ASSUME NEW c \in Calls, NEW i \in {1, 2}
        PROVE  FieldsKept(SubSeq(reply[c], i, arrived[c]))
    <3>1. reply[c] \in Seq(Pieces) /\ arrived[c] \in Nat /\ arrived[c] <= Len(reply[c])
      BY <1>1 DEF IInv, Functions, Replies
    <3>2. SubSeq(reply[c], i, arrived[c]) \in Seq(Pieces)
      BY <3>1, CutIsStream
    <3> QED
      BY <3>2, AnyStreamKept
  <2>3. ASSUME NEW c \in Calls, NEW t, t = SubSeq(reply[c], 2, arrived[c]),
               IsObject(t), Keys \subseteq t[1].keys
        PROVE  UnpackIsoCodec(t).fields = "packed"
    <3>1. reply[c] \in Seq(Pieces) /\ arrived[c] \in Nat /\ arrived[c] <= Len(reply[c])
      BY <1>1 DEF IInv, Functions, Replies
    <3>2. t \in Seq(Pieces)
      BY <2>3, <3>1, CutIsStream
    <3> QED
      BY <2>3, <3>2, WholePayloadRead
  <2> QED
    BY <2>1, <2>2, <2>3 DEF CodecsKeepFields
<1> QED
  BY Invariant, <1>1, PTL
-----------------------------------------------------------------------------
(***************************************************************************)
(* The event loop of gateway_app.py.                                       *)
(***************************************************************************)
Blocking(c) == Kind(c) = "payout" /\ Reading(c)

\* A payout call that waits for its reply holds the loop, which one call can do;
\* it never goes over HTTP.
LoopTaken ==
    \A c \in Calls :
        /\ Blocking(c) => loop = c
        /\ phase[c] = "http" => Kind(c) # "payout"

\* Which calls a step moves, and from where.
LEMMA LoopStep ==
    ASSUME IInv, LoopTaken, [Next]_vars
    PROVE  /\ LoopTaken'
           /\ \A c, d \in Calls :
                  c # d /\ Blocking(c) /\ Kind(d) = "payout" /\ Blocking(c)'
                  => phase'[d] = phase[d]
<1> DEFINE Frozen ==
               \A c, d \in Calls :
                   c # d /\ Blocking(c) /\ Kind(d) = "payout" /\ Blocking(c)'
                   => phase'[d] = phase[d]
<1> SUFFICES LoopTaken' /\ Frozen
  OBVIOUS
<1>0. setup' = setup /\ phase \in [Calls -> Phases]
  BY DEF IInv, TypeOK, Phases, Next, CallStep, vars, Connect, ConnectFails, ReadHeader,
         ReadFails, ReadBody, BodyCut, Pay, Approve, GatewayCrash, HttpPost, ProxyRefuses,
         HttpAnswered, HttpFails, CreateJob, Serve, Deliver, Close
<1> USE <1>0, GatewayAssumption DEF LoopTaken, Blocking, Reading, Kind, SocketKinds, Return
<1>1. ASSUME NEW b \in Calls, Connect(b) \/ ConnectFails(b)
      PROVE  LoopTaken' /\ Frozen
  BY <1>1 DEF Connect, ConnectFails, Phases
<1>2. ASSUME NEW b \in Calls, ReadHeader(b) \/ ReadFails(b)
      PROVE  LoopTaken' /\ Frozen
  BY <1>2 DEF ReadHeader, ReadFails
<1>3. ASSUME NEW b \in Calls, ReadBody(b) \/ BodyCut(b)
      PROVE  LoopTaken' /\ Frozen
  BY <1>3 DEF ReadBody, BodyCut, Decide
<1>4. ASSUME NEW b \in Calls, Approve(b)
      PROVE  LoopTaken' /\ Frozen
  BY <1>4 DEF Approve
<1>5. ASSUME NEW b \in Calls, NEW t \in {"task", "await"}, Pay(b, t)
      PROVE  LoopTaken' /\ Frozen
  BY <1>5 DEF Pay
<1>6. CASE GatewayCrash
  BY <1>6 DEF GatewayCrash
<1>7. ASSUME NEW b \in Calls, Kind(b) # "payout",
             phase' \in {[phase EXCEPT ![b] = "http"], [phase EXCEPT ![b] = "done"]},
             loop' = IF loop = b THEN NoCall ELSE loop
      PROVE  LoopTaken' /\ Frozen
  BY <1>7
<1>10. ASSUME NEW b \in Calls, ProxyRefuses(b) \/ CreateJob(b) \/ HttpPost(b)
       PROVE  LoopTaken' /\ Frozen
  BY <1>10 DEF ProxyRefuses, CreateJob, HttpPost
<1>11. ASSUME NEW b \in Calls, HttpAnswered(b) \/ HttpFails(b)
       PROVE  LoopTaken' /\ Frozen
  <2>1. /\ phase[b] = "http" /\ phase' = [phase EXCEPT ![b] = "done"]
        /\ loop' = IF loop = b THEN NoCall ELSE loop
    BY <1>11 DEF HttpAnswered, HttpFails
  <2> QED
    BY <1>7, <2>1
<1>8. ASSUME NEW b \in Calls, Serve(b) \/ Deliver(b) \/ Close(b)
      PROVE  LoopTaken' /\ Frozen
  BY <1>8 DEF Serve, Deliver, Close
<1>9. CASE UNCHANGED vars
  BY <1>9 DEF vars
<1> QED
  BY <1>1, <1>2, <1>3, <1>4, <1>5, <1>6, <1>8, <1>9, <1>10, <1>11 DEF Next, CallStep

\* However many payouts overlap, gateway_app.py talks to the processor for one of
\* them at a time, and none of the others moves meanwhile.
THEOREM OnePayoutAtATimeStep == Spec => OnePayoutAtATime
<1>1. Init => LoopTaken
  BY DEF Init, LoopTaken, Blocking, Reading
<1>2. IInv /\ LoopTaken /\ [Next]_vars => LoopTaken'
  BY LoopStep
<1>3. IInv /\ LoopTaken /\ [Next]_vars =>
          [\A c, d \in Calls :
              /\ c # d /\ Kind(c) = "payout" /\ Kind(d) = "payout"
              /\ Reading(c) /\ Reading(c)'
              => phase'[d] = phase[d]]_vars
  <2> SUFFICES ASSUME IInv, LoopTaken, [Next]_vars, NEW c \in Calls, NEW d \in Calls,
                      c # d, Kind(c) = "payout", Kind(d) = "payout",
                      Reading(c), Reading(c)', ~UNCHANGED vars
               PROVE  phase'[d] = phase[d]
    OBVIOUS
  <2>1. Kind(c)' = Kind(c)
    BY DEF Kind, Next, CallStep, vars, Connect, ConnectFails, ReadHeader, ReadFails,
           ReadBody, BodyCut, Pay, Approve, GatewayCrash, HttpPost, ProxyRefuses,
           HttpAnswered, HttpFails, CreateJob, Serve, Deliver, Close
  <2> QED
    BY <2>1, LoopStep DEF Blocking
<1> QED
  BY <1>1, <1>2, <1>3, Invariant, PTL DEF Spec, OnePayoutAtATime
=============================================================================
