------------------------------ MODULE IsoCodec ------------------------------
(***************************************************************************)
(* The two codecs of the gateway: app/iso_codec.py and app/iso8583.py.     *)
(* Both write a length and a JSON text, but the second puts the MTI and    *)
(* then the length before it and the first keeps the MTI inside.  A stream *)
(* is a sequence of pieces, each longer than three bytes: a length of n    *)
(* pieces, an MTI, and the two halves of the text of a JSON object with    *)
(* the given keys.  A stream may be cut between any two pieces.            *)
(***************************************************************************)
EXTENDS Naturals, Sequences

Keys == {"mti", "fields"}
Piece(kind, n, keys) == [kind |-> kind, n |-> n, keys |-> keys]
Length(n) == Piece("length", n, {})
Mti == Piece("mti", 0, {})
Json(keys) == <<Piece("open", 0, keys), Piece("close", 0, {})>>

Codecs == {"iso_codec", "iso8583"}

Pack(codec) ==
    CASE codec = "iso_codec" -> <<Length(2)>> \o Json({"mti", "fields"})
      [] codec = "iso8583" -> <<Mti, Length(2)>> \o Json({"fields"})

(***************************************************************************)
(* What an unpacker returns: an exception, or an MTI and the fields, each  *)
(* of them the packed one or a default.                                    *)
(***************************************************************************)
Raised == [ok |-> FALSE, mti |-> "none", fields |-> "none"]
Result(mti, fields) == [ok |-> TRUE, mti |-> mti, fields |-> fields]
Of(key, open) == IF key \in open.keys THEN "packed" ELSE "default"

\* The four bytes of an MTI or of a JSON text, read as a length, are far more
\* than any stream is long.
Huge == 9999
Word(piece) == IF piece.kind = "length" THEN piece.n ELSE Huge

IsObject(s) == Len(s) = 2 /\ s[1].kind = "open" /\ s[2].kind = "close"

\* iso_codec.unpack_iso: with its length, or without it.
UnpackIsoCodec(s) ==
    LET payload == IF s # << >> /\ Word(s[1]) = Len(s) - 1 THEN Tail(s) ELSE s IN
        IF IsObject(payload) /\ Keys \subseteq payload[1].keys
        THEN Result("packed", "packed") ELSE Raised

Framed(s) ==
    /\ Len(s) >= 2
    /\ Word(s[2]) <= Len(s) - 2
    /\ IsObject(SubSeq(s, 3, 2 + Word(s[2])))

\* Mutant: the search for the first value skips the header.
FirstValueAnywhere(s) ==
    IF Len(s) >= 3 THEN Result("packed", "packed") ELSE Raised

\* raw_decode at the start of the stream; the leading zero of an MTI is a
\* complete JSON number, and a number has no fields.
FirstValue(s) ==
    CASE s # << >> /\ s[1].kind = "mti" -> Result("default", "default")
      [] Len(s) >= 2 /\ IsObject(SubSeq(s, 1, 2)) ->
             Result(Of("mti", s[1]), Of("fields", s[1]))
      [] OTHER -> Raised

\* iso8583.unpack_iso: MTI and length, or else the first JSON value.
UnpackIso8583(s) ==
    IF s # << >> /\ Framed(s) THEN Result("packed", Of("fields", s[3])) ELSE FirstValue(s)

Unpack(codec, s) ==
    CASE codec = "iso_codec" -> UnpackIsoCodec(s)
      [] codec = "iso8583" -> UnpackIso8583(s)
-----------------------------------------------------------------------------
\* What a reader may hold of a packed message: all of it or its beginning, with
\* or without the leading length.
Streams(codec) ==
    LET whole == Pack(codec)
        cuts == {SubSeq(whole, 1, n) : n \in 0..Len(whole)}
    IN cuts \cup {Tail(s) : s \in cuts \ {<< >>}}

\* Each codec reads its own frames back.
RoundTrip == \A c \in Codecs :
    Unpack(c, Pack(c)).ok /\ Unpack(c, Pack(c)).fields = "packed"

\* At piece i the stream has the whole text of a JSON object.
Whole(s, i) == i < Len(s) /\ s[i].kind = "open" /\ s[i + 1].kind = "close"

\* It begins with an MTI, and no length and object of that length follow.
Lost(s) == s # << >> /\ s[1].kind = "mti" /\ ~Framed(s)

\* Neither codec makes up fields, or takes them from a part of an object.  A
\* message without fields comes from iso8583 alone, for a whole object that has
\* none -- and for every stream that begins with an MTI it cannot frame, whose
\* fields it loses, although it says that it "will try to parse the first JSON
\* object from the bytes".
FieldsKept(s) ==
    /\ \A c \in Codecs :
        LET fields == Unpack(c, s).fields IN
            /\ fields = "packed" =>
                   \E i \in 1..Len(s) : Whole(s, i) /\ "fields" \in s[i].keys
            /\ fields = "default" =>
                   /\ c = "iso8583"
                   /\ \/ Lost(s)
                      \/ \E i \in 1..Len(s) : Whole(s, i) /\ "fields" \notin s[i].keys
    /\ Lost(s) => UnpackIso8583(s) = Result("default", "default")

OwnStreamsKept ==
    RoundTrip /\ \A c \in Codecs : \A s \in Streams(c) : FieldsKept(s)
=============================================================================
