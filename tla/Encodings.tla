------------------------------ MODULE Encodings -----------------------------
(***************************************************************************)
(* io/encoding: which encoding an entity is in, the decoders that turn its *)
(* bytes into characters and the encoders that do the reverse.  Bytes and  *)
(* characters are numbers; a label or a piece of markup is the sequence of *)
(* its code points.  The build modelled has no "encodings" feature: it     *)
(* reads and writes what is built in and knows no other name.              *)
(***************************************************************************)
EXTENDS Integers, Sequences, SequencesExt, TLC

(* The printable characters of ASCII from the blank on, the grave accent   *)
(* left out.                                                               *)
Codes(characters, first) ==
    [c \in {SubSeq(characters, k, k) : k \in 1..Len(characters)} |->
        first - 1 + CHOOSE k \in 1..Len(characters) : SubSeq(characters, k, k) = c]
CodeOf ==
    Codes(" !\"#$%&'()*+,-./0123456789:;<=>?@ABCDEFGHIJKLMNOPQRSTUVWXYZ[\\]^_", 32)
    @@ Codes("abcdefghijklmnopqrstuvwxyz{|}~", 97)

(* The code points of a string of printable ASCII. *)
Ascii(string) == [k \in 1..Len(string) |-> CodeOf[SubSeq(string, k, k)]]

Tab == 9
Lf == 10
Cr == 13
Space == 32
DoubleQuote == 34
SingleQuote == 39
Equals == 61

IsChar(c) == c \in {Tab, Lf, Cr} \/ c \in 32..55295 \/ c \in 57344..65533 \/ c \in 65536..1114111

XmlBlank == {Tab, Lf, Cr, Space}
AsciiBlank == XmlBlank \union {12}

-----------------------------------------------------------------------------
(* Text *)
From(s, i) == SubSeq(s, i, Len(s))

FromIfAny(s, i) == IF i = 0 THEN <<>> ELSE From(s, i)
SkipIn(s, blank) == FromIfAny(s, SelectInSeq(s, LAMBDA c : c \notin blank))

(* Where pattern first occurs in s, or 0. *)
FirstOf(places) == IF places = {} THEN 0 ELSE CHOOSE i \in places : \A j \in places : i <= j
Find(s, pattern) ==
    FirstOf({i \in 1..(Len(s) - Len(pattern) + 1) : SubSeq(s, i, i + Len(pattern) - 1) = pattern})

Lower(label) == [k \in DOMAIN label |-> IF label[k] \in 65..90 THEN label[k] + 32 ELSE label[k]]
Trim(label) == Reverse(SkipIn(Reverse(SkipIn(label, AsciiBlank)), AsciiBlank))

Letters == (65..90) \union (97..122)
IsEncName(name) ==
    /\ name # <<>> /\ name[1] \in Letters
    /\ \A k \in DOMAIN name : name[k] \in Letters \union (48..57) \union {45, 46, 95}

(* pseudo-attributes: a name, perhaps = and a value in quotes.  What is    *)
(* wrong with the pair is its fault, and rest is what comes after it.      *)
NamedPair(name, value, fault, rest) == [name |-> name, value |-> value, fault |-> fault, rest |-> rest]

(* From the quote, whose closing one is the close-th character behind it. *)
QuotedPair(name, open, close) ==
    IF close = 0 THEN NamedPair(name, <<>>, "unclosed", <<>>)
    ELSE NamedPair(name, SubSeq(open, 2, close), "none", From(open, close + 2))

PairValue(name, open) ==
    IF open = <<>> \/ open[1] \notin {DoubleQuote, SingleQuote} THEN NamedPair(name, <<>>, "unquoted", open)
    ELSE QuotedPair(name, open, SelectInSeq(From(open, 2), LAMBDA c : c = open[1]))

PairBehindName(name, equals, blank) ==
    IF equals = <<>> \/ equals[1] # Equals THEN NamedPair(name, <<>>, "no equals sign", equals)
    ELSE PairValue(name, SkipIn(From(equals, 2), blank))

PairNamed(start, stop, blank) ==
    IF stop = 0 THEN NamedPair(start, <<>>, "no equals sign", <<>>)
    ELSE PairBehindName(SubSeq(start, 1, stop - 1), SkipIn(From(start, stop), blank), blank)

PairFrom(start, blank) == PairNamed(start, SelectInSeq(start, LAMBDA c : c = Equals \/ c \in blank), blank)
Pair(s, blank) == PairFrom(SkipIn(s, blank), blank)

-----------------------------------------------------------------------------
(* Decoders.  A decoder is the name of its encoding; UTF-16 with its order *)
(* still to come becomes one of the other two.  At a place in the bytes    *)
(* there is a character of some width, or the beginning of one, or none.   *)
Character(code, width) == [kind |-> "character", code |-> code, width |-> width]
Incomplete == [kind |-> "incomplete"]
Malformed == [kind |-> "malformed"]

(* std::str::from_utf8: the form of each length, without overlong forms,   *)
(* surrogates and what is past U+10FFFF.                                   *)
Utf8Width(lead) ==
    CASE lead < 128 -> 1 [] lead \in 194..223 -> 2 [] lead \in 224..239 -> 3
      [] lead \in 240..244 -> 4 [] OTHER -> 0

Utf8Second(lead) ==
    CASE lead = 224 -> 160..191 [] lead = 237 -> 128..159
      [] lead = 240 -> 144..191 [] lead = 244 -> 128..143 [] OTHER -> 128..191

Utf8At(bytes, i) ==
    LET lead == bytes[i]
        width == Utf8Width(lead)
        tail == SubSeq(bytes, i + 1, IF i + width - 1 < Len(bytes) THEN i + width - 1 ELSE Len(bytes))
        fits == \A k \in DOMAIN tail : tail[k] \in IF k = 1 THEN Utf8Second(lead) ELSE 128..191
        head == IF width = 1 THEN lead ELSE lead % (2 ^ (7 - width))
    IN CASE width = 0 \/ ~fits -> Malformed
         [] Len(tail) < width - 1 -> Incomplete
         [] OTHER -> Character(FoldLeft(LAMBDA code, byte : 64 * code + (byte % 64), head, tail), width)

Utf16At(order, bytes, i) ==
    LET Unit(k) == IF order = "UTF-16BE" THEN 256 * bytes[k] + bytes[k + 1]
                                         ELSE bytes[k] + 256 * bytes[k + 1]
        highs == 55296..56319
        lows == 56320..57343
    IN CASE i = Len(bytes) -> Incomplete
         [] Unit(i) \in lows -> Malformed
         [] Unit(i) \notin highs -> Character(Unit(i), 2)
         [] i + 3 > Len(bytes) -> Incomplete
         [] Unit(i + 2) \notin lows -> Malformed
         [] OTHER -> Character(65536 + 1024 * (Unit(i) - 55296) + Unit(i + 2) - 56320, 4)

CharacterAt(decoder, bytes, i) ==
    CASE decoder = "UTF-8" -> Utf8At(bytes, i)
      [] decoder \in {"UTF-16LE", "UTF-16BE"} -> Utf16At(decoder, bytes, i)
      [] decoder = "US-ASCII" -> IF bytes[i] < 128 THEN Character(bytes[i], 1) ELSE Malformed
      [] decoder = "ISO-8859-1" -> Character(bytes[i], 1)

(* decode, from byte start on: the text there, how many bytes it took, and *)
(* whether a fault was met.  The beginning of a character is one when no   *)
(* more bytes will come.                                                   *)
Decoded(decoder, text, used, ok) == [decoder |-> decoder, text |-> text, used |-> used, ok |-> ok]

RECURSIVE DecodeOn(_, _, _, _, _)
DecodeNext(decoder, bytes, i, last, text, c) ==
    IF c.kind = "character" THEN DecodeOn(decoder, bytes, i + c.width, last, Append(text, c.code))
    ELSE Decoded(decoder, text, i - 1, c.kind = "incomplete" /\ ~last)
DecodeOn(decoder, bytes, i, last, text) ==
    IF i > Len(bytes) THEN Decoded(decoder, text, i - 1, TRUE)
    ELSE DecodeNext(decoder, bytes, i, last, text, CharacterAt(decoder, bytes, i))

(* The bytes behind a mark, if there is one, in an order that is known. *)
DecodeMarked(bytes, last) ==
    LET marked == \E mark \in {<<254, 255>>, <<255, 254>>} : IsPrefix(mark, bytes)
    IN DecodeOn(IF marked /\ bytes[1] = 254 THEN "UTF-16BE" ELSE "UTF-16LE", bytes, IF marked THEN 3 ELSE 1,
                last, <<>>)

Decode(decoder, bytes, last) ==
    CASE decoder = "none" -> Decoded(decoder, <<>>, 0, FALSE)
      [] decoder = "UTF-16" /\ Len(bytes) < 2 -> Decoded(decoder, <<>>, 0, ~last \/ bytes = <<>>)
      [] decoder = "UTF-16" -> DecodeMarked(bytes, last)
      [] OTHER -> DecodeOn(decoder, bytes, 1, last, <<>>)

(* lookup *)
Aliases ==
    { [decoder |-> "UTF-8", labels |-> {Ascii("utf-8"), Ascii("utf8")}],
      [decoder |-> "UTF-16", labels |-> {Ascii("utf-16"), Ascii("utf16")}],
      [decoder |-> "UTF-16LE", labels |-> {Ascii("utf-16le"), Ascii("utf16le")}],
      [decoder |-> "UTF-16BE", labels |-> {Ascii("utf-16be"), Ascii("utf16be")}],
      [decoder |-> "US-ASCII", labels |-> {Ascii("us-ascii"), Ascii("ascii"), Ascii("ansi_x3.4-1968")}],
      [decoder |-> "ISO-8859-1",
       labels |-> {Ascii("iso-8859-1"), Ascii("iso8859-1"), Ascii("latin1"), Ascii("iso_8859-1")}] }

DecoderOf(aliases) == IF aliases = {} THEN "unknown" ELSE (CHOOSE a \in aliases : TRUE).decoder
LookupName(name) == DecoderOf({a \in Aliases : name \in a.labels})
Lookup(label) == LookupName(Lower(Trim(label)))

-----------------------------------------------------------------------------
(* Encoders: what each can hold, and what becomes of the rest. *)
CanEncode(decoder) == IF decoder \in {"UTF-8", "US-ASCII", "ISO-8859-1"} THEN decoder ELSE "unknown"
EncoderFor(label) == CanEncode(Lookup(label))

Utf8Bytes(c) ==
    LET Low(shift) == 128 + ((c \div (64 ^ shift)) % 64)
    IN CASE c < 128 -> <<c>>
         [] c < 2048 -> <<192 + c \div 64, Low(0)>>
         [] c < 65536 -> <<224 + c \div 4096, Low(1), Low(0)>>
         [] OTHER -> <<240 + c \div 262144, Low(2), Low(1), Low(0)>>

Limit(encoder) == CASE encoder = "US-ASCII" -> 128 [] encoder = "ISO-8859-1" -> 256

Holds(encoder, c) == encoder = "UTF-8" \/ c < Limit(encoder)

EncodeOne(encoder, c) == IF encoder = "UTF-8" THEN Utf8Bytes(c) ELSE <<c>>

(* encode: all of the text, or none of it. *)
Encodable(encoder, text) == \A k \in DOMAIN text : Holds(encoder, text[k])
Encode(encoder, text) == FlattenSeq([k \in DOMAIN text |-> EncodeOne(encoder, text[k])])

Digits(n) ==
    LET digits[m \in Nat] == IF m < 10 THEN <<48 + m>> ELSE Append(digits[m \div 10], 48 + (m % 10))
    IN digits[n]

Reference(c) == Ascii("&#") \o Digits(c) \o Ascii(";")

EncodeWithReferences(encoder, text) ==
    FlattenSeq([k \in DOMAIN text |->
        IF Holds(encoder, text[k]) THEN EncodeOne(encoder, text[k]) ELSE Reference(text[k])])

-----------------------------------------------------------------------------
(* detect: the encoding the first bytes of an entity tell, if they do. *)
Mark(bytes, label) == [bytes |-> bytes, label |-> Ascii(label), bom |-> Len(bytes)]
Opening(bytes, label) == [bytes |-> bytes, label |-> Ascii(label), bom |-> 0]

Signatures ==
    << Mark(<<0, 0, 254, 255>>, "UTF-32BE"), Mark(<<255, 254, 0, 0>>, "UTF-32LE"),
       Mark(<<239, 187, 191>>, "UTF-8"), Mark(<<254, 255>>, "UTF-16BE"), Mark(<<255, 254>>, "UTF-16LE"),
       Opening(<<0, 0, 0, 60>>, "UTF-32BE"), Opening(<<60, 0, 0, 0>>, "UTF-32LE"),
       Opening(<<0, 60, 0, 63>>, "UTF-16BE"), Opening(<<60, 0, 63, 0>>, "UTF-16LE"),
       Opening(<<76, 111, 167, 148>>, "EBCDIC") >>

Undecided == [decided |-> FALSE]
Decided(label, bom, source) == [decided |-> TRUE, label |-> label, bom |-> bom, source |-> source]
DefaultEncoding == Decided(Ascii("UTF-8"), 0, "default")

OrDefault(detected) == IF detected.decided THEN detected ELSE DefaultEncoding

(* scan_for_encoding: an empty sequence when there is none.  A value that  *)
(* is not UTF-8 ends the search, one that is not a name of an encoding     *)
(* does not.                                                               *)
RECURSIVE ScanForEncoding(_)
ScanPair(pair) ==
    LET named == pair.fault = "none" /\ pair.name = Ascii("encoding")
    IN CASE pair.fault = "unclosed" -> <<>>
         [] named /\ ~Decode("UTF-8", pair.value, TRUE).ok -> <<>>
         [] named /\ IsEncName(pair.value) -> pair.value
         [] OTHER -> ScanForEncoding(pair.rest)
ScanForEncoding(declaration) ==
    IF SkipIn(declaration, AsciiBlank) = <<>> THEN <<>> ELSE ScanPair(Pair(declaration, AsciiBlank))

XmlDeclStart == Ascii("<?xml")

(* A faulty form: a declaration is read only when it is whole, or not yet  *)
(* long enough to have a value.                                            *)
DetectInWhole(bytes) ==
    LET rest == SkipIn(bytes, AsciiBlank)
        end == Find(rest, Ascii("?>"))
        label == ScanForEncoding(From(SubSeq(rest, 1, end - 1), 6))
    IN IF end = 0 \/ label = <<>> THEN DefaultEncoding ELSE Decided(label, 0, "declaration")

(* What the pseudo-attributes say, of a declaration that has ended or not. *)
DetectLabel(label, ended) ==
    CASE label # <<>> -> Decided(label, 0, "declaration")
      [] ended -> DefaultEncoding
      [] OTHER -> Undecided

DetectPairs(after, end) ==
    DetectLabel(ScanForEncoding(IF end = 0 THEN after ELSE SubSeq(after, 1, end - 1)), end # 0)

DetectAfterStart(rest) ==
    CASE IsPrefix(rest, XmlDeclStart) -> Undecided
      [] ~IsPrefix(XmlDeclStart, rest) \/ rest[6] \notin AsciiBlank -> DefaultEncoding
      [] OTHER -> DetectPairs(From(rest, 6), Find(From(rest, 6), Ascii("?>")))

DetectDeclaration(bytes) == DetectAfterStart(SkipIn(bytes, AsciiBlank))

(* The signature found, an index or 0; one that bytes only begin wins. *)
DetectSignature(bytes, matched) ==
    CASE bytes = <<>> \/ \E k \in DOMAIN Signatures : IsStrictPrefix(bytes, Signatures[k].bytes) -> Undecided
      [] matched # 0 -> Decided(Signatures[matched].label, Signatures[matched].bom, "signature")
      [] OTHER -> DetectDeclaration(bytes)

Detect(bytes) == DetectSignature(bytes, SelectInSeq(Signatures, LAMBDA s : IsPrefix(s.bytes, bytes)))
=============================================================================
