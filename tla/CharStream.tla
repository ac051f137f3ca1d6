----------------------------- MODULE CharStream -----------------------------
(***************************************************************************)
(* io/stream.rs: the characters of one entity, decoded from bytes that     *)
(* come in any pieces, with line ends normalised and every character       *)
(* checked; and io/decl.rs, which looks at the first of them for a text    *)
(* declaration.  A reader takes the characters off the front.              *)
(*                                                                         *)
(* Text is counted in characters where the code counts the bytes of UTF-8. *)
(***************************************************************************)
EXTENDS Encodings

CONSTANTS
    Sources,          \* the entities: how the stream is made, label, bytes, and the size of a piece
    Counts,           \* how many characters a reader may take at once
    SniffLimit,       \* SNIFF_LIMIT
    CompactThreshold, \* COMPACT_THRESHOLD
    MaxPending        \* MAX_PENDING

VARIABLES
    source,   \* the entity being read
    fed,      \* how many of its bytes have been given to the stream
    stream,   \* the CharStream
    chosen,   \* the caller gave the encoding
    taken     \* history: the text the reader has taken

streamVars == <<source, fed, stream, chosen, taken>>

-----------------------------------------------------------------------------
(* Location *)
StartLocation == [line |-> 1, column |-> 1, offset |-> 0]

AdvanceOver(at, text) ==
    FoldLeft(LAMBDA here, c :
                 [line |-> IF c = Lf THEN here.line + 1 ELSE here.line,
                  column |-> IF c = Lf THEN 1 ELSE here.column + 1,
                  offset |-> here.offset + 1],
             at, text)

NewStream ==
    [ state |-> "sniffing", sniffed |-> <<>>, decoder |-> "none", encoding |-> "none",
      buf |-> <<>>, start |-> 0, pending |-> <<>>, afterCr |-> FALSE, finished |-> FALSE,
      charsAppended |-> 0, bytesDecoded |-> 0, at |-> StartLocation,
      error |-> "none", errorAt |-> StartLocation ]

Remainder(s) == From(s.buf, s.start + 1)
LocationOf(s, index) == AdvanceOver(s.at, SubSeq(s.buf, s.start + 1, index))

(* A faulty form: a line feed is dropped only behind a carriage return of  *)
(* the same piece.                                                         *)
AppendForgetfully(s, text) ==
    [s EXCEPT !.buf = @ \o [k \in DOMAIN text |-> IF text[k] = Cr THEN Lf ELSE text[k]],
              !.charsAppended = @ + Len(text)]

(* append *)
AppendText(s, text) ==
    LET AppendOne(t, c) ==
            LET shown == IF c = Cr THEN Lf ELSE c
            IN CASE t.error # "none" -> t
                 [] t.afterCr /\ c = Lf -> [t EXCEPT !.afterCr = FALSE]
                 [] ~IsChar(shown) ->
                        [t EXCEPT !.error = "WellFormedness", !.errorAt = LocationOf(t, Len(t.buf))]
                 [] OTHER -> [t EXCEPT !.afterCr = (c = Cr), !.buf = Append(@, shown),
                                       !.charsAppended = @ + 1]
    IN FoldLeft(AppendOne, s, text)

(* decode: what is left of the bytes before and those that come now are    *)
(* decoded as one piece, as far as it goes.                                *)
AddDecoded(s, decoded, rest, last) ==
    IF ~decoded.ok \/ (last /\ rest # <<>>) \/ Len(rest) > MaxPending
    THEN [s EXCEPT !.error = "Encoding", !.errorAt = s.at]
    ELSE AppendText([s EXCEPT !.decoder = decoded.decoder, !.pending = rest, !.finished = last,
                              !.bytesDecoded = @ + decoded.used],
                    decoded.text)

DecodeHeld(s, held, decoded, last) == AddDecoded(s, decoded, From(held, decoded.used + 1), last)

DecodeBytes(s, bytes, last) ==
    DecodeHeld(s, s.pending \o bytes, Decode(s.decoder, s.pending \o bytes, last), last)

StartDecoding(s, decoder, bytes, last) ==
    DecodeBytes([s EXCEPT !.state = "decoding", !.sniffed = <<>>, !.decoder = decoder, !.encoding = decoder],
                bytes, last)

(* feed *)
UseDetected(s, decoder, bytes, last) ==
    IF decoder = "unknown" THEN [s EXCEPT !.error = "Encoding", !.errorAt = s.at]
    ELSE StartDecoding(s, decoder, bytes, last)

UseDetection(s, sniffed, detection, last) ==
    UseDetected(s, Lookup(detection.label), From(sniffed, detection.bom + 1), last)

SniffDetected(s, sniffed, detected, last) ==
    IF ~detected.decided /\ ~last /\ Len(sniffed) < SniffLimit THEN [s EXCEPT !.sniffed = sniffed]
    ELSE UseDetection(s, sniffed, OrDefault(detected), last)

Sniff(s, sniffed, last) == SniffDetected(s, sniffed, Detect(sniffed), last)

FeedBytes(s, bytes, last) ==
    IF s.state = "sniffing" THEN Sniff(s, s.sniffed \o bytes, last) ELSE DecodeBytes(s, bytes, last)

(* A faulty form: the location stays with what is dropped. *)
CompactLocation(s) ==
    IF s.start >= CompactThreshold THEN [s EXCEPT !.buf = From(@, s.start + 1), !.start = 0, !.at = StartLocation]
    ELSE s

Compact(s) ==
    IF s.start >= CompactThreshold /\ s.start * 2 >= Len(s.buf)
    THEN [s EXCEPT !.buf = From(@, s.start + 1), !.start = 0]
    ELSE s

(* advance *)
AdvanceStream(s, count) ==
    Compact([s EXCEPT !.at = LocationOf(s, s.start + count), !.start = @ + count])

-----------------------------------------------------------------------------
(* decl.rs: whether text begins with a text declaration, and how long it is. *)
TextDecl(kind, length) == [kind |-> kind, length |-> length]

(* The names the pseudo-attributes give, up to an empty one in the place   *)
(* of the first that may not stand there.                                  *)
RECURSIVE DeclaredNames(_, _)
PairDeclares(pair, seen) ==
    IF /\ pair.fault = "none"
       /\ \/ pair.name = Ascii("encoding") /\ ~Contains(seen, pair.name)
          \/ pair.name = Ascii("version") /\ seen = <<>>
    THEN DeclaredNames(pair.rest, Append(seen, pair.name))
    ELSE Append(seen, <<>>)
DeclaredNames(text, seen) ==
    IF SkipIn(text, XmlBlank) = <<>> THEN seen ELSE PairDeclares(Pair(text, XmlBlank), seen)

DeclarationEndingAt(text, end, last) ==
    CASE end = 0 -> TextDecl(IF last THEN "Error" ELSE "NeedMore", 0)
      [] end # 0 /\ DeclaredNames(SubSeq(text, 6, end - 1), <<>>) \in
                        {<<Ascii("encoding")>>, <<Ascii("version"), Ascii("encoding")>>} ->
            TextDecl("Present", end + 1)
      [] OTHER -> TextDecl("Error", 0)

TextDeclarationSpan(text, last) ==
    CASE ~last /\ IsPrefix(text, XmlDeclStart) -> TextDecl("NeedMore", 0)
      [] ~IsPrefix(XmlDeclStart, text) \/ Len(text) = 5 \/ text[6] \notin XmlBlank -> TextDecl("None", 0)
      [] OTHER -> DeclarationEndingAt(text, Find(text, Ascii("?>")), last)

(* strip_text_declaration: it is taken off a stream that has all its text. *)
StripTextDeclaration(s) == AdvanceStream(s, TextDeclarationSpan(Remainder(s), TRUE).length)

-----------------------------------------------------------------------------
(* new, with_encoding and from_text *)
MadeStream(src) ==
    CASE src.how = "told" -> [NewStream EXCEPT !.state = "decoding", !.decoder = Lookup(src.label),
                                                !.encoding = Lookup(src.label)]
      [] src.how = "text" -> AppendText([NewStream EXCEPT !.state = "decoding", !.finished = TRUE], src.text)
      [] OTHER -> NewStream

StreamInit ==
    /\ source \in Sources
    /\ stream = MadeStream(source)
    /\ fed = 0
    /\ chosen = (source.how = "told")
    /\ taken = <<>>

Usable == stream.error = "none"

(* The next piece; the one that ends the bytes may be said to be the last, *)
(* or an empty one may follow.                                             *)
Feed ==
    LET upto == IF fed + source.piece < Len(source.bytes) THEN fed + source.piece ELSE Len(source.bytes)
        piece == SubSeq(source.bytes, fed + 1, upto)
    IN /\ Usable /\ ~stream.finished
       /\ \E last \in BOOLEAN :
             /\ last => upto = Len(source.bytes)
             /\ stream' = FeedBytes(stream, piece, last)
       /\ fed' = upto
       /\ UNCHANGED <<source, chosen, taken>>

(* use_encoding: before decoding begins, with a name that is known. *)
UseEncoding ==
    /\ Usable /\ source.how = "late" /\ stream.state = "sniffing"
    /\ Lookup(source.label) # "unknown"
    /\ stream' = StartDecoding(stream, Lookup(source.label), stream.sniffed, FALSE)
    /\ chosen' = TRUE
    /\ UNCHANGED <<source, fed, taken>>

(* advance_chars *)
Take(count) ==
    LET n == IF count < Len(Remainder(stream)) THEN count ELSE Len(Remainder(stream))
    IN /\ Usable /\ n > 0
       /\ stream' = AdvanceStream(stream, n)
       /\ taken' = taken \o SubSeq(Remainder(stream), 1, n)
       /\ UNCHANGED <<source, fed, chosen>>

(* The reader of an external entity starts behind its text declaration.    *)
Strip ==
    /\ Usable /\ stream.finished /\ taken = <<>>
    /\ \E verdict \in {TextDeclarationSpan(Remainder(stream), TRUE)} :
          /\ verdict.kind = "Present"
          /\ taken' = SubSeq(Remainder(stream), 1, verdict.length)
    /\ stream' = StripTextDeclaration(stream)
    /\ UNCHANGED <<source, fed, chosen>>

StreamNext == Feed \/ UseEncoding \/ Strip \/ \E count \in Counts : Take(count)

StreamSpec == StreamInit /\ [][StreamNext]_streamVars

-----------------------------------------------------------------------------
(* What the whole entity says, read at once. *)
Normalised(text) ==
    LET lineEnd(k) == text[k] = Cr \/ (text[k] = Lf /\ (k = 1 \/ text[k - 1] # Cr))
    IN FlattenSeq([k \in DOMAIN text |->
           CASE lineEnd(k) -> <<Lf>> [] text[k] = Lf -> <<>> [] OTHER -> <<text[k]>>])

ReadAtOnce(decoder, bytes) ==
    LET decoded == Decode(decoder, bytes, TRUE)
        text == Normalised(decoded.text)
        bad == SelectInSeq(text, LAMBDA c : ~IsChar(c))
    IN [ok |-> decoded.ok /\ bad = 0, text |-> IF bad = 0 THEN text ELSE SubSeq(text, 1, bad - 1)]

(* A declaration that does not fit where it is looked for is found or not  *)
(* as the pieces fall.                                                     *)
LongHead ==
    /\ Len(source.bytes) >= SniffLimit
    /\ ~Detect(SubSeq(source.bytes, 1, SniffLimit)).decided

Detection == OrDefault(Detect(source.bytes))

Readings ==
    CASE source.how = "text" ->
            LET text == Normalised(source.text)
                bad == SelectInSeq(text, LAMBDA c : ~IsChar(c))
            IN {[ok |-> bad = 0, text |-> IF bad = 0 THEN text ELSE SubSeq(text, 1, bad - 1)]}
      [] chosen -> {ReadAtOnce(Lookup(source.label), source.bytes)}
      [] OTHER ->
            LET Read(label, bom) ==
                    IF Lookup(label) = "unknown" THEN [ok |-> FALSE, text |-> <<>>]
                    ELSE ReadAtOnce(Lookup(label), From(source.bytes, bom + 1))
            IN {Read(Detection.label, Detection.bom)}
               \union (IF LongHead THEN {Read(Ascii("UTF-8"), 0)} ELSE {})

Delivered == taken \o Remainder(stream)

(* The text is that of the whole entity, up to its first fault, and a      *)
(* reader is told of a fault exactly when there is one (io/stream.rs,      *)
(* feed, decode, append).                                                  *)
DeliversTheText ==
    \E reading \in Readings :
        /\ IsPrefix(Delivered, reading.text)
        /\ stream.error # "none" => ~reading.ok
        /\ stream.error = "none" /\ stream.finished => reading.ok /\ Delivered = reading.text

(* Every byte is decoded, held back, being looked at or a mark, and counted*)
(* once; what is held back is the beginning of one character; the location *)
(* is where the text taken ends, and a forbidden character is where the    *)
(* text ends (io/stream.rs, bytes_decoded, chars_decoded, location_of).    *)
CountsWhatWasRead ==
    LET mark == IF stream.state = "sniffing" \/ chosen THEN 0
                ELSE IF LongHead THEN 0 ELSE Detection.bom
    IN /\ stream.error = "none" /\ source.how # "text" =>
             /\ fed = stream.bytesDecoded + Len(stream.pending) + Len(stream.sniffed) + mark
             /\ Len(stream.pending) <= 3
       /\ stream.charsAppended = Len(Delivered)
       /\ stream.at = AdvanceOver(StartLocation, taken)
       /\ stream.error = "WellFormedness" => stream.errorAt = AdvanceOver(StartLocation, Delivered)

(* The encoding a text declaration names. *)
NamedEncoding(text) ==
    LET first == Pair(From(text, 6), XmlBlank)
    IN IF first.name = Ascii("encoding") THEN first.value ELSE Pair(first.rest, XmlBlank).value

(* What a reader decides of a text declaration from the text it has stands *)
(* when the rest has come, and the encoding in use is the one the          *)
(* declaration names, unless a mark, the width of the characters or the    *)
(* caller said otherwise (io/decl.rs, text_declaration_span;               *)
(* io/encoding/detect.rs, detect).                                         *)
DeclarationSettled ==
    taken = <<>> /\ stream.error = "none" /\ source.how # "text" =>
        LET verdict == TextDeclarationSpan(Remainder(stream), stream.finished)
            label == NamedEncoding(Remainder(stream))
        IN /\ verdict.kind # "NeedMore" =>
                 \A reading \in Readings : reading.ok /\ IsPrefix(Remainder(stream), reading.text) =>
                     verdict = TextDeclarationSpan(reading.text, TRUE)
           /\ /\ verdict.kind = "Present" /\ IsEncName(label)
              /\ ~chosen /\ ~LongHead /\ Detection.source # "signature"
              => stream.encoding = Lookup(label)

(* However the bytes are cut, a reader gets the text the whole entity has, *)
(* with the counts and locations of what was read, in the encoding and     *)
(* under the declaration that the whole entity would have been given.      *)
ChunksDoNotMatter == DeliversTheText /\ CountsWhatWasRead /\ DeclarationSettled
=============================================================================
