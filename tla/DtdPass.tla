------------------------------- MODULE DtdPass --------------------------------
(* One pass of the parser over the buffer of a DTD (dtd/read.rs): a        *)
(* recursive descent that splices in the parameter entities it knows and   *)
(* stops at the first it would have to fetch. Text is a sequence of        *)
(* tokens; each carries, besides what is written, where it was written,    *)
(* which the parser never reads.                                           *)
EXTENDS Naturals, Sequences, FiniteSets, FiniteSetsExt, DtdModel, SequencesExt

-----------------------------------------------------------------------------
(* Where the text of a DTD came from (dtd/read.rs: Layout). The buffer is  *)
(* rewritten whenever a parameter entity is spliced in, and the pieces     *)
(* move with it. Positions count tokens from zero, and a range ends before *)
(* its end.                                                                *)
Span(from, to) == [from |-> from, to |-> to]
Size(span) == span.to - span.from
NoSpan == Span(0, 0)
NoBase == "none"

Piece(range, content, replaced, kind, base) ==
    [range |-> range, content |-> content, replaced |-> replaced, kind |-> kind, base |-> base]
Origins == {"internal subset", "external subset", "external entity"}
Entities == {"external entity", "internal entity"}

(* A text still covers the same text once `range` was replaced by newLen:  *)
(* what lies behind moves, what encloses the range grows or shrinks.       *)
Least(a, b) == IF a < b THEN a ELSE b
Greatest(a, b) == IF a < b THEN b ELSE a

Moved(p, range, newLen) == p + newLen - Size(range)

ShiftBehindOnly(region, range, newLen) ==
    IF region.from >= range.to THEN Span(Moved(region.from, range, newLen), Moved(region.to, range, newLen))
    ELSE region

Shift(region, range, newLen) ==
    IF region.from >= range.to THEN Span(Moved(region.from, range, newLen), Moved(region.to, range, newLen))
    ELSE IF region.to > range.from
    THEN Span(Least(region.from, range.from), Moved(Greatest(region.to, range.to), range, newLen))
    ELSE region

-----------------------------------------------------------------------------
WithInternalSubset(len, base) ==
    [internalLen |-> len,
     pieces |-> IF len = 0 THEN <<>> ELSE <<Piece(Span(0, len), Span(0, len), 0, "internal subset", base)>>]

WithExternalSubset(layout, range, base) ==
    [layout EXCEPT !.pieces = Append(@, Piece(range, range, 0, "external subset", base))]

Splice(layout, range, newLen, content, replaced, kind, base) ==
    LET spliced == Piece(Span(range.from, range.from + newLen),
                         Span(range.from + content.from, range.from + content.to), replaced, kind, base)
        Shifted(piece) == [piece EXCEPT !.range = Shift(@, range, newLen), !.content = Shift(@, range, newLen)]
    IN [internalLen |-> IF range.from < layout.internalLen
                        THEN Moved(Greatest(layout.internalLen, range.to), range, newLen)
                        ELSE layout.internalLen,
        pieces |-> Append([i \in DOMAIN layout.pieces |-> Shifted(layout.pieces[i])], spliced)]

Holds(piece, pos) == piece.content.from <= pos /\ pos <= piece.content.to
Within(piece, outer) == outer.content.from <= piece.range.from /\ piece.range.to <= outer.content.to

(* Pieces nest: the innermost is the shortest, the latest if there are     *)
(* several. Zero stands for none.                                          *)
Innermost(layout, Test(_)) ==
    LET found == {i \in DOMAIN layout.pieces : Test(layout.pieces[i])}
        Length(i) == Size(layout.pieces[i].content)
    IN IF found = {} THEN 0
       ELSE CHOOSE i \in found : \A j \in found : Length(i) < Length(j) \/ (Length(i) = Length(j) /\ i >= j)

SourceAt(layout, pos) == Innermost(layout, LAMBDA piece : piece.kind \in Origins /\ Holds(piece, pos))

IsExternal(layout, pos) ==
    LET source == SourceAt(layout, pos)
    IN IF source = 0 THEN pos >= layout.internalLen
       ELSE layout.pieces[source].kind \in {"external subset", "external entity"}

EntityAt(layout, pos) ==
    LET entity == Innermost(layout, LAMBDA piece : /\ piece.kind \in Entities
                                                   /\ piece.content.from <= pos /\ pos < piece.content.to)
    IN IF entity = 0 THEN NoSpan ELSE layout.pieces[entity].content

BaseAt(layout, pos) ==
    LET source == SourceAt(layout, pos) IN IF source = 0 THEN NoBase ELSE layout.pieces[source].base

ChildrenOf(layout, parent) ==
    LET inside == {i \in DOMAIN layout.pieces \ {parent} : Within(layout.pieces[i], layout.pieces[parent])}
    IN {i \in inside : ~\E j \in inside \ {i} : Within(layout.pieces[i], layout.pieces[j])}

(* A position in the text as it was written: what was spliced in counts    *)
(* for the reference it replaced, and a position in it for the reference.  *)
LocationAt(layout, pos) ==
    LET source == SourceAt(layout, pos)
        start == layout.pieces[source].content.from
        children == {i \in ChildrenOf(layout, source) : layout.pieces[i].range.from < pos}
        around == {i \in children : pos < layout.pieces[i].range.to}
        stop == IF around = {} THEN pos ELSE layout.pieces[CHOOSE i \in around : TRUE].range.from
        Gain(i) == Size(layout.pieces[i].range) - layout.pieces[i].replaced
    IN IF source = 0 THEN [base |-> NoBase, offset |-> 0]
       ELSE [base |-> layout.pieces[source].base, offset |-> stop - start - MapThenSumSet(Gain, children \ around)]

-----------------------------------------------------------------------------
CONSTANTS Names,           \* the tokens that are names, keywords among them
          PeName,          \* the references to parameter entities: token -> name
          GeName,          \* the references to general entities: token -> name
          CharRef,         \* the character references: token -> the token they stand for
          MaxContentDepth

(* A token and where it stands: in which resource, how far into it, and in *)
(* which instance of a parameter entity.                                   *)
Token(t, base, offset, pe) == [t |-> t, base |-> base, offset |-> offset, pe |-> pe]
Written(text, base) == [i \in DOMAIN text |-> Token(text[i], base, i - 1, 0)]

(* What the parser has at hand. `inline` holds texts that need no fetching *)
(* and is empty in the program; `by`, `lists` and `odd` say who wrote what *)
(* and where it failed, and are not read either.                           *)
Start(buf, layout, inline) ==
    [buf |-> buf, layout |-> layout, pos |-> 0, dtd |-> EmptyDtd, stop |-> "", ask |-> <<>>, val |-> <<>>,
     inline |-> inline, by |-> Nothing, lists |-> {},
     odd |-> ""]

Then(s, Op(_)) == IF s.stop # "" THEN s ELSE Op(s)
Yield(s, val) == [s EXCEPT !.val = val]
Bind(s, Op(_, _)) == Then(s, LAMBDA r : Op(r, r.val))
Giving(s, Op(_)) == Then(s, LAMBDA r : Yield(r, Op(r.val)))

PeekAt(s, n) == IF s.pos + n < Len(s.buf) THEN s.buf[s.pos + n + 1].t ELSE "end"
Peek(s) == PeekAt(s, 0)
Fail(s) == [s EXCEPT !.stop = "error", !.odd = Peek(s)]
Undeclared(s) == [s EXCEPT !.stop = "error"]
Skip(s) == [s EXCEPT !.pos = @ + 1]
SkipWhitespace(s) ==
    [s EXCEPT !.pos = CHOOSE p \in s.pos .. Len(s.buf) :
        /\ p < Len(s.buf) => s.buf[p + 1].t # " "
        /\ \A q \in s.pos .. p - 1 : s.buf[q + 1].t = " "]
Expect(s, t) == Then(s, LAMBDA r : IF Peek(r) = t THEN Skip(r) ELSE Fail(r))

External(s) == IsExternal(s.layout, s.pos)
AtReference(s) == Peek(s) \in DOMAIN PeName
AtKeyword(s, k) == Peek(s) = k /\ PeekAt(s, 1) \in {" ", "(", ">", "%", "end"} \union DOMAIN PeName

-----------------------------------------------------------------------------
(* Splicing replaces the reference at `at` by a text, with a space added   *)
(* on each side where it stands as markup.                                 *)
Replaced(buf, at, text, spaced, base, pe) ==
    LET reference == buf[at + 1]
        space == <<[reference EXCEPT !.t = " "]>>
        own == [i \in DOMAIN text |->
                   IF base = NoBase THEN [reference EXCEPT !.t = text[i], !.pe = pe]
                   ELSE Token(text[i], base, i - 1, pe)]
    IN SubSeq(buf, 1, at) \o (IF spaced THEN space \o own \o space ELSE own) \o SubSeq(buf, at + 2, Len(buf))

Spliced(buf, layout, at, text, spaced, kind, base) ==
    LET added == IF spaced THEN 1 ELSE 0
        pe == Len(layout.pieces) + 1
    IN [buf |-> Replaced(buf, at, text, spaced, IF kind = "internal entity" THEN NoBase ELSE base, pe),
        layout |-> Splice(layout, Span(at, at + 1), Len(text) + 2 * added,
                          Span(added, added + Len(text)), 1, kind, base)]

Escaped(text) == [i \in DOMAIN text |-> IF text[i] = "\"" THEN "&#34;" ELSE IF text[i] = "'" THEN "&#39;" ELSE text[i]]
AsProvided(text, inLiteral) == IF inLiteral THEN Escaped(text) ELSE text

With(s, spliced, pos) == [s EXCEPT !.buf = spliced.buf, !.layout = spliced.layout, !.pos = pos]

(* The text of an external entity has to be fetched, unless it is at hand. *)
Pause(s, name, entity, inLiteral) ==
    LET id == <<entity.base, entity.system>>
    IN IF id \in DOMAIN s.inline
       THEN With(s, Spliced(s.buf, s.layout, s.pos, AsProvided(s.inline[id].text, inLiteral), ~inLiteral,
                            "external entity", s.inline[id].uri),
                 IF inLiteral THEN s.pos ELSE s.pos + 1)
       ELSE [s EXCEPT !.stop = "pause",
                      !.ask = [name |-> name, id |-> id, at |-> s.pos, inLiteral |-> inLiteral]]

RECURSIVE ExpandReferences(_)
ExpandReferences(s) ==
    IF s.stop # "" \/ ~AtReference(s) THEN s
    ELSE LET name == PeName[Peek(s)]
         IN IF name \notin DOMAIN s.dtd.parameter THEN Undeclared(s)
            ELSE LET entity == s.dtd.parameter[name]
                 IN ExpandReferences(
                      IF entity.kind = "internal"
                      THEN With(s, Spliced(s.buf, s.layout, s.pos, entity.value, TRUE, "internal entity", NoBase), s.pos + 1)
                      ELSE Pause(s, name, entity, FALSE))

(* Inside a declaration, references are expanded in external text only.    *)
Approach(s) == Then(Then(Then(s, SkipWhitespace), ExpandReferences), SkipWhitespace)
ExpandIfExternal(s) == IF External(s) THEN ExpandReferences(s) ELSE s
SkipSeparators(s) ==
    Then(s, LAMBDA r : LET t == SkipWhitespace(r)
                       IN IF External(t) THEN Then(ExpandReferences(t), SkipWhitespace) ELSE t)
RequireWhitespace(s) ==
    Then(s, LAMBDA r : IF External(r) /\ AtReference(r) THEN ExpandReferences(r)
                       ELSE IF Peek(r) = " " THEN ExpandIfExternal(SkipWhitespace(r))
                       ELSE Fail(r))

RawName(s) == IF Peek(s) \in Names THEN Yield(Skip(s), Peek(s)) ELSE Fail(s)
Name(s) == Then(Then(s, ExpandIfExternal), RawName)
CloseDeclaration(s) == Expect(Then(s, SkipWhitespace), ">")

Quotes == {"\"", "'"}

(* A literal with nothing to expand, of which only the value matters.      *)
Literal(s) ==
    Then(s, LAMBDA r :
        LET ends == {p \in r.pos + 1 .. Len(r.buf) - 1 : r.buf[p + 1].t = Peek(r)}
        IN IF Peek(r) \notin Quotes \/ ends = {} THEN Fail(r)
           ELSE LET end == CHOOSE p \in ends : \A q \in ends : p <= q
                IN Yield([r EXCEPT !.pos = end + 1], r.buf[r.pos + 2].t))

SystemLiteral(s) == Giving(Literal(s), LAMBDA id : [system |-> id])

BehindPublic(public, next, publicOnly) ==
    IF publicOnly /\ Peek(next) \in {">", "end"} THEN Yield(next, [system |-> NoBase])
    ELSE IF next.pos = public.pos THEN Fail(next) ELSE SystemLiteral(next)

ExternalId(s, publicOnly) ==
    Then(s, LAMBDA r :
        IF AtKeyword(r, "SYSTEM")
        THEN SystemLiteral(RequireWhitespace(Skip(r)))
        ELSE IF AtKeyword(r, "PUBLIC")
        THEN Then(Literal(RequireWhitespace(Skip(r))), LAMBDA q : BehindPublic(q, SkipWhitespace(q), publicOnly))
        ELSE Fail(r))

(* The value of an entity: in external text, a parameter entity is         *)
(* included as it is, and one to be fetched is spliced in with its quotes  *)
(* escaped. In the internal subset a reference is an error.                *)
RECURSIVE ValueTail(_, _)
ValueTail(s, quote) ==
    LET Kept(t) == ValueTail(Yield(Skip(s), Append(s.val, t)), quote)
    IN IF s.stop # "" THEN s
       ELSE IF External(s) /\ AtReference(s)
       THEN LET name == PeName[Peek(s)]
            IN IF name \notin DOMAIN s.dtd.parameter THEN Undeclared(s)
               ELSE LET entity == s.dtd.parameter[name]
                    IN ValueTail(IF entity.kind = "internal" THEN Yield(Skip(s), s.val \o entity.value)
                                 ELSE Pause(s, name, entity, TRUE), quote)
       ELSE CASE Peek(s) = "end" -> Fail(s)
              [] Peek(s) = quote -> Skip(s)
              [] Peek(s) \in DOMAIN PeName \union {"%"} -> Fail(s)
              [] Peek(s) \in DOMAIN CharRef -> Kept(CharRef[Peek(s)])
              [] OTHER -> Kept(Peek(s))

EntityValue(s) ==
    Then(s, LAMBDA r : IF Peek(r) \in Quotes THEN ValueTail(Yield(Skip(r), <<>>), Peek(r)) ELSE Fail(r))
=============================================================================
