----------------------------- MODULE XPathValues -----------------------------
(* The values of XPath (xpath/object.rs) and the functions over them       *)
(* (xpath/functions.rs).  Text is a sequence of characters.  A number is a *)
(* fraction [n, d]: 1/0 and -1/0 are the infinities and 0/0 is NaN; the    *)
(* two zeros are one, and a fraction is written with at most Places        *)
(* digits.  A state is where an expression is evaluated: the model, the    *)
(* node with its position and the size, the context, the variables.        *)
EXTENDS XPathTree, XPathSyntax

CONSTANT LowerCase  \* the letters that have a lower case

Places == 4
Digits == [c \in {"0", "1", "2", "3", "4", "5", "6", "7", "8", "9"} |->
             CASE c = "0" -> 0 [] c = "1" -> 1 [] c = "2" -> 2 [] c = "3" -> 3 [] c = "4" -> 4
               [] c = "5" -> 5 [] c = "6" -> 6 [] c = "7" -> 7 [] c = "8" -> 8 [] c = "9" -> 9]
Blank == " "

(***************************************************************************)
(* Numbers.                                                                *)
(***************************************************************************)
NaN == [n |-> 0, d |-> 0]
Whole(n) == [n |-> n, d |-> 1]
Half == [n |-> 1, d |-> 2]
Sign(n) == IF n < 0 THEN -1 ELSE 1
Size(n) == n * Sign(n)

Fraction(n, d) ==
    LET Divides(k) == Size(n) % k = 0 /\ d % k = 0
        common == CHOOSE k \in 1 .. d : Divides(k) /\ \A j \in k + 1 .. d : ~Divides(j)
    IN CASE d = 0 -> [n |-> IF n = 0 THEN 0 ELSE Sign(n), d |-> 0]
         [] d # 0 /\ n = 0 -> Whole(0)
         [] OTHER -> [n |-> Sign(n) * (Size(n) \div common), d |-> d \div common]

Minus(a) == [a EXCEPT !.n = -a.n]
Plus(a, b) ==
    CASE a.d = 0 /\ b.d = 0 -> IF a = b THEN a ELSE NaN
      [] a.d = 0 /\ b.d # 0 -> a
      [] a.d # 0 /\ b.d = 0 -> b
      [] OTHER -> Fraction(a.n * b.d + b.n * a.d, a.d * b.d)
Times(a, b) == Fraction(a.n * b.n, a.d * b.d)
Over(a, b) == Times(a, [n |-> b.d * Sign(b.n), d |-> Size(b.n)])
Floor(a) == IF a.d = 0 THEN a ELSE Whole(a.n \div a.d)
Truncated(a) == IF a.n < 0 THEN Minus(Floor(Minus(a))) ELSE Floor(a)
Modulo(a, b) ==
    CASE a.d = 0 \/ b = Whole(0) \/ b = NaN -> NaN
      [] b.d = 0 /\ b # NaN /\ a.d # 0 -> a
      [] OTHER -> Plus(a, Minus(Times(b, Truncated(Over(a, b)))))
(* A half goes up.                                                         *)
Round(a) == Floor(Plus(a, Half))

Below(a, b) ==
    a # NaN /\ b # NaN /\ IF a.d = 0 /\ b.d = 0 THEN a.n < b.n ELSE a.n * b.d < b.n * a.d
Same(a, b) == a = b /\ a # NaN

(***************************************************************************)
(* Text as a number, and back.                                             *)
(***************************************************************************)
Position(text, c) == SelectInSeq(text, LAMBDA x : x = c)
AllDigits(text) == \A i \in DOMAIN text : text[i] \in DOMAIN Digits
Value(digits) == FoldLeft(LAMBDA v, c : 10 * v + Digits[c], 0, digits)

RECURSIVE Trimmed(_)
Trimmed(text) ==
    IF text = <<>> THEN text
    ELSE IF Head(text) = Blank THEN Trimmed(Tail(text))
    ELSE IF Last(text) = Blank THEN Trimmed(Front(text)) ELSE text

(* Digits, of which so many stand behind the point.                        *)
DigitsToNumber(digits, behind) ==
    IF digits = <<>> \/ ~AllDigits(digits) THEN NaN ELSE Fraction(Value(digits), 10 ^ behind)

UnsignedToNumber(text, point) ==
    IF point = 0 THEN DigitsToNumber(text, 0) ELSE DigitsToNumber(RemoveAt(text, point), Len(text) - point)

TrimmedToNumber(text) ==
    IF text # <<>> /\ Head(text) = "-" THEN Minus(UnsignedToNumber(Tail(text), Position(Tail(text), ".")))
    ELSE UnsignedToNumber(text, Position(text, "."))

StringToNumber(text) == TrimmedToNumber(Trimmed(text))

DigitChar(k) == CHOOSE c \in DOMAIN Digits : Digits[c] = k
RECURSIVE WholeDigits(_), FractionDigits(_, _, _)
WholeDigits(k) == IF k < 10 THEN <<DigitChar(k)>> ELSE Append(WholeDigits(k \div 10), DigitChar(k % 10))
FractionDigits(rest, d, places) ==
    IF rest = 0 \/ places = 0 THEN <<>>
    ELSE <<DigitChar((10 * rest) \div d)>> \o FractionDigits((10 * rest) % d, d, places - 1)

NumberToString(a) ==
    LET size == Size(a.n)
        rest == size % a.d
        sign == IF a.n < 0 THEN <<"-">> ELSE <<>>
    IN CASE a = NaN -> <<"N", "a", "N">>
         [] a.d = 0 /\ a # NaN -> sign \o <<"I", "n", "f", "i", "n", "i", "t", "y">>
         [] OTHER -> sign \o WholeDigits(size \div a.d)
                     \o IF rest = 0 THEN <<>> ELSE <<".">> \o FractionDigits(rest, a.d, Places)

(***************************************************************************)
(* Objects.                                                                *)
(***************************************************************************)
NodeSet(nodes) == [is |-> "nodes", nodes |-> nodes]
Boolean(b) == [is |-> "boolean", b |-> b]
Num(a) == [is |-> "number", a |-> a]
Str(text) == [is |-> "string", text |-> text]
Error == [is |-> "error"]

ToBoolean(o) ==
    CASE o.is = "nodes" -> o.nodes # <<>>
      [] o.is = "boolean" -> o.b
      [] o.is = "number" -> o.a \notin {Whole(0), NaN}
      [] o.is = "string" -> o.text # <<>>

ToText(m, o) ==
    CASE o.is = "nodes" -> IF o.nodes = <<>> THEN <<>> ELSE StringValue(m.doc, MakeNodeSet(m, o.nodes)[1])
      [] o.is = "boolean" -> IF o.b THEN <<"t", "r", "u", "e">> ELSE <<"f", "a", "l", "s", "e">>
      [] o.is = "number" -> NumberToString(o.a)
      [] o.is = "string" -> o.text

ToNumber(m, o) ==
    CASE o.is = "number" -> o.a
      [] o.is = "boolean" -> Whole(IF o.b THEN 1 ELSE 0)
      [] OTHER -> StringToNumber(ToText(m, o))

NodeNumber(m, x) == StringToNumber(StringValue(m.doc, x))

(* A value of the caller: its nodes are taken into the tree, or refused.   *)
Imported(m, nodes) == IF Contains(nodes, Nowhere) THEN Error ELSE NodeSet(MakeNodeSet(m, nodes))
ObjectOf(m, value) ==
    IF value.is = "nodes" THEN Imported(m, [i \in DOMAIN value.nodes |-> Import(m.doc, value.nodes[i])]) ELSE value

ResultOf(o) == IF o.is = "nodes" THEN NodeSet([i \in DOMAIN o.nodes |-> Export(o.nodes[i])]) ELSE o

(***************************************************************************)
(* The functions that need more than a line.                               *)
(***************************************************************************)
FoundAt(text, needle) ==
    LET at == {i \in 1 .. Len(text) - Len(needle) + 1 : SubSeq(text, i, i + Len(needle) - 1) = needle}
    IN IF at = {} THEN 0 ELSE Min(at)

Words(text) ==
    LET Starts(i) == text[i] # Blank /\ (i = 1 \/ text[i - 1] = Blank)
        End(i) == Max({j \in i .. Len(text) : \A k \in i .. j : text[k] # Blank})
        starts == SelectSeq([i \in DOMAIN text |-> i], Starts)
    IN [w \in DOMAIN starts |-> SubSeq(text, starts[w], End(starts[w]))]

NormalizeSpace(text) ==
    LET words == Words(text)
    IN FlattenSeq([w \in DOMAIN words |-> (IF w = 1 THEN <<>> ELSE <<Blank>>) \o words[w]])

(* The positions from a rounded start on, and before the rounded end.      *)
Substring(text, start, bounded, length) ==
    LET from == Round(start)
        until == Plus(from, Round(length))
        Kept(i) == /\ Below(from, Whole(i)) \/ from = Whole(i)
                   /\ bounded => Below(Whole(i), until)
        kept == SelectSeq([i \in DOMAIN text |-> i], Kept)
    IN [k \in DOMAIN kept |-> text[kept[k]]]

Translate(text, from, to) ==
    LET Kept(c) == Position(from, c) = 0 \/ Position(from, c) <= Len(to)
        kept == SelectSeq(text, Kept)
    IN [i \in DOMAIN kept |-> IF Position(from, kept[i]) = 0 THEN kept[i] ELSE to[Position(from, kept[i])]]

Lowered(text) == [i \in DOMAIN text |-> IF text[i] \in DOMAIN LowerCase THEN LowerCase[text[i]] ELSE text[i]]
SublanguageOf(value, wanted) ==
    Lowered(value) = Lowered(wanted) \/ IsPrefix(Lowered(wanted) \o <<"-">>, Lowered(value))

(* The nearest xml:lang decides.                                           *)
LangAttributes(t, nodes) ==
    SelectSeq(FlattenSeq([i \in DOMAIN nodes |-> Attributes(t, nodes[i])]),
              LAMBDA a : ExpandedName(t, a) = <<XmlNs, "lang">>)
Lang(s, wanted) ==
    LET given == LangAttributes(s.m.doc, <<s.node>> \o Ancestors(s.m.doc, s.node))
    IN given # <<>> /\ SublanguageOf(StringValue(s.m.doc, given[1]), wanted)

(* The elements the words name; a node-set names them by its values.       *)
IdentifiedBy(m, ids) == MakeNodeSet(m, [i \in DOMAIN ids |-> Tree(IdentifiedElement(m.doc, ids[i]))])
WordsOfNodes(m, nodes) == FlattenSeq([i \in DOMAIN nodes |-> Words(StringValue(m.doc, nodes[i]))])

IdNodes(m, argument) ==
    IdentifiedBy(m, IF argument.is = "nodes" THEN WordsOfNodes(m, argument.nodes) ELSE Words(ToText(m, argument)))

(* The names the document gives are strings: one piece of text each.       *)
Piece(name) == IF name = "" THEN <<>> ELSE <<name>>
QualifiedText(name) == IF name = <<>> THEN <<>>
                       ELSE IF name[1] = "" THEN Piece(name[2]) ELSE <<name[1], ":", name[2]>>

(* A function of the application: what its body does.                      *)
Extension(f, arguments, s) ==
    LET nodes == FlattenSeq([i \in DOMAIN arguments |-> IF arguments[i].is = "nodes" THEN arguments[i].nodes ELSE <<>>])
    IN CASE f.body = "here" -> ObjectOf(s.m, NodeSet(<<Export(s.node)>>))
         [] f.body = "reversed" -> ObjectOf(s.m, NodeSet(Reverse(nodes) \o nodes))
         [] f.body = "foreign" -> ObjectOf(s.m, NodeSet(<<Tree(Foreign)>>))
         [] f.body = "fail" -> Error

(* The core functions; a missing argument stands for the context node.    *)
TextBehind(text, needle, found) == IF found = 0 THEN <<>> ELSE SubSeq(text, found + Len(needle), Len(text))

FirstExpanded(t, nodes) == IF nodes = <<>> THEN <<>> ELSE ExpandedName(t, nodes[1])
FirstQualified(t, nodes) == IF nodes = <<>> THEN <<>> ELSE QualifiedName(t, nodes[1])
PieceOf(name, k) == IF name = <<>> THEN <<>> ELSE Piece(name[k])

NameFunctions == {"local-name", "namespace-uri", "name"}
NameCall(local, t, nodes) ==
    CASE local = "local-name" -> PieceOf(FirstExpanded(t, nodes), 2)
      [] local = "namespace-uri" -> PieceOf(FirstExpanded(t, nodes), 1)
      [] local = "name" -> QualifiedText(FirstQualified(t, nodes))

TextFunctions == {"string", "concat", "starts-with", "contains", "substring-before", "substring-after",
                  "string-length", "normalize-space", "translate"}
TextCall(local, texts) ==
    CASE local = "string" -> Str(texts[1])
      [] local = "concat" -> Str(FlattenSeq(texts))
      [] local = "starts-with" -> Boolean(IsPrefix(texts[2], texts[1]))
      [] local = "contains" -> Boolean(FoundAt(texts[1], texts[2]) # 0)
      [] local = "substring-before" -> Str(SubSeq(texts[1], 1, FoundAt(texts[1], texts[2]) - 1))
      [] local = "substring-after" -> Str(TextBehind(texts[1], texts[2], FoundAt(texts[1], texts[2])))
      [] local = "string-length" -> Num(Whole(Len(texts[1])))
      [] local = "normalize-space" -> Str(NormalizeSpace(texts[1]))
      [] local = "translate" -> Str(Translate(texts[1], texts[2], texts[3]))

NumberFunctions == {"number", "floor", "ceiling", "round"}
NumberCall(local, a) ==
    CASE local = "number" -> a
      [] local = "floor" -> Floor(a)
      [] local = "ceiling" -> Minus(Floor(Minus(a)))
      [] local = "round" -> Round(a)

OtherCall(local, arguments, s) ==
    CASE local = "last" -> Num(Whole(s.size))
      [] local = "position" -> Num(Whole(s.position))
      [] local = "count" -> Num(Whole(Len(arguments[1].nodes)))
      [] local = "sum" ->
           Num(FoldLeft(LAMBDA total, x : Plus(total, NodeNumber(s.m, x)), Whole(0), arguments[1].nodes))
      [] local = "id" -> NodeSet(IdNodes(s.m, arguments[1]))
      [] local = "lang" -> Boolean(Lang(s, ToText(s.m, arguments[1])))
      [] local = "substring" ->
           Str(Substring(ToText(s.m, arguments[1]), ToNumber(s.m, arguments[2]), Len(arguments) = 3,
                         ToNumber(s.m, Last(arguments))))
      [] local = "boolean" -> Boolean(ToBoolean(arguments[1]))
      [] local = "not" -> Boolean(~ToBoolean(arguments[1]))
      [] local = "true" -> Boolean(TRUE)
      [] local = "false" -> Boolean(FALSE)

NeedNodes == NameFunctions \union {"count", "sum"}

(* The context node, where no argument is given.                           *)
OwnCall(local, s) ==
    CASE local \in NameFunctions -> Str(NameCall(local, s.m.doc, <<s.node>>))
      [] local \in TextFunctions -> TextCall(local, <<StringValue(s.m.doc, s.node)>>)
      [] local \in NumberFunctions -> Num(NumberCall(local, NodeNumber(s.m, s.node)))
      [] OTHER -> OtherCall(local, <<>>, s)

CoreCall(local, arguments, s) ==
    IF arguments = <<>> THEN OwnCall(local, s)
    ELSE CASE local \in NeedNodes /\ arguments[1].is # "nodes" -> Error
           [] local \in NameFunctions /\ arguments[1].is = "nodes" ->
                Str(NameCall(local, s.m.doc, arguments[1].nodes))
           [] local \in TextFunctions -> TextCall(local, [i \in DOMAIN arguments |-> ToText(s.m, arguments[i])])
           [] local \in NumberFunctions -> Num(NumberCall(local, ToNumber(s.m, arguments[1])))
           [] OTHER -> OtherCall(local, arguments, s)

Call(prefix, local, arguments, s) ==
    IF ~Check(s.context, prefix, local, Len(arguments)) THEN Error
    ELSE IF prefix # "" THEN Extension(CHOOSE f \in FunctionsNamed(s.context, prefix, local) : TRUE, arguments, s)
    ELSE CoreCall(local, arguments, s)
=============================================================================
