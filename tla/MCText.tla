------------------------------- MODULE MCText -------------------------------
(* The text side of the library on small entities and documents: streams   *)
(* that read entities of every encoding in pieces, and documents that are  *)
(* written by calls and, once they have ended, read back as the entity     *)
(* they have become.                                                       *)
EXTENDS WriterSource, CharStream

VARIABLES plan, place  \* the calls that may be made one after the other, and the next

writing == <<writeVars, plan, place>>
textVars == <<writing, streamVars>>

-----------------------------------------------------------------------------
(* Entities *)
Declared(text) == Ascii("<?xml ") \o Ascii(text) \o Ascii("?>")
Wide(text) == FlattenSeq([k \in DOMAIN text |-> <<0, text[k]>>])
Grin == <<240, 159, 152, 128>>
Sun == <<230, 151, 165>>

Sniffed ==
    { <<>>, <<Cr, Lf, Cr, Cr, Lf, 97>>, <<97, Cr>>,
      <<239, 187, 191>> \o Sun \o Grin \o <<Cr, Lf>>,
      <<60>> \o Sun \o <<230, 151, 65>>, Sun \o <<240, 159>>, <<97, Lf, 0, 97>>, <<237, 160, 128>>, <<192, 128>>,
      <<255, 254, 97, 0, 61, 216, 0, 222>>, <<255, 254>>, <<255, 254, 0, 0>>, <<254, 255, 0, 97, 216, 61>>,
      <<254, 255>>, <<254, 255, 220, 0>>,
      Wide(Ascii("<?x")) \o <<216, 61, 222, 0>>, <<60, 0, 0, 0>>, <<76, 111, 167, 148>>,
      Declared("encoding='latin1'") \o <<233, Cr, Lf>>,
      Declared("version='1.0' encoding = 'us-ascii' ") \o <<97, 233>>,
      Declared("encoding='utf-16'"), Declared("encoding='nothing'"),
      Declared("version='1.0'") \o Sun, Declared("disabled encoding='latin1'") \o <<233>>,
      Declared("encoding='8' encoding='latin1'"), Declared("version='1.0' encoding='latin1"),
      Declared("encoding='latin1' version='1.0'"), Declared("version='?>' encoding='latin1'"),
      Ascii("<?xmlns?>") \o Sun, Ascii("<?xml"), Ascii(" <?xml encoding='latin1'?>") \o <<233>>,
      Declared("version='1.0'                                encoding='latin1'") \o <<233>> }

Cut(how, bytes, label) ==
    { [how |-> how, bytes |-> bytes, label |-> label, piece |-> n] : n \in {1, 3, 100} }

MCSources ==
    UNION { Cut("sniff", b, <<>>) : b \in Sniffed }
    \union UNION { Cut(how, b, Ascii(label)) :
        how \in {"told", "late"}, label \in {"UTF-8", " Latin1 ", "UTF-16"},
        b \in { <<239, 187, 191, 97, 98>>, <<254, 255, 0, 97>>, <<255, 254, 97, 0>>,
                <<97, 0, Cr, 0, Lf, 0>>, <<97>>, Ascii("<?xml encoding='ascii'?>") } }
    \union { [how |-> "text", text |-> t, bytes |-> <<>>, label |-> <<>>, piece |-> 1] :
        t \in {<<97, Cr, Lf, Cr, 98>>, <<Lf, 97, 11, 98>>} }

NoSource == [how |-> "none", bytes |-> <<>>, label |-> <<>>, piece |-> 1]

-----------------------------------------------------------------------------
(* Calls *)
XmlName == "http://www.w3.org/XML/1998/namespace"
Start(name, ns) == [kind |-> "Start", name |-> Ascii(name), ns |-> Ascii(ns)]
Att(name, ns, value) == [kind |-> "Attribute", name |-> Ascii(name), ns |-> Ascii(ns), value |-> value]
Text(kind, text) == [kind |-> kind, text |-> text]
Pi(target, data) == [kind |-> "ProcessingInstruction", target |-> Ascii(target), text |-> data]
Type(name, public, system) ==
    [kind |-> "Doctype", name |-> Ascii(name), publicId |-> Ascii(public), systemId |-> Ascii(system)]
End == Boundary("End")
Ending == Boundary("EndDocument")

Acute == 233
Smile == 128512
Marks == Ascii("<&>\"']]>") \o <<Tab, Lf, Cr, Lf, Cr, Acute, Smile>>

Contents ==
    { Text("Characters", Marks), Text("Characters", <<11>>),
      Text("Cdata", <<>>), Text("Cdata", <<97, Cr, Lf>>), Text("Cdata", <<Acute>>),
      Text("Cdata", Ascii("]]>]]>a]]>")),
      Text("Comment", <<45, 97, Cr>>), Text("Comment", Ascii("a-")), Text("Comment", <<Smile>>),
      Pi("p", <<Space, Cr, 97>>), Pi("xml", <<>>), Pi("q", Ascii("?>")) }

(* A document with something of everything; what may stand before it and   *)
(* in it; and calls in any order.                                          *)
Everything ==
    << {Start("a", ""), Start("p:a", "u")},
       {Att("k", "", Marks), Att("xmlns:p", "", Ascii("u")), Att("xml:space", XmlName, Ascii("no"))},
       {Att("p:k", "u", <<97>>)} \union Contents,
       {Start("b", ""), End, Text("Characters", <<Lf>>)}, {End}, {End, Ending}, {Ending} >>
Prologue ==
    << { Type("a", "", "s'>"), Type("a", "-//p", "s"), Type("a", "p", ""), Type("1", "", "s"),
         Text("Comment", <<97>>), Boundary("StartDocument") },
       {Start("a", ""), Start("a:b:c", ""), Type("a", "", "s")}, {Type("a", "", "t"), End}, {End}, {Ending} >>
AnyOrder ==
    LET calls == {Start("a", ""), Att("k", "", <<97>>), Type("a", "", "s"), Text("Characters", <<97>>), End, Ending}
    IN << calls, calls, calls, {Start("b", ""), End, Ending}, {Ending, Text("Comment", <<>>)} >>

Setup(attached, encoder, declared, declaration) ==
    [ attached |-> attached, encoder |-> encoder, declared |-> Ascii(declared), declaration |-> declaration,
      standalone |-> "none", lineBreak |-> <<>>, breaksAt |-> "none" ]
Checked ==
    { Setup("checked", "UTF-8", "", FALSE), Setup("lenient", "US-ASCII", "", FALSE),
      [Setup("checked", "ISO-8859-1", "latin1", TRUE) EXCEPT !.standalone = "yes", !.lineBreak = <<Cr, Lf>>],
      Setup("lenient", "UTF-8", "utf-8", TRUE) }
Loose ==
    { Setup("bare", "UTF-8", "", FALSE) }
    \union { [Setup("early", "UTF-8", "", FALSE) EXCEPT !.breaksAt = k] :
               k \in {"StartDocument", "Doctype", "StartElement", "Characters", "EndDocument"} }

Works ==
    [asked : Checked, plan : {Everything, Prologue}]
    \union [asked : Loose \union {Setup("checked", "UTF-8", "", FALSE)}, plan : {AnyOrder}]
    \union [asked : {Setup("bare", "US-ASCII", "", TRUE)}, plan : {Prologue}]

-----------------------------------------------------------------------------
(* A document is what an application would tell of it: elements by their   *)
(* names, with attributes, and between them the characters one by one,     *)
(* comments, processing instructions and the document type.                *)
Item(kind, name, text) == [kind |-> kind, name |-> name, text |-> text]
Characters(text) == [k \in DOMAIN text |-> Item("Char", <<>>, <<text[k]>>)]
TypeItem(name, public, system) == [kind |-> "Type", name |-> name, public |-> public, system |-> system]
Element(name, atts) == [kind |-> "Start", name |-> name, attributes |-> atts]

(* The document that calls describe.  A line end that no reference can     *)
(* protect is one line feed, the blanks before the data of a processing    *)
(* instruction are not part of it, and a document type that is written     *)
(* while a start tag is still open comes before the element.               *)
Describe(doc, c) ==
    LET n == Len(doc.items)
        Add(items) == [doc EXCEPT !.items = @ \o items]
    IN CASE c.kind = "Start" ->
              [items |-> Append(doc.items, Element(c.name, <<>>)), names |-> Append(doc.names, c.name)]
         [] c.kind = "Attribute" ->
              [doc EXCEPT !.items[n].attributes = Append(@, [name |-> c.name, value |-> c.value])]
         [] c.kind = "End" ->
              [items |-> Append(doc.items, Item("End", Last(doc.names), <<>>)), names |-> Front(doc.names)]
         [] c.kind = "Doctype" ->
              LET type == TypeItem(c.name, c.publicId, c.systemId)
              IN IF n > 0 /\ doc.items[n].kind = "Start" THEN [doc EXCEPT !.items = InsertAt(@, n, type)]
                 ELSE Add(<<type>>)
         [] c.kind = "Characters" -> Add(Characters(c.text))
         [] c.kind = "Cdata" -> Add(Characters(Normalised(c.text)))
         [] c.kind = "Comment" -> Add(<< Item("Comment", <<>>, Normalised(c.text)) >>)
         [] c.kind = "ProcessingInstruction" ->
              Add(<< Item("Instruction", c.target, SkipIn(Normalised(c.text), XmlBlank)) >>)
         [] OTHER -> doc
Described == FoldLeft(Describe, [items |-> <<>>, names |-> <<>>], granted).items

(* The document a text is, for the markup a writer writes. *)
Number(digits) == FoldLeft(LAMBDA n, d : 10 * n + d - 48, 0, digits)
Named ==
    { [name |-> Ascii("amp"), code |-> 38], [name |-> Ascii("lt"), code |-> 60], [name |-> Ascii("gt"), code |-> 62],
      [name |-> Ascii("quot"), code |-> DoubleQuote] }
RECURSIVE Unescaped(_)
Unescaped(text) ==
    LET semi == Find(text, Ascii(";"))
        name == SubSeq(text, 2, semi - 1)
        code == IF name[1] = 35 THEN Number(Tail(name)) ELSE (CHOOSE e \in Named : e.name = name).code
    IN CASE text = <<>> -> <<>>
         [] text[1] = 38 -> <<code>> \o Unescaped(From(text, semi + 1))
         [] OTHER -> <<text[1]>> \o Unescaped(Tail(text))

Before(text, mark) == SubSeq(text, 1, Find(text, Ascii(mark)) - 1)
Behind(text, mark) == From(text, Find(text, Ascii(mark)) + Len(mark))

(* Attributes up to the end of a tag: name="value" behind a blank. *)
Blanked(value) == [k \in DOMAIN value |-> IF value[k] \in {Tab, Lf} THEN Space ELSE value[k]]
RECURSIVE TagAttributes(_)
TagAttributes(text) ==
    IF text = <<>> \/ text[1] # Space THEN [attributes |-> <<>>, rest |-> text]
    ELSE LET value == Behind(text, "=\"")
             more == TagAttributes(Behind(value, "\""))
         IN [more EXCEPT !.attributes =
                << [name |-> Before(Tail(text), "="), value |-> Unescaped(Blanked(Before(value, "\"")))] >> \o @]

NameEnd(text) == SelectInSeq(text, LAMBDA c : c \in {Space, 47, 62})

Literals(text) ==
    LET one == Behind(text, "\"")
        two == Behind(one, "\"")
    IN IF IsPrefix(Ascii(" SYSTEM"), text) THEN [public |-> <<>>, system |-> Before(one, "\""), rest |-> Behind(two, ">")]
       ELSE IF IsPrefix(Ascii(" PUBLIC"), text)
       THEN [public |-> Before(one, "\""), system |-> Before(Behind(two, "\""), "\""),
             rest |-> Behind(Behind(Behind(two, "\""), "\""), ">")]
       ELSE [public |-> <<>>, system |-> <<>>, rest |-> Behind(text, ">")]

RECURSIVE ReadItems(_)
ReadItems(text) ==
    LET Opens(mark) == IsPrefix(Ascii(mark), text)
        body == From(text, 2)
        instruction == Before(From(text, 3), "?>")
        target == Before(instruction \o Ascii(" "), " ")
        declared == From(text, 11)
        literals == Literals(From(declared, NameEnd(declared)))
        name == SubSeq(body, 1, NameEnd(body) - 1)
        tag == TagAttributes(From(body, NameEnd(body)))
        stop == Find(text, Ascii("<"))
        characters == IF stop = 0 THEN text ELSE SubSeq(text, 1, stop - 1)
    IN CASE text = <<>> -> <<>>
         [] Opens("<!--") ->
              << Item("Comment", <<>>, Before(From(text, 5), "-->")) >> \o ReadItems(Behind(From(text, 5), "-->"))
         [] Opens("<![CDATA[") ->
              Characters(Before(From(text, 10), "]]>")) \o ReadItems(Behind(From(text, 10), "]]>"))
         [] Opens("<!DOCTYPE ") ->
              << TypeItem(SubSeq(declared, 1, NameEnd(declared) - 1), literals.public, literals.system) >>
              \o ReadItems(literals.rest)
         [] Opens("<?") ->
              << Item("Instruction", target, SkipIn(From(instruction, Len(target) + 1), XmlBlank)) >>
              \o ReadItems(Behind(text, "?>"))
         [] Opens("</") -> << Item("End", Before(From(text, 3), ">"), <<>>) >> \o ReadItems(Behind(text, ">"))
         [] Opens("<") ->
              << Element(name, tag.attributes) >>
              \o (IF tag.rest[1] = 47 THEN << Item("End", name, <<>>) >> ELSE <<>>)
              \o ReadItems(Behind(tag.rest, ">"))
         [] OTHER -> Characters(Unescaped(characters)) \o ReadItems(From(text, Len(characters) + 1))

ReadDocument(text) ==
    ReadItems(IF IsPrefix(Ascii("<?xml "), text) THEN SkipIn(Behind(text, "?>"), XmlBlank) ELSE text)

-----------------------------------------------------------------------------
Init ==
    /\ WriterInit
    /\ place = 1
    /\ \/ /\ StreamInit
          /\ asked = Setup("bare", "UTF-8", "", FALSE) /\ plan = <<>>
       \/ /\ source = NoSource /\ stream = NewStream /\ fed = 0 /\ chosen = FALSE /\ taken = <<>>
          /\ \E work \in Works : asked = work.asked /\ plan = work.plan

Write ==
    /\ plan # <<>> /\ UNCHANGED <<streamVars, plan>>
    /\ \/ WriteStep /\ UNCHANGED place
       \/ Drop /\ UNCHANGED place
       \/ /\ place <= Len(plan) /\ place' = place + 1
          /\ \E c \in plan[place] : Call(c)

(* What has been written is an entity. *)
HandOver ==
    /\ source = NoSource /\ Checks /\ step = "Ended" /\ stage = "idle"
    /\ source' = [how |-> "sniff", bytes |-> writer.out, label |-> <<>>, piece |-> 31]
    /\ UNCHANGED <<writing, fed, stream, chosen, taken>>

Read ==
    /\ source # NoSource /\ UNCHANGED writing
    /\ IF plan = <<>> THEN StreamNext ELSE Feed

Next == Write \/ HandOver \/ Read

Spec == Init /\ [][Next]_textVars

=============================================================================
