-------------------------------- MODULE MCDom --------------------------------
(* Documents that are edited, and documents that are built and read back.  *)
EXTENDS DomSource

Q(prefix, ns, local) == [prefix |-> prefix, ns |-> ns, local |-> local]
A == Q("", "", "a")
PA == Q("p", "u", "a")

Make(kind, q, hasNs) == [kind |-> kind, q |-> q, ns |-> q.ns, hasNs |-> hasNs]
E == Make("element", A, TRUE)
T == Make("text", NoName, FALSE)
F == Make("fragment", NoName, FALSE)
D == Make("doctype", A, FALSE)
C == Make("comment", NoName, FALSE)

Plan(create, edits) ==
    [create |-> create, edits |-> edits, copies |-> 0, names |-> {}, foreign |-> FALSE, read |-> FALSE]

Trees == { Plan(<<E, E, T, F>>, 4), Plan(<<E, F, D, E>>, 3),
           [Plan(<<E, C>>, 2) EXCEPT !.foreign = TRUE] }

(* Names that are the same expanded name, written with and without a       *)
(* prefix, and names that are not allowed.                                 *)
X(q) == Make("attribute", q, TRUE)
Named == { [Plan(<<E, X(A)>>, 3) EXCEPT !.names = {A, Q("p", "", "a")}],
           [Plan(<<E, E, X(PA)>>, 3) EXCEPT !.names = {PA, Q("q", "u", "a")}],
           [Plan(<<E, T>>, 1) EXCEPT !.names = {Q("", "", "1bad"), Q("xmlns", "u", "a"), Q("", XmlnsNs, "a"),
                                                 Q("xml", "u", "a"), Q("xml", XmlNs, "id"), Q("xmlns", XmlnsNs, "a")}] }

(* Documents as events: an element's base is the one in effect.            *)
On(type) == [type |-> type, system |-> "s"]
Start(name, attrs, uri) == [type |-> "start", name |-> name, attrs |-> attrs, base |-> uri, system |-> "s"]
End(name) == [type |-> "end", name |-> name, system |-> "s"]
Chars(text) == [type |-> "characters", text |-> text, system |-> "s"]
Data(type, text) == [type |-> type, text |-> text, system |-> "s"]
Pi == [type |-> "pi", name |-> Q("", "", "t"), text |-> <<"d">>, system |-> "s"]
Dtd(name, declared) == [type |-> "doctype", name |-> name, ids |-> declared, system |-> "s"]
Attr(name, value) == [name |-> name, value |-> value]
Id(value) == Attr(Q("xml", XmlNs, "id"), value)
B == Q("", "", "b")
V == <<"v">>
W == <<"w">>

TheValues == {V}

Framed(events) == <<On("startDocument")>> \o events \o <<On("endDocument")>>
Full == Framed(<<Chars(<<" ">>), Dtd(A, {<<Written(B), Written(A)>>}), Data("comment", V), Start(A, <<Id(W)>>, "s"),
                 Chars(V), Chars(W), Data("cdata", V), Chars(W),
                 Start(B, <<Attr(A, V), Attr(PA, W)>>, "t"), Chars(V), End(B), Pi, Chars(<<" ", "v">>), End(A),
                 Chars(<<" ">>), Pi>>)
Small == Framed(<<Start(A, <<Attr(B, V)>>, "s"), Chars(V), Start(B, <<>>, "s"), End(B), End(A)>>)

Feeds == { Full, Full \o Small, Small \o Full,
           Framed(<<Dtd(NoName, {}), Start(PA, <<>>, "s"), Start(A, <<>>, "s"), End(A), Chars(V), Chars(W), End(PA)>>) }
BadFeeds == {
    Framed(<<Start(A, <<>>, "s"), End(B)>>), Framed(<<Start(A, <<>>, "s"), End(PA)>>),
    Framed(<<Start(A, <<>>, "s"), End(A), Start(A, <<>>, "s"), End(A)>>),
    Framed(<<Chars(V)>>), Framed(<<End(A)>>), Framed(<<Dtd(A, {}), Dtd(B, {})>>),
    Framed(<<Data("cdata", V)>>), Framed(<<Start(Q("p", "", "a"), <<>>, "s")>>),
    Framed(<<Start(A, <<>>, "s"), Start(B, <<Attr(Q("", "", "1bad"), V)>>, "s")>>),
    <<Start(A, <<>>, "s"), Chars(V), Start(B, <<>>, "s")>> \o Small }

Reading == [Plan(<<>>, 0) EXCEPT !.read = TRUE]
Built == [Plan(<<>>, 1) EXCEPT !.read = TRUE]

(* Copies, of what was built and of another document; the last fills up.   *)
Copied == [Plan(<<>>, 1) EXCEPT !.copies = 1]
OtherDocument ==
    LET leaf == AppendChild(CreateData(CreateElement(EmptyDocument, A).nodes, "comment", V).nodes, 2, 3).nodes
        named == SetAttribute(SetAttributeNs(leaf, 2, "u", PA, V).nodes, 2, B, W).nodes
        more == AppendChild(CreateElement(named, Q("p", "", "b")).nodes, 2, 6).nodes
    IN CreateNamed(more, "doctype", A, <<>>).nodes

Scenes ==
    { [left |-> t, feed |-> <<>>] : t \in Trees \union Named \union {[Plan(<<F, D, T>>, 2) EXCEPT !.copies = 1]} }
    \union { [left |-> Reading, feed |-> f] : f \in Feeds \union BadFeeds }
    \union { [left |-> Built, feed |-> Small], [left |-> Copied, feed |-> Small],
               [left |-> [Copied EXCEPT !.edits = 0], feed |-> Full] }
=============================================================================
