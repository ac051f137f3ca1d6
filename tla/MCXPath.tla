------------------------------- MODULE MCXPath -------------------------------
(* Expressions parsed and printed, evaluated at every node of small        *)
(* documents, and chains of definitions at the limits.                     *)
EXTENDS XPathMeaning

ThePrefixes == <<"", "p", "q", "xml">>
TheLowerCase == [E |-> "e", N |-> "n"]

Symbols == {"(", ")", "[", "]", ".", "..", "@", ",", "::", "/", "//", "|", "+", "-", "=", "!=", "<", "<=", ">", ">=", "*"}
Counts == [w \in {"0", "1", "2", "3"} |-> CASE w = "0" -> 0 [] w = "1" -> 1 [] w = "2" -> 2 [] w = "3" -> 3]
Other == [w \in {"$v", "$w", "$p:v", "'n'", "'1'", "'1n'", "p:*", "p:b", "q:c", "f:here", "f:back", "f:gone", "f:bad", "f:none", "x:y"} |->
    CASE w = "$v" -> VariableWord("", "v") [] w = "$w" -> VariableWord("", "w") [] w = "$p:v" -> VariableWord("p", "v")
      [] w = "'n'" -> LiteralWord(<<"n">>) [] w = "'1'" -> LiteralWord(<<"1">>) [] w = "'1n'" -> LiteralWord(<<"1", "n">>)
      [] w = "p:*" -> QNameWord("p", "*") [] w = "p:b" -> QNameWord("p", "b") [] w = "q:c" -> QNameWord("q", "c")
      [] w = "f:here" -> QNameWord("f", "here") [] w = "f:back" -> QNameWord("f", "back")
      [] w = "f:gone" -> QNameWord("f", "gone") [] w = "f:bad" -> QNameWord("f", "bad")
      [] w = "f:none" -> QNameWord("f", "none") [] w = "x:y" -> QNameWord("x", "y")]

W(s) == [i \in DOMAIN s |-> IF s[i] \in Symbols THEN Sym(s[i])
                            ELSE IF s[i] \in DOMAIN Counts THEN NumberWord(Counts[s[i]])
                            ELSE IF s[i] \in DOMAIN Other THEN Other[s[i]] ELSE NameWord(s[i])]

(***************************************************************************)
(* Documents.                                                              *)
(***************************************************************************)
Q(prefix, ns, local) == [prefix |-> prefix, ns |-> ns, local |-> local]
Declares(prefix) == IF prefix = "" THEN Q("", XmlnsNs, "xmlns") ELSE Q("xmlns", XmlnsNs, prefix)
A == Q("", "", "a")
B == Q("", "", "b")

Child(parent, kind, name, text) == [to |-> parent, slot |-> Slot(kind, name, text)]
Attr(element, name, text) == [to |-> element, slot |-> Slot("attribute", name, text)]
Loose(kind) == [to |-> None, slot |-> Slot(kind, A, <<"1">>)]

Build(parts) ==
    LET Add(t, part) ==
            CASE part.to = None -> Push(t, part.slot).nodes
              [] part.to # None /\ part.slot.kind = "attribute" ->
                   PutAttribute(t, part.to, part.slot.name, part.slot.text).nodes
              [] OTHER -> AppendChild(Push(t, part.slot).nodes, part.to, Len(t) + 1).nodes
    IN FoldLeft(Add, EmptyDocument, parts)

(* <!--n--><!DOCTYPE a><a xmlns:p="u" a="1">1<![CDATA[2]]><p:b/><b xmlns="d" xml:lang="en-n">1</b>-1<?b n?></a> *)
Mixed == Build(<< Child(1, "comment", NoName, <<"n">>), Child(1, "doctype", A, <<>>), Child(1, "element", A, <<>>),
                  Attr(4, Declares("p"), <<"u">>), Attr(4, A, <<"1">>),
                  Child(4, "text", NoName, <<"1">>), Child(4, "cdata", NoName, <<"2">>),
                  Child(4, "element", Q("p", "u", "b"), <<>>),
                  Child(4, "element", Q("", "d", "b"), <<>>), Attr(10, Declares(""), <<"d">>),
                  Attr(10, Q("xml", XmlNs, "lang"), <<"e", "N", "-", "n">>), Child(10, "text", NoName, <<"1">>),
                  Child(4, "text", NoName, <<"-", "1">>), Child(4, "pi", B, <<"n">>), Loose("element") >>)

(* Nested elements with the same names, scopes declared and undeclared.    *)
Nested == [Build(<< Child(1, "element", A, <<>>), Attr(2, Declares(""), <<"d">>), Attr(2, Declares("q"), <<"u">>),
                    Child(2, "element", A, <<>>), Attr(5, Declares(""), <<>>), Attr(5, Declares("p"), <<"v">>),
                    Child(5, "element", A, <<>>), Attr(8, B, <<"2">>), Child(8, "text", NoName, <<"3">>),
                    Child(5, "element", B, <<>>), Child(2, "element", B, <<>>), Attr(12, A, <<"3">>),
                    Child(12, "text", NoName, <<"2">>), Child(12, "element", A, <<>>) >>)
             EXCEPT ![9].isId = TRUE]

TheDocuments == {Mixed, Nested}
NodesToTry(t) == {Tree(n) : n \in NodesOf(t)} \union {NamespaceOf(n, p) : n \in {4, 8}, p \in {"", "p"}}

(***************************************************************************)
(* Calls.                                                                  *)
(***************************************************************************)
ParseCall(words) == [op |-> "parse", words |-> words]
EvaluateCall(doc, node, variables) == [op |-> "evaluate", doc |-> doc, node |-> node, variables |-> variables]
NamespaceCall(prefix, uri) == [op |-> "namespace", prefix |-> prefix, uri |-> uri]
VariableCall(ns, local) == [op |-> "variable", ns |-> ns, local |-> local]
FunctionCall(local, body, most) ==
    [op |-> "function", function |-> [ns |-> "fn", local |-> local, body |-> body, min |-> 0, max |-> most]]
LimitsCall(depth, variables) == [op |-> "limits", maxDepth |-> depth, maxVariables |-> variables]
Plan(depth, variables, calls) == [maxDepth |-> depth, maxVariables |-> variables, calls |-> calls]

Binds == <<{NamespaceCall("p", "u")}, {NamespaceCall("q", "v")}, {NamespaceCall("f", "fn")}>>

(***************************************************************************)
(* Expressions: operands and operators put together, and any few words.    *)
(***************************************************************************)
Joined(left, ops, right) == {l \o W(<<op>>) \o r : l \in left, op \in ops, r \in right}
Grouped(exprs) == {W(<<"(">>) \o e \o W(<<")">>) : e \in exprs}

Operands == {W(<<"a">>), W(<<"/">>), W(<<"..">>), W(<<"$v">>), W(<<"1">>), W(<<"*">>), W(<<"div">>), W(<<"//", "a">>),
             W(<<"-", "1">>), W(<<"a", "//", "@", "b">>), W(<<"text", "(", ")">>)}
AllOps == {"or", "and", "=", "<", "+", "-", "*", "div", "|"}
Flat == Joined(Operands, AllOps, Operands)
Few == {W(<<"a">>), W(<<"/">>), W(<<"-", "1">>)}
Pairs == Joined(Few, {"-", "*", "|", "="}, Few)
Nests == Joined(Grouped(Pairs), {"-", "*", "|"}, Few) \union Joined(Few, {"-", "*", "|"}, Grouped(Pairs))
         \union {e \o W(<<"-">>) \o x : e \in Pairs, x \in Few}
Heads == Grouped(Operands \union Pairs) \union {W(<<"$v">>), W(<<"id", "(", "a", ")">>)}
Tails == {W(<<"/", "a">>), W(<<"//", "b", "[", "1", "]">>), W(<<"[", "1", "]">>), W(<<"[", "1", "]", "[", "/", "]">>),
          W(<<"/", "descendant-or-self", "::", "node", "(", ")", "//", "a">>), W(<<"[", "1", "]", "/", "..">>)}
Tailed == {h \o t : h \in Heads, t \in Tails}
Wrapped == {W(<<"-">>) \o e : e \in Tailed \union Pairs} \union {W(<<"(">>) \o e \o W(<<")", "[", "2", "]">>) : e \in Tailed}
           \union {W(<<"count", "(">>) \o e \o W(<<")">>) : e \in Tailed}
           \union {W(<<"concat", "(">>) \o e \o W(<<",">>) \o e \o W(<<")">>) : e \in Few}
Loosely == {W(s) : s \in UNION {[1 .. n -> {"a", "*", "/", "//", "and", "-", "[", "]", "::", "("}] : n \in 1 .. 3}}
Odd == {W(s) : s \in {<<"and", "and", "and">>, <<"*", "*", "*">>, <<"child", "::", "div">>, <<"div", "::", "a">>,
    <<"and", "(", "a", ")">>, <<"1", "and", "(", "a", ")">>, <<"text">>, <<"text", "(", ")">>, <<"a", "::", "b">>, <<"x:y">>,
    <<"processing-instruction", "(", "'n'", ")">>, <<"comment", "(", "'n'", ")">>, <<"a", "[", "1">>, <<".", "[", "1", "]">>,
    <<"last", "(", "1", ")">>, <<"concat", "(", "1", ")">>, <<"none", "(", ")">>, <<"p:*">>, <<"@", "p:*">>, <<"$p:v">>,
    <<"descendant-or-self", "::", "node", "(", ")", "/", "a">>, <<"@", "child", "::", "a">>, <<"self", "::", "node", "(", ")", "[", "1", "]">>,
    <<"(", "(", "a", ")", "[", "1", "]", ")", "[", "2", "]">>, <<"f:here", "(", "1", ")">>, <<"f:none", "(", ")">>}}

Read == {Plan(Many, 2, <<{NamespaceCall("p", "u")}, {ParseCall(e)}>>) :
            e \in Flat \union Nests \union Tailed \union Wrapped \union Loosely \union Odd}

(***************************************************************************)
(* Evaluations.                                                            *)
(***************************************************************************)
AxisPaths == {W(<<axis, "::", "node", "(", ")", "[", "2", "]">>) : axis \in Axes}
             \union {W(<<"//", "a", "/", axis, "::", "*", "[", "last", "(", ")", "]">>) : axis \in Axes}
Asked == {W(s) : s \in {
    <<"(", "preceding", "::", "node", "(", ")", ")", "[", "1", "]">>,
    <<"(", "//", "a", "|", "//", "b", "|", "//", "@", "*", ")", "[", "position", "(", ")", ">", "1", "]", "/", "..">>,
    <<"//", "*", "[", "a", "or", "@", "*", "]", "/", "text", "(", ")">>, <<"//", "p:*", "|", "//", "b">>,
    <<"//", "*", "<", "//", "@", "*">>, <<"//", "*", ">=", "//", "text", "(", ")">>, <<"//", "*", "!=", "//", "*">>, <<"//", "none", "!=", "//", "*">>,
    <<"//", "*", "!=", "//", "none">>,
    <<"//", "@", "*", "=", "//", "text", "(", ")">>, <<"//", "@", "*", "!=", "'1'">>, <<"1", "<", "//", "*">>, <<"'1n'", "=", "//", "*">>, <<"//", "b", ">", "'1'">>,
    <<"//", "none", "=", "false", "(", ")">>, <<"//", "*", ">", "false", "(", ")">>, <<"//", "*", "=", "//", "none">>,
    <<"count", "(", "//", "namespace", "::", "node", "(", ")", ")">>, <<"name", "(", "//", "@", "*", ")">>,
    <<"id", "(", "//", "@", "b", ")", "/", "..">>, <<"lang", "(", "'n'", ")">>, <<"sum", "(", "//", "@", "*", ")">>,
    <<"count", "(", "1", ")">>, <<"1", "|", "a">>, <<"1", "/", "a">>, <<"'n'", "[", "1", "]">>, <<"true", "(", ")", "or", "$w">>, <<"false", "(", ")", "or", "$w">>,
    <<"f:here", "(", ")", "/", "ancestor", "::", "*", "[", "1", "]">>, <<"f:back", "(", "//", "*", ")", "[", "1", "]">>,
    <<"f:gone", "(", ")">>, <<"f:bad", "(", ")">>,
    <<"//", "processing-instruction", "(", "'n'", ")">>, <<"//", "comment", "(", ")">>,
    <<"substring", "(", "string", "(", ")", ",", "2", ")">>, <<"translate", "(", "string", "(", ")", ",", "'1n'", ",", "'n'", ")">>,
    <<"normalize-space", "(", ")">>, <<"string-length", "(", "local-name", "(", ")", ")">>, <<"number", "(", ")", "+", "1">>,
    <<"round", "(", "number", "(", ")", "div", "2", ")">>, <<"number", "(", ")", "mod", "2">>, <<"string", "(", "number", "(", ")", "div", "0", ")">> } }

Functions0 == <<{FunctionCall("here", "here", 0)}, {FunctionCall("back", "reversed", 1)},
                {FunctionCall("gone", "foreign", 0)}, {FunctionCall("bad", "fail", 0)}>>

Visits(t) == {EvaluateCall(t, x, <<>>) : x \in NodesToTry(t)}
Asks == {Plan(Many, 2, Binds \o Functions0 \o <<{ParseCall(e) : e \in AxisPaths \union Asked}, Visits(Mixed) \union Visits(Nested)>>)}

(***************************************************************************)
(* Definitions: chains at the limits, hidden, replaced and left out.       *)
(***************************************************************************)
V == VariableCall("", "v")
VarW == VariableCall("", "w")
Defined == {ParseCall(W(<<"//", "b">>)), ParseCall(W(<<"a", "[", "$v", "]">>)), ParseCall(W(<<"-", "-", "$v">>)),
            ParseCall(W(<<"$v", "|", "$w", "/", "..">>))}
Used == {ParseCall(W(<<"$w">>)), ParseCall(W(<<"1", "+", "-", "count", "(", "$v", ")">>)),
         ParseCall(W(<<"//", "*", "[", "name", "(", "$w", ")", "]">>)), ParseCall(W(<<"(", "$v", "|", "$w", ")", "[", "1", "]">>))}
Passed == {<<>>, <<"", "v">> :> NodeSet(<<Tree(8), Tree(2), Tree(8)>>), <<"", "w">> :> Num(Whole(1)),
           <<"", "v">> :> NodeSet(<<Tree(Foreign)>>)}
Chains == {Plan(d, n, <<Defined, {V}, Defined, {V, VarW}, Defined, {VarW}, Used,
                        {EvaluateCall(Nested, x, v) : x \in {Tree(1), Tree(5)}, v \in Passed}>>) : d \in 3 .. 5, n \in 1 .. 2}

(* Calls the context refuses.                                              *)
Refusals == {Plan(3, 1, <<{NamespaceCall(p, u) : p \in {"p", "xml", "xmlns", "1bad"}, u \in {"u", XmlNs, XmlnsNs, ""}},
                          {FunctionCall("1bad", "fail", 0), FunctionCall("f", "fail", 0), LimitsCall(2, 2),
                           [FunctionCall("f", "fail", 0) EXCEPT !.function.ns = ""],
                           [FunctionCall("f", "fail", 0) EXCEPT !.function.min = 1]},
                          {ParseCall(W(<<"-", "-", "1">>)), ParseCall(W(<<"1">>))}, {VariableCall("", "1bad"), V}>>)}

ThePlans == Read \union Asks \union Chains \union Refusals
=============================================================================
