----------------------------- MODULE MCElements -----------------------------
(***************************************************************************)
(* The components that follow the elements of a document, one scene each:  *)
(*   "strict"      StrictXmlConstraints on any events,                     *)
(*   "parser"      start tags as the parser reads them, and the events it  *)
(*                 reports for them checked by StrictXmlConstraints,       *)
(*   "filter"      the XPointer filter on any small document,              *)
(*   "pools"       name pools that are made, forked and interned in,       *)
(*   "references"  URI references resolved against a base.                 *)
(* A component that a scene is not about has come to rest.                 *)
(***************************************************************************)
EXTENDS StartTag, NamePool, XPointerFilter, UriReference

VARIABLE scene

allVars == <<scene, vars, tagVars, poolVars, filterVars, request>>

-----------------------------------------------------------------------------
(* The event the parser reports, as it comes to the constraints.           *)
AsPrefix(a) == IF a.prefix = None THEN None ELSE a.local
AsNamespace(value) == IF value = Empty THEN None ELSE value

IsXmlns(a) == a.ns = XmlnsNs

StrictEvent(e, blank) ==
    CASE e.kind = "StartElement" ->
           LET decls == SelectSeq(e.attrs, IsXmlns)
               others == SelectSeq(e.attrs, LAMBDA a : ~IsXmlns(a))
           IN [kind |-> e.kind, prefix |-> e.prefix, local |-> e.local, ns |-> e.ns, good |-> TRUE,
               decls |-> [i \in DOMAIN decls |->
                            [prefix |-> AsPrefix(decls[i]), ns |-> AsNamespace(decls[i].value)]],
               attrs |-> [i \in DOMAIN others |->
                            [prefix |-> others[i].prefix, local |-> others[i].local, ns |-> others[i].ns]]]
      [] e.kind = "EndElement" ->
           [kind |-> e.kind, prefix |-> e.prefix, local |-> e.local, ns |-> e.ns, good |-> TRUE]
      [] e.kind = "Text" -> [kind |-> "Characters", blank |-> blank, good |-> TRUE]
      [] e.kind = "Markup" -> [kind |-> "Comment", good |-> TRUE]

Marker(kind) == [kind |-> kind, good |-> TRUE]

ParserBegins == last = "none" /\ Consume(Marker("StartDocument")) /\ UNCHANGED tagVars

(* Text outside the root is blank, or refused by the parser. *)
ParserReads ==
    /\ phase # "Outside"
    /\ TagNext
    /\ IF failed' THEN UNCHANGED vars
       ELSE \E blank \in BOOLEAN : (stage = "Content" \/ blank) /\ Consume(StrictEvent(event', blank))

ParserEnds == stage = "Epilog" /\ ~ended /\ phase # "Outside" /\ ~failed
                  /\ Consume(Marker("EndDocument")) /\ UNCHANGED tagVars

ParserStep == ParserBegins \/ ParserReads \/ ParserEnds

(* Whatever start tags are read, the constraints accept what the parser    *)
(* reports unless an attribute is given twice, which the parser leaves to  *)
(* them (leaves_duplicate_attributes_to_the_strict_validator in            *)
(* io/parse/test.rs), and refuse it then.                                  *)
StrictAcceptsTheParser ==
    scene = "parser" /\ event.kind = "StartElement" /\ ~failed =>
        (last = "refused" <=> ~Lexical(StrictEvent(event, FALSE)))

-----------------------------------------------------------------------------
(* Events for the constraints: elements that declare, redeclare and        *)
(* undeclare a prefix and the default namespace, and every other kind.     *)
B(prefix, ns) == [prefix |-> prefix, ns |-> ns]
A(prefix, ns) == [prefix |-> prefix, local |-> "k", ns |-> ns]

Elem(prefix, ns, decls, attrs) ==
    [kind |-> "StartElement", prefix |-> prefix, local |-> "e", ns |-> ns,
     decls |-> decls, attrs |-> attrs, good |-> TRUE]

DeclLists ==
    { <<>>, <<B(None, "u")>>, <<B("p", "u")>>, <<B("p", "v")>>, <<B(None, None)>>,
      <<B("p", "v"), B("q", "v")>>, <<B("p", "u"), B("p", "v")>>,
      <<B("p", None)>>, <<B("q", "v"), B("p", "xmlns-ns")>>, <<B("xml", "xml-ns"), B("xmlns", "u")>> }

AttrLists ==
    { <<>>, <<A("p", "u")>>, <<A(None, "u")>>, <<A("p", "v"), A("q", "v")>> }

AnyEvents ==
    { Elem(n[1], n[2], decls, attrs) :
        n \in {<<None, None>>, <<None, "u">>, <<"p", "u">>, <<"p", "v">>},
        decls \in DeclLists, attrs \in AttrLists }
    \union { [Elem(None, None, <<B("p", "u")>>, <<>>) EXCEPT !.good = FALSE] }
    \union { [kind |-> "EndElement", prefix |-> n[1], local |-> l, ns |-> n[2], good |-> g] :
        n \in {<<None, None>>, <<None, "u">>, <<"p", "u">>, <<"p", "v">>}, l \in {"e", "f"}, g \in BOOLEAN }
    \union { [kind |-> "Characters", blank |-> b, good |-> g] : b \in BOOLEAN, g \in BOOLEAN }
    \union { [kind |-> k, good |-> g] :
        k \in {"Cdata", "Comment", "ProcessingInstruction", "Doctype"}, g \in BOOLEAN }
    \union { Marker(k) : k \in {"StartDocument", "EndDocument"} }

-----------------------------------------------------------------------------
(* Start tags: the same, written out, with defaults from a DTD and with    *)
(* what the xml specifications define, right and wrong.                    *)
Attr(prefix, local, value) == [prefix |-> prefix, local |-> local, value |-> value]

WrittenLists ==
    { <<>>, <<Attr("xmlns", "p", "u")>>, <<Attr("xmlns", "p", "v"), Attr("p", "k", "u")>>,
      <<Attr(None, "xmlns", "u"), Attr(None, "k", " u ")>>, <<Attr(None, "xmlns", "")>>,
      <<Attr("xml", "space", "preserve"), Attr("xml", "lang", "u")>>, <<Attr("xml", "lang", "")>>,
      <<Attr("xml", "base", "v"), Attr("xml", "base", "u"), Attr("xml", "id", " u ")>>,
      <<Attr("xmlns", "q", "v"), Attr("xmlns", "p", "v"), Attr("p", "k", "u"), Attr("q", "k", "v")>> }

BadLists ==
    { <<Attr("xmlns", "p", "")>>, <<Attr("xmlns", "p", "u"), Attr("xmlns", "p", "xml-ns")>>,
      <<Attr(None, "xmlns", "xmlns-ns")>>, <<Attr("xmlns", "xml", "u")>>, <<Attr("xmlns", "xmlns", "u")>>,
      <<Attr("xml", "space", "u")>>, <<Attr("xml", "base", "bad")>>, <<Attr("q", "k", "u")>>,
      [i \in 1..5 |-> Attr(None, "k", "u")] }

Tag(prefix, local, attrs, empty) == [prefix |-> prefix, local |-> local, attrs |-> attrs, empty |-> empty]

MCTags ==
    { Tag(n[1], n[2], attrs, FALSE) : n \in {<<None, "e">>, <<"p", "e">>}, attrs \in WrittenLists }
    \union { Tag(None, "e", attrs, FALSE) : attrs \in BadLists }
    \union { Tag(None, "f", attrs, TRUE) : attrs \in WrittenLists }
    \union { Tag(None, "g", attrs, FALSE) : attrs \in {<<>>, <<Attr(None, "k", " u ")>>} }

Def(prefix, local, default, tokenized) ==
    [prefix |-> prefix, local |-> local, default |-> default, tokenized |-> tokenized]

MCAttlist ==
    [n \in {<<None, "e">>, <<None, "f">>, <<None, "g">>} |->
        CASE n[2] = "e" -> <<Def(None, "k", None, TRUE), Def("xml", "id", None, FALSE)>>
          [] n[2] = "f" -> <<Def("xmlns", "p", "v", FALSE), Def("p", "k", " u ", TRUE), Def(None, "k", "u", TRUE)>>
          [] n[2] = "g" -> <<Def(None, "k", "v", FALSE)>>]

MCValues == {"", "u", "v", "d", "xml-ns", "xmlns-ns", " u ", "preserve", "bad"}
MCCollapsed == [v \in MCValues |-> IF v = " u " THEN "u" ELSE v]
MCOutside == {<<None, "g">>}
MCBase == <<"d">>

(* What the parser may report for them, whatever is around them. *)
Surroundings == { <<B("xml", "xml-ns")>> \o outer : outer \in SeqOf({B(None, "u"), B("p", "u"), B("p", "v")}, 2) }

ParserEvents ==
    { LET bound == outer \o Declarations(tag)
      IN StrictEvent([kind |-> "StartElement", prefix |-> tag.prefix, local |-> tag.local,
                      ns |-> ResolvePrefix(tag.prefix, bound), attrs |-> Resolved(Attributes(tag), bound)], FALSE) :
        tag \in { t \in MCTags : t.attrs \in WrittenLists }, outer \in Surroundings }

MCEvents == AnyEvents \union ParserEvents
    \union { [kind |-> "EndElement", prefix |-> n[1], local |-> l, ns |-> n[2], good |-> TRUE] :
        n \in {<<None, None>>, <<None, "u">>, <<"p", "u">>, <<"p", "v">>}, l \in {"f", "g"} }

-----------------------------------------------------------------------------
(* Documents of up to four elements and texts, one of which may carry an   *)
(* ID, and pointers into them.                                             *)
S == [kind |-> "StartElement", xmlId |-> {}, declaredId |-> {}, chars |-> 1]
Sx == [S EXCEPT !.xmlId = {"x"}]
Sd == [S EXCEPT !.declaredId = {"x"}]
E == [kind |-> "EndElement", chars |-> 1]
T == [kind |-> "Characters", chars |-> 2]
Open == [kind |-> "StartDocument"]
Close == [kind |-> "EndDocument"]
Dt == [kind |-> "Doctype"]

(* Bodies that close what they open; a text only beside short ones. *)
Balanced(b) ==
    /\ \A i \in DOMAIN b : Level(b, i) >= 0 /\ (IsEnd(b[i]) => Level(b, i) > 0)
    /\ Level(b, Len(b) + 1) = 0

Shapes == { b \in UNION { [1..n -> {S, E, T}] : n \in 0..4 } \union [1..6 -> {S, E}] : Balanced(b) }

(* The ID on one element, or wrongly on two. *)
MCDocuments ==
    UNION { LET doc == <<Open>> \o prolog \o <<S>> \o body \o <<E, Close>>
            IN {doc} \union { [doc EXCEPT ![i] = start] : i \in Elements(doc), start \in {Sx, Sd} }
                     \union { [doc EXCEPT ![i] = Sx, ![j] = Sx] : i \in Elements(doc), j \in Elements(doc) } :
              prolog \in {<<>>, <<Dt>>}, body \in Shapes }

MCLater == { <<Open, S, Sx, T, E, S, S, E, E, E, Close>> }

P(id, steps) == [ok |-> TRUE, id |-> id, steps |-> steps]
Bad == [ok |-> FALSE]

MCPointers == {
    <<P({}, <<1>>)>>, <<P({"x"}, <<>>)>>, <<P({"x"}, <<1>>)>>, <<Bad>>,
    <<P({"x"}, <<2>>), P({}, <<1, 2>>)>>,
    <<Bad, P({}, <<1, 1, 1>>), P({}, <<1, 2>>), P({}, <<1, 1>>)>>,
    <<P({}, <<1, 2>>), P({}, <<1>>), P({"x"}, <<>>)>> }

-----------------------------------------------------------------------------
(* References: any path of up to three segments, of which one holds a      *)
(* colon and one an encoded dot, under several authorities.                *)
SegmentSet == { <<>>, <<".">>, <<"..">>, <<"a">>, <<"a", ":", "b">>, <<"%2e">> }
PathsOf(segments) == { Join(s) : s \in UNION { [1..n -> segments] : n \in 1..3 } }
RootedPaths(segments) == { <<"/">> \o path : path \in PathsOf(segments) }

BasePaths == {<<>>} \union RootedPaths({ <<>>, <<"..">>, <<"a">>, <<"b">> })
Bases == { <<"s", ":">> \o path : path \in RootedPaths({<<>>, <<"a">>}) }
         \union { <<"s", ":", "/", "/", "h">> \o path : path \in BasePaths }

Tails == { <<>>, <<"?", "q">>, <<"#", "%2e">>, <<"?", "q", "#", "f">> }
Systems ==
    PathsOf(SegmentSet) \union RootedPaths(SegmentSet) \union { <<"bad">>, <<>> }
    \union { <<"a", "/", ".">> \o t : t \in Tails } \union Tails
    \union { <<"S", ":", "/", "/", "h">> \o path : path \in BasePaths \union { <<"/", "%2e", "/", "a">> } }
    \union { <<"s", ":">> \o path : path \in RootedPaths({ <<>>, <<"..">>, <<"a">> }) }
    \union { <<"s", ":", "/", "/">> \o authority : authority \in {
                 <<"u", "@", "H", ":", "80">>, <<"H", ":">>, <<"[", ":", "H", "]", ":", "80">>,
                 <<"[", ":", "H", "]">>, <<"h", ":", "81">> } }
    \union { <<"/", "/", "h", "/", "..", "/", "a">>, <<"a", ":", "a">>, <<"t", ":", "H", "/", "..">> }

MCRequests == [system : Systems, base : Bases] \union [system : {<<"a">>}, base : {Absent, <<"bad">>}]
Quiet == [system |-> <<"a">>, base |-> Absent]

MCSchemeRules == [s \in {"s"} |-> [port |-> <<"80">>, root |-> TRUE]]
MCLowered == [t \in {"S", "H", "s", "h"} |-> CASE t = "S" -> "s" [] t = "H" -> "h" [] OTHER -> t]
MCDecoded == [t \in {"%2e"} |-> "."]
MCReserved == <<"r", "s">>

-----------------------------------------------------------------------------
FilterAtRest ==
    /\ pointer = <<Bad>> /\ document \in MCLater /\ at = 1 /\ candidates = <<>> /\ found = FALSE
    /\ relaying = <<>> /\ stopped = FALSE /\ outcome = "Unusable" /\ runs = Runs /\ delivered = <<>>

SceneInit == scene = "none" /\ Init /\ TagInit /\ PoolInit /\ FilterAtRest /\ request = Quiet

(* Where they have no part, the constraints have refused an event already. *)
BeginScene ==
    /\ scene = "none"
    /\ scene' \in {"strict", "parser", "filter", "pools", "references"}
    /\ IF scene' \in {"strict", "parser"} THEN UNCHANGED vars ELSE Refuse(Marker("Comment"))
    /\ IF scene' = "filter"
       THEN /\ pointer' \in Pointers /\ document' \in Documents /\ outcome' = "running" /\ runs' = 1
            /\ UNCHANGED <<at, filter, stopped, delivered>>
       ELSE UNCHANGED filterVars
    /\ IF scene' = "references" THEN request' \in MCRequests ELSE UNCHANGED request
    /\ UNCHANGED <<tagVars, poolVars>>

SceneNext ==
    \/ BeginScene
    \/ /\ scene = "strict" /\ Next
       /\ UNCHANGED <<scene, tagVars, poolVars, filterVars, request>>
    \/ /\ scene = "parser" /\ ParserStep
       /\ UNCHANGED <<scene, poolVars, filterVars, request>>
    \/ /\ scene = "filter" /\ FilterNext
       /\ UNCHANGED <<scene, vars, tagVars, poolVars, request>>
    \/ /\ scene = "pools" /\ PoolNext
       /\ UNCHANGED <<scene, vars, tagVars, filterVars, request>>

SceneSpec == SceneInit /\ [][SceneNext]_allVars
=============================================================================
