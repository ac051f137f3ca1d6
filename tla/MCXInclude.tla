----------------------------- MODULE MCXInclude -----------------------------
(* XInclude on a document m that may include the resources a and b, and    *)
(* what the result is to be.                                               *)
EXTENDS XInclude

Begin == <<[kind |-> "StartDocument"]>>
End == <<[kind |-> "EndDocument"]>>
Doc(body) == Begin \o body \o End
Broken(body) == Begin \o body \o <<[kind |-> "Malformed"]>>
Close == <<[kind |-> "EndElement"]>>
Element(name, lang) ==
    [kind |-> "StartElement", name |-> name, lang |-> lang, xmlId |-> {}, declaredId |-> {}]
El(name, lang, body) == <<Element(name, lang)>> \o body \o Close
Tx(text) == <<[kind |-> "Characters", blank |-> FALSE, text |-> text]>>
Blank == <<[kind |-> "Characters", blank |-> TRUE, text |-> "layout"]>>

Tag(href, xpointer, parse) ==
    [kind |-> "StartElement", name |-> "include", lang |-> {}, xmlId |-> {}, declaredId |-> {},
     href |-> href, xpointer |-> xpointer, parse |-> parse, encoding |-> {}]
Inc(uri, body) == <<Tag({uri}, <<>>, "xml")>> \o body \o Close
IncPart(uri, part, body) == <<Tag({uri}, <<part>>, "xml")>> \o body \o Close
IncText(uri, body) == <<Tag({uri}, <<>>, "text")>> \o body \o Close
Fb(body) == El("fallback", {}, body)

At(steps) == [parses |-> TRUE, ok |-> TRUE, id |-> {}, steps |-> steps]
NoScheme == [At(<<1>>) EXCEPT !.ok = FALSE]
NotAPointer == [At(<<1>>) EXCEPT !.parses = FALSE]

Xml(events) == [available |-> TRUE, xml |-> events, text |-> Tx("markup")]
Text(chunks) == [available |-> TRUE, xml |-> Begin \o <<[kind |-> "Malformed"]>>, text |-> chunks]
Missing == [available |-> FALSE, xml |-> <<>>, text |-> <<>>]

(* What m may be: inclusions with and without a fallback, of parts and of  *)
(* text, in elements and where the root element goes, valid and not.       *)
Ps == El("p", {"fr"}, Tx("p"))
Mains == {
    El("r", {"en"}, Inc("a", <<>>) \o Tx("t") \o Inc("b", Fb(Ps))),
    El("r", {}, Inc("a", Fb(El("q", {}, Inc("b", Tx("x") \o Fb(Ps)) \o Tx("t"))))),
    El("r", {"en"}, IncPart("a", At(<<1, 2>>), El("x", {}, Inc("b", <<>>)) \o Fb(Inc("a", <<>>)))),
    El("r", {}, IncPart("a", NoScheme, Fb(Tx("f"))) \o IncPart("b", NotAPointer, Fb(<<>>))),
    El("r", {}, IncText("a", Fb(Tx("f"))) \o El("s", {"en"}, IncText("b", <<>>))),
    El("r", {"en"}, IncPart("a", At(<<1, 2, 1>>), Fb(<<>>))),
    Inc("a", Fb(Blank \o El("f", {}, <<>>) \o Blank)),
    Inc("a", Fb(Tx("f"))) \o Blank,
    IncText("a", Fb(Ps)),
    Inc("a", Fb(<<>>)),
    Inc("a", Fb(El("f", {}, <<>>) \o Inc("b", <<>>))) }
OddMains == {
    El("r", {}, Inc("a", Fb(<<>>) \o Fb(<<>>))),
    El("r", {}, Inc("a", Inc("b", <<>>) \o Fb(<<>>))),
    El("r", {}, Fb(Ps)),
    El("r", {}, Inc("a", El("x", {}, Fb(Ps)))),
    El("r", {}, El("other in the namespace", {}, <<>>)),
    El("r", {}, <<Tag({}, <<>>, "xml")>> \o Close),
    El("r", {}, <<Tag({}, <<At(<<1>>)>>, "xml")>> \o Fb(Ps) \o Close),
    El("r", {}, <<Tag({"a"}, <<At(<<1>>)>>, "text")>> \o Close),
    El("r", {}, <<[Tag({"a"}, <<>>, "text") EXCEPT !.encoding = {"unsupported"}]>> \o Fb(Ps) \o Close),
    El("r", {}, <<[Tag({"a"}, <<>>, "xml") EXCEPT !.encoding = {"unsupported"}]>> \o Fb(Ps) \o Close),
    El("r", {}, <<Tag({"not a URI"}, <<>>, "xml")>> \o Fb(Ps) \o Close),
    El("r", {}, <<Tag({"a"}, <<>>, "html")>> \o Fb(Ps) \o Close) }

As == {
    Xml(Begin \o <<[kind |-> "Doctype"]>> \o Blank
        \o El("a", {"fr"}, El("c", {}, <<>>) \o El("d", {"EN"}, El("g", {}, Tx("g")))) \o Blank \o End),
    Xml(Doc(El("a", {}, Inc("b", <<>>) \o El("d", {}, Inc("b", Fb(Inc("a", <<>>))))))),
    Xml(Doc(El("a", {}, IncPart("b", At(<<1, 1>>), <<>>) \o El("d", {}, <<>>)))),
    Xml(Doc(El("a", {}, IncPart("a", At(<<1, 2>>), Fb(Ps)) \o El("d", {"fr"}, Inc("b", Fb(<<>>)))))),
    Xml(Doc(Inc("b", Fb(Tx("t") \o El("f", {}, <<>>))))),
    Xml(Doc(IncPart("b", At(<<1, 1>>), <<>>))),
    Xml(Broken(El("a", {}, El("c", {}, <<>>)))),
    Xml(Doc(El("a", {}, El("c", {}, <<>>) \o El("d", {}, Fb(<<>>))))),
    Text(Tx("a") \o Blank),
    Missing }

Bs == {
    Xml(Doc(El("b", {}, El("e", {"fr"}, Inc("a", <<>>))))),
    Xml(Doc(El("b", {"fr"}, <<>>))),
    Xml(Doc(El("b", {}, El("e", {}, <<>>) \o Inc("b", Fb(<<>>))))),
    Xml(Broken(El("b", {}, El("e", {}, <<>>)))),
    Text(<<>>),
    Missing }

Library(m, a, b) == [u \in {"m", "a", "b"} |-> CASE u = "m" -> Xml(Doc(m)) [] u = "a" -> a [] OTHER -> b]

MCLibraries ==
    { Library(m, a, b) : m \in Mains, a \in As, b \in Bs }
    \union { Library(m, a, Missing) : m \in OddMains, a \in {Missing, Text(Tx("a"))} }

(* A few of them, to be read twice and with every answer. *)
LimitLibraries ==
    { Library(m, a, Xml(Doc(El("b", {}, Inc("a", Fb(<<>>)))))) :
        m \in { El("r", {}, Inc("a", Fb(Inc("b", Fb(<<>>)))) \o Inc("b", Fb(Ps))),
                El("r", {}, Inc("b", <<>>)) },
        a \in { Xml(Doc(El("a", {}, <<>>))),
                Xml(Doc(El("a", {}, Inc("b", <<>>)))),
                Xml(Doc(El("a", {}, IncPart("b", At(<<2>>), Fb(Ps))))),
                Text(Tx("a") \o Tx("a")),
                Missing } }

Go == [flow |-> "Continue", count |-> 0]
QuietAnswers == { Go, [Go EXCEPT !.flow = "Break"] }
AllAnswers == { Go, [flow |-> "Continue", count |-> 2], [flow |-> "Break", count |-> 1],
                [Go EXCEPT !.flow = "Error"] }

MCWorks ==
    { [library |-> l, maxDepth |-> NoLimit, maxIncludes |-> NoLimit, answers |-> QuietAnswers,
       runs |-> 1] : l \in MCLibraries }
    \union
    { [library |-> l, maxDepth |-> 2, maxIncludes |-> 3, answers |-> AllAnswers, runs |-> 2]
        : l \in LimitLibraries }

-----------------------------------------------------------------------------
(* The reference: what a document means once every xi:include is replaced. *)
(* A meaning is what comes out and whether an error ends it there.         *)
Nothing == [out |-> <<>>, fatal |-> FALSE]
Fatal == [out |-> <<>>, fatal |-> TRUE]
Then(first, second) ==
    IF first.fatal THEN first ELSE [out |-> first.out \o second.out, fatal |-> second.fatal]

(* Every rule of XIncludeValidator, on a whole document. *)
InOrder(D) ==
    /\ \A i \in Elements(D) :
         LET inner == Children(D, i)
             fallbacks == {j \in inner : IsFallback(D[j])}
         IN /\ D[i].name # "other in the namespace"
            /\ IF IsInclude(D[i])
               THEN /\ Cardinality(fallbacks) <= 1
                    /\ \A j \in inner : ~IsInclude(D[j])
                    /\ D[i].href # {} \/ D[i].xpointer # <<>>
                    /\ D[i].parse = "text" => D[i].xpointer = <<>>
                    /\ D[i].parse = "xml" => D[i].encoding = {}
                    /\ D[i].parse \in {"xml", "text"}
               ELSE fallbacks = {}
    /\ \A i \in Children(D, 0) : ~IsFallback(D[i])

WellFormed(D) == D # <<>> /\ \A i \in DOMAIN D : D[i].kind # "Malformed"

Sound(D) == WellFormed(D) /\ InOrder(D)

RECURSIVE Meaning(_, _, _, _, _), Replacement(_, _, _, _)

(* Events i to j of the document u, in a chain of inclusions. *)
Meaning(lib, u, i, j, chain) ==
    LET D == lib[u].xml
    IN IF i > j THEN Nothing
       ELSE IF IsInclude(D[i])
       THEN Then(Replacement(lib, u, i, chain), Meaning(lib, u, EndOf(D, i) + 1, j, chain))
       ELSE LET layout == chain # {} /\ (D[i].kind \in Frame \union {"Malformed"}
                                          \/ (Level(D, i) = 0 /\ D[i].kind = "Characters"))
            IN Then(IF layout THEN Nothing ELSE [out |-> <<D[i]>>, fatal |-> FALSE],
                    Meaning(lib, u, i + 1, j, chain))

(* What takes the place of the xi:include at i: the part of the resource,  *)
(* or the fallback where there is no such part; but an error in a resource *)
(* that was found is final.                                                *)
Replacement(lib, u, i, chain) ==
    LET D == lib[u].xml
        e == D[i]
        target == CHOOSE t \in e.href : TRUE
        R == lib[target].xml
        key == <<target, e.xpointer>>
        within == chain \union {key}
        fallback == LET f == {j \in Children(D, i) : IsFallback(D[j])}
                    IN IF f = {} THEN Fatal
                       ELSE Meaning(lib, u, Max(f) + 1, EndOf(D, Max(f)) - 1, chain)
        part == IF e.xpointer = <<>> THEN {0} ELSE Identified(R, e.xpointer[1])
        read == IF part = {0} THEN Meaning(lib, target, 1, Len(R), within)
                ELSE Meaning(lib, target, Max(part), EndOf(R, Max(part)), within)
    IN CASE e.href = {"not a URI"} -> Fatal
         [] e.href = {} \/ (e.xpointer # <<>> /\ ~e.xpointer[1].parses) -> fallback
         [] OTHER ->
              CASE key \in chain -> Fatal
                [] key \notin chain /\ (~lib[target].available \/ e.encoding # {}) -> fallback
                [] OTHER ->
                     CASE e.parse = "text" -> [out |-> lib[target].text, fatal |-> FALSE]
                       [] e.xpointer # <<>> /\ ~e.xpointer[1].ok -> fallback
                       [] OTHER -> IF part = {} /\ Sound(R) THEN fallback
                                   ELSE IF part = {} THEN Fatal
                                   ELSE Then(read, IF Sound(R) THEN Nothing ELSE Fatal)

(* Elements by their names, since inclusion may add attributes to them.    *)
Bare(events) == [i \in DOMAIN events |->
    IF IsStart(events[i]) THEN [kind |-> "StartElement", name |-> events[i].name] ELSE events[i]]

(* What comes out is what the document means, with one root element; an    *)
(* error of the run is one that the document has (the module's promise:    *)
(* replaces each xi:include element with the referenced resource, or by    *)
(* the content of its xi:fallback), and what was included stays in the     *)
(* base URI and the language it had.                                       *)
ReplacesInclusions ==
    LET D == work.library[Main].xml
        meaning == Meaning(work.library, Main, 1, Len(D), {})
        sound == Sound(D) /\ ~meaning.fatal
        oneRoot == /\ IsDocument(meaning.out)
                   /\ \A i \in DOMAIN meaning.out :
                        meaning.out[i].kind = "Characters" /\ Level(meaning.out, i) = 0
                        => meaning.out[i].blank
    IN /\ KeepsContextInPlace
       /\ IsPrefix(Bare(delivered), Bare(meaning.out))
       /\ outcome = "Completed" => sound /\ oneRoot /\ Bare(delivered) = Bare(meaning.out)
       /\ outcome \in {"malformed", "invalid", "loop", "uri", "resource"} => ~sound
       /\ outcome = "root" => ~sound \/ ~oneRoot
=============================================================================
