----------------------------- MODULE MCValidity -----------------------------
(* Small documents against small DTDs: every content model of a few names, *)
(* attributes of every type, and several documents through one set.        *)
EXTENDS ValidatorSet, FiniteSetsExt

TheNameTokens == {"i", "j", "k", "p:i", "pic"}
TheNcNames == {"i", "j", "k", "pic"}
TheNmTokens == TheNameTokens \union {"1"}

-----------------------------------------------------------------------------
(* Content models.                                                         *)
N(name, occurs) == Particle("name", name, <<>>, occurs)

OccursIn == {"once", "optional", "zeroOrMore"}

Simple == {N("a", o) : o \in OccursIn} \union {N("b", "once")}
Grouped == {Particle(kind, "", <<p, q>>, o) : kind \in {"seq", "choice"}, p \in Simple, q \in Simple, o \in {"once", "zeroOrMore"}}
Some == {g \in Grouped : g.parts[1] = N("a", "once") \/ g.parts[2] = N("a", "optional")}
Ends == {N("a", "once"), N("b", "once"), N("a", "zeroOrMore")}
Nested == {Particle(kind, "", <<g, p>>, o) : kind \in {"seq", "choice"}, g \in Some, p \in Ends, o \in {"once", "oneOrMore"}}
            \union {Particle("seq", "", <<p, g>>, "once") : p \in Ends, g \in Some}
            \union {Particle("seq", "", <<g>>, o) : g \in Grouped, o \in {"optional", "oneOrMore"}}
Particles == Grouped \union Nested \union Simple


(* A model is ambiguous if, after the same beginning, one name can stand   *)
(* for two of its places (XML 1.0, appendix E).                            *)
RECURSIVE Marked(_, _)
Marked(particle, at) ==
    [particle EXCEPT !.name = <<@, at>>, !.parts = [i \in DOMAIN @ |-> Marked(@[i], Append(at, i))]]
Ambiguous(particle, n) ==
    LET beginnings == UNION {{SubSeq(w, 1, k) : k \in 1 .. Len(w)} : w \in Words(Marked(particle, <<>>), n)}
    IN Cardinality({<<Front(w), Last(w)[1]>> : w \in beginnings}) < Cardinality(beginnings)
AmbiguousModels == {p \in Particles : Ambiguous(p, 5)}
Language == [p \in Particles |-> Words(p, 3)]

-----------------------------------------------------------------------------
(* What validity means, of a document that is over, by its events.         *)
Starts == {i \in DOMAIN seen : seen[i].type = "start"}
NumberOf(type, from, to) == Cardinality({k \in from .. to : seen[k].type = type})
EndOf(i) == CHOOSE j \in i .. Len(seen) :
    NumberOf("start", i, j) = NumberOf("end", i, j) /\ \A k \in i .. j - 1 : NumberOf("start", i, k) > NumberOf("end", i, k)
Around(i) == {k \in Starts : k < i /\ EndOf(k) > i}
Inside(i) == {j \in Starts : Around(j) # {} /\ Max(Around(j)) = i}
ChildNames(i) == LET at == SetToSortSeq(Inside(i), <) IN [k \in DOMAIN at |-> seen[at[k]].name]
AttributesOf(i) == ToSet(seen[i].attributes)

ContentIsWrong(dtd, i) ==
    LET spec == ContentSpec(dtd, seen[i].name)
    IN CASE spec.kind = "empty" -> Inside(i) # {}
         [] spec.kind = "mixed" -> ~(ToSet(ChildNames(i)) \subseteq ToSet(spec.names))
         [] spec.kind = "children" -> ChildNames(i) \notin Language[spec.particle]
         [] OTHER -> FALSE

TextIsWrong(dtd, i) ==
    LET kind == ContentSpec(dtd, seen[Max(Around(i))].name).kind
    IN kind = "empty" \/ (kind = "children" /\ ~(seen[i].type = "characters" /\ seen[i].whitespace))

(* Every attribute with its type, or none where it is not declared.        *)
Typed(dtd) ==
    UNION {{<<i, a, {def \in ToSet(Attlist(dtd, seen[i].name)) : def.name = a.name}>> : a \in AttributesOf(i)} : i \in Starts}
OfType(dtd, types) == {t \in Typed(dtd) : \E def \in t[3] : def.type.type \in types}
Untyped(dtd, xmlId) == {t \in Typed(dtd) : xmlId /\ t[3] = {} /\ t[2].name = XmlId}

Legal(dtd, type, value) ==
    LET one == Len(value) = 1
        all(tokens) == ToSet(value) \subseteq tokens
        pictures == {n \in DOMAIN dtd.general : dtd.general[n].kind = "unparsed"}
    IN CASE type.type = "CDATA" -> TRUE
         [] type.type \in {"ID", "IDREF"} -> one /\ all(TheNameTokens)
         [] type.type = "IDREFS" -> value # <<>> /\ all(TheNameTokens)
         [] type.type = "ENTITY" -> all(pictures)
         [] type.type = "ENTITIES" -> all(pictures)
         [] type.type = "NMTOKEN" -> one /\ all(TheNmTokens)
         [] type.type = "NMTOKENS" -> value # <<>> /\ all(TheNmTokens)
         [] OTHER -> one /\ all(ToSet(type.names))

Ids(dtd, xmlId) == {t \in OfType(dtd, {"ID"}) : Legal(dtd, AttType("ID", <<>>), t[2].value)} \union Untyped(dtd, xmlId)
References(dtd) == UNION {ToSet(t[2].value) \intersect TheNameTokens :
                            t \in {r \in OfType(dtd, {"IDREF"}) : Len(r[2].value) = 1} \union OfType(dtd, {"IDREFS"})}

AttributesAreWrong(dtd, xmlId) ==
    \/ \E t \in Typed(dtd) \ Untyped(dtd, xmlId) : t[3] = {}
    \/ \E t \in Untyped(dtd, xmlId) : ~(Len(t[2].value) = 1 /\ t[2].value[1] \in TheNcNames)
    \/ \E t \in Typed(dtd) : \E def \in t[3] : \/ ~Legal(dtd, def.type, t[2].value)
                                               \/ def.default.kind = "fixed" /\ t[2].value # def.default.value
    \/ \E i \in Starts : \E def \in ToSet(Attlist(dtd, seen[i].name)) :
          def.default.kind = "required" /\ \A a \in AttributesOf(i) : a.name # def.name

DeclarationsAreWrong(dtd) ==
    \/ \E e \in DOMAIN dtd.attlists :
          LET ids == {d \in ToSet(dtd.attlists[e]) : d.type.type = "ID"}
          IN \/ Cardinality(ids) > 1 \/ \E d \in ids : d.default.kind \in {"fixed", "default"}
             \/ \E d \in ToSet(dtd.attlists[e]) :
                   \/ d.type.type = "NOTATION" /\ ~(ToSet(d.type.names) \subseteq DOMAIN dtd.notations)
                   \/ d.default.kind \in {"fixed", "default"} /\ ~Legal(dtd, d.type, d.default.value)
    \/ \E e \in DOMAIN dtd.elements : Cardinality(ToSet(dtd.elements[e].names)) < Len(dtd.elements[e].names)

Broken(dtd, xmlId) ==
    LET Kinds == [k \in {"wrong root", "undeclared element", "content", "ambiguous model", "text", "attribute",
                         "declaration", "repeated ID", "unmatched IDREF"} |->
            CASE k = "wrong root" -> seen[Min(Starts)].name # Root
              [] k = "undeclared element" -> \E i \in Starts : ~HasElement(dtd, seen[i].name)
              [] k = "content" -> \E i \in Starts : ContentIsWrong(dtd, i)
              [] k = "ambiguous model" ->
                   \E i \in Starts : /\ ContentSpec(dtd, seen[i].name).kind = "children"
                                     /\ ContentSpec(dtd, seen[i].name).particle \in AmbiguousModels
              [] k = "text" -> \E i \in DOMAIN seen : seen[i].type \in {"characters", "cdata"} /\ TextIsWrong(dtd, i)
              [] k = "attribute" -> AttributesAreWrong(dtd, xmlId)
              [] k = "declaration" -> DeclarationsAreWrong(dtd)
              [] k = "repeated ID" -> \E t, u \in Ids(dtd, xmlId) : <<t[1], t[2].name>> # <<u[1], u[2].name>> /\ t[2].value = u[2].value
              [] k = "unmatched IDREF" -> \E r \in References(dtd) : \A t \in Ids(dtd, xmlId) : t[2].value # <<r>>]
    IN {k \in DOMAIN Kinds : Kinds[k]}

KindOf(rule) ==
    CASE rule \in {"misplaced child", "incomplete content"} -> "content"
      [] rule \in {"bad xml:id", "bad ID", "bad IDREF", "no names", "not an unparsed entity", "bad name token",
                   "not one of the values", "undeclared attribute", "not the fixed value", "missing attribute"} -> "attribute"
      [] rule \in {"ID default", "undeclared notation", "invalid default", "several IDs", "repeated in mixed content"} -> "declaration"
      [] OTHER -> rule

-----------------------------------------------------------------------------
(* A document that was read to its end against its own DTD has errors of   *)
(* just the kinds its events break, and is reported valid if there are     *)
(* none: content models decide their language, IDs are one space, and      *)
(* references may come before what they refer to.                          *)
VerdictIsTheDefinition ==
    LET dtd == seen[2].dtd
        found == {KindOf(OwnErrors(set.own[1])[i].rule) : i \in DOMAIN OwnErrors(set.own[1])}
    IN HasEnded /\ set.own # <<>> /\ seen[2].type = "doctype" /\ run = "finished" =>
          /\ found = Broken(dtd, scene.xmlId)
          /\ scene.schemas = <<>> => IsValid(ReportOf(set)) = (Broken(dtd, scene.xmlId) = {} /\ set.ended = "completed")

(* Validation goes on just as long as the errors kept are within the       *)
(* limit, and what ends it is the first one beyond, by position.           *)
StopsAtTheLimit ==
    scene.max # <<>> /\ (scene.schemas = <<>> \/ documents = 1) =>
        /\ failure = <<>> <=> Len(Gathered(set)) <= scene.max[1]
        /\ failure # <<>> => /\ failure[1] \in ToSet(Gathered(set))
                             /\ Cardinality({i \in DOMAIN Gathered(set) : Gathered(set)[i].at < failure[1].at}) <= scene.max[1]

(* A document is judged as if the set had never seen another.              *)
Judged(st) == [errors |-> SortedErrors(st), count |-> st.count, hadDtd |-> ReportOf(st).hadDtd]
Afresh == LET Next1(st, e) == Consumed(scene, st, e) IN FoldLeft(Next1, NewSet(scene), seen)

-----------------------------------------------------------------------------
(* The DTDs.                                                               *)
EmptySpec == Content("empty", <<>>, NoParticle)
Children(particle) == Content("children", <<>>, particle)

ModelDtd(particle) ==
    DeclareElement(DeclareElement(DeclareElement(EmptyDtd, "r", Children(particle)), "a", EmptySpec), "b", EmptySpec)

Def(name, type, names, kind, value) == AttDef(name, AttType(type, names), Default(kind, value))
ADefs == << Def("id", "ID", <<>>, "implied", <<>>), Def("ref", "IDREF", <<>>, "implied", <<>>), Def("refs", "IDREFS", <<>>, "implied", <<>>) >>
BDefs == << Def("need", "NMTOKEN", <<>>, "required", <<>>), Def("kind", "enumeration", <<"i", "j">>, "default", <<"i">>),
            Def("fix", "CDATA", <<>>, "fixed", <<"k">>), Def("pic", "ENTITY", <<>>, "implied", <<>>), Def("toks", "NMTOKENS", <<>>, "implied", <<>>) >>
AttributeDtd ==
    DeclareAttributes(DeclareAttributes(DeclareGeneralEntity(
        DeclareElement(DeclareElement(DeclareElement(EmptyDtd, "r", Content("mixed", <<"a", "b">>, NoParticle)), "a", EmptySpec),
                       "b", Content("any", <<>>, NoParticle)),
        "pic", UnparsedEntity([system |-> "s"], "doc", "n")), "a", ADefs), "b", BDefs)
IllegalDtd == DeclareAttributes(DeclareElement(EmptyDtd, "r", Content("mixed", <<"a", "a">>, NoParticle)), "r",
    << Def("id", "ID", <<>>, "default", <<"i">>), Def("id2", "ID", <<>>, "implied", <<>>), Def("n", "NOTATION", <<"x">>, "implied", <<>>) >>)

S(name, attributes) == [name |-> name, attributes |-> attributes]
AStarts == {S("a", <<>>), S("a", <<Att("id", <<"i">>)>>), S("a", <<Att("id", <<"1">>)>>), S("a", <<Att("ref", <<"i">>)>>),
            S("a", <<Att("refs", <<"i", "j">>)>>), S("a", <<Att("refs", <<>>)>>), S("a", <<Att(XmlId, <<"i">>)>>),
            S("a", <<Att(XmlId, <<"p:i">>)>>), S("a", <<Att("id", <<"j">>), Att("ref", <<"j">>)>>)}
BStarts == {S("b", <<>>), S("b", <<Att("need", <<"1">>)>>), S("b", <<Att("need", <<"i", "j">>)>>), S("b", <<Att("need", <<"i">>), Att("kind", <<"k">>)>>),
            S("b", <<Att("need", <<"i">>), Att("fix", <<"j">>)>>), S("b", <<Att("need", <<"i">>), Att("pic", <<"i">>)>>),
            S("b", <<Att("need", <<"i">>), Att("pic", <<"pic">>), Att("toks", <<"1", "i">>)>>), S("b", <<Att("id", <<"i">>)>>)}

Scene(useDtd, xmlId, max, schemas, dtd, roots, starts, elements, depth, texts, docs, breaks) ==
    [useDtd |-> useDtd, xmlId |-> xmlId, max |-> max, schemas |-> schemas, dtd |-> dtd, roots |-> roots,
     starts |-> starts, breaks |-> breaks,
     elements |-> elements, depth |-> depth, texts |-> texts, documents |-> docs]

R == {S("r", <<>>)}
Models == {Scene(TRUE, FALSE, <<>>, <<>>, <<ModelDtd(p)>>, R, {S("a", <<>>), S("b", <<>>)}, 4, 2, 0, 1, {}) : p \in Particles}
Attributes == {Scene(TRUE, xmlId, <<>>, <<>>, <<AttributeDtd>>, R, AStarts \union BStarts, 3, 2, 0, 1, {}) : xmlId \in BOOLEAN}
ThreeIds == {Scene(TRUE, TRUE, <<>>, <<>>, <<AttributeDtd>>, R, AStarts, 4, 2, 0, 1, {})}
Mixing == {Scene(TRUE, FALSE, <<>>, <<>>, <<dtd>>, R \union starts, R \union starts, 3, 3, 2, 1, {}) :
             starts \in {{S("a", <<>>), S("b", <<Att("need", <<"i">>)>>), S("u", <<>>)}},
             dtd \in {AttributeDtd, ModelDtd(N("a", "optional")), IllegalDtd}}
Series == {Scene(useDtd, xmlId, max, schemas, dtd, R, {S("a", <<Att("id", <<"i">>)>>), S("a", <<Att(XmlId, <<"i">>), Att("ref", <<"k">>)>>)},
                 3, 2, 0, 2, {"stopped", "failed", "abandoned"}) :
             useDtd \in BOOLEAN, xmlId \in BOOLEAN, max \in {<<>>, <<0>>, <<2>>}, schemas \in {<<>>, <<AttributeDtd>>},
             dtd \in {<<>>, <<AttributeDtd>>}}
TheScenes == Models \union Attributes \union ThreeIds \union Mixing \union Series

Init == SetInit
Next == SetNext
Spec == Init /\ [][Next]_setVars
=============================================================================
