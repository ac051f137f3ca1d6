----------------------------- MODULE ValidatorSet -----------------------------
(* Several validators run as one over document after document              *)
(* (event/validate.rs: ValidatorSet, Report): the document's own DTD,      *)
(* xml:id, and the validators the application added. The events are those  *)
(* of any producer that opens and closes elements in order; it may stop    *)
(* anywhere, and always says so before it starts another document.         *)
EXTENDS DtdModel, FiniteSets, SequencesExt

-----------------------------------------------------------------------------
(* A document checked against a DTD as its events arrive                   *)
(* (dtd/validate.rs, dtd/validate/document.rs, event/validate/ids.rs).     *)
(* Values are sequences of tokens; an event carries its name, attributes   *)
(* and position. A violation is a rule, what broke it, and where.          *)

(* A declared content model as an automaton over the places of its names   *)
(* (dtd/validate/content.rs): which places can come first, which last, and *)
(* which can follow which.                                                 *)
RECURSIVE Build(_, _), Words(_, _), WordsOfSequence(_, _), WordsOfRepeat(_, _)

Automaton(symbols, first, last, follow, nullable) ==
    [symbols |-> symbols, first |-> first, last |-> last, follow |-> follow, nullable |-> nullable]

(* Two parts in a row: what may end the first may be followed by what may  *)
(* begin the second.                                                       *)
SequenceIgnoringNullable(m, n) ==
    Automaton(m.symbols \o n.symbols, IF m.nullable THEN m.first \union n.first ELSE m.first, n.last,
              m.follow \union n.follow \union (m.last \X n.first), m.nullable /\ n.nullable)

Sequence(m, n) ==
    Automaton(m.symbols \o n.symbols,
              IF m.nullable THEN m.first \union n.first ELSE m.first,
              IF n.nullable THEN m.last \union n.last ELSE n.last,
              m.follow \union n.follow \union (m.last \X n.first), m.nullable /\ n.nullable)

Choice(m, n) ==
    Automaton(m.symbols \o n.symbols, m.first \union n.first, m.last \union n.last,
              m.follow \union n.follow, m.nullable \/ n.nullable)

Apply(m, occurs) ==
    [m EXCEPT !.follow = IF occurs \in {"zeroOrMore", "oneOrMore"} THEN @ \union (m.last \X m.first) ELSE @,
              !.nullable = @ \/ occurs \in {"optional", "zeroOrMore"}]

(* Places are numbered in the order of the names, from `places` on.        *)
Build(particle, places) ==
    IF particle.kind = "name"
    THEN Apply(Automaton(<<particle.name>>, {places + 1}, {places + 1}, {}, FALSE), particle.occurs)
    ELSE LET Joined(m, part) ==
                 LET n == Build(part, places + Len(m.symbols))
                 IN IF particle.kind = "seq" THEN Sequence(m, n) ELSE Choice(m, n)
             nothing == Automaton(<<>>, {}, {}, {}, particle.kind = "seq")
         IN Apply(FoldLeft(Joined, nothing, particle.parts), particle.occurs)

Compile(particle) == Build(particle, 0)

Following(model, place) == {pair[2] : pair \in {f \in model.follow : f[1] = place}}

IsDeterministic(model) ==
    LET Distinct(places) == \A p, q \in places : model.symbols[p] = model.symbols[q] => p = q
    IN Distinct(model.first) /\ \A p \in DOMAIN model.symbols : Distinct(Following(model, p))

(* Which places the children so far may have reached, and which the next   *)
(* one may take. `stuck` is the child that found none.                     *)
Step(model, run, child) ==
    LET next == {p \in run.active : model.symbols[p] = child}
    IN IF run.stuck # <<>> THEN run
       ELSE IF next = {} THEN [run EXCEPT !.stuck = <<child>>]
       ELSE [active |-> UNION {Following(model, p) : p \in next}, matched |-> next, stuck |-> <<>>]

(* "", or what is wrong: a child that may not stand where it does, or an   *)
(* end that comes too early.                                               *)
Matches(model, children) ==
    LET Taken(run, child) == Step(model, run, child)
        run == FoldLeft(Taken, [active |-> model.first, matched |-> {}, stuck |-> <<>>], children)
    IN CASE run.stuck # <<>> -> "misplaced child"
         [] run.stuck = <<>> /\ children = <<>> /\ ~model.nullable -> "incomplete content"
         [] run.stuck = <<>> /\ children # <<>> /\ run.matched \intersect model.last = {} -> "incomplete content"
         [] OTHER -> ""

-----------------------------------------------------------------------------
(* What a content model means (XML 1.0, 3.2.1): the sequences of names, up *)
(* to a length, that it allows. Names may be marked with their place.      *)
Followed(us, Rest(_), n) == UNION {{u \o v : v \in Rest(n - Len(u))} : u \in {w \in us : Len(w) <= n}}

WordsOfSequence(parts, n) ==
    IF parts = <<>> THEN {<<>>}
    ELSE Followed(Words(Head(parts), n), LAMBDA k : WordsOfSequence(Tail(parts), k), n)

WordsOfRepeat(words, n) == {<<>>} \union Followed(words \ {<<>>}, LAMBDA k : WordsOfRepeat(words, k), n)

Words(particle, n) ==
    LET once == CASE particle.kind = "name" -> {<<particle.name>>}
                  [] particle.kind = "seq" -> WordsOfSequence(particle.parts, n)
                  [] particle.kind = "choice" -> UNION {Words(part, n) : part \in ToSet(particle.parts)}
    IN CASE particle.occurs = "once" -> once
         [] particle.occurs = "optional" -> once \union {<<>>}
         [] particle.occurs = "zeroOrMore" -> WordsOfRepeat(once, n)
         [] particle.occurs = "oneOrMore" -> Followed(once, LAMBDA k : WordsOfRepeat(once, k), n)

-----------------------------------------------------------------------------
CONSTANTS NameTokens,   \* the tokens that are names
          NcNames,      \* those without a colon
          NmTokens      \* the tokens that are name tokens

XmlId == "xml:id"
Att(name, value) == [name |-> name, value |-> value]
IsName(value) == Len(value) = 1 /\ value[1] \in NameTokens
IsNmtoken(value) == Len(value) = 1 /\ value[1] \in NmTokens

Violation(rule, what, at) == [rule |-> rule, what |-> what, at |-> at]
If(broken, rule, what, at) == IF broken THEN <<Violation(rule, what, at)>> ELSE <<>>
ForEach(seq, Errors(_)) == FlattenSeq([i \in DOMAIN seq |-> Errors(seq[i])])

NewValidator(dtd, root, xmlId) ==
    [dtd |-> dtd, root |-> root, xmlId |-> xmlId, rootSeen |-> FALSE, checked |-> FALSE, compiled |-> {},
     open |-> <<>>, ids |-> {}, idrefs |-> <<>>, errors |-> <<>>]
Reporting(v, errors) == [v EXCEPT !.errors = @ \o errors]

-----------------------------------------------------------------------------
(* The declarations themselves, checked at the first element.              *)
DefaultValueIsValid(dtd, type, value) ==
    CASE type.type = "CDATA" -> TRUE
      [] type.type \in {"ID", "IDREF"} -> IsName(value)
      [] type.type \in {"IDREFS", "ENTITIES"} -> \A i \in DOMAIN value : value[i] \in NameTokens
      [] type.type = "ENTITY" -> Len(value) = 1 /\ IsUnparsed(dtd, value[1])
      [] type.type = "NMTOKEN" -> IsNmtoken(value)
      [] type.type = "NMTOKENS" -> \A i \in DOMAIN value : value[i] \in NmTokens
      [] type.type \in {"enumeration", "NOTATION"} -> Len(value) = 1 /\ value[1] \in ToSet(type.names)

DefinitionErrors(dtd, def, at) ==
    If(def.type.type = "ID" /\ HasValue(def.default), "ID default", def.name, at)
    \o (IF def.type.type # "NOTATION" THEN <<>>
        ELSE ForEach(def.type.names, LAMBDA n : If(n \notin DOMAIN dtd.notations, "undeclared notation", n, at)))
    \o If(HasValue(def.default) /\ ~DefaultValueIsValid(dtd, def.type, def.default.value), "invalid default", def.name, at)

AttlistErrors(dtd, element, at) ==
    ForEach(Attlist(dtd, element), LAMBDA def : DefinitionErrors(dtd, def, at))
    \o If(Cardinality({i \in DOMAIN Attlist(dtd, element) : Attlist(dtd, element)[i].type.type = "ID"}) > 1,
          "several IDs", element, at)

Repeated(seq) == SelectSeq([i \in DOMAIN seq |-> <<seq[i], \E j \in 1 .. i - 1 : seq[j] = seq[i]>>], LAMBDA x : x[2])
MixedErrors(dtd, element, at) ==
    IF dtd.elements[element].kind # "mixed" THEN <<>>
    ELSE ForEach(Repeated(dtd.elements[element].names), LAMBDA x : If(TRUE, "repeated in mixed content", x[1], at))

DeclarationErrors(dtd, at) ==
    ForEach(SetToSeq(DOMAIN dtd.attlists), LAMBDA e : AttlistErrors(dtd, e, at))
    \o ForEach(SetToSeq(DOMAIN dtd.elements), LAMBDA e : MixedErrors(dtd, e, at))

CheckDeclarations(v, at) ==
    IF v.checked THEN v ELSE [Reporting(v, DeclarationErrors(v.dtd, at)) EXCEPT !.checked = TRUE]

-----------------------------------------------------------------------------
(* Content, checked when the element ends. A content model is compiled the *)
(* first time, and its ambiguity reported then.                            *)
CheckContent(v, element, children, at) ==
    LET spec == ContentSpec(v.dtd, element)
        model == Compile(spec.particle)
        failure == Matches(model, children)
    IN CASE spec.kind \in {"undeclared", "any"} -> v
         [] spec.kind = "empty" -> Reporting(v, If(children # <<>>, "misplaced child", element, at))
         [] spec.kind = "mixed" ->
              Reporting(v, ForEach(children, LAMBDA c : If(c \notin ToSet(spec.names), "misplaced child", element, at)))
         [] spec.kind = "children" ->
              [Reporting(v, If(element \notin v.compiled /\ ~IsDeterministic(model), "ambiguous model", element, at)
                            \o If(failure # "", failure, element, at))
               EXCEPT !.compiled = @ \union {element}]

-----------------------------------------------------------------------------
(* Attributes. IDs fall into one space, declared ones and xml:id alike.    *)
TakeId(ids, value) == ids \union {value}

CheckXmlId(v, value, at) ==
    [Reporting(v, If(~(Len(value) = 1 /\ value[1] \in NcNames), "bad xml:id", value, at)
                  \o If(value \in v.ids, "repeated ID", value, at))
     EXCEPT !.ids = TakeId(@, value)]

CheckId(v, value, at) ==
    IF ~IsName(value) THEN Reporting(v, If(TRUE, "bad ID", value, at))
    ELSE [Reporting(v, If(value \in v.ids, "repeated ID", value, at)) EXCEPT !.ids = TakeId(@, value)]

CheckIdRefs(v, value, at) ==
    [Reporting(v, ForEach(value, LAMBDA t : If(t \notin NameTokens, "bad IDREF", <<t>>, at)))
     EXCEPT !.idrefs = @ \o ForEach(value, LAMBDA t : IF t \in NameTokens THEN <<[value |-> <<t>>, at |-> at]>> ELSE <<>>)]

CheckAttributeValue(v, name, type, value, at) ==
    CASE type.type = "CDATA" -> v
      [] type.type = "ID" -> CheckId(v, value, at)
      [] type.type = "IDREF" -> IF IsName(value) THEN CheckIdRefs(v, value, at)
                                ELSE Reporting(v, If(TRUE, "bad IDREF", value, at))
      [] type.type = "IDREFS" -> IF value = <<>> THEN Reporting(v, If(TRUE, "no names", name, at))
                                 ELSE CheckIdRefs(v, value, at)
      [] type.type \in {"ENTITY", "ENTITIES"} ->
           Reporting(v, ForEach(value, LAMBDA t : If(~IsUnparsed(v.dtd, t), "not an unparsed entity", t, at)))
      [] type.type = "NMTOKEN" -> Reporting(v, If(~IsNmtoken(value), "bad name token", name, at))
      [] type.type = "NMTOKENS" ->
           Reporting(v, If(value = <<>>, "no names", name, at)
                        \o ForEach(value, LAMBDA t : If(t \notin NmTokens, "bad name token", name, at)))
      [] type.type \in {"enumeration", "NOTATION"} ->
           Reporting(v, If(~(Len(value) = 1 /\ value[1] \in ToSet(type.names)), "not one of the values", name, at))

Defs(v, element, name) == SelectSeq(Attlist(v.dtd, element), LAMBDA def : def.name = name)

CheckAttribute(v, element, a, at) ==
    LET defs == Defs(v, element, a.name)
        fixed == defs[1].default.kind = "fixed"
    IN IF v.xmlId /\ a.name = XmlId /\ defs = <<>> THEN CheckXmlId(v, a.value, at)
       ELSE IF defs = <<>> THEN Reporting(v, If(TRUE, "undeclared attribute", a.name, at))
       ELSE CheckAttributeValue(Reporting(v, If(fixed /\ a.value # defs[1].default.value, "not the fixed value", a.name, at)),
                                a.name, defs[1].type, a.value, at)

CheckAttributes(v, element, attributes, at) ==
    LET Checked(w, a) == CheckAttribute(w, element, a, at)
        Missing(def) == def.default.kind = "required" /\ \A i \in DOMAIN attributes : attributes[i].name # def.name
    IN Reporting(FoldLeft(Checked, v, attributes),
                 ForEach(Attlist(v.dtd, element), LAMBDA def : If(Missing(def), "missing attribute", def.name, at)))

-----------------------------------------------------------------------------
(* The events.                                                             *)
ContentKind(dtd, element) ==
    CASE ContentSpec(dtd, element).kind = "empty" -> "empty"
      [] ContentSpec(dtd, element).kind = "children" -> "elements"
      [] OTHER -> "text"

Opened(v, name) ==
    LET counted == IF v.open = <<>> THEN <<>> ELSE [v.open EXCEPT ![Len(v.open)].children = Append(@, name)]
    IN [v EXCEPT !.rootSeen = TRUE,
                 !.open = Append(counted, [name |-> name, children |-> <<>>, content |-> ContentKind(v.dtd, name)])]

StartElement(v, e) ==
    LET checked == Reporting(CheckDeclarations(v, e.at),
                             If(~v.rootSeen /\ v.root # "" /\ e.name # v.root, "wrong root", e.name, e.at)
                             \o If(~HasElement(v.dtd, e.name), "undeclared element", e.name, e.at))
    IN Opened(CheckAttributes(checked, e.name, e.attributes, e.at), e.name)

Characters(v, whitespace, at) ==
    IF v.open = <<>> THEN v
    ELSE LET content == Last(v.open).content
         IN Reporting(v, If(content = "empty", "text", "", at) \o If(content = "elements" /\ ~whitespace, "text", "", at))

EndElement(v, at) ==
    IF v.open = <<>> THEN v
    ELSE CheckContent([v EXCEPT !.open = Front(@)], Last(v.open).name, Last(v.open).children, at)

EndDocument(v) ==
    [Reporting(v, ForEach(v.idrefs, LAMBDA r : If(r.value \notin v.ids, "unmatched IDREF", r.value, r.at)))
     EXCEPT !.idrefs = <<>>]

Validate(v, e) ==
    CASE e.type = "start" -> StartElement(v, e)
      [] e.type = "end" -> EndElement(v, e.at)
      [] e.type = "characters" -> Characters(v, e.whitespace, e.at)
      [] e.type = "cdata" -> Characters(v, FALSE, e.at)
      [] e.type = "end document" -> EndDocument(v)
      [] OTHER -> v

(* xml:id alone: the first such attribute of each element. A validator     *)
(* with nothing but IDs stands for XmlIdValidator.                         *)
NewXmlIds == NewValidator(EmptyDtd, "", TRUE)
ValidateXmlIds(v, e) ==
    LET xmlIds == IF e.type = "start" THEN SelectSeq(e.attributes, LAMBDA a : a.name = XmlId) ELSE <<>>
    IN IF xmlIds = <<>> THEN v ELSE CheckXmlId(v, xmlIds[1].value, e.at)

(* The document's own DTD: the validator comes with the DOCTYPE, or the    *)
(* check of xml:id alone with the first other event.                       *)
NewDocumentDtd(xmlId) == [dtd |-> <<>>, ids |-> <<>>, xmlId |-> xmlId, lazyDone |-> FALSE]

EnsureLazy(d) ==
    [d EXCEPT !.lazyDone = TRUE,
              !.ids = IF ~d.lazyDone /\ d.xmlId /\ d.dtd = <<>> THEN <<NewXmlIds>> ELSE @]

ValidateOwn(d, e) ==
    IF e.type = "doctype" THEN [d EXCEPT !.dtd = <<NewValidator(e.dtd, e.name, d.xmlId)>>]
    ELSE LET r == EnsureLazy(d)
         IN [r EXCEPT !.dtd = [i \in DOMAIN @ |-> Validate(@[i], e)],
                      !.ids = IF r.dtd = <<>> THEN [i \in DOMAIN @ |-> ValidateXmlIds(@[i], e)] ELSE @]

OwnErrors(d) == IF d.dtd # <<>> THEN d.dtd[1].errors ELSE IF d.ids # <<>> THEN d.ids[1].errors ELSE <<>>

-----------------------------------------------------------------------------
CONSTANTS Scenes,        \* [useDtd, xmlId, max (<<>> or <<limit>>), schemas: sequence of DTDs,
                         \*  dtd: <<>> or <<the DTD>>, roots, starts: which elements may open, and how many of
                         \*  them, how deep, and how many texts and documents: elements, depth, texts, documents,
                         \*  breaks: how a run may end early]
          Root           \* the name in the DOCTYPE

VARIABLES scene, set,
          seen,      \* the events of this document
          run,       \* "idle", "running", "failed" or "finished"
          failure,   \* the error that ended it
          documents

setVars == <<scene, set, seen, run, failure, documents>>

FromSchema(dtd) == NewValidator(dtd, "", FALSE)
NewSet(s) ==
    [prepared |-> FALSE, own |-> <<>>, ids |-> <<>>, added |-> [i \in DOMAIN s.schemas |-> FromSchema(s.schemas[i])],
     ended |-> "", count |-> 0]


StartDocument(s, st) ==
    [st EXCEPT !.own = IF s.useDtd THEN <<NewDocumentDtd(s.xmlId)>> ELSE <<>>,
               !.ids = IF ~s.useDtd /\ s.xmlId THEN <<NewXmlIds>> ELSE <<>>,
               !.ended = "", !.count = 0, !.prepared = TRUE]

(* Which errors the members hold: own DTD, xml:id, added validators; and   *)
(* by position, in that order where positions agree.                       *)
Gathered(st) ==
    ForEach(st.own, OwnErrors) \o ForEach(st.ids, LAMBDA v : v.errors) \o ForEach(st.added, LAMBDA v : v.errors)
Sorted(errors) == SortSeq([i \in DOMAIN errors |-> <<errors[i], i>>],
                          LAMBDA x, y : x[1].at < y[1].at \/ (x[1].at = y[1].at /\ x[2] < y[2]))
SortedErrors(st) == LET sorted == Sorted(Gathered(st)) IN [i \in DOMAIN sorted |-> sorted[i][1]]

Members(st, e) ==
    [st EXCEPT !.own = [i \in DOMAIN @ |-> ValidateOwn(@[i], e)],
               !.ids = [i \in DOMAIN @ |-> ValidateXmlIds(@[i], e)],
               !.added = [i \in DOMAIN @ |-> Validate(@[i], e)]]

(* Each member says how many errors the event brought, and the set adds up.*)
Consumed(s, st, e) ==
    LET ready == IF e.type = "start document" \/ ~st.prepared THEN StartDocument(s, st) ELSE st
        after == Members(ready, e)
    IN [after EXCEPT !.count = @ + Len(Gathered(after)) - Len(Gathered(ready))]

ExceedsOneMore(s, st) == s.max # <<>> /\ st.count > s.max[1] + 1
Exceeds(s, st) == s.max # <<>> /\ st.count > s.max[1]

ReportOf(st) ==
    [errors |-> SortedErrors(st), hadDtd |-> \E i \in DOMAIN st.own : st.own[i].dtd # <<>>,
     hadValidators |-> st.added # <<>>, ended |-> st.ended]
IsValid(report) == report.ended = "completed" /\ (report.hadDtd \/ report.hadValidators) /\ report.errors = <<>>

-----------------------------------------------------------------------------
(* The producer.                                                           *)
Event(type) == [type |-> type, at |-> Len(seen) + 1]
Start(name, attributes) == [type |-> "start", at |-> Len(seen) + 1, name |-> name, attributes |-> attributes]
Text(type, whitespace) == [type |-> type, at |-> Len(seen) + 1, whitespace |-> whitespace]
Doctype(dtd) == [type |-> "doctype", at |-> Len(seen) + 1, name |-> Root, dtd |-> dtd]

CountOf(type) == Cardinality({i \in DOMAIN seen : seen[i].type = type})
Depth == CountOf("start") - CountOf("end")
Texts == CountOf("characters") + CountOf("cdata")
HasEnded == CountOf("end document") > 0

Consume(e) ==
    /\ set' = Consumed(scene, set, e)
    /\ seen' = IF e.type = "start document" THEN <<e>> ELSE Append(seen, e)
    /\ run' = IF Exceeds(scene, set') THEN "failed" ELSE "running"
    /\ failure' = IF Exceeds(scene, set')
                  THEN LET sorted == SortedErrors(set')
                       IN IF scene.max[1] < Len(sorted) THEN <<sorted[scene.max[1] + 1]>> ELSE <<Violation("limit", "", 0)>>
                  ELSE <<>>
    /\ UNCHANGED scene

SetInit ==
    /\ scene \in Scenes
    /\ set = NewSet(scene)
    /\ seen = <<>> /\ run = "idle" /\ failure = <<>> /\ documents = 0

(* A document starts with StartDocument; a first one may do without.       *)
BeginDocument ==
    /\ run \in {"idle", "finished"} /\ documents < scene.documents
    /\ Consume([type |-> "start document", at |-> 1])
    /\ documents' = documents + 1
BeginWithout ==
    /\ run = "idle"
    /\ \E start \in scene.roots : Consume(Start(start.name, start.attributes))
    /\ documents' = documents + 1

ConsumeDoctype ==
    /\ run = "running" /\ Len(seen) = 1 /\ CountOf("start") = 0
    /\ \E dtd \in ToSet(scene.dtd) : Consume(Doctype(dtd))
    /\ UNCHANGED documents

ConsumeStart ==
    /\ run = "running" /\ ~HasEnded /\ CountOf("start") < scene.elements /\ Depth < scene.depth
    /\ Depth = 0 => CountOf("start") = 0
    /\ \E start \in IF Depth = 0 THEN scene.roots ELSE scene.starts : Consume(Start(start.name, start.attributes))
    /\ UNCHANGED documents

ConsumeText ==
    /\ run = "running" /\ Depth > 0 /\ Texts < scene.texts
    /\ \E text \in {Text("characters", TRUE), Text("characters", FALSE), Text("cdata", TRUE)} : Consume(text)
    /\ UNCHANGED documents

ConsumeEnd ==
    /\ run = "running" /\ Depth > 0
    /\ Consume(Event("end"))
    /\ UNCHANGED documents

ConsumeEndDocument ==
    /\ run = "running" /\ Depth = 0 /\ CountOf("start") > 0 /\ ~HasEnded
    /\ Consume(Event("end document"))
    /\ UNCHANGED documents

Outcomes == IF run = "failed" THEN {"failed"} ELSE IF HasEnded THEN {"completed"} ELSE scene.breaks

Finish ==
    /\ run \in {"running", "failed"}
    /\ \E outcome \in Outcomes : set' = [set EXCEPT !.ended = outcome]
    /\ run' = "finished"
    /\ UNCHANGED <<scene, seen, failure, documents>>

SetNext ==
    BeginDocument \/ BeginWithout \/ ConsumeDoctype \/ ConsumeStart \/ ConsumeText \/ ConsumeEnd
    \/ ConsumeEndDocument \/ Finish
=============================================================================
