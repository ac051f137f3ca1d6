------------------------------ MODULE DtdReading ------------------------------
(* Reading a DTD whose text arrives piece by piece (dtd/read/assemble.rs,  *)
(* dtd/read/reader.rs, and drive_dtd in io/parse.rs): the internal subset, *)
(* the external one, and the text of each external parameter entity, asked *)
(* for when a pass meets its reference. Every pass starts from the         *)
(* beginning; what is left of the one before is the buffer and the layout. *)
EXTENDS DtdPass

-----------------------------------------------------------------------------
(* The declarations of a DTD, as one pass reads them (dtd/read.rs).        *)
RECURSIVE ContentParticle(_, _), Particles(_, _, _), Alternatives(_)
RECURSIVE GroupItems(_, _), AttributeDefinitions(_), DefaultTail(_, _)
RECURSIVE NestedDeclaration(_), IncludeSection(_), Ignored(_, _), Declarations(_)

(* Entities. Where the declaration stands decides what a relative system   *)
(* identifier is resolved against, and whether a standalone document may   *)
(* depend on it; only the declaration that is binding counts for that.     *)
Unparsed(s, next, base) ==
    IF Peek(next) # "NDATA" THEN Yield(next, ExternalEntity(s.val, base))
    ELSE IF next.pos = s.pos THEN Fail(next)
    ELSE Giving(Name(RequireWhitespace(Skip(next))), LAMBDA notation : UnparsedEntity(s.val, base, notation))

EntityDefinition(s, base, parameter) ==
    Then(s, LAMBDA r :
        IF Peek(r) \in {"SYSTEM", "PUBLIC"}
        THEN Then(ExternalId(r, FALSE), LAMBDA q : IF parameter THEN Yield(q, ExternalEntity(q.val, base))
                                                   ELSE Unparsed(q, SkipWhitespace(q), base))
        ELSE Giving(EntityValue(r), LAMBDA value : InternalEntity(value)))

WrittenAt(s) == [base |-> BaseAt(s.layout, s.pos), external |-> External(s), by |-> s.buf[s.pos].base]

DeclareGeneral(s, name, entity, place) ==
    LET new == name \notin DOMAIN s.dtd.general
        marked == IF place.external /\ new THEN MarkGeneralEntityExternal(s.dtd, name) ELSE s.dtd
    IN [s EXCEPT !.dtd = DeclareGeneralEntity(marked, name, entity),
                 !.by = IF new THEN Put(s.by, name, place.by) ELSE @]

EntityFrom(s, parameter, place) ==
    Bind(Name(s), LAMBDA named, name :
    Bind(EntityDefinition(RequireWhitespace(named), place.base, parameter), LAMBDA defined, entity :
    Then(CloseDeclaration(defined), LAMBDA r :
        IF parameter THEN [r EXCEPT !.dtd = DeclareParameterEntity(@, name, entity)]
        ELSE DeclareGeneral(r, name, entity, place))))

EntityDeclaration(s) ==
    Then(RequireWhitespace(s), LAMBDA r :
        EntityFrom(IF Peek(r) = "%" THEN RequireWhitespace(Skip(r)) ELSE r, Peek(r) = "%", WrittenAt(s)))

NotationDeclaration(s) ==
    Bind(Name(RequireWhitespace(s)), LAMBDA named, name :
    Bind(ExternalId(RequireWhitespace(named), TRUE), LAMBDA defined, id :
    Then(CloseDeclaration(defined), LAMBDA r :
        IF name \in DOMAIN r.dtd.notations THEN Fail(r) ELSE [r EXCEPT !.dtd = DeclareNotation(@, name, id)])))

-----------------------------------------------------------------------------
(* Content models.                                                         *)
Occurs == [t \in {"?", "*", "+"} |-> CASE t = "?" -> "optional" [] t = "*" -> "zeroOrMore" [] t = "+" -> "oneOrMore"]
Occurrence(s, kind, name, parts) ==
    Then(s, LAMBDA r : IF Peek(r) \in DOMAIN Occurs
                       THEN Yield(Skip(r), Particle(kind, name, parts, Occurs[Peek(r)]))
                       ELSE Yield(r, Particle(kind, name, parts, "once")))

ContentParticle(s, depth) ==
    Then(Then(s, LAMBDA r : IF depth > MaxContentDepth THEN Fail(r) ELSE ExpandIfExternal(r)),
         LAMBDA r :
           IF Peek(r) = "("
           THEN Particles(SkipSeparators(Giving(ContentParticle(SkipSeparators(Skip(r)), depth + 1),
                                                LAMBDA one : <<one>>)), depth, "none")
           ELSE Bind(Name(r), LAMBDA named, name : Occurrence(named, "name", name, <<>>)))

(* The first separator makes it a choice or a sequence, and the others     *)
(* must be the same; with none it is a sequence of one.                    *)
Particles(s, depth, separator) ==
    Then(s, LAMBDA r :
        IF Peek(r) = ")" THEN Occurrence(Skip(r), IF separator = "|" THEN "choice" ELSE "seq", "", r.val)
        ELSE IF Peek(r) \in {"|", ","} /\ separator \in {"none", Peek(r)}
        THEN Particles(SkipSeparators(Giving(ContentParticle(SkipSeparators(Skip(r)), depth + 1),
                                             LAMBDA next : Append(r.val, next))), depth, Peek(r))
        ELSE Fail(r))

(* Names must be followed by a star.                                       *)
MixedEnd(s, names) ==
    CASE Peek(s) = "*" -> Yield(Skip(s), Content("mixed", names, NoParticle))
      [] Peek(s) # "*" /\ names = <<>> -> Yield(s, Content("mixed", <<>>, NoParticle))
      [] OTHER -> Fail(s)

Alternatives(s) ==
    Then(s, LAMBDA r :
        IF Peek(r) = ")" THEN MixedEnd(Skip(r), r.val)
        ELSE IF Peek(r) = "|"
        THEN Alternatives(SkipSeparators(Giving(Name(SkipSeparators(Skip(r))), LAMBDA name : Append(r.val, name))))
        ELSE Fail(r))

ReadContentSpec(s) ==
    Then(Then(s, ExpandIfExternal), LAMBDA r :
        CASE AtKeyword(r, "EMPTY") -> Yield(Skip(r), Content("empty", <<>>, NoParticle))
          [] AtKeyword(r, "ANY") -> Yield(Skip(r), Content("any", <<>>, NoParticle))
          [] Peek(r) = "(" /\ Peek(SkipWhitespace(Skip(r))) = "#PCDATA" ->
               Alternatives(SkipSeparators(Yield(Skip(SkipWhitespace(Skip(r))), <<>>)))
          [] Peek(r) = "(" /\ Peek(SkipWhitespace(Skip(r))) # "#PCDATA" ->
               Giving(ContentParticle(r, 0), LAMBDA particle : Content("children", <<>>, particle))
          [] OTHER -> Fail(r))

ElementDeclaration(s) ==
    Bind(Name(RequireWhitespace(s)), LAMBDA named, name :
    Bind(ReadContentSpec(RequireWhitespace(named)), LAMBDA read, spec :
    Then(CloseDeclaration(read), LAMBDA r :
        IF HasElement(r.dtd, name) THEN Fail(r) ELSE [r EXCEPT !.dtd = DeclareElement(@, name, spec)])))

-----------------------------------------------------------------------------
(* Attribute lists.                                                        *)
Group(s) == GroupItems(Yield(Expect(s, "("), <<>>), "first")
GroupItems(s, turn) ==
    Then(Then(s, SkipWhitespace), LAMBDA r :
        IF turn = "separator" /\ Peek(r) = ")" THEN Skip(r)
        ELSE IF turn = "separator" THEN GroupItems(Expect(r, "|"), "item")
        ELSE GroupItems(Giving(RawName(r), LAMBDA item : Append(r.val, item)), "separator"))

Keywords == {"CDATA", "ID", "IDREF", "IDREFS", "ENTITY", "ENTITIES", "NMTOKEN", "NMTOKENS"}
AttributeType(s) ==
    Then(s, LAMBDA r :
        IF \E k \in Keywords : AtKeyword(r, k) THEN Yield(Skip(r), AttType(Peek(r), <<>>))
        ELSE Giving(Group(IF AtKeyword(r, "NOTATION") THEN RequireWhitespace(Skip(r)) ELSE r),
                    LAMBDA names : AttType(IF Peek(r) = "(" THEN "enumeration" ELSE "NOTATION", names)))

(* A default is kept with its character references replaced; entities in   *)
(* it must be declared by now, and stay. Tokenized values lose the spaces  *)
(* that separate nothing.                                                  *)
Normalize(value) ==
    LET Kept(i) == value[i] # " " \/ (/\ \E j \in 1 .. i - 1 : value[j] # " "
                                      /\ i < Len(value) /\ value[i + 1] # " ")
    IN SelectSeq([i \in DOMAIN value |-> <<value[i], Kept(i)>>], LAMBDA x : x[2])
NormalizeTokenized(value, tokenized) ==
    IF tokenized THEN [i \in DOMAIN Normalize(value) |-> Normalize(value)[i][1]] ELSE value

DefaultTail(s, quote) ==
    LET Kept(t) == DefaultTail(Yield(Skip(s), Append(s.val, t)), quote)
    IN IF s.stop # "" THEN s
       ELSE CASE Peek(s) \in {"end", "<"} -> Fail(s)
              [] Peek(s) = quote -> Skip(s)
              [] Peek(s) \in DOMAIN CharRef -> Kept(CharRef[Peek(s)])
              [] Peek(s) \in DOMAIN GeName /\ GeName[Peek(s)] \notin DOMAIN s.dtd.general -> Fail(s)
              [] OTHER -> Kept(Peek(s))

DefaultValue(s, kind, type) ==
    Giving(Then(s, LAMBDA r : IF Peek(r) \in Quotes THEN DefaultTail(Yield(Skip(r), <<>>), Peek(r)) ELSE Fail(r)),
           LAMBDA value : Default(kind, NormalizeTokenized(value, IsTokenized(type))))

DefaultDeclaration(s, type) ==
    Then(s, LAMBDA r :
        IF Peek(r) = "#REQUIRED" THEN Yield(Skip(r), Default("required", <<>>))
        ELSE IF Peek(r) = "#IMPLIED" THEN Yield(Skip(r), Default("implied", <<>>))
        ELSE IF Peek(r) = "#FIXED" THEN DefaultValue(RequireWhitespace(Skip(r)), "fixed", type)
        ELSE DefaultValue(r, "default", type))

AttributeDefinition(s) ==
    Bind(Name(s), LAMBDA named, name :
    Bind(AttributeType(RequireWhitespace(named)), LAMBDA typed, type :
    Giving(DefaultDeclaration(RequireWhitespace(typed), type), LAMBDA default : AttDef(name, type, default))))

AttributeDefinitions(s) ==
    Then(SkipSeparators(s), LAMBDA r :
        IF Peek(r) = ">" THEN Skip(r)
        ELSE AttributeDefinitions(Giving(AttributeDefinition(r), LAMBDA def : Append(r.val, def))))

MarkAttlist(s, name, place) ==
    [s EXCEPT !.dtd = IF place.external THEN MarkAttlistExternal(@, name) ELSE @,
              !.lists = @ \union {<<name, place.by>>}]

AttlistDeclaration(s) ==
    Bind(Name(RequireWhitespace(s)), LAMBDA named, name :
    Bind(AttributeDefinitions(Yield(MarkAttlist(named, name, WrittenAt(s)), <<>>)), LAMBDA r, defs :
        [r EXCEPT !.dtd = DeclareAttributes(@, name, defs)]))

-----------------------------------------------------------------------------
(* Comments, processing instructions and conditional sections.             *)
Through(s, ends, Bad(_)) ==
    LET found == {p \in s.pos .. Len(s.buf) - 1 : s.buf[p + 1].t = ends}
    IN IF found = {} THEN Fail(s)
       ELSE LET end == CHOOSE p \in found : \A q \in found : p <= q
            IN IF \E p \in s.pos .. end - 1 : Bad(s.buf[p + 1].t) THEN Fail(s) ELSE [s EXCEPT !.pos = end + 1]

Comment(s) == Through(s, "-->", LAMBDA t : t = "--")
ProcessingInstruction(s) ==
    IF Peek(s) \notin Names \/ Peek(s) = "xml" THEN Fail(s) ELSE Through(s, "?>", LAMBDA t : FALSE)

(* An ignored section is skipped with the sections in it, and nothing in   *)
(* it is expanded.                                                         *)
Ignored(s, depth) ==
    IF depth = 0 THEN s
    ELSE CASE Peek(s) = "end" -> Fail(s)
           [] Peek(s) = "<![" -> Ignored(Skip(s), depth + 1)
           [] Peek(s) = "]]>" -> Ignored(Skip(s), depth - 1)
           [] OTHER -> Ignored(Skip(s), depth)

IncludeSection(s) ==
    Then(Approach(s), LAMBDA r :
        IF Peek(r) = "]]>" THEN Skip(r)
        ELSE IF Peek(r) = "end" THEN Fail(r)
        ELSE IncludeSection(NestedDeclaration(r)))

ConditionalSection(s) ==
    Then(Approach(s), LAMBDA r :
        LET body == Expect(SkipWhitespace(Skip(r)), "[")
        IN CASE Peek(r) = "INCLUDE" -> Then(body, IncludeSection)
             [] Peek(r) = "IGNORE" -> Then(body, LAMBDA q : Ignored(q, 1))
             [] OTHER -> Fail(r))

MarkupDeclaration(s) ==
    LET body == Skip(s)
    IN CASE Peek(s) = "<!--" -> Comment(body)
         [] Peek(s) = "<![" -> IF External(s) THEN ConditionalSection(body) ELSE Fail(s)
         [] Peek(s) = "<?" -> ProcessingInstruction(body)
         [] Peek(s) = "<!ENTITY" -> EntityDeclaration(body)
         [] Peek(s) = "<!ELEMENT" -> ElementDeclaration(body)
         [] Peek(s) = "<!ATTLIST" -> AttlistDeclaration(body)
         [] Peek(s) = "<!NOTATION" -> NotationDeclaration(body)
         [] OTHER -> Fail(s)

(* A declaration must end in the entity it began in.                       *)
SamePeRegion(layout, a, b) == EntityAt(layout, a) = EntityAt(layout, b - 1)
NestedDeclaration(s) ==
    Then(MarkupDeclaration(s), LAMBDA r : IF SamePeRegion(r.layout, s.pos, r.pos) THEN r ELSE Fail(r))

Declarations(s) ==
    Then(Approach(s), LAMBDA r :
        IF Peek(r) = "end" THEN [r EXCEPT !.stop = "done"] ELSE Declarations(NestedDeclaration(r)))

ParseDtd(buf, layout, inline) == Declarations(Start(buf, layout, inline))

-----------------------------------------------------------------------------
CONSTANTS Scenes,      \* [internal, external: texts, subset: whether there is an external subset,
                       \*  resolver: "answers", "fails" or "none", world: <<base, system>> -> [uri, text]]
          MaxDiscards  \* how often a caller discards a request only to be asked again

VARIABLES scene, buf, layout, pending,
          step,      \* "subset", "ready", "asking", "complete" or "failed"
          read,      \* what the last pass left: its declarations and where they were written
          supplied,  \* the references whose text was supplied, in order
          discards

readingVars == <<scene, buf, layout, pending, step, read, supplied, discards>>

NothingRead == [dtd |-> EmptyDtd, by |-> Nothing, lists |-> {}]

(* new, with_internal_subset: read apart from a document, a DTD is all     *)
(* external subset.                                                        *)
ReadingInit ==
    /\ scene \in Scenes
    /\ buf = Written(scene.internal, "doc")
    /\ layout = WithInternalSubset(Len(scene.internal), "doc")
    /\ pending = <<>> /\ supplied = <<>> /\ discards = 0
    /\ step = IF scene.subset THEN "subset" ELSE "ready"
    /\ read = NothingRead

Extended(b, external) ==
    b \o (IF b = <<>> THEN <<>> ELSE <<Token(" ", "doc", Len(b), 0)>>) \o Written(external, "ext")

AddExternalSubset ==
    /\ step = "subset"
    /\ buf' = Extended(buf, scene.external)
    /\ layout' = WithExternalSubset(layout, Span(Len(buf') - Len(scene.external), Len(buf')), "ext")
    /\ step' = "ready"
    /\ UNCHANGED <<scene, pending, read, supplied, discards>>

(* A faulty form goes on with what the last pass declared; a pass takes    *)
(* nothing over from it but the buffer and the layout.                     *)
Resumed(last) == Declarations([Start(buf, layout, Nothing) EXCEPT !.dtd = last.dtd])
Pass(last) == ParseDtd(buf, layout, Nothing)

Advance ==
    /\ step = "ready"
    /\ \E s \in {Pass(read)} :
          /\ buf' = s.buf /\ layout' = s.layout
          /\ read' = [dtd |-> s.dtd, by |-> s.by, lists |-> s.lists]
          /\ step' = CASE s.stop = "done" -> "complete" [] s.stop = "pause" -> "asking" [] s.stop = "error" -> "failed"
          /\ pending' = IF s.stop = "pause" THEN s.ask ELSE pending
    /\ UNCHANGED <<scene, supplied, discards>>

(* The text is fetched by the system identifier and the resource that      *)
(* declared it, and spliced over the reference.                            *)
Answer == scene.world[pending.id]
Provided == Spliced(buf, layout, pending.at, AsProvided(Answer.text, pending.inLiteral), ~pending.inLiteral,
                    "external entity", Answer.uri)
Answered == scene.resolver = "answers" /\ pending.id \in DOMAIN scene.world

ProvideParameterEntity ==
    /\ step = "asking" /\ Answered
    /\ buf' = Provided.buf /\ layout' = Provided.layout
    /\ supplied' = Append(supplied, [buf[pending.at + 1] EXCEPT !.t = pending.name])
    /\ pending' = <<>>
    /\ step' = "ready"
    /\ UNCHANGED <<scene, read, discards>>

(* The resolver declines, and the DTD with it; or fails; or there is none. *)
DeclineAndGoOn ==
    /\ step = "asking" /\ ~Answered
    /\ step' = "ready"
    /\ pending' = <<>>
    /\ UNCHANGED <<scene, buf, layout, read, supplied, discards>>

Decline ==
    /\ step = "asking" /\ ~Answered
    /\ step' = "failed"
    /\ pending' = IF scene.resolver = "answers" THEN <<>> ELSE pending
    /\ UNCHANGED <<scene, buf, layout, read, supplied, discards>>

DiscardPending ==
    /\ step = "asking" /\ discards < MaxDiscards
    /\ pending' = <<>>
    /\ discards' = discards + 1
    /\ step' = "ready"
    /\ UNCHANGED <<scene, buf, layout, read, supplied>>

ReadingNext == AddExternalSubset \/ Advance \/ ProvideParameterEntity \/ Decline \/ DiscardPending

(* Until it is over, reading always has a step to take, and the loop of    *)
(* drive_dtd takes it: weak fairness, with the guard written out.          *)
Ended == step \in {"complete", "failed"}
Driven == <>[]~Ended => []<><<ReadingNext>>_readingVars

-----------------------------------------------------------------------------
(* Whatever was spliced in, the layout says of each token where it was     *)
(* written: in which resource and how far into it, whether that is         *)
(* external text, and which entity it belongs to. Just past a text that    *)
(* was included in a literal, the code takes the position for that text's. *)
(* What counts as declared outside the document is what was written there, *)
(* and an identifier is resolved against the resource that wrote it.       *)
LayoutTracksText ==
    LET Telling == {p \in 0 .. Len(buf) - 1 : buf[p + 1].t # " "}
        dtd == read.dtd
        PastLiteral(p) == \E i \in DOMAIN layout.pieces :
            layout.pieces[i].kind = "external entity" /\ layout.pieces[i].content.to = p
    IN /\ \A p \in Telling :
             LET token == buf[p + 1]
             IN /\ IsExternal(layout, p) = (token.base # "doc")
                /\ ~PastLiteral(p) =>
                      /\ BaseAt(layout, p) = token.base
                      /\ LocationAt(layout, p) = [base |-> token.base, offset |-> token.offset]
       /\ \A x, y \in {<<EntityAt(layout, p), buf[p + 1].pe>> : p \in Telling} : x[1] = y[1] <=> x[2] = y[2]
       /\ \A x \in DOMAIN dtd.general :
             /\ x \in dtd.externalGeneral <=> read.by[x] # "doc"
             /\ dtd.general[x].kind # "internal" => dtd.general[x].base = read.by[x]
       /\ step = "complete" =>
             dtd.externalAttlist = {list[1] : list \in {l \in read.lists : l[2] # "doc"}}

(* However often the reading stopped, it comes to what one pass over the   *)
(* text with every entity at hand comes to: the same declarations, or an   *)
(* error all the same. A single pass also fails where a reference or       *)
(* #PCDATA only comes to light after an expansion, which a later pass sees *)
(* in plain text.  No reference has its text supplied twice.               *)
AtHand ==
    LET internal == Written(scene.internal, "doc")
        plain == WithInternalSubset(Len(internal), "doc")
        whole == IF scene.subset THEN Extended(internal, scene.external) ELSE internal
        subset == Span(Len(whole) - Len(scene.external), Len(whole))
    IN ParseDtd(whole, IF scene.subset THEN WithExternalSubset(plain, subset, "ext") ELSE plain,
                IF scene.resolver = "answers" THEN scene.world ELSE Nothing)

AgreesWith(whole) ==
    IF step = "complete"
    THEN \/ whole.stop = "done" /\ whole.dtd = read.dtd
         \/ whole.stop = "error" /\ whole.odd \in DOMAIN PeName \union {"#PCDATA"}
    ELSE whole.stop # "done"

RestartsAgree ==
    /\ Ended => AgreesWith(AtHand)
    /\ \A i, j \in DOMAIN supplied : supplied[i] = supplied[j] => i = j

(* Reading ends as long as the caller answers.                             *)
ReadingEnds == <>Ended
=============================================================================
