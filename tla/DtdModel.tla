------------------------------ MODULE DtdModel ------------------------------
(* The declarations of a DTD and how they are recorded (dtd/model.rs):     *)
(* a map per kind of declaration, and which general entities and attribute *)
(* lists were declared in the external part.                               *)
EXTENDS Naturals, Sequences

Put(f, x, y) == [z \in DOMAIN f \union {x} |-> IF z = x THEN y ELSE f[z]]
Nothing == [x \in {} |-> x]

EmptyDtd ==
    [general |-> Nothing, parameter |-> Nothing, elements |-> Nothing, attlists |-> Nothing,
     notations |-> Nothing, externalGeneral |-> {}, externalAttlist |-> {}]

(* Entities: internal ones have a value; external ones what is needed to   *)
(* fetch them, and unparsed ones a notation besides.                       *)
InternalEntity(value) == [kind |-> "internal", value |-> value]
ExternalEntity(id, base) == [kind |-> "external", system |-> id.system, base |-> base]
UnparsedEntity(id, base, notation) ==
    [kind |-> "unparsed", system |-> id.system, base |-> base, notation |-> notation]

(* Attribute types and default declarations.                               *)
AttType(type, names) == [type |-> type, names |-> names]
IsTokenized(t) == t.type # "CDATA"
AttDef(name, type, default) == [name |-> name, type |-> type, default |-> default]
Default(kind, value) == [kind |-> kind, value |-> value]
HasValue(default) == default.kind \in {"fixed", "default"}

(* Content: a particle is a name or a choice or sequence of particles,     *)
(* with how often it may occur.                                            *)
Particle(kind, name, parts, occurs) == [kind |-> kind, name |-> name, parts |-> parts, occurs |-> occurs]
Content(kind, names, particle) == [kind |-> kind, names |-> names, particle |-> particle]
NoParticle == Particle("none", "", <<>>, "once")

HasElement(dtd, name) == name \in DOMAIN dtd.elements
ContentSpec(dtd, name) == IF HasElement(dtd, name) THEN dtd.elements[name] ELSE Content("undeclared", <<>>, NoParticle)
Attlist(dtd, element) == IF element \in DOMAIN dtd.attlists THEN dtd.attlists[element] ELSE <<>>
IsUnparsed(dtd, name) == name \in DOMAIN dtd.general /\ dtd.general[name].kind = "unparsed"

(* The first declaration of a name is the one that counts, of elements and *)
(* notations as well, where the caller takes a second one for an error.    *)
FirstOf(map, name, declared) == IF name \in DOMAIN map THEN map ELSE Put(map, name, declared)
LastOf(map, name, declared) == Put(map, name, declared)

DeclareElement(dtd, name, spec) == [dtd EXCEPT !.elements = FirstOf(@, name, spec)]
DeclareGeneralEntity(dtd, name, entity) == [dtd EXCEPT !.general = FirstOf(@, name, entity)]
DeclareParameterEntity(dtd, name, entity) == [dtd EXCEPT !.parameter = FirstOf(@, name, entity)]
DeclareNotation(dtd, name, id) == [dtd EXCEPT !.notations = FirstOf(@, name, id)]

(* Attribute lists of one element add up, without what is defined already. *)
DeclareAttributes(dtd, element, defs) ==
    LET Defined(list, name) == \E i \in DOMAIN list : list[i].name = name
        merged[i \in 0 .. Len(defs)] ==
            IF i = 0 THEN Attlist(dtd, element)
            ELSE IF Defined(merged[i - 1], defs[i].name) THEN merged[i - 1]
            ELSE Append(merged[i - 1], defs[i])
    IN [dtd EXCEPT !.attlists = Put(@, element, merged[Len(defs)])]

MarkGeneralEntityExternal(dtd, name) == [dtd EXCEPT !.externalGeneral = @ \union {name}]
MarkAttlistExternal(dtd, element) == [dtd EXCEPT !.externalAttlist = @ \union {element}]
=============================================================================
