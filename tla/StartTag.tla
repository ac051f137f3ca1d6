------------------------------ MODULE StartTag ------------------------------
(***************************************************************************)
(* What the parser (io/parse.rs) makes of a start tag: the attributes the  *)
(* DTD supplies, the namespaces declared, the names resolved in them, and  *)
(* the xml:space, xml:lang and base URI of the element.  They are kept in  *)
(* one stack of elements and one of namespace bindings.  What it reports   *)
(* is what StrictXml checks, hence the same names.                         *)
(*                                                                         *)
(* The characters of a tag and the references in it are EntityReader's.    *)
(***************************************************************************)
EXTENDS StrictXml

CONSTANTS
    Tags,            \* the start tags a document may have
    Values,          \* attribute values, the namespace names among them
    Empty,           \* the empty value
    Collapsed,       \* normalize_tokenized, a function of values
    Attlist,         \* the attributes the DTD declares, a function of element names
    Outside,         \* the elements whose attributes are declared outside the document
    Standalone,      \* the document says that it stands alone
    Extensions,      \* those of "xml:id" and "xml:base" that apply
    DocumentBase,    \* the base URI of the document, as BaseURI below
    Absolute,        \* the values that are absolute URIs
    NoUri,           \* the values that are no URI references
    MaxElementDepth, \* limits.document
    MaxAttributes

ASSUME TagAssumption ==
    /\ Names \union {Empty} \subseteq Values /\ None \notin Values /\ Empty \notin Names
    /\ Collapsed \in [Values -> Values]
    /\ DocumentBase \in Seq(Values)
    /\ MaxElementDepth \in Nat /\ MaxAttributes \in Nat

(* A name is a prefix and a local part; that of a declaration is a prefix. *)
LocalSet == Locals \union PrefixNames

WrittenAttribute == [prefix : PrefixSet, local : LocalSet, value : Values]

AttributeDefinition ==
    [prefix : PrefixSet, local : LocalSet, default : Values \union {None}, tokenized : BOOLEAN]

(* A tag is as it is written; its names, and those of the DTD, are any.    *)
ASSUME TagsAssumption ==
    /\ \A tag \in Tags :
          /\ tag.prefix \in PrefixSet /\ tag.local \in Locals
          /\ tag.attrs \in Seq(WrittenAttribute) /\ tag.empty \in BOOLEAN
    /\ \A name \in DOMAIN Attlist : Attlist[name] \in Seq(AttributeDefinition)

VARIABLES
    stage,    \* "Prolog", "Content" or "Epilog"
    scope,    \* the namespace bindings, the innermost last
    elements, \* the open elements
    ended,    \* end_pending, an empty element is to be ended
    failed,   \* an error was returned: the reader is done
    event,    \* what was reported last, and the context reported with it
    tags      \* history: the start tags of the elements around that event

tagVars == <<stage, scope, elements, ended, failed, event, tags>>

(* A base URI is the references it is resolved from, <<>> where none is known. *)
ResolveBase(base, reference) == IF reference \in Absolute THEN <<reference>> ELSE Append(base, reference)

OuterContext ==
    [space |-> "default", lang |-> None, base |-> IF "xml:base" \in Extensions THEN DocumentBase ELSE <<>>]

Context == IF elements = <<>> THEN OuterContext ELSE Last(elements).context

NoTag == [prefix |-> None, local |-> Empty, ns |-> None, attrs |-> <<>>]

Reported(kind, tag, context) ==
    [kind |-> kind, prefix |-> tag.prefix, local |-> tag.local, ns |-> tag.ns, attrs |-> tag.attrs,
     context |-> context]

-----------------------------------------------------------------------------
(* apply_dtd_attributes: what is written is normalized by its declared     *)
(* type, and what is not written is supplied, in the order of declaration. *)
Definitions(tag) ==
    IF <<tag.prefix, tag.local>> \in DOMAIN Attlist THEN Attlist[<<tag.prefix, tag.local>>] ELSE <<>>

SameName(a, b) == a.prefix = b.prefix /\ a.local = b.local

Typed(tag, a) == \E d \in ToSet(Definitions(tag)) : SameName(d, a) /\ d.tokenized

(* The members of seq that are in chosen. *)
Only(seq, chosen) == FoldLeft(LAMBDA only, x : IF x \in chosen THEN Append(only, x) ELSE only, <<>>, seq)

Written(tag) ==
    [i \in DOMAIN tag.attrs |-> LET a == tag.attrs[i] IN
        [prefix |-> a.prefix, local |-> a.local, value |-> IF Typed(tag, a) THEN Collapsed[a.value] ELSE a.value]]

(* A faulty form: the definitions are all supplied, written or not. *)
AllSupplied(tag) == Only(Definitions(tag), {d \in ToSet(Definitions(tag)) : d.default # None})

Supplied(tag) ==
    Only(Definitions(tag),
         {d \in ToSet(Definitions(tag)) : d.default # None /\ ~\E a \in ToSet(tag.attrs) : SameName(a, d)})

Default(d) ==
    [prefix |-> d.prefix, local |-> d.local, value |-> IF d.tokenized THEN Collapsed[d.default] ELSE d.default]

Attributes(tag) == Written(tag) \o [i \in DOMAIN Supplied(tag) |-> Default(Supplied(tag)[i])]

-----------------------------------------------------------------------------
(* is_declaration: the attribute xmlns, or one with that prefix. *)
DeclaresNamespace(a) == IF a.prefix = None THEN a.local = Xmlns ELSE a.prefix = Xmlns

(* declare_namespaces: the empty value is no namespace. *)
Declarations(tag) ==
    LET declaring == Only(Attributes(tag), {a \in ToSet(Attributes(tag)) : DeclaresNamespace(a)})
    IN [i \in DOMAIN declaring |-> LET a == declaring[i] IN
           [prefix |-> IF a.prefix = None THEN None ELSE a.local,
            ns |-> IF a.value = Empty THEN None ELSE a.value]]

MayNotDeclare(d) ==
    IF d.prefix = None THEN d.ns \in {XmlNs, XmlnsNs}
    ELSE \/ d.prefix = Xmlns \/ d.ns = None
         \/ d.prefix = Xml /\ d.ns # XmlNs
         \/ d.prefix # Xml /\ d.ns = XmlNs
         \/ d.ns = XmlnsNs

(* resolve: the binding of the prefix that is found first from the top. *)
ResolvePrefix(prefix, bound) ==
    LET i == SelectLastInSeq(bound, LAMBDA b : b.prefix = prefix)
    IN IF i = 0 THEN None ELSE bound[i].ns

(* A faulty form: the default namespace applies to attributes as well. *)
DefaultApplies(a, bound) == IF DeclaresNamespace(a) THEN XmlnsNs ELSE ResolvePrefix(a.prefix, bound)

(* resolve_attribute_names: the default namespace does not apply to them. *)
AttributeNs(a, bound) ==
    IF DeclaresNamespace(a) THEN XmlnsNs
    ELSE IF a.prefix = None THEN None ELSE ResolvePrefix(a.prefix, bound)

Resolved(attrs, bound) ==
    [i \in DOMAIN attrs |-> [prefix |-> attrs[i].prefix, local |-> attrs[i].local, value |-> attrs[i].value,
                             ns |-> AttributeNs(attrs[i], bound)]]

Undeclared(name, ns) == name.prefix # None /\ ns = None

-----------------------------------------------------------------------------
(* The attributes the xml specifications define, and where they are given. *)
Special(local, a) == a.ns = XmlNs /\ a.local = local
FirstGiven(attrs, local) == SelectInSeq(attrs, LAMBDA a : Special(local, a))
LastGiven(attrs, local) == SelectLastInSeq(attrs, LAMBDA a : Special(local, a))

(* space_and_lang, of attributes whose names are resolved. *)
SpaceOf(attrs) == IF LastGiven(attrs, "space") = 0 THEN Context.space ELSE attrs[LastGiven(attrs, "space")].value

LangOf(attrs) ==
    LET i == LastGiven(attrs, "lang")
    IN IF i = 0 THEN Context.lang ELSE IF attrs[i].value = Empty THEN None ELSE attrs[i].value

(* element_base: the first xml:base counts. *)
BaseOf(attrs) ==
    LET i == FirstGiven(attrs, "base")
    IN IF "xml:base" \notin Extensions THEN <<>>
       ELSE IF i = 0 THEN Context.base ELSE ResolveBase(Context.base, attrs[i].value)

ContextOf(attrs) == [space |-> SpaceOf(attrs), lang |-> LangOf(attrs), base |-> BaseOf(attrs)]

(* normalize_xml_id: an ID is a token, whether a DTD says so or not. *)
NormalizedId(attrs) ==
    [i \in DOMAIN attrs |->
        IF "xml:id" \in Extensions /\ Special("id", attrs[i])
        THEN [attrs[i] EXCEPT !.value = Collapsed[@]] ELSE attrs[i]]

BadSpecial(attrs) ==
    \/ \E i \in DOMAIN attrs : Special("space", attrs[i]) /\ attrs[i].value \notin {"default", "preserve"}
    \/ "xml:base" \in Extensions /\ FirstGiven(attrs, "base") # 0 /\ attrs[FirstGiven(attrs, "base")].value \in NoUri

(* Whether the tag is an error here. *)
Refused(tag) ==
    LET attrs == Attributes(tag)
        bound == scope \o Declarations(tag)
    IN \/ stage = "Epilog" \/ Len(elements) >= MaxElementDepth \/ Len(attrs) > MaxAttributes
       \/ Standalone /\ <<tag.prefix, tag.local>> \in Outside /\ Supplied(tag) # <<>>
       \/ \E i \in DOMAIN Declarations(tag) : MayNotDeclare(Declarations(tag)[i])
       \/ Undeclared(tag, ResolvePrefix(tag.prefix, bound))
       \/ \E i \in DOMAIN attrs : Undeclared(attrs[i], AttributeNs(attrs[i], bound))
       \/ BadSpecial(Resolved(attrs, bound))

-----------------------------------------------------------------------------
Ready == ~failed /\ ~ended

(* The tags around the content of the i-th open element, 0 being outside.  *)
TagsTo(i) == SubSeq(tags, 1, i)
Around == TagsTo(Len(elements))

(* An error ends the reading: StreamSource asks for nothing more. *)
FailParsing == failed' = TRUE /\ UNCHANGED <<stage, scope, elements, ended, event, tags>>

RefuseTag(tag) == Ready /\ Refused(tag) /\ FailParsing

ReadStartTag(tag) ==
    /\ Ready /\ ~Refused(tag)
    /\ scope' = scope \o Declarations(tag)
    /\ LET attrs == Resolved(Attributes(tag), scope')
           name == [prefix |-> tag.prefix, local |-> tag.local, ns |-> ResolvePrefix(tag.prefix, scope')]
       IN /\ elements' = Append(elements, [name |-> name, mark |-> Len(scope), context |-> ContextOf(attrs)])
          /\ event' = Reported("StartElement", [prefix |-> name.prefix, local |-> name.local, ns |-> name.ns,
                                             attrs |-> NormalizedId(attrs)], ContextOf(attrs))
    /\ stage' = "Content"
    /\ ended' = tag.empty
    /\ tags' = Append(Around, tag)
    /\ UNCHANGED failed

(* A faulty form of LeaveElement: the declarations stay in scope. *)
KeepScope == elements' = Front(elements) /\ UNCHANGED scope

LeaveElement == elements' = Front(elements) /\ scope' = SubSeq(scope, 1, Last(elements).mark)

(* close: the end is reported in the context of the element it ends. *)
CloseElement ==
    /\ LeaveElement
    /\ event' = Reported("EndElement", [prefix |-> Last(elements).name.prefix, local |-> Last(elements).name.local,
                                     ns |-> Last(elements).name.ns, attrs |-> <<>>], Last(elements).context)
    /\ stage' = IF Len(elements) = 1 THEN "Epilog" ELSE stage
    /\ tags' = Around
    /\ UNCHANGED failed

EndEmptyElement == ~failed /\ ended /\ CloseElement /\ ended' = FALSE

(* The name of the tag is compared as it was written. *)
Ends(tag) == elements # <<>> /\ SameName(Last(elements).name, tag)

ReadEndTag(tag) == Ready /\ Ends(tag) /\ CloseElement /\ UNCHANGED ended

RefuseEndTag(tag) == Ready /\ ~Ends(tag) /\ FailParsing

(* interpret, of a comment, a CDATA section or an instruction. *)
ReadMarkup ==
    /\ Ready
    /\ event' = Reported("Markup", NoTag, Context)
    /\ tags' = Around
    /\ UNCHANGED <<stage, scope, elements, ended, failed>>

(* flush_text: a run of text leaves the context fields as they are. *)
ReadText ==
    /\ Ready
    /\ event' = Reported("Text", NoTag, event.context)
    /\ tags' = Around
    /\ UNCHANGED <<stage, scope, elements, ended, failed>>

TagInit ==
    /\ stage = "Prolog" /\ scope = <<[prefix |-> Xml, ns |-> XmlNs]>>
    /\ elements = <<>> /\ tags = <<>>
    /\ ended = FALSE /\ failed = FALSE
    /\ event = Reported("Nothing", NoTag, [space |-> "default", lang |-> None, base |-> <<>>])

TagNext ==
    \/ EndEmptyElement \/ ReadMarkup \/ ReadText
    \/ \E tag \in Tags : ReadStartTag(tag) \/ RefuseTag(tag) \/ ReadEndTag(tag) \/ RefuseEndTag(tag)

TagSpec == TagInit /\ [][TagNext]_tagVars

-----------------------------------------------------------------------------
(* The context of an element, from the tags around it alone, the outermost *)
(* first and its own last.                                                 *)
Declaring(around, p) == {j \in DOMAIN around : \E d \in ToSet(Declarations(around[j])) : d.prefix = p}

NamespaceIn(around, p) ==
    IF p = Xml THEN XmlNs
    ELSE IF Declaring(around, p) = {} THEN None
    ELSE ResolvePrefix(p, Declarations(around[Max(Declaring(around, p))]))

(* xml:local, as it is written. *)
Xmls(local, attrs) == {k \in DOMAIN attrs : attrs[k].prefix = Xml /\ attrs[k].local = local}
Giving(around, local) == {j \in DOMAIN around : Xmls(local, Attributes(around[j])) # {}}

(* The value the nearest tag gives it, where one does. *)
Nearest(around, local) ==
    LET attrs == Attributes(around[Max(Giving(around, local))]) IN attrs[Max(Xmls(local, attrs))].value

SpaceIn(around) == IF Giving(around, "space") = {} THEN "default" ELSE Nearest(around, "space")

LangIn(around) ==
    IF Giving(around, "lang") = {} \/ Nearest(around, "lang") = Empty THEN None ELSE Nearest(around, "lang")

BaseGiven(base, tag) ==
    LET given == Xmls("base", Attributes(tag))
    IN IF given = {} THEN base ELSE ResolveBase(base, Attributes(tag)[Min(given)].value)

BaseIn(around) ==
    IF "xml:base" \in Extensions
    THEN FoldLeft(LAMBDA base, tag : BaseGiven(base, tag), DocumentBase, around) ELSE <<>>

ContextIn(around) == [space |-> SpaceIn(around), lang |-> LangIn(around), base |-> BaseIn(around)]

(* The bindings in scope in the content of the i-th open element. *)
ScopeOf(i) == SubSeq(scope, 1, IF i = Len(elements) THEN Len(scope) ELSE elements[i + 1].mark)

(* However elements nest, redeclare and end, in each open one the          *)
(* namespaces, xml:space, xml:lang and the base URI are those the nearest  *)
(* tag says, and an event other than text is reported in the context of    *)
(* its element (io/parse/namespace.rs, and the context in io/parse.rs).    *)
ContextAsDefined ==
    ~failed =>
        /\ \A i \in 0..Len(elements), p \in PrefixSet : ResolvePrefix(p, ScopeOf(i)) = NamespaceIn(TagsTo(i), p)
        /\ \A i \in DOMAIN elements : elements[i].context = ContextIn(TagsTo(i))
        /\ event.kind \notin {"Nothing", "Text"} => event.context = ContextIn(tags)

(* "The value of xml:space in effect for the current event", and so for    *)
(* xml:lang and the base URI (xml_space, xml_lang and base_uri), at every  *)
(* event within an element.                                                *)
EventsSeeTheirContext == ~failed /\ tags # <<>> => event.context = ContextIn(tags)

(* An element has the attributes its tag writes and those the DTD declares *)
(* and it does not, normalized by type, each in the namespace in scope at  *)
(* the element itself (apply_dtd_attributes, resolve_attribute_names).     *)
AttributesAsDeclared ==
    event.kind = "StartElement" =>
        LET tag == Last(tags)
            ids(a) == "xml:id" \in Extensions /\ a.prefix = Xml /\ a.local = "id"
            value(a, v) ==
                IF ids(a) \/ \E d \in ToSet(Definitions(tag)) : SameName(a, d) /\ d.tokenized
                THEN Collapsed[v] ELSE v
            attribute(a, v) ==
                [prefix |-> a.prefix, local |-> a.local, value |-> value(a, v),
                 ns |-> IF DeclaresNamespace(a) THEN XmlnsNs
                        ELSE IF a.prefix = None THEN None ELSE NamespaceIn(tags, a.prefix)]
            written == {attribute(a, a.value) : a \in ToSet(tag.attrs)}
            declared == {attribute(d, d.default) : d \in {d \in ToSet(Definitions(tag)) : d.default # None}}
        IN /\ ToSet(event.attrs) = written \union {a \in declared : ~\E b \in written : SameName(a, b)}
           /\ Len(event.attrs) = Len(tag.attrs) + Cardinality({a \in declared : ~\E b \in written : SameName(a, b)})
=============================================================================
