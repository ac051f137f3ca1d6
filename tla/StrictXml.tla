----------------------------- MODULE StrictXml ------------------------------
(***************************************************************************)
(* StrictXmlConstraints of event/strict.rs: a consumer that checks the     *)
(* structure and the namespaces of the events it is given, with one stack  *)
(* of open elements and one of namespace bindings, and is used for one     *)
(* document after another.                                                 *)
(*                                                                         *)
(* What depends on the characters of one event alone (is this a Name, a    *)
(* Char, a public identifier) is the field good of the event.              *)
(***************************************************************************)
EXTENDS Naturals, Sequences, SequencesExt

CONSTANTS
    PrefixNames,   \* the prefixes of names, Xml and Xmlns among them
    None,       \* no prefix, no namespace
    Xml, Xmlns, \* the reserved prefixes
    Names,      \* namespace names, XmlNs and XmlnsNs among them
    Locals,     \* the local parts of names
    XmlNs, XmlnsNs,
    Events,     \* the events a producer may report
    MaxOpen     \* bound: how deep elements nest

ASSUME StrictAssumption ==
    /\ None \notin PrefixNames \union Names
    /\ {Xml, Xmlns} \subseteq PrefixNames /\ Xml # Xmlns
    /\ {XmlNs, XmlnsNs} \subseteq Names /\ XmlNs # XmlnsNs
    /\ MaxOpen \in Nat

PrefixSet == PrefixNames \union {None}
NameSet == Names \union {None}
Binding == [prefix : PrefixSet, ns : NameSet]
ExpandedName == [prefix : PrefixSet, local : Locals, ns : NameSet]
Kinds ==
    { "StartDocument", "EndDocument", "Doctype", "StartElement", "EndElement",
      "Characters", "Cdata", "Comment", "ProcessingInstruction" }

(* What an event carries, by its kind. *)
ASSUME EventsAssumption ==
    \A e \in Events :
        /\ e.kind \in Kinds /\ e.good \in BOOLEAN
        /\ e.kind = "Characters" => e.blank \in BOOLEAN
        /\ e.kind \in {"StartElement", "EndElement"} =>
              e.prefix \in PrefixSet /\ e.local \in Locals /\ e.ns \in NameSet
        /\ e.kind = "StartElement" =>
              e.decls \in Seq(Binding) /\ e.attrs \in Seq(ExpandedName)

VARIABLES
    phase,       \* "Outside", "Prolog", "Content" or "Epilog"
    seenDoctype,
    open,        \* the open elements, each with the bindings there were before it
    bindings,    \* the namespace bindings in scope, the innermost last
    last         \* history: the verdict on the event last checked in this run

vars == <<phase, seenDoctype, open, bindings, last>>

Init ==
    /\ phase = "Outside"
    /\ seenDoctype = FALSE
    /\ open = <<>> /\ bindings = <<>>
    /\ last = "none"

-----------------------------------------------------------------------------
(* A declaration that binds a prefix, or the default namespace, to a name. *)
(* An empty value is None.                                                 *)
BadDeclaration(d) ==
    \/ d.prefix = None /\ d.ns \in {XmlNs, XmlnsNs}
    \/ d.prefix # None /\ d.ns = None
    \/ d.prefix = Xmlns
    \/ d.prefix = Xml /\ d.ns # XmlNs
    \/ d.prefix \notin {Xml, None} /\ d.ns \in {XmlNs, XmlnsNs}

(* A faulty form of Bound: the outermost binding counts. *)
OutermostBound(prefix, scope) ==
    LET i == SelectInSeq(scope, LAMBDA b : b.prefix = prefix)
    IN IF prefix = Xml THEN XmlNs ELSE IF i = 0 THEN None ELSE scope[i].ns

(* bound, for scope a sequence of bindings: the innermost one counts. *)
Bound(prefix, scope) ==
    LET i == SelectLastInSeq(scope, LAMBDA b : b.prefix = prefix)
    IN IF prefix = Xml THEN XmlNs ELSE IF i = 0 THEN None ELSE scope[i].ns

Unbound(prefix, scope) == prefix # None /\ Bound(prefix, scope) = None

ElementNamed(e, scope) == ~Unbound(e.prefix, scope) /\ e.ns = Bound(e.prefix, scope)

AttributeNamed(a, scope) ==
    IF a.prefix = None THEN a.ns = None
    ELSE ~Unbound(a.prefix, scope) /\ a.ns = Bound(a.prefix, scope)

(* No attribute is given twice; a declaration is an attribute as well. *)
Repeats(seq, Key(_)) ==
    \E i \in DOMAIN seq, j \in DOMAIN seq : i < j /\ Key(seq[i]) = Key(seq[j])

Lexical(e) ==
    e.kind = "StartElement" =>
        /\ ~Repeats(e.decls, LAMBDA d : d.prefix)
        /\ ~Repeats(e.attrs, LAMBDA a : <<a.ns, a.local>>)

-----------------------------------------------------------------------------
(* start_element: the declarations are bound one by one up to a bad one,   *)
(* and stay bound when the element is refused.                             *)
FirstBad(decls) == SelectInSeq(decls, BadDeclaration)
Declared(decls) ==
    IF FirstBad(decls) = 0 THEN decls ELSE SubSeq(decls, 1, FirstBad(decls) - 1)

OpensElement(e) ==
    /\ phase \in {"Prolog", "Content"}
    /\ FirstBad(e.decls) = 0
    /\ LET scope == bindings \o e.decls
       IN /\ ElementNamed(e, scope)
          /\ \A i \in DOMAIN e.attrs : AttributeNamed(e.attrs[i], scope)

ClosesElement(e) ==
    /\ open # <<>>
    /\ <<Last(open).prefix, Last(open).local>> = <<e.prefix, e.local>>
    /\ Last(open).ns = e.ns

(* check: whether an event is accepted where the document has got to. *)
Accepts(e) ==
    /\ phase = "Outside" <=> e.kind = "StartDocument"
    /\ Lexical(e) /\ e.good
    /\ CASE e.kind = "StartElement" -> OpensElement(e)
         [] e.kind = "EndElement" -> ClosesElement(e)
         [] e.kind = "Characters" -> phase = "Content" \/ e.blank
         [] e.kind = "Cdata" -> phase = "Content"
         [] e.kind = "Doctype" -> phase = "Prolog" /\ ~seenDoctype
         [] e.kind = "EndDocument" -> open = <<>> /\ phase # "Prolog"
         [] e.kind \in {"Comment", "ProcessingInstruction", "StartDocument"} -> TRUE

StartElement(e) ==
    /\ e.kind = "StartElement" /\ Len(open) < MaxOpen
    /\ phase' = "Content"
    /\ bindings' = bindings \o e.decls
    /\ open' = Append(open, [prefix |-> e.prefix, local |-> e.local, ns |-> e.ns,
                             mark |-> Len(bindings)])
    /\ UNCHANGED seenDoctype

LeaveScope == open' = Front(open) /\ bindings' = SubSeq(bindings, 1, Last(open).mark)

EndElement(e) ==
    /\ e.kind = "EndElement"
    /\ LeaveScope
    /\ phase' = IF Len(open) = 1 THEN "Epilog" ELSE phase
    /\ UNCHANGED seenDoctype

Doctype(e) ==
    /\ e.kind = "Doctype"
    /\ seenDoctype' = TRUE
    /\ UNCHANGED <<phase, open, bindings>>

(* A faulty form: the bindings of the document before are kept. *)
RestartDocument ==
    phase' = "Prolog" /\ seenDoctype' = FALSE /\ open' = <<>> /\ UNCHANGED bindings

ClearDocument ==
    phase' = "Prolog" /\ seenDoctype' = FALSE /\ open' = <<>> /\ bindings' = <<>>

StartDocument(e) == e.kind = "StartDocument" /\ ClearDocument

EndDocument(e) ==
    /\ e.kind = "EndDocument"
    /\ phase' = "Outside"
    /\ UNCHANGED <<seenDoctype, open, bindings>>

(* The other kinds are checked and leave nothing behind. *)
Passing(e) ==
    /\ e.kind \in {"Characters", "Cdata", "Comment", "ProcessingInstruction"}
    /\ UNCHANGED <<phase, seenDoctype, open, bindings>>

(* What a refused event leaves behind: nothing, or the declarations bound  *)
(* before the one at fault.  An attribute value that is not good can stop  *)
(* the binding anywhere.                                                   *)
HalfDone(e) ==
    LET reached == e.kind = "StartElement" /\ phase \in {"Prolog", "Content"} /\ Lexical(e)
        bound == Len(Declared(e.decls))
    IN /\ \/ ~(reached /\ e.good) /\ UNCHANGED <<phase, bindings>>
          \/ /\ reached
             /\ phase' = "Content"
             /\ \E n \in IF e.good THEN {bound} ELSE 0..bound :
                   bindings' = bindings \o SubSeq(e.decls, 1, n)
       /\ seenDoctype' = (seenDoctype \/ (e.kind = "Doctype" /\ phase = "Prolog"))
       /\ UNCHANGED open

Accept(e) ==
    /\ Accepts(e)
    /\ last' = "accepted"
    /\ \/ StartElement(e) \/ EndElement(e) \/ Passing(e) \/ Doctype(e)
       \/ StartDocument(e) \/ EndDocument(e)

Refuse(e) ==
    /\ ~Accepts(e)
    /\ last' = "refused"
    /\ HalfDone(e)

(* consume; the producer stops when an event is refused. *)
Consume(e) == last # "refused" /\ (Accept(e) \/ Refuse(e))

(* finish comes once in a run, after any of its events. *)
Finish ==
    /\ last # "none"
    /\ last' = "none" /\ phase' = "Outside"
    /\ UNCHANGED <<seenDoctype, open, bindings>>

Next == Finish \/ \E e \in Events : Consume(e)

Spec == Init /\ [][Next]_vars

-----------------------------------------------------------------------------
(* The invariant: the stacks nest, and say where the document has got to.  *)
OpenElement == [prefix : PrefixSet, local : Locals, ns : NameSet, mark : Nat]

(* The type of the state of StrictXmlConstraints. *)
TypeOK ==
    /\ phase \in {"Outside", "Prolog", "Content", "Epilog"}
    /\ seenDoctype \in BOOLEAN
    /\ open \in Seq(OpenElement)
    /\ bindings \in Seq(Binding)
    /\ last \in {"none", "accepted", "refused"}

(* An inner element was opened with the bindings of the outer ones there. *)
MarksNest ==
    \A i \in DOMAIN open :
        /\ open[i].mark <= Len(bindings)
        /\ \A j \in DOMAIN open : i <= j => open[i].mark <= open[j].mark

(* Until an event is refused, the content is where an element is open, and *)
(* nothing is bound before it.                                             *)
PlaceFits ==
    last # "refused" /\ phase # "Outside" =>
        /\ phase = "Content" <=> open # <<>>
        /\ phase = "Prolog" => bindings = <<>>

IInv == TypeOK /\ MarksNest /\ PlaceFits

-----------------------------------------------------------------------------
(* The namespaces in scope in the i-th open element. *)
Reach(i) == IF i = Len(open) THEN Len(bindings) ELSE open[i + 1].mark
Env(i) == [p \in PrefixSet |-> Bound(p, SubSeq(bindings, 1, Reach(i)))]

(* The open elements, each with the namespaces in scope in it. *)
Path ==
    [i \in DOMAIN open |->
        [prefix |-> open[i].prefix, local |-> open[i].local, ns |-> open[i].ns, env |-> Env(i)]]

MayDeclare(d) == ~BadDeclaration(d)

Rules == INSTANCE XmlDocument WITH place <- phase, doctype <- seenDoctype, path <- Path

(* What is kept of a document is what the rules need to know of it,        *)
(* whatever became of the documents before: above all, the namespaces in   *)
(* scope in every open element (event/strict.rs, bindings).                *)
KeepsTheContext == Rules!Spec

(* An event is accepted exactly when the rules of XML and its namespaces   *)
(* allow it in that context (event/strict.rs, check).                      *)
EnforcesTheRules ==
    last # "refused" => \A e \in Events : Accepts(e) <=> Rules!Allowed(e)
=============================================================================
