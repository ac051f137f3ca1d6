---------------------------- MODULE XmlDocument -----------------------------
(***************************************************************************)
(* The rules event/strict.rs promises to enforce on a sequence of events   *)
(* (the documentation of StrictXmlConstraints), stated with a namespace    *)
(* environment for every open element instead of a stack of bindings.  An  *)
(* event is accepted exactly when the rules allow it.                      *)
(***************************************************************************)
EXTENDS Naturals, Sequences

CONSTANTS PrefixNames, None, Xml, XmlNs, Events, MayDeclare(_)

VARIABLES
    place,    \* "Outside" a document, or its "Prolog", "Content" or "Epilog"
    doctype,  \* the document has a document type declaration
    path,     \* the open elements, each with the namespaces in scope in it
    last      \* the verdict on the event last checked in this run, or "none"

vars == <<place, doctype, path, last>>

(* The prefix xml needs no declaration. *)
NoBindings == [p \in PrefixNames \union {None} |-> IF p = Xml THEN XmlNs ELSE None]

Scope == IF path = <<>> THEN NoBindings ELSE path[Len(path)].env

(* An element's declarations are in scope in its own name and attributes. *)
Within(scope, decls) ==
    [p \in DOMAIN scope |->
        IF \E i \in DOMAIN decls : decls[i].prefix = p
        THEN decls[CHOOSE i \in DOMAIN decls : decls[i].prefix = p].ns ELSE scope[p]]

(* A name is in the namespace its prefix is bound to, and a prefix has one. *)
NameAllowed(name, scope) ==
    /\ name.prefix # None => scope[name.prefix] # None
    /\ name.ns = scope[name.prefix]

(* The default namespace does not apply to attributes. *)
AttributeAllowed(name, scope) ==
    IF name.prefix = None THEN name.ns = None ELSE NameAllowed(name, scope)

Distinct(seq, Key(_)) ==
    \A i, j \in DOMAIN seq : i # j => Key(seq[i]) # Key(seq[j])

StartAllowed(e) ==
    /\ Distinct(e.decls, LAMBDA d : d.prefix)
    /\ Distinct(e.attrs, LAMBDA a : <<a.ns, a.local>>)
    /\ \A i \in DOMAIN e.decls : MayDeclare(e.decls[i])
    /\ LET scope == Within(Scope, e.decls)
       IN /\ NameAllowed(e, scope)
          /\ \A i \in DOMAIN e.attrs : AttributeAllowed(e.attrs[i], scope)

EndAllowed(e) ==
    /\ path # <<>>
    /\ LET element == path[Len(path)]
       IN <<element.prefix, element.local, element.ns>> = <<e.prefix, e.local, e.ns>>

(* An event is accepted exactly when the rules allow it here. *)
Allowed(e) ==
    /\ e.good
    /\ CASE e.kind = "StartDocument" -> place = "Outside"
         [] e.kind = "StartElement" -> place \in {"Prolog", "Content"} /\ StartAllowed(e)
         [] e.kind = "EndElement" -> place = "Content" /\ EndAllowed(e)
         [] e.kind = "Characters" -> place # "Outside" /\ (place = "Content" \/ e.blank)
         [] e.kind = "Cdata" -> place = "Content"
         [] e.kind \in {"Comment", "ProcessingInstruction"} -> place # "Outside"
         [] e.kind = "Doctype" -> place = "Prolog" /\ ~doctype
         [] e.kind = "EndDocument" -> place = "Epilog"

-----------------------------------------------------------------------------
Init ==
    /\ place = "Outside" /\ path = <<>> /\ doctype = FALSE
    /\ last = "none"

Start(e) ==
    /\ e.kind = "StartElement"
    /\ place' = "Content"
    /\ path' = Append(path, [prefix |-> e.prefix, local |-> e.local, ns |-> e.ns,
                             env |-> Within(Scope, e.decls)])
    /\ UNCHANGED doctype

End(e) ==
    /\ e.kind = "EndElement"
    /\ path' = SubSeq(path, 1, Len(path) - 1)
    /\ place' = IF Len(path) = 1 THEN "Epilog" ELSE "Content"
    /\ UNCHANGED doctype

StartDocument(e) ==
    /\ e.kind = "StartDocument"
    /\ place' = "Prolog" /\ path' = <<>> /\ doctype' = FALSE

EndDocument(e) ==
    /\ e.kind = "EndDocument"
    /\ place' = "Outside"
    /\ UNCHANGED <<path, doctype>>

Other(e) ==
    /\ e.kind \in {"Characters", "Cdata", "Comment", "ProcessingInstruction", "Doctype"}
    /\ doctype' = (doctype \/ e.kind = "Doctype")
    /\ UNCHANGED <<place, path>>

Accept(e) ==
    /\ Allowed(e)
    /\ last' = "accepted"
    /\ Start(e) \/ End(e) \/ StartDocument(e) \/ EndDocument(e) \/ Other(e)

(* The document is refused; what is left of it does not matter then. *)
Refuse(e) == ~Allowed(e) /\ last' = "refused"

(* The run is over, however it ended. *)
Finish == last' = "none" /\ place' = "Outside"

Next == Finish \/ \E e \in Events : last # "refused" /\ (Accept(e) \/ Refuse(e))

Spec == Init /\ [][Next]_vars
=============================================================================
