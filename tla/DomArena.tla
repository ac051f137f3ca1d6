------------------------------ MODULE DomArena ------------------------------
(* The arena a Document keeps its nodes in (dom/document.rs, dom/node.rs), *)
(* as a sequence of slots: node 1 is the document node, a node is an index *)
(* of the sequence, and None is a link to no node.  An operation takes the *)
(* slots and returns them as they are after it, with the error code or the *)
(* node it returns.  Names are [prefix, ns, local] with "" for an absent   *)
(* prefix or namespace; text is a sequence of pieces.                      *)
EXTENDS Naturals, Sequences

CONSTANTS MaxNodes,   \* what a document holds: u32::MAX + 1 nodes in the code
          BadNames    \* local parts that are not XML names

ASSUME CapacityAssumption == MaxNodes \in Nat \ {0}

None == 0
DocNode == 1
Foreign == MaxNodes + 1  \* a handle made by another document

Kinds == {"document", "doctype", "fragment", "element", "attribute", "text", "cdata", "comment", "pi"}
Containers == {"document", "fragment", "element"}
NoName == [prefix |-> "", ns |-> "", local |-> ""]

Slot(kind, name, text) ==
    [kind |-> kind, name |-> name, text |-> text, attrs |-> <<>>, owner |-> None, isId |-> FALSE,
     base |-> "", parent |-> None, first |-> None, last |-> None, prev |-> None, next |-> None]

EmptyDocument == <<Slot("document", NoName, <<>>)>>

NodesOf(t) == 1 .. Len(t)
Owns(t, id) == id \in NodesOf(t)
IsContainer(t, id) == t[id].kind \in Containers
CanBeChild(t, id) == t[id].kind \notin {"document", "attribute"}

Ok(t, id) == [nodes |-> t, err |-> "ok", id |-> id]
Fail(t, code) == [nodes |-> t, err |-> code, id |-> None]

(* What follows when it succeeds, in the slots it leaves. *)
Then(done, Op(_, _)) == IF done.err = "ok" THEN Op(done.nodes, done.id) ELSE done

Push(t, slot) ==
    IF Len(t) < MaxNodes THEN Ok(Append(t, slot), Len(t) + 1) ELSE Fail(t, "NOT_SUPPORTED_ERR")

(***************************************************************************)
(* Navigation.                                                             *)
(***************************************************************************)
ChildSeq(t, id) ==
    LET child[i \in 1 .. Len(t)] ==
            IF i = 1 THEN t[id].first
            ELSE LET before == child[i - 1] IN IF before = None THEN None ELSE t[before].next
    IN SelectSeq([i \in 1 .. Len(t) |-> child[i]], LAMBDA c : c # None)

ChildOfKind(t, kind) ==
    LET found == SelectSeq(ChildSeq(t, DocNode), LAMBDA c : t[c].kind = kind)
    IN IF found = <<>> THEN None ELSE found[1]
DocumentElement(t) == ChildOfKind(t, "element")
Doctype(t) == ChildOfKind(t, "doctype")

(* The node and those above it, along the parent links. *)
SelfAndAbove(t, id) ==
    LET up[i \in 1 .. Len(t)] ==
            IF i = 1 THEN id
            ELSE LET below == up[i - 1] IN IF below = None THEN None ELSE t[below].parent
    IN SelectSeq([i \in 1 .. Len(t) |-> up[i]], LAMBDA n : n # None)

IsAncestor(t, ancestor, id) == \E i \in DOMAIN SelfAndAbove(t, id) : SelfAndAbove(t, id)[i] = ancestor

(***************************************************************************)
(* Linking.                                                                *)
(***************************************************************************)
DetachKeepsLast(t, id) ==
    LET parent == t[id].parent
        before == t[id].prev
        after == t[id].next
    IN [n \in NodesOf(t) |->
          [t[n] EXCEPT
             !.parent = IF n = id THEN None ELSE @,
             !.prev = IF n = id THEN None ELSE IF n = after THEN before ELSE @,
             !.next = IF n = id THEN None ELSE IF n = before THEN after ELSE @,
             !.first = IF before = None /\ n = parent THEN after ELSE @]]

Detach(t, id) ==
    LET parent == t[id].parent
        before == t[id].prev
        after == t[id].next
    IN [n \in NodesOf(t) |->
          [t[n] EXCEPT
             !.parent = IF n = id THEN None ELSE @,
             !.prev = IF n = id THEN None ELSE IF n = after THEN before ELSE @,
             !.next = IF n = id THEN None ELSE IF n = before THEN after ELSE @,
             !.first = IF before = None /\ n = parent THEN after ELSE @,
             !.last = IF after = None /\ n = parent THEN before ELSE @]]

LinkLast(t, parent, child) ==
    LET before == t[parent].last
    IN [n \in NodesOf(t) |->
          [t[n] EXCEPT
             !.parent = IF n = child THEN parent ELSE @,
             !.prev = IF n = child THEN before ELSE @,
             !.next = IF n = before THEN child ELSE IF n = child THEN None ELSE @,
             !.first = IF before = None /\ n = parent THEN child ELSE @,
             !.last = IF n = parent THEN child ELSE @]]

LinkBefore(t, parent, child, reference) ==
    LET before == t[reference].prev
    IN [n \in NodesOf(t) |->
          [t[n] EXCEPT
             !.parent = IF n = child THEN parent ELSE @,
             !.prev = IF n = reference THEN child ELSE IF n = child THEN before ELSE @,
             !.next = IF n = before THEN child ELSE IF n = child THEN reference ELSE @,
             !.first = IF before = None /\ n = parent THEN child ELSE @]]

Place(t, parent, child, reference) ==
    IF reference = None THEN LinkLast(t, parent, child) ELSE LinkBefore(t, parent, child, reference)

(***************************************************************************)
(* What may be put where.                                                  *)
(***************************************************************************)
DocumentChildError(kind, hasElement, hasDoctype) ==
    \/ kind \in {"text", "cdata"}
    \/ kind = "element" /\ hasElement
    \/ kind = "doctype" /\ hasDoctype

CheckChildOfDocument(t, child) ==
    ~DocumentChildError(t[child].kind, DocumentElement(t) \notin {None, child}, Doctype(t) \notin {None, child})

(* A fragment is checked as a whole: each child against the ones before. *)
CheckFragmentIntoDocument(t, fragment) ==
    LET kids == ChildSeq(t, fragment)
        Before(i, kind) == \E j \in 1 .. i - 1 : t[kids[j]].kind = kind
    IN \A i \in DOMAIN kids :
          ~DocumentChildError(t[kids[i]].kind, DocumentElement(t) # None \/ Before(i, "element"),
                              Doctype(t) # None \/ Before(i, "doctype"))

CheckInsertionShallow(t, parent, child, reference) ==
    CASE ~(Owns(t, parent) /\ Owns(t, child) /\ (reference # None => Owns(t, reference)))
                -> "WRONG_DOCUMENT_ERR"
      [] OTHER ->
         CASE ~IsContainer(t, parent) \/ ~CanBeChild(t, child) \/ child = parent -> "HIERARCHY_REQUEST_ERR"
           [] reference # None /\ t[reference].parent # parent -> "NOT_FOUND_ERR"
           [] t[parent].kind = "document" /\ ~CheckChildOfDocument(t, child) -> "HIERARCHY_REQUEST_ERR"
           [] OTHER -> "ok"

CheckInsertion(t, parent, child, reference) ==
    CASE ~(Owns(t, parent) /\ Owns(t, child) /\ (reference # None => Owns(t, reference)))
                -> "WRONG_DOCUMENT_ERR"
      [] OTHER ->
         CASE ~IsContainer(t, parent) -> "HIERARCHY_REQUEST_ERR"
           [] ~CanBeChild(t, child) -> "HIERARCHY_REQUEST_ERR"
           [] child = parent \/ (t[child].first # None /\ IsAncestor(t, child, parent))
                -> "HIERARCHY_REQUEST_ERR"
           [] reference # None /\ t[reference].parent # parent -> "NOT_FOUND_ERR"
           [] t[parent].kind = "document"
                /\ ~(IF t[child].kind = "fragment" THEN CheckFragmentIntoDocument(t, child)
                     ELSE CheckChildOfDocument(t, child))
                -> "HIERARCHY_REQUEST_ERR"
           [] OTHER -> "ok"

(***************************************************************************)
(* Mutation.                                                               *)
(***************************************************************************)
MoveAll(t, kids, parent, reference) ==
    LET moved[i \in 0 .. Len(kids)] ==
            IF i = 0 THEN t
            ELSE LET done == moved[i - 1] IN Place(Detach(done, kids[i]), parent, kids[i], reference)
    IN moved[Len(kids)]

InsertBefore(t, parent, child, reference) ==
    LET error == CheckInsertion(t, parent, child, reference)
    IN IF error # "ok" THEN Fail(t, error)
       ELSE IF t[child].kind = "fragment" THEN Ok(MoveAll(t, ChildSeq(t, child), parent, reference), child)
       ELSE Ok(Place(Detach(t, child), parent, child, reference), child)

AppendChild(t, parent, child) == InsertBefore(t, parent, child, None)

ReplaceChildEagerly(t, parent, newChild, oldChild) ==
    IF ~(Owns(t, parent) /\ Owns(t, newChild) /\ Owns(t, oldChild)) THEN Fail(t, "WRONG_DOCUMENT_ERR")
    ELSE IF t[oldChild].parent # parent THEN Fail(t, "NOT_FOUND_ERR")
    ELSE Then(InsertBefore(Detach(t, oldChild), parent, newChild, t[oldChild].next),
              LAMBDA u, id : Ok(u, oldChild))

ReplaceChild(t, parent, newChild, oldChild) ==
    IF ~(Owns(t, parent) /\ Owns(t, newChild) /\ Owns(t, oldChild)) THEN Fail(t, "WRONG_DOCUMENT_ERR")
    ELSE IF t[oldChild].parent # parent THEN Fail(t, "NOT_FOUND_ERR")
    ELSE Then(InsertBefore(t, parent, newChild, oldChild),
              LAMBDA u, id : Ok(Detach(u, oldChild), oldChild))

RemoveChild(t, parent, child) ==
    IF ~(Owns(t, parent) /\ Owns(t, child)) THEN Fail(t, "WRONG_DOCUMENT_ERR")
    ELSE IF t[child].parent # parent THEN Fail(t, "NOT_FOUND_ERR")
    ELSE Ok(Detach(t, child), child)

AppendTextApart(t, parent, text) ==
    IF ~Owns(t, parent) THEN Fail(t, "WRONG_DOCUMENT_ERR")
    ELSE Then(Push(t, Slot("text", NoName, text)), LAMBDA u, id : AppendChild(u, parent, id))

AppendText(t, parent, text) ==
    IF ~Owns(t, parent) THEN Fail(t, "WRONG_DOCUMENT_ERR")
    ELSE LET last == t[parent].last
         IN IF last # None /\ t[last].kind = "text"
            THEN Ok([t EXCEPT ![last].text = @ \o text], last)
            ELSE Then(Push(t, Slot("text", NoName, text)), LAMBDA u, id : AppendChild(u, parent, id))

(***************************************************************************)
(* Names.                                                                  *)
(***************************************************************************)
QName(q, ns) == [prefix |-> q.prefix, ns |-> ns, local |-> q.local]
Expanded(name) == <<name.ns, name.local>>

XmlNs == "xml-ns"
XmlnsNs == "xmlns-ns"

(* An attribute's own declarations, xmlns and xmlns:p, have a namespace of *)
(* their own, which no other attribute may have.                           *)
CheckQNameNamespace(ns, q, isAttribute) ==
    LET isXmlns == q.prefix = "xmlns" \/ (q.prefix = "" /\ q.local = "xmlns")
    IN CASE q.local \in BadNames -> "INVALID_CHARACTER_ERR"
         [] \/ q.prefix # "" /\ ns = ""
            \/ q.prefix = "xml" /\ ns # XmlNs
            \/ isAttribute /\ isXmlns /\ ns # XmlnsNs
            \/ isAttribute /\ ns = XmlnsNs /\ ~isXmlns -> "NAMESPACE_ERR"
         [] OTHER -> "ok"

ParseQName(q) == IF q.local \in BadNames THEN "INVALID_CHARACTER_ERR" ELSE "ok"

(***************************************************************************)
(* Construction.                                                           *)
(***************************************************************************)
CreateIf(t, error, slot) == IF error = "ok" THEN Push(t, slot) ELSE Fail(t, error)

CreateElement(t, q) == CreateIf(t, ParseQName(q), Slot("element", QName(q, ""), <<>>))
CreateElementNs(t, ns, q) ==
    CreateIf(t, CheckQNameNamespace(ns, q, FALSE), Slot("element", QName(q, ns), <<>>))
CreateAttribute(t, q) == CreateIf(t, ParseQName(q), Slot("attribute", QName(q, ""), <<>>))
CreateAttributeNs(t, ns, q) ==
    CreateIf(t, CheckQNameNamespace(ns, q, TRUE), Slot("attribute", QName(q, ns), <<>>))
CreateData(t, kind, text) == Push(t, Slot(kind, NoName, text))
(* A processing instruction's target and a doctype's name are plain names. *)
CreateNamed(t, kind, q, text) == CreateIf(t, ParseQName(q), Slot(kind, QName(q, ""), text))

(***************************************************************************)
(* Attributes.                                                             *)
(***************************************************************************)
FindAttribute(t, element, Matches(_)) ==
    LET found == SelectSeq(t[element].attrs, Matches) IN IF found = <<>> THEN None ELSE found[1]

WithExpanded(t, element, name) ==
    FindAttribute(t, element, LAMBDA a : Expanded(t[a].name) = Expanded(name))
GetAttributeNode(t, element, q) ==
    FindAttribute(t, element, LAMBDA a : t[a].name.prefix = q.prefix /\ t[a].name.local = q.local)
GetAttributeNodeNs(t, element, ns, local) ==
    FindAttribute(t, element, LAMBDA a : t[a].name.ns = ns /\ t[a].name.local = local)

RequireElement(t, id) ==
    IF ~Owns(t, id) THEN "WRONG_DOCUMENT_ERR"
    ELSE IF t[id].kind # "element" THEN "NOT_SUPPORTED_ERR" ELSE "ok"

PutAttribute(t, element, name, value) ==
    LET found == WithExpanded(t, element, name)
        slot == [Slot("attribute", name, value) EXCEPT !.owner = element]
    IN IF found # None THEN Ok([t EXCEPT ![found].text = value], found)
       ELSE Then(Push(t, slot), LAMBDA u, id : Ok([u EXCEPT ![element].attrs = Append(@, id)], id))

(* The errors of the checks made one after the other: the first of them. *)
FirstError(errors) ==
    LET found == SelectSeq(errors, LAMBDA e : e # "ok") IN IF found = <<>> THEN "ok" ELSE found[1]

SetAttribute(t, element, q, value) ==
    LET error == FirstError(<<RequireElement(t, element), ParseQName(q)>>)
    IN IF error # "ok" THEN Fail(t, error) ELSE PutAttribute(t, element, QName(q, ""), value)

SetAttributeNs(t, element, ns, q, value) ==
    LET error == FirstError(<<RequireElement(t, element), CheckQNameNamespace(ns, q, TRUE)>>)
    IN IF error # "ok" THEN Fail(t, error) ELSE PutAttribute(t, element, QName(q, ns), value)

RemoveAttributeNode(t, element, attr) ==
    IF ~(Owns(t, element) /\ Owns(t, attr)) THEN Fail(t, "WRONG_DOCUMENT_ERR")
    ELSE IF t[element].kind # "element" THEN Fail(t, "panic")
    ELSE IF \A i \in DOMAIN t[element].attrs : t[element].attrs[i] # attr THEN Fail(t, "NOT_FOUND_ERR")
    ELSE Ok([t EXCEPT ![element].attrs = SelectSeq(@, LAMBDA a : a # attr), ![attr].owner = None], attr)

RemoveAttribute(t, element, q) ==
    LET error == RequireElement(t, element)
    IN IF error # "ok" THEN Fail(t, error)
       ELSE LET found == GetAttributeNode(t, element, q)
            IN IF found = None THEN Ok(t, None) ELSE RemoveAttributeNode(t, element, found)

SetAttributeNode(t, element, attr) ==
    LET error == IF ~Owns(t, attr) THEN "WRONG_DOCUMENT_ERR" ELSE RequireElement(t, element)
    IN CASE error # "ok" -> Fail(t, error)
         [] error = "ok" /\ t[attr].kind # "attribute" -> Fail(t, "NOT_SUPPORTED_ERR")
         [] error = "ok" /\ t[attr].kind = "attribute" /\ t[attr].owner \notin {None, element} ->
              Fail(t, "INUSE_ATTRIBUTE_ERR")
         [] OTHER ->
              LET existing == WithExpanded(t, element, t[attr].name)
                  u == IF existing = None THEN t ELSE RemoveAttributeNode(t, element, existing).nodes
              IN Ok([u EXCEPT ![attr].owner = element, ![element].attrs = Append(@, attr)], attr)

SetIdAttribute(t, element, q, isId) ==
    IF ~Owns(t, element) THEN Fail(t, "WRONG_DOCUMENT_ERR")
    ELSE LET attr == GetAttributeNode(t, element, q)
         IN IF attr = None THEN Fail(t, "NOT_FOUND_ERR") ELSE Ok([t EXCEPT ![attr].isId = isId], attr)

(***************************************************************************)
(* Reading: the walk, and what is found along it.                          *)
(***************************************************************************)
NextVisitPastStart(t, start, at) ==
    CASE at = <<>> -> <<>>
      [] at # <<>> /\ at[1] = "enter" ->
           IF t[at[2]].first # None THEN <<"enter", t[at[2]].first>> ELSE <<"leave", at[2]>>
      [] OTHER ->
           IF t[at[2]].next # None THEN <<"enter", t[at[2]].next>>
           ELSE IF t[at[2]].parent # None /\ at[2] # start THEN <<"leave", t[at[2]].parent>> ELSE <<>>

NextVisit(t, start, at) ==
    CASE at = <<>> -> <<>>
      [] at # <<>> /\ at[1] = "enter" ->
           IF t[at[2]].first # None THEN <<"enter", t[at[2]].first>> ELSE <<"leave", at[2]>>
      [] at # <<>> /\ at[1] = "leave" /\ at[2] # start ->
           IF t[at[2]].next # None THEN <<"enter", t[at[2]].next>>
           ELSE IF t[at[2]].parent # None THEN <<"leave", t[at[2]].parent>> ELSE <<>>
      [] OTHER -> <<>>

WalkOf(t, start) ==
    LET at[i \in 1 .. 2 * Len(t)] ==
            IF i = 1 THEN <<"enter", start>> ELSE NextVisit(t, start, at[i - 1])
    IN SelectSeq([i \in 1 .. 2 * Len(t) |-> at[i]], LAMBDA v : v # <<>>)

Descendants(t, start) ==
    LET entered == SelectSeq(WalkOf(t, start), LAMBDA v : v[1] = "enter" /\ v[2] # start)
    IN [i \in DOMAIN entered |-> entered[i][2]]

(* The elements below a node that a query by tag name lists. *)
ElementsNamed(t, root, Matches(_)) ==
    SelectSeq(Descendants(t, root), LAMBDA n : t[n].kind = "element" /\ Matches(t[n].name))

ByTagName(t, root, q) ==
    ElementsNamed(t, root, LAMBDA name : q.local = "*" \/ (name.prefix = q.prefix /\ name.local = q.local))
ByTagNameNs(t, root, ns, local) ==
    ElementsNamed(t, root, LAMBDA name : ns \in {"*", name.ns} /\ local \in {"*", name.local})

TextContent(t, id) ==
    LET texts == SelectSeq(WalkOf(t, id), LAMBDA v : v[1] = "enter" /\ t[v[2]].kind \in {"text", "cdata"})
        joined[i \in 0 .. Len(texts)] == IF i = 0 THEN <<>> ELSE joined[i - 1] \o t[texts[i][2]].text
    IN joined[Len(texts)]

ElementById(t, value) ==
    LET Marked(n) == \E i \in DOMAIN t[n].attrs : t[t[n].attrs[i]].isId /\ t[t[n].attrs[i]].text = value
        found == SelectSeq(Descendants(t, DocNode), LAMBDA n : t[n].kind = "element" /\ Marked(n))
    IN IF found = <<>> THEN None ELSE found[1]

(* XML Base: the base recorded at the nearest element, or the document's. *)
BaseUri(t, id, documentBase) ==
    LET start == IF t[id].kind = "attribute" THEN t[id].owner ELSE id
        recorded == IF start = None THEN <<>>
                    ELSE SelectSeq(SelfAndAbove(t, start), LAMBDA n : t[n].kind = "element" /\ t[n].base # "")
    IN IF recorded = <<>> THEN documentBase ELSE t[recorded[1]].base
=============================================================================
