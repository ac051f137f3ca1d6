------------------------------ MODULE XPathTree ------------------------------
(* The tree XPath sees in a document (xpath/model.rs) and its thirteen axes *)
(* (xpath/axis.rs).  A run of text and CDATA nodes is one text node, known *)
(* by its first; an element has a namespace node for each prefix in scope; *)
(* and document order covers these and the attributes.  A node is          *)
(* [as, id, prefix]: the DOM node it is or belongs to, and the prefix it   *)
(* binds ("" is the default namespace).  A model is the document and the   *)
(* nodes in document order.                                                *)
EXTENDS DomArena, SequencesExt

CONSTANT PrefixOrder  \* the prefixes that occur, the default first, then by name

Tree(id) == [as |-> "tree", id |-> id, prefix |-> ""]
TextRun(id) == [as |-> "text", id |-> id, prefix |-> ""]
NamespaceOf(element, prefix) == [as |-> "namespace", id |-> element, prefix |-> prefix]
Nowhere == Tree(None)

(***************************************************************************)
(* Text runs.                                                              *)
(***************************************************************************)
IsTextLike(t, id) == t[id].kind \in {"text", "cdata"}

RunStart(t, id) ==
    LET start[n \in NodesOf(t)] ==
            IF t[n].prev # None /\ IsTextLike(t, t[n].prev) THEN start[t[n].prev] ELSE n
    IN start[id]

RunText(t, id) ==
    LET text[n \in NodesOf(t) \union {None}] ==
            IF n = None \/ (n # None /\ ~IsTextLike(t, n)) THEN <<>> ELSE t[n].text \o text[t[n].next]
    IN text[id]

NodeFor(t, id) == IF IsTextLike(t, id) THEN TextRun(RunStart(t, id)) ELSE Tree(id)

(***************************************************************************)
(* Namespaces.                                                             *)
(***************************************************************************)
IsDeclaration(t, attr) == t[attr].name.ns = XmlnsNs
DeclaredPrefix(t, attr) == IF t[attr].name.prefix = "xmlns" THEN t[attr].name.local ELSE ""

Declarations(t, element) == SelectSeq(t[element].attrs, LAMBDA a : IsDeclaration(t, a))
DeclarationOf(t, element, prefix) ==
    SelectSeq(Declarations(t, element), LAMBDA a : DeclaredPrefix(t, a) = prefix)

(* What the nearest declaration of a prefix binds it to; an empty value    *)
(* undeclares it.                                                          *)
FirstText(t, attrs) == IF attrs = <<>> THEN <<>> ELSE t[attrs[1]].text
DeclarationsAlong(t, elements, prefix) ==
    FlattenSeq([i \in DOMAIN elements |-> DeclarationOf(t, elements[i], prefix)])
BoundTo(t, element, prefix) ==
    IF prefix = "xml" THEN <<XmlNs>> ELSE FirstText(t, DeclarationsAlong(t, SelfAndAbove(t, element), prefix))

InScopePrefixes(t, element) == SelectSeq(PrefixOrder, LAMBDA p : BoundTo(t, element, p) # <<>>)

(* The same from what the parent has in scope, as the numbering keeps it.  *)
ScopeOfAdding(t, element, inherited) ==
    LET own == Declarations(t, element)
        bound == {DeclaredPrefix(t, a) : a \in {x \in ToSet(own) : t[x].text # <<>>}}
    IN inherited \union bound

ScopeOf(t, element, inherited) ==
    LET own == Declarations(t, element)
        bound == {DeclaredPrefix(t, a) : a \in {x \in ToSet(own) : t[x].text # <<>>}}
    IN IF own = <<>> THEN inherited
       ELSE (inherited \ {DeclaredPrefix(t, a) : a \in ToSet(own)}) \union bound \union {"xml"}

(***************************************************************************)
(* The nodes around a node.                                                *)
(***************************************************************************)
IsElement(t, x) == x.as = "tree" /\ t[x.id].kind = "element"

KindOf(t, x) ==
    CASE x.as = "text" -> "text"
      [] x.as = "namespace" -> "namespace"
      [] x.as = "tree" /\ t[x.id].kind \in {"document", "doctype", "fragment"} -> "root"
      [] OTHER -> t[x.id].kind

ParentOf(t, x) ==
    CASE x.as = "namespace" -> Tree(x.id)
      [] x.as = "tree" /\ t[x.id].kind = "attribute" -> Tree(t[x.id].owner)
      [] x = Tree(DocNode) -> Nowhere
      [] OTHER -> Tree(t[x.id].parent)

(* Every run counts as one child, and a doctype is none.                   *)
StartsNode(t, c) == IF IsTextLike(t, c) THEN RunStart(t, c) = c ELSE t[c].kind \in {"element", "comment", "pi"}
NodesFor(t, ids) == [i \in DOMAIN ids |-> NodeFor(t, ids[i])]
Children(t, x) ==
    IF x.as # "tree" \/ t[x.id].kind \notin {"document", "element"} THEN <<>>
    ELSE NodesFor(t, SelectSeq(ChildSeq(t, x.id), LAMBDA c : StartsNode(t, c)))

Trees(ids) == [i \in DOMAIN ids |-> Tree(ids[i])]
Attributes(t, x) ==
    IF IsElement(t, x) THEN Trees(SelectSeq(t[x.id].attrs, LAMBDA a : ~IsDeclaration(t, a))) ELSE <<>>

NamespacesOf(element, prefixes) == [i \in DOMAIN prefixes |-> NamespaceOf(element, prefixes[i])]
Namespaces(t, x) == IF IsElement(t, x) THEN NamespacesOf(x.id, InScopePrefixes(t, x.id)) ELSE <<>>

(***************************************************************************)
(* Names and values.  A node without a name has the name <<>>.             *)
(***************************************************************************)
ExpandedName(t, x) ==
    CASE x.as = "namespace" -> <<"", x.prefix>>
      [] x.as = "tree" /\ t[x.id].kind \in {"element", "attribute"} -> Expanded(t[x.id].name)
      [] x.as = "tree" /\ t[x.id].kind = "pi" -> <<"", t[x.id].name.local>>
      [] OTHER -> <<>>

QualifiedName(t, x) ==
    CASE x.as = "namespace" -> <<"", x.prefix>>
      [] x.as = "tree" /\ t[x.id].kind \in {"element", "attribute", "pi"} -> <<t[x.id].name.prefix, t[x.id].name.local>>
      [] OTHER -> <<>>

StringValue(t, x) ==
    CASE x.as = "text" -> RunText(t, x.id)
      [] x.as = "namespace" -> BoundTo(t, x.id, x.prefix)
      [] x.as = "tree" /\ t[x.id].kind \in {"document", "element"} -> TextContent(t, x.id)
      [] x.as = "tree" /\ t[x.id].kind \in {"attribute", "comment", "pi"} -> t[x.id].text
      [] OTHER -> <<>>

IdentifiedElement(t, value) == ElementById(t, value)

(***************************************************************************)
(* Document order: an element, its namespace nodes, its attributes, then   *)
(* its children.                                                           *)
(***************************************************************************)
RECURSIVE NumberedFrom(_, _, _), NumberedAmong(_, _, _), NumberedIn(_, _, _)
NumberedAmong(t, nodes, scope) == FlattenSeq([i \in DOMAIN nodes |-> NumberedFrom(t, nodes[i], scope)])
NumberedIn(t, x, scope) ==
    <<x>>
    \o (IF IsElement(t, x) THEN NamespacesOf(x.id, SelectSeq(PrefixOrder, LAMBDA p : p \in scope)) ELSE <<>>)
    \o Attributes(t, x) \o NumberedAmong(t, Children(t, x), scope)
NumberedFrom(t, x, inherited) ==
    NumberedIn(t, x, IF IsElement(t, x) THEN ScopeOf(t, x.id, inherited) ELSE inherited)

NumberedNodes(t) == NumberedFrom(t, Tree(DocNode), {"xml"})

DomModel(t) == [doc |-> t, order |-> NumberedNodes(t)]

(* A node-set: in document order, without duplicates.                      *)
MakeNodeSet(m, nodes) == SelectSeq(m.order, LAMBDA x : Contains(nodes, x))

(***************************************************************************)
(* The nodes a caller may hand in or is handed back.                       *)
(***************************************************************************)
IsInTree(t, id) ==
    LET start == IF t[id].kind = "attribute" THEN t[id].owner ELSE id
    IN start # None /\ Contains(SelfAndAbove(t, start), DocNode)

Import(t, x) ==
    IF ~Owns(t, x.id) THEN Nowhere
    ELSE IF x.as = "namespace"
         THEN IF t[x.id].kind = "element" /\ IsInTree(t, x.id) /\ Contains(InScopePrefixes(t, x.id), x.prefix)
              THEN x ELSE Nowhere
         ELSE IF /\ t[x.id].kind \notin {"doctype", "fragment"}
                 /\ t[x.id].kind = "attribute" => ~IsDeclaration(t, x.id)
                 /\ IsInTree(t, x.id)
              THEN NodeFor(t, x.id) ELSE Nowhere

Export(x) == IF x.as = "text" THEN Tree(x.id) ELSE x

(***************************************************************************)
(* The axes, each in its own order: the reverse ones from the node out.    *)
(***************************************************************************)
Axes == {"self", "child", "parent", "attribute", "namespace", "descendant", "descendant-or-self", "ancestor",
         "ancestor-or-self", "following-sibling", "preceding-sibling", "following", "preceding"}
ReverseAxes == {"ancestor", "ancestor-or-self", "preceding", "preceding-sibling"}

RECURSIVE DescendantsOf(_, _), BelowAll(_, _)
(* The nodes with what is below them, in document order.                   *)
BelowAll(t, nodes) == FlattenSeq([i \in DOMAIN nodes |-> <<nodes[i]>> \o DescendantsOf(t, nodes[i])])
DescendantsOf(t, x) == BelowAll(t, Children(t, x))

RECURSIVE Ancestors(_, _)
Ancestors(t, x) == LET up == ParentOf(t, x) IN IF up = Nowhere THEN <<>> ELSE <<up>> \o Ancestors(t, up)

(* An attribute and a namespace node have a parent and no siblings.        *)
Siblings(t, x) == IF ParentOf(t, x) = Nowhere THEN <<>> ELSE Children(t, ParentOf(t, x))
PlaceAmong(all, x) == SelectInSeq(all, LAMBDA y : y = x)
After(all, x) == IF Contains(all, x) THEN SubSeq(all, PlaceAmong(all, x) + 1, Len(all)) ELSE <<>>
Before(all, x) == SubSeq(all, 1, PlaceAmong(all, x) - 1)

FollowingSiblings(t, x) == After(Siblings(t, x), x)
PrecedingSiblings(t, x) == Reverse(Before(Siblings(t, x), x))

AgainstOrder(t, nodes) == FlattenSeq([i \in DOMAIN nodes |-> Reverse(DescendantsOf(t, nodes[i])) \o <<nodes[i]>>])

RightOf(t, nodes) == FlattenSeq([i \in DOMAIN nodes |-> BelowAll(t, FollowingSiblings(t, nodes[i]))])
LeftOf(t, nodes) == FlattenSeq([i \in DOMAIN nodes |-> AgainstOrder(t, PrecedingSiblings(t, nodes[i]))])

Following(t, x) ==
    (IF KindOf(t, x) \in {"attribute", "namespace"} THEN DescendantsOf(t, ParentOf(t, x)) ELSE <<>>)
    \o RightOf(t, <<x>> \o Ancestors(t, x))
Preceding(t, x) == LeftOf(t, <<x>> \o Ancestors(t, x))

Walk(t, x, axis) ==
    CASE axis = "self" -> <<x>>
      [] axis = "child" -> Children(t, x)
      [] axis = "parent" -> IF ParentOf(t, x) = Nowhere THEN <<>> ELSE <<ParentOf(t, x)>>
      [] axis = "attribute" -> Attributes(t, x)
      [] axis = "namespace" -> Namespaces(t, x)
      [] axis = "descendant" -> DescendantsOf(t, x)
      [] axis = "descendant-or-self" -> <<x>> \o DescendantsOf(t, x)
      [] axis = "ancestor" -> Ancestors(t, x)
      [] axis = "ancestor-or-self" -> <<x>> \o Ancestors(t, x)
      [] axis = "following-sibling" -> FollowingSiblings(t, x)
      [] axis = "preceding-sibling" -> PrecedingSiblings(t, x)
      [] axis = "following" -> Following(t, x)
      [] axis = "preceding" -> Preceding(t, x)
=============================================================================
