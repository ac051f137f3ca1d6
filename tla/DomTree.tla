------------------------------- MODULE DomTree -------------------------------
(* A Document under the calls of its application (dom/document.rs): one    *)
(* action per call that changes it.  What a caller passes comes from the   *)
(* constants; how many calls it makes is bounded by `left`.                *)
EXTENDS DomArena, SequencesExt

CONSTANTS Values,        \* attribute values
          Other,         \* the arena of another document
          SelfReference  \* whether a caller may give a node as its own reference

VARIABLES nodes,  \* the slots of the document
          ret,    \* [op, err] of the last call, and what a copy was made of and is
          left    \* what the caller still does: [create, edits, copies, names, foreign, read]

treeVars == <<nodes, ret, left>>

(***************************************************************************)
(* Copies of nodes, of this document or another (slots s).                 *)
(***************************************************************************)
CopyAttributes(t, element, s, attrs) ==
    LET Put(done, a) ==
            LET name == s[a].name
            IN Then(done, LAMBDA u, id :
                    IF name.ns # "" THEN SetAttributeNs(u, element, name.ns, name, s[a].text)
                    ELSE SetAttribute(u, element, name, s[a].text))
    IN Then(FoldLeft(Put, Ok(t, element), attrs), LAMBDA u, id : Ok(u, element))

CopyShallow(t, s, n) ==
    LET slot == s[n]
    IN CASE slot.kind = "element" ->
              Then(CreateElementNs(t, slot.name.ns, slot.name), LAMBDA u, id : CopyAttributes(u, id, s, slot.attrs))
         [] slot.kind \in {"text", "cdata", "comment"} -> CreateData(t, slot.kind, slot.text)
         [] slot.kind = "pi" -> CreateNamed(t, "pi", slot.name, slot.text)
         [] slot.kind = "fragment" -> CreateData(t, "fragment", <<>>)
         [] OTHER -> Fail(t, "NOT_SUPPORTED_ERR")

RECURSIVE ImportUnder(_, _, _)
ImportUnder(t, s, n) ==
    LET copy == CopyShallow(t, s, n)
        Under(done, kid) ==
            Then(done, LAMBDA u, id :
                 Then(ImportUnder(u, s, kid), LAMBDA v, child :
                      Then(AppendChild(v, id, child), LAMBDA w, moved : Ok(w, id))))
    IN FoldLeft(Under, copy, ChildSeq(s, n))

ImportInto(t, s, n, deep) ==
    IF ~Owns(s, n) THEN Fail(t, "WRONG_DOCUMENT_ERR")
    ELSE IF deep THEN ImportUnder(t, s, n) ELSE CopyShallow(t, s, n)

StackedAsRead(t, n, copy) == Reverse([i \in DOMAIN ChildSeq(t, n) |-> <<ChildSeq(t, n)[i], copy>>])

(* The nodes still to copy, each with the copy it goes under. *)
Stacked(t, n, copy) == [i \in DOMAIN ChildSeq(t, n) |-> <<ChildSeq(t, n)[i], copy>>]

RECURSIVE CloneStack(_, _)
CloneStack(t, stack) ==
    IF stack = <<>> THEN Ok(t, None)
    ELSE LET n == stack[1][1]
         IN Then(CopyShallow(t, t, n), LAMBDA u, copy :
                 Then(AppendChild(u, stack[1][2], copy), LAMBDA v, id :
                      CloneStack(v, Stacked(v, n, copy) \o Tail(stack))))

CloneOf(t, n, deep) ==
    IF ~Owns(t, n) THEN Fail(t, "WRONG_DOCUMENT_ERR")
    ELSE Then(CopyShallow(t, t, n), LAMBDA u, copy :
              IF ~deep THEN Ok(u, copy)
              ELSE Then(CloneStack(u, Stacked(u, n, copy)), LAMBDA v, id : Ok(v, copy)))

(***************************************************************************)
(* The calls.                                                              *)
(***************************************************************************)
Handles == NodesOf(nodes) \union (IF left.foreign THEN {Foreign} ELSE {})
Attributes == {n \in NodesOf(nodes) : nodes[n].kind = "attribute"}
Elements == {n \in NodesOf(nodes) : nodes[n].kind = "element"}

Call(op, done, spent) ==
    /\ nodes' = done.nodes
    /\ ret' = [op |-> op, err |-> done.err, of |-> None, copy |-> None]
    /\ left' = spent

Edit(op, done) ==
    /\ left.create = <<>> /\ left.edits > 0
    /\ Call(op, done, [left EXCEPT !.edits = @ - 1])

Create ==
    /\ left.create # <<>>
    /\ LET c == left.create[1]
           done == CASE c.kind = "element" -> IF c.hasNs THEN CreateElementNs(nodes, c.ns, c.q)
                                              ELSE CreateElement(nodes, c.q)
                     [] c.kind = "attribute" -> IF c.hasNs THEN CreateAttributeNs(nodes, c.ns, c.q)
                                                ELSE CreateAttribute(nodes, c.q)
                     [] c.kind \in {"pi", "doctype"} -> CreateNamed(nodes, c.kind, c.q, <<>>)
                     [] OTHER -> CreateData(nodes, c.kind, IF c.kind = "fragment" THEN <<>> ELSE <<"t">>)
       IN Call("create", done, [left EXCEPT !.create = Tail(@)])

Insertion ==
    \E parent, child \in Handles, reference \in Handles \union {None} :
        /\ SelfReference \/ child # reference
        /\ Edit("insert_before", InsertBefore(nodes, parent, child, reference))

Replacement ==
    \E parent, new, old \in Handles :
        /\ SelfReference \/ new # old
        /\ Edit("replace_child", ReplaceChild(nodes, parent, new, old))

Removal == \E parent, child \in Handles : Edit("remove_child", RemoveChild(nodes, parent, child))

TextAppended == \E parent \in Handles : Edit("append_text", AppendText(nodes, parent, <<"x">>))

Copying(op, n, done) ==
    /\ left.create = <<>> /\ left.copies > 0
    /\ nodes' = done.nodes
    /\ ret' = [op |-> op, err |-> done.err, of |-> n, copy |-> done.id]
    /\ left' = [left EXCEPT !.copies = @ - 1]

Clone == \E n \in Handles, deep \in BOOLEAN :
            Copying(IF deep THEN "clone_deep" ELSE "clone", n, CloneOf(nodes, n, deep))
Import == \E n \in 1 .. Len(Other) + 1, deep \in BOOLEAN :
            Copying(IF deep THEN "import_deep" ELSE "import", n, ImportInto(nodes, Other, n, deep))

AttributeSet ==
    \E element \in Handles, name \in left.names, value \in Values :
        \/ Edit("set_attribute", SetAttribute(nodes, element, name, value))
        \/ Edit("set_attribute_ns", SetAttributeNs(nodes, element, name.ns, name, value))

AttributeNodeSet ==
    \E element \in Handles, attr \in Attributes \union {DocNode} :
        left.names # {} /\ Edit("set_attribute_node", SetAttributeNode(nodes, element, attr))

AttributeRemoved ==
    \/ \E element \in Handles, name \in left.names :
          Edit("remove_attribute", RemoveAttribute(nodes, element, name))
    \/ \E element \in Elements, attr \in Attributes :
          Edit("remove_attribute_node", RemoveAttributeNode(nodes, element, attr))

IdAttributeSet ==
    \E element \in Handles, name \in left.names, isId \in BOOLEAN :
        Edit("set_id_attribute", SetIdAttribute(nodes, element, name, isId))

TreeNext ==
    \/ Create \/ Insertion \/ Replacement \/ Removal \/ TextAppended \/ Clone \/ Import
    \/ AttributeSet \/ AttributeNodeSet \/ AttributeRemoved \/ IdAttributeSet

-----------------------------------------------------------------------------
KidsOf(t) == [n \in NodesOf(t) |-> ChildSeq(t, n)]
KindsOf(t) == [n \in NodesOf(t) |-> t[n].kind]
Forest == INSTANCE OrderedForest WITH kind <- KindsOf(nodes), kids <- KidsOf(nodes)

(* Every way of getting from a node to its neighbours agrees with the      *)
(* children's order: a node is among the children of its parent only, the  *)
(* last child and the previous siblings are those of that order, and a     *)
(* node with no parent has no siblings.  An element holds each attribute   *)
(* once and one for each expanded name; what it holds, it owns, and        *)
(* nothing else has an owner.                                              *)
LinksAgree ==
    /\ \A p \in NodesOf(nodes) :
           LET kids == ChildSeq(nodes, p)
           IN /\ nodes[p].last = IF kids = <<>> THEN None ELSE kids[Len(kids)]
              /\ \A i \in DOMAIN kids :
                    /\ nodes[kids[i]].parent = p
                    /\ nodes[kids[i]].prev = IF i = 1 THEN None ELSE kids[i - 1]
              /\ \A n \in NodesOf(nodes) : nodes[n].parent = p => \E i \in DOMAIN kids : kids[i] = n
              /\ nodes[p].parent = None => nodes[p].prev = None /\ nodes[p].next = None
    /\ \A e \in NodesOf(nodes) :
           LET held == {nodes[e].attrs[i] : i \in DOMAIN nodes[e].attrs}
           IN /\ held = {a \in NodesOf(nodes) : nodes[a].owner = e}
              /\ Cardinality({Expanded(nodes[a].name) : a \in held}) = Len(nodes[e].attrs)
              /\ \A a \in held : nodes[a].kind = "attribute"

(* The document's tree is one the calls of the abstract forest reach. *)
IsAForest == Forest!Spec

(* A copy is a node of its own, detached, of the same shape as what it was *)
(* made of: the node with its attributes, and for a deep copy all below.   *)
RECURSIVE Shape(_, _, _)
Shape(t, n, deep) ==
    [kind |-> t[n].kind, name |-> t[n].name, text |-> t[n].text,
     attrs |-> [i \in DOMAIN t[n].attrs |-> <<t[t[n].attrs[i]].name, t[t[n].attrs[i]].text>>],
     kids |-> IF deep THEN [i \in DOMAIN ChildSeq(t, n) |-> Shape(t, ChildSeq(t, n)[i], deep)] ELSE <<>>]

CopiesAreWhole ==
    ret.copy # None =>
        LET deep == ret.op \in {"clone_deep", "import_deep"}
            source == IF ret.op \in {"import", "import_deep"} THEN Other ELSE nodes
        IN /\ Shape(nodes, ret.copy, deep) = Shape(source, ret.of, deep)
           /\ nodes[ret.copy].parent = None

(* A walk enters and leaves every node below where it starts, once, and in *)
(* the end the node it started at: its two sides pair up and nest.         *)
RECURSIVE Visits(_)
Visits(n) ==
    <<<<"enter", n>>>> \o FoldLeft(LAMBDA done, kid : done \o Visits(kid), <<>>, ChildSeq(nodes, n))
        \o <<<<"leave", n>>>>

WalksPairUp ==
    \A n \in NodesOf(nodes) :
        LET walk == WalkOf(nodes, n)
        IN /\ Last(walk) = <<"leave", n>>
           /\ \A i, j \in DOMAIN walk : walk[i] = walk[j] => i = j

(* What is read of a tree is what stands in it, in document order: nodes,  *)
(* elements by name, text, and the attributes under their expanded names.  *)
ReadsInOrder ==
    LET Entered(n) == SelectSeq(Visits(n), LAMBDA v : v[1] = "enter" /\ v[2] # n)
        Where(n, Test(_)) == SelectSeq([i \in DOMAIN Entered(n) |-> Entered(n)[i][2]], Test)
        IsElement(m) == nodes[m].kind = "element"
    IN \A n \in NodesOf(nodes) :
          /\ WalkOf(nodes, n) = Visits(n)
          /\ ByTagName(nodes, n, [prefix |-> "", local |-> "*"]) = Where(n, IsElement)
          /\ IsElement(n) =>
                /\ \A i \in DOMAIN nodes[n].attrs :
                      LET a == nodes[n].attrs[i]
                      IN GetAttributeNodeNs(nodes, n, nodes[a].name.ns, nodes[a].name.local) = a
                /\ LET same == ByTagNameNs(nodes, DocNode, nodes[n].name.ns, nodes[n].name.local)
                   IN IsAncestor(nodes, DocNode, n) => \E i \in DOMAIN same : same[i] = n
          /\ IsContainer(nodes, n) =>
                TextContent(nodes, n) = FoldLeft(LAMBDA done, kid : done \o TextContent(nodes, kid),
                                                 <<>>, ChildSeq(nodes, n))

(* What a call that fails may leave behind are new nodes that nothing      *)
(* leads to: the nodes that were there are as they were.                   *)
FailsCleanly == [][ret'.err # "ok" => SubSeq(nodes', 1, Len(nodes)) = nodes]_treeVars
=============================================================================
