--------------------------- MODULE ElementPointer ---------------------------
(***************************************************************************)
(* The element() scheme of xpointer/element.rs as a machine over events.   *)
(* A part is [id, steps]: the ID to start from, {} for the document, and   *)
(* the positions to descend by.  Optional depths are sets of at most one.  *)
(***************************************************************************)
EXTENDS Naturals, Sequences, FiniteSets, FiniteSetsExt, SequencesExt

-----------------------------------------------------------------------------
(* A document as the sequence of events it is reported by, and what that   *)
(* order says of its elements.  An element is named by the position of its *)
(* StartElement; 0 stands for the document itself.                         *)
IsStart(e) == e.kind = "StartElement"
IsEnd(e) == e.kind = "EndElement"

(* The kinds that belong to the document and not to its content. *)
Frame == {"StartDocument", "EndDocument", "Doctype"}

Elements(D) == {i \in DOMAIN D : IsStart(D[i])}

(* How many elements are open before event i. *)
Level(D, i) ==
    Cardinality({j \in 1..(i - 1) : IsStart(D[j])}) - Cardinality({j \in 1..(i - 1) : IsEnd(D[j])})

(* Where the element that starts at i ends, and the document for 0. *)
EndOf(D, i) ==
    IF i = 0 THEN Len(D)
    ELSE LET inside == Level(D, i) + 1
         IN Min({j \in (i + 1)..Len(D) : IsEnd(D[j]) /\ Level(D, j) = inside})

(* The elements directly in the element p. *)
Children(D, p) ==
    LET inside == IF p = 0 THEN 0 ELSE Level(D, p) + 1
        last == EndOf(D, p)
    IN {i \in Elements(D) : p < i /\ i < last /\ Level(D, i) = inside}

(* Every event has its place: one root element, whose content is balanced. *)
IsDocument(D) ==
    /\ \A i \in DOMAIN D :
         /\ Level(D, i) >= 0
         /\ IsEnd(D[i]) => Level(D, i) > 0
         /\ D[i].kind \in Frame => Level(D, i) = 0
    /\ Cardinality({i \in Elements(D) : Level(D, i) = 0}) = 1
    /\ D # <<>> => D[1].kind = "StartDocument" /\ D[Len(D)].kind = "EndDocument"
    /\ Level(D, Len(D) + 1) = 0

-----------------------------------------------------------------------------
(* The selector of one part. *)
NewSelector(part) ==
    [part |-> part, declared |-> FALSE, counts |-> <<0>>, anchor |-> {}, selected |-> {},
     searching |-> TRUE]

(* An xml:id, or an attribute of type ID once the declarations were read. *)
HasId(s, e) == s.part.id \subseteq e.xmlId \union (IF s.declared THEN e.declaredId ELSE {})

(* The element being started is counted among its siblings; while nothing  *)
(* was selected yet it may carry the ID, or be the one pointed to.         *)
Started(s, e) ==
    LET depth == Len(s.counts) - 1
        counts == [s.counts EXCEPT ![depth + 1] = @ + 1]
        anchors == s.searching /\ s.part.id # {} /\ s.anchor = {} /\ HasId(s, e)
        anchor == IF anchors THEN {depth} ELSE s.anchor
        bases == IF s.part.id = {} THEN {0} ELSE {a + 1 : a \in anchor}
        target == /\ s.searching
                  /\ \E base \in bases : SubSeq(counts, base + 1, depth + 1) = s.part.steps
    IN [part |-> s.part,
        declared |-> s.declared,
        counts |-> Append(counts, 0),
        anchor |-> anchor,
        selected |-> IF target THEN {depth} ELSE s.selected,
        searching |-> s.searching /\ ~target]

(* A faulty form: the search goes on after the element with the ID closed. *)
EndedStillSearching(s) ==
    LET depth == Len(s.counts) - 2
    IN [s EXCEPT !.counts = Front(@), !.anchor = @ \ {depth}, !.selected = @ \ {depth}]

(* Once the element with the ID has closed nothing else can be selected. *)
Ended(s) ==
    LET depth == Len(s.counts) - 2
    IN [part |-> s.part,
        declared |-> s.declared,
        counts |-> Front(s.counts),
        anchor |-> s.anchor \ {depth},
        selected |-> s.selected \ {depth},
        searching |-> s.searching /\ depth \notin s.anchor]

Filtered(s, e) ==
    CASE e.kind = "Doctype" -> [s EXCEPT !.declared = TRUE]
      [] IsStart(e) -> Started(s, e)
      [] IsEnd(e) -> Ended(s)
      [] OTHER -> s

(* Whether e is part of the selection: the end of the element still is. *)
Picks(s, e) ==
    e.kind \notin Frame /\ (s.selected # {} \/ (IsStart(e) /\ Started(s, e).selected # {}))

-----------------------------------------------------------------------------
(* What a part identifies, by the element() scheme: the first element  *)
(* with the ID, and from there child after child; {} if there is none.     *)
IdsOf(D, i) ==
    D[i].xmlId \union (IF \E j \in DOMAIN D : D[j].kind = "Doctype" THEN D[i].declaredId ELSE {})

Child(D, p, n) ==
    LET children == Children(D, p)
    IN {i \in children : Cardinality({j \in children : j <= i}) = n}

Identified(D, part) ==
    LET having == {i \in Elements(D) : part.id \subseteq IdsOf(D, i)}
        from == IF part.id = {} THEN {0} ELSE {i \in having : \A j \in having : i <= j}
    IN FoldLeft(LAMBDA at, n : UNION {Child(D, p, n) : p \in at}, from, part.steps)
=============================================================================
