--------------------------- MODULE StrictXmlProofs --------------------------
(***************************************************************************)
(* Proofs about StrictXml for any names, any events and any nesting: the   *)
(* two stacks keep what the rules of XmlDocument need, and the checks      *)
(* accept exactly what those rules allow.                                  *)
(***************************************************************************)
EXTENDS StrictXml, SequenceLemmas

USE StrictAssumption

-----------------------------------------------------------------------------
(* Bound is decided by the last binding of the prefix. *)
LEMMA BoundByLast ==
    ASSUME NEW s \in Seq(Binding), NEW p, p # Xml, NEW i \in 1..Len(s),
           s[i].prefix = p, \A j \in 1..Len(s) : j > i => s[j].prefix # p
    PROVE  Bound(p, s) = s[i].ns
<1> DEFINE I == {j \in 1..Len(s) : s[j].prefix = p}
<1>1. i \in I /\ \A y \in I : i >= y
    OBVIOUS
<1>2. Max(I) = i
    BY <1>1 DEF Max
<1>3. SelectLastInSeq(s, LAMBDA b : b.prefix = p) = i
    BY <1>1, <1>2 DEF SelectLastInSeq
<1> QED BY <1>3 DEF Bound

LEMMA BoundByNone ==
    ASSUME NEW s \in Seq(Binding), NEW p, p # Xml,
           \A j \in 1..Len(s) : s[j].prefix # p
    PROVE  Bound(p, s) = None
<1>1. SelectLastInSeq(s, LAMBDA b : b.prefix = p) = 0
    BY DEF SelectLastInSeq
<1> QED BY <1>1 DEF Bound

LEMMA BoundXml == ASSUME NEW s PROVE Bound(Xml, s) = XmlNs
BY DEF Bound

(* Which of the two it is: a prefix has a last binding or none. *)
LEMMA LastBinding ==
    ASSUME NEW s \in Seq(Binding), NEW p
    PROVE  \/ \A j \in 1..Len(s) : s[j].prefix # p
           \/ \E i \in 1..Len(s) :
                 s[i].prefix = p /\ \A j \in 1..Len(s) : j > i => s[j].prefix # p
<1> DEFINE I == {j \in 1..Len(s) : s[j].prefix = p}
<1> SUFFICES ASSUME I # {}
             PROVE  \E i \in 1..Len(s) :
                       s[i].prefix = p /\ \A j \in 1..Len(s) : j > i => s[j].prefix # p
    OBVIOUS
<1>1. Len(s) \in Nat /\ I \in SUBSET (1..Len(s))
    OBVIOUS
<1> HIDE DEF I
<1>2. PICK i \in I : \A y \in I : i >= y
    BY <1>1, LastPosition
<1>3. i \in 1..Len(s) /\ s[i].prefix = p
    BY <1>2 DEF I
<1>4. \A j \in 1..Len(s) : j > i => s[j].prefix # p
    BY <1>2, <1>3 DEF I
<1> QED BY <1>3, <1>4

LEMMA BoundType ==
    ASSUME NEW s \in Seq(Binding), NEW p
    PROVE  Bound(p, s) \in NameSet
<1>1. CASE p = Xml
    BY <1>1, BoundXml DEF NameSet
<1>2. CASE p # Xml /\ \A j \in 1..Len(s) : s[j].prefix # p
    BY <1>2, BoundByNone DEF NameSet
<1>3. CASE p # Xml /\ \E j \in 1..Len(s) : s[j].prefix = p
    <2>1. PICK i \in 1..Len(s) :
             s[i].prefix = p /\ \A j \in 1..Len(s) : j > i => s[j].prefix # p
        BY <1>3, LastBinding
    <2>2. Bound(p, s) = s[i].ns
        BY <1>3, <2>1, BoundByLast
    <2>3. s[i] \in Binding
        OBVIOUS
    <2> QED BY <2>2, <2>3 DEF Binding
<1> QED BY <1>1, <1>2, <1>3

(* FirstBad is 0 when every declaration may be made, and only then. *)
LEMMA NoneBad ==
    ASSUME NEW d \in Seq(Binding)
    PROVE  /\ FirstBad(d) \in 0..Len(d)
           /\ FirstBad(d) = 0 <=> \A i \in DOMAIN d : ~BadDeclaration(d[i])
<1> DEFINE I == {i \in 1..Len(d) : BadDeclaration(d[i])}
<1>1. FirstBad(d) = IF I # {} THEN Min(I) ELSE 0
    BY DEF FirstBad, SelectInSeq
<1>2. DOMAIN d = 1..Len(d) /\ Len(d) \in Nat
    OBVIOUS
<1>3. ASSUME I # {} PROVE Min(I) \in 1..Len(d)
    <2>1. I \in SUBSET Nat
        BY <1>2
    <2> HIDE DEF I
    <2>2. \E x \in I : \A y \in I : x <= y
        BY <1>3, <2>1, FirstPosition
    <2>3. Min(I) \in I
        BY <2>2 DEF Min
    <2> QED BY <2>3 DEF I
<1>4. I = {} <=> \A i \in DOMAIN d : ~BadDeclaration(d[i])
    BY <1>2
<1> QED BY <1>1, <1>2, <1>3, <1>4

LEMMA DeclaredLength ==
    ASSUME NEW d \in Seq(Binding)
    PROVE  Len(Declared(d)) \in 0..Len(d)
<1>1. CASE FirstBad(d) = 0
    BY <1>1 DEF Declared
<1>2. CASE FirstBad(d) # 0
    <2>1. FirstBad(d) \in 1..Len(d)
        BY <1>2, NoneBad
    <2>2. Len(SubSeq(d, 1, FirstBad(d) - 1)) = FirstBad(d) - 1
        <3>1. \A i \in 1..(FirstBad(d) - 1) : d[i] \in Binding
            BY <2>1
        <3> QED BY <2>1, <3>1, SubSeqProperties
    <2> QED BY <1>2, <2>1, <2>2 DEF Declared
<1> QED BY <1>1, <1>2

(* Declarations that may be made, of distinct prefixes, are in scope       *)
(* before everything bound so far: the stack of bindings means what        *)
(* Within says of a namespace environment.                                 *)
LEMMA DeclarationsBind ==
    ASSUME NEW s \in Seq(Binding), NEW d \in Seq(Binding), NEW p \in PrefixSet,
           \A i \in DOMAIN d : ~BadDeclaration(d[i]),
           \A i, j \in DOMAIN d : i # j => d[i].prefix # d[j].prefix
    PROVE  Bound(p, s \o d) =
             IF \E i \in DOMAIN d : d[i].prefix = p
             THEN d[CHOOSE i \in DOMAIN d : d[i].prefix = p].ns ELSE Bound(p, s)
<1> DEFINE t == s \o d
<1>a. /\ t \in Seq(Binding) /\ Len(t) = Len(s) + Len(d)
      /\ \A i \in 1..Len(s) : t[i] = s[i]
      /\ \A i \in 1..Len(d) : t[Len(s) + i] = d[i]
      /\ Len(s) \in Nat /\ Len(d) \in Nat /\ DOMAIN d = 1..Len(d)
    BY ConcatProperties
<1>b. \A j \in 1..Len(t) : j > Len(s) => j - Len(s) \in 1..Len(d) /\ t[j] = d[j - Len(s)]
    <2> TAKE j \in 1..Len(t)
    <2> HAVE j > Len(s)
    <2>1. j - Len(s) \in 1..Len(d)
        BY <1>a
    <2>2. t[Len(s) + (j - Len(s))] = d[j - Len(s)]
        BY <1>a, <2>1
    <2>3. Len(s) + (j - Len(s)) = j
        BY <1>a
    <2> QED BY <2>1, <2>2, <2>3
<1> SUFFICES Bound(p, t) =
               IF \E i \in DOMAIN d : d[i].prefix = p
               THEN d[CHOOSE i \in DOMAIN d : d[i].prefix = p].ns ELSE Bound(p, s)
    OBVIOUS
<1> HIDE DEF t
<1>1. CASE \E i \in DOMAIN d : d[i].prefix = p
    <2> DEFINE i == CHOOSE i \in DOMAIN d : d[i].prefix = p
    <2>1. i \in DOMAIN d /\ d[i].prefix = p
        BY <1>1
    <2> HIDE DEF i
    <2>2. CASE p = Xml
        <3>1. d[i].ns = XmlNs
            BY <2>1, <2>2 DEF BadDeclaration
        <3> QED BY <1>1, <2>2, <3>1, BoundXml DEF i
    <2>3. CASE p # Xml
        <3>1. Len(s) + i \in 1..Len(t) /\ t[Len(s) + i] = d[i]
            BY <1>a, <2>1
        <3>2. ASSUME NEW j \in 1..Len(t), j > Len(s) + i PROVE t[j].prefix # p
            <4>1. j > Len(s) /\ j - Len(s) # i
                BY <1>a, <2>1, <3>2
            <4> QED BY <1>b, <2>1, <4>1
        <3>3. Bound(p, t) = d[i].ns
            <4>1. t \in Seq(Binding) /\ t[Len(s) + i].prefix = p
                BY <1>a, <2>1, <3>1
            <4>2. Bound(p, t) = t[Len(s) + i].ns
                BY <2>3, <3>1, <3>2, <4>1, BoundByLast
            <4> QED BY <3>1, <4>2
        <3> QED BY <1>1, <3>3 DEF i
    <2> QED BY <2>2, <2>3
<1>2. CASE ~\E i \in DOMAIN d : d[i].prefix = p
    <2>1. CASE p = Xml
        BY <1>2, <2>1, BoundXml
    <2>2. CASE p # Xml /\ \A j \in 1..Len(s) : s[j].prefix # p
        <3>1. \A j \in 1..Len(t) : t[j].prefix # p
            <4> TAKE j \in 1..Len(t)
            <4>1. CASE j <= Len(s)
                BY <1>a, <2>2, <4>1
            <4>2. CASE j > Len(s)
                BY SMTT(20), ZenonT(30), <1>a, <1>b, <1>2, <4>2
            <4> QED BY <1>a, <4>1, <4>2
        <3> QED BY <1>a, <1>2, <2>2, <3>1, BoundByNone
    <2>3. CASE p # Xml /\ \E j \in 1..Len(s) : s[j].prefix = p
        <3>1. PICK i \in 1..Len(s) :
                 s[i].prefix = p /\ \A j \in 1..Len(s) : j > i => s[j].prefix # p
            BY SMTT(20), ZenonT(30), <2>3, LastBinding
        <3>2. Bound(p, s) = s[i].ns
            BY <2>3, <3>1, BoundByLast
        <3>3. /\ i \in 1..Len(t) /\ t[i] = s[i]
              /\ \A j \in 1..Len(t) : j > i => t[j].prefix # p
            <4>1. i \in 1..Len(t) /\ t[i] = s[i]
                BY <1>a
            <4>2. ASSUME NEW j \in 1..Len(t), j > i, j <= Len(s)
                  PROVE  t[j].prefix # p
                BY <1>a, <3>1, <4>2
            <4>3. ASSUME NEW j \in 1..Len(t), j > Len(s)
                  PROVE  t[j].prefix # p
                BY SMTT(20), ZenonT(30), <1>a, <1>b, <1>2, <4>3
            <4> QED BY <1>a, <4>1, <4>2, <4>3
        <3>4. Bound(p, t) = s[i].ns
            <4>1. t \in Seq(Binding) /\ t[i].prefix = p
                BY <1>a, <3>1, <3>3
            <4>2. Bound(p, t) = t[i].ns
                BY <2>3, <3>3, <4>1, BoundByLast
            <4> QED BY <3>3, <4>2
        <3> QED BY <1>2, <3>2, <3>4
    <2> QED BY <2>1, <2>2, <2>3
<1> QED BY <1>1, <1>2

-----------------------------------------------------------------------------
(* What an accepted StartElement brings. *)
LEMMA DeclsType ==
    ASSUME NEW e \in Events, e.kind = "StartElement"
    PROVE  /\ e.decls \in Seq(Binding) /\ e.attrs \in Seq(ExpandedName)
           /\ e.prefix \in PrefixSet /\ e.local \in Locals /\ e.ns \in NameSet
BY EventsAssumption

LEMMA NoneOpen == <<>> \in Seq(OpenElement) /\ <<>> \in Seq(Binding)
BY EmptySeq

LEMMA OpenFacts ==
    ASSUME IInv
    PROVE  /\ open \in Seq(OpenElement) /\ DOMAIN open = 1..Len(open) /\ Len(open) \in Nat
           /\ bindings \in Seq(Binding) /\ Len(bindings) \in Nat
           /\ \A i \in 1..Len(open) :
                 /\ open[i] \in OpenElement /\ open[i].mark \in Nat
                 /\ open[i].mark <= Len(bindings)
           /\ \A i, j \in 1..Len(open) : i <= j => open[i].mark <= open[j].mark
<1>1. /\ open \in Seq(OpenElement) /\ DOMAIN open = 1..Len(open) /\ Len(open) \in Nat
      /\ bindings \in Seq(Binding) /\ Len(bindings) \in Nat
    BY DEF IInv, TypeOK
<1>2. ASSUME NEW i \in 1..Len(open) PROVE open[i] \in OpenElement /\ open[i].mark \in Nat
    <2>1. open[i] \in OpenElement
        BY <1>1
    <2> QED BY <2>1 DEF OpenElement
<1> QED BY <1>1, <1>2 DEF IInv, MarksNest

LEMMA StartStep ==
    ASSUME IInv, NEW e \in Events, Accepts(e), StartElement(e), last' = "accepted"
    PROVE  IInv'
<1>1. /\ bindings' = bindings \o e.decls /\ bindings' \in Seq(Binding)
      /\ Len(bindings') = Len(bindings) + Len(e.decls)
      /\ Len(bindings) \in Nat /\ Len(e.decls) \in Nat
    BY DeclsType, ConcatProperties DEF IInv, TypeOK, StartElement
<1> DEFINE element == [prefix |-> e.prefix, local |-> e.local, ns |-> e.ns,
                       mark |-> Len(bindings)]
<1>2. open \in Seq(OpenElement) /\ element \in OpenElement /\ open' = Append(open, element)
    BY <1>1, DeclsType DEF IInv, TypeOK, StartElement, OpenElement
<1> HIDE DEF element
<1>3. /\ open' \in Seq(OpenElement) /\ open' # <<>>
      /\ Len(open') = Len(open) + 1
      /\ \A i \in 1..Len(open) : open'[i] = open[i]
      /\ open'[Len(open) + 1] = element
      /\ DOMAIN open' = 1..Len(open') /\ DOMAIN open = 1..Len(open) /\ Len(open) \in Nat
    BY <1>2, AppendProperties
<1>4. TypeOK'
    BY <1>1, <1>3 DEF IInv, TypeOK, StartElement
<1>5. MarksNest'
    <2>1. element.mark = Len(bindings)
        BY DEF element
    <2>2. ASSUME NEW i \in 1..Len(open')
          PROVE  open'[i].mark \in Nat /\ open'[i].mark <= Len(bindings)
        BY <1>1, <1>3, <2>1, OpenFacts
    <2>3. ASSUME NEW i \in 1..Len(open'), NEW j \in 1..Len(open'), i <= j
          PROVE  open'[i].mark <= open'[j].mark
        <3>1. CASE j = Len(open) + 1
            BY <1>3, <2>1, <2>2, <3>1
        <3>2. CASE j # Len(open) + 1
            <4>1. i \in 1..Len(open) /\ j \in 1..Len(open)
                BY <1>3, <2>3, <3>2
            <4> QED BY <1>3, <2>3, <4>1, OpenFacts
        <3> QED BY <3>1, <3>2
    <2>4. \A i \in 1..Len(open') : open'[i].mark <= Len(bindings')
        BY <1>1, <2>2
    <2> QED BY <1>3, <2>3, <2>4 DEF MarksNest
<1>6. PlaceFits'
    BY <1>3 DEF PlaceFits, StartElement
<1> QED BY <1>4, <1>5, <1>6 DEF IInv

LEMMA EndStep ==
    ASSUME IInv, NEW e \in Events, Accepts(e), EndElement(e), last # "refused", last' = "accepted"
    PROVE  IInv'
<1>1. /\ open # <<>> /\ phase # "Outside"
      /\ open \in Seq(OpenElement) /\ bindings \in Seq(Binding)
      /\ Len(open) \in Nat \ {0} /\ DOMAIN open = 1..Len(open)
      /\ Len(bindings) \in Nat
    BY DEF IInv, TypeOK, EndElement, Accepts, ClosesElement
<1> DEFINE top == open[Len(open)]
<1>2. top \in OpenElement /\ top.mark \in 0..Len(bindings)
    BY <1>1, OpenFacts
<1>3. /\ open' \in Seq(OpenElement) /\ Len(open') = Len(open) - 1
      /\ \A i \in 1..(Len(open) - 1) : open'[i] = open[i]
      /\ DOMAIN open' = 1..(Len(open) - 1)
    <2>1. open' = SubSeq(open, 1, Len(open) - 1)
        BY DEF EndElement, LeaveScope, Front
    <2> QED BY <1>1, <2>1, SubSeqProperties
<1>4. bindings' \in Seq(Binding) /\ Len(bindings') = top.mark
    <2>1. bindings' = SubSeq(bindings, 1, top.mark)
        BY DEF EndElement, LeaveScope, Last
    <2>2. \A i \in 1..top.mark : bindings[i] \in Binding
        BY <1>1, <1>2
    <2> QED BY <1>2, <2>1, <2>2, SubSeqProperties
<1>5. TypeOK'
    BY <1>3, <1>4 DEF IInv, TypeOK, EndElement
<1>6. MarksNest'
    <2>1. ASSUME NEW i \in 1..(Len(open) - 1)
          PROVE  open'[i].mark <= Len(bindings')
        BY <1>1, <1>3, <1>4 DEF IInv, MarksNest
    <2>2. ASSUME NEW i \in 1..(Len(open) - 1), NEW j \in 1..(Len(open) - 1), i <= j
          PROVE  open'[i].mark <= open'[j].mark
        BY <1>1, <1>3, <2>2, OpenFacts
    <2> QED BY <1>3, <2>1, <2>2 DEF MarksNest
<1>7. PlaceFits'
    <2>1. phase = "Content"
        BY <1>1 DEF IInv, PlaceFits
    <2>2. open' = <<>> <=> Len(open) = 1
        BY <1>1, <1>3
    <2> QED BY <2>1, <2>2 DEF PlaceFits, EndElement
<1> QED BY <1>5, <1>6, <1>7 DEF IInv

LEMMA RefusedStep ==
    ASSUME IInv, NEW e \in Events, Refuse(e)
    PROVE  IInv'
<1>1. /\ open' = open /\ last' = "refused"
      /\ phase' \in {phase, "Content"} /\ seenDoctype' \in BOOLEAN
    BY DEF Refuse, HalfDone, IInv, TypeOK
<1>2. bindings' \in Seq(Binding) /\ Len(bindings') >= Len(bindings)
    <2>1. CASE bindings' = bindings
        BY <2>1 DEF IInv, TypeOK
    <2>2. CASE bindings' # bindings
        <3>1. PICK n \in Nat :
                 /\ e.kind = "StartElement" /\ n <= Len(e.decls)
                 /\ bindings' = bindings \o SubSeq(e.decls, 1, n)
            <4> DEFINE reach == Len(Declared(e.decls))
            <4>1. e.kind = "StartElement" /\ \E n \in {reach} \union 0..reach :
                     bindings' = bindings \o SubSeq(e.decls, 1, n)
                BY <2>2 DEF Refuse, HalfDone
            <4>2. reach \in 0..Len(e.decls) /\ Len(e.decls) \in Nat
                BY <4>1, DeclsType, DeclaredLength
            <4> HIDE DEF reach
            <4>3. \A n \in {reach} \union 0..reach : n \in Nat /\ n <= Len(e.decls)
                BY <4>2
            <4> QED BY <4>1, <4>3
        <3>2. SubSeq(e.decls, 1, n) \in Seq(Binding) /\ Len(SubSeq(e.decls, 1, n)) \in Nat
            <4>1. \A i \in 1..n : e.decls[i] \in Binding
                BY <3>1, DeclsType
            <4> QED BY <4>1, SubSeqProperties
        <3> QED BY <3>1, <3>2, ConcatProperties DEF IInv, TypeOK
    <2> QED BY <2>1, <2>2
<1>3. TypeOK'
    BY <1>1, <1>2 DEF IInv, TypeOK
<1>4. MarksNest'
    <2>1. \A i \in DOMAIN open : open[i].mark \in Nat
        BY OpenFacts
    <2>2. Len(bindings) \in Nat /\ Len(bindings') \in Nat
        BY <1>2 DEF IInv, TypeOK
    <2> QED BY <1>1, <1>2, <2>1, <2>2 DEF IInv, MarksNest
<1>5. PlaceFits'
    BY <1>1 DEF PlaceFits
<1> QED BY <1>3, <1>4, <1>5 DEF IInv

LEMMA InvariantStep == IInv /\ [Next]_vars => IInv'
<1> SUFFICES ASSUME IInv, [Next]_vars PROVE IInv'
    OBVIOUS
<1>1. CASE Finish
    BY <1>1 DEF Finish, IInv, TypeOK, MarksNest, PlaceFits
<1>2. ASSUME NEW e \in Events, last # "refused", Accept(e)
      PROVE  IInv'
    <2>1. CASE StartElement(e)
        BY <1>2, <2>1, StartStep DEF Accept
    <2>2. CASE EndElement(e)
        BY <1>2, <2>2, EndStep DEF Accept
    <2>3. CASE Passing(e) \/ Doctype(e)
        BY <1>2, <2>3 DEF Accept, Accepts, Passing, Doctype, IInv, TypeOK, MarksNest, PlaceFits
    <2>4. CASE StartDocument(e)
        <3>1. open' = <<>> /\ bindings' = <<>> /\ phase' = "Prolog" /\ seenDoctype' = FALSE
            BY <2>4 DEF StartDocument, ClearDocument
        <3>2. TypeOK'
            BY <1>2, <3>1, NoneOpen DEF Accept, TypeOK
        <3>3. MarksNest' /\ PlaceFits'
            BY <3>1 DEF MarksNest, PlaceFits
        <3> QED BY <3>2, <3>3 DEF IInv
    <2>5. CASE EndDocument(e)
        BY <1>2, <2>5 DEF Accept, EndDocument, IInv, TypeOK, MarksNest, PlaceFits
    <2> QED BY <1>2, <2>1, <2>2, <2>3, <2>4, <2>5 DEF Accept
<1>3. ASSUME NEW e \in Events, Refuse(e)
      PROVE  IInv'
    BY <1>3, RefusedStep
<1>4. CASE UNCHANGED vars
    BY <1>4 DEF vars, IInv, TypeOK, MarksNest, PlaceFits
<1> QED BY <1>1, <1>2, <1>3, <1>4 DEF Next, Consume

(* The stacks nest and agree with the place in the document, whatever      *)
(* events a producer reports (event/strict.rs, open and bindings).         *)
THEOREM Invariant == Spec => []IInv
<1>1. Init => IInv
    <2> SUFFICES ASSUME Init PROVE IInv
        OBVIOUS
    <2>1. TypeOK
        BY NoneOpen DEF Init, TypeOK
    <2>2. MarksNest /\ PlaceFits
        BY DEF Init, MarksNest, PlaceFits
    <2> QED BY <2>1, <2>2 DEF IInv
<1> QED BY <1>1, InvariantStep, PTL DEF Spec

-----------------------------------------------------------------------------
(* The path of the rules is as long as the stack of open elements.         *)
LEMMA PathFacts ==
    ASSUME IInv
    PROVE  /\ DOMAIN Path = 1..Len(open) /\ Len(Path) = Len(open)
           /\ Path = <<>> <=> open = <<>>
           /\ \A S : (\A i \in 1..Len(open) : Path[i] \in S) => Path \in Seq(S)
<1>1. DOMAIN Path = 1..Len(open) /\ Len(open) \in Nat
    BY OpenFacts DEF Path
<1>2. ASSUME NEW S, \A i \in 1..Len(open) : Path[i] \in S
      PROVE  Path \in Seq(S)
    <2>1. Path \in [1..Len(open) -> S]
        BY <1>1, <1>2 DEF Path
    <2> QED BY <1>1, <2>1, SeqDef
<1>3. PICK S : \A i \in 1..Len(open) : Path[i] \in S
    <2> WITNESS {Path[i] : i \in 1..Len(open)}
    <2> QED OBVIOUS
<1>4. Path \in Seq(S)
    BY <1>2, <1>3
<1>5. Len(Path) = Len(open)
    BY <1>1, <1>4, LenProperties
<1>6. Path = <<>> <=> open = <<>>
    BY <1>4, <1>5, OpenFacts, EmptySeq
<1> QED BY <1>1, <1>2, <1>5, <1>6

(* The environment an element would be opened in is the stack of bindings. *)
LEMMA ScopeIsBindings ==
    ASSUME IInv, last # "refused", phase \in {"Prolog", "Content"}
    PROVE  Rules!Scope = [p \in PrefixSet |-> Bound(p, bindings)]
<1>1. CASE open = <<>>
    <2>1. bindings = <<>>
        BY <1>1 DEF IInv, PlaceFits
    <2>2. Rules!Scope = [p \in PrefixSet |-> IF p = Xml THEN XmlNs ELSE None]
        BY <1>1, PathFacts DEF Rules!Scope, Rules!NoBindings, PrefixSet
    <2>3. ASSUME NEW p \in PrefixSet
          PROVE  Bound(p, <<>>) = IF p = Xml THEN XmlNs ELSE None
        <3>1. <<>> \in Seq(Binding) /\ \A j \in 1..Len(<<>>) : <<>>[j].prefix # p
            BY NoneOpen
        <3>2. p # Xml => Bound(p, <<>>) = None
            BY <3>1, BoundByNone
        <3> QED BY <3>2, BoundXml
    <2> QED BY <2>1, <2>2, <2>3
<1>2. CASE open # <<>>
    <2>1. Len(open) \in 1..Len(open) /\ Len(open) \in DOMAIN open
        BY <1>2, OpenFacts, EmptySeq
    <2>2. Rules!Scope = Path[Len(open)].env
        BY <1>2, PathFacts DEF Rules!Scope
    <2>3. Path[Len(open)].env = Env(Len(open))
        BY <2>1 DEF Path
    <2>4. SubSeq(bindings, 1, Len(bindings)) = bindings
        BY OpenFacts, SubSeqFull
    <2>5. Env(Len(open)) = [p \in PrefixSet |-> Bound(p, bindings)]
        BY <2>4 DEF Env, Reach
    <2> QED BY <2>2, <2>3, <2>5
<1> QED BY <1>1, <1>2

(* The declarations of an element bring their environment into scope.      *)
LEMMA WithinIsConcat ==
    ASSUME IInv, last # "refused", phase \in {"Prolog", "Content"},
           NEW d \in Seq(Binding),
           \A i \in DOMAIN d : ~BadDeclaration(d[i]),
           \A i, j \in DOMAIN d : i # j => d[i].prefix # d[j].prefix
    PROVE  Rules!Within(Rules!Scope, d) = [p \in PrefixSet |-> Bound(p, bindings \o d)]
<1>1. Rules!Within(Rules!Scope, d) =
        [p \in PrefixSet |->
           IF \E i \in DOMAIN d : d[i].prefix = p
           THEN d[CHOOSE i \in DOMAIN d : d[i].prefix = p].ns ELSE Bound(p, bindings)]
    BY ScopeIsBindings DEF Rules!Within
<1>2. ASSUME NEW p \in PrefixSet
      PROVE  Bound(p, bindings \o d) =
               IF \E i \in DOMAIN d : d[i].prefix = p
               THEN d[CHOOSE i \in DOMAIN d : d[i].prefix = p].ns ELSE Bound(p, bindings)
    BY OpenFacts, DeclarationsBind
<1> QED BY <1>1, <1>2

(* The two ways to say that nothing is given twice. *)
LEMMA DistinctDecls ==
    ASSUME NEW d \in Seq(Binding)
    PROVE  ~Repeats(d, LAMBDA b : b.prefix) <=>
             \A i, j \in DOMAIN d : i # j => d[i].prefix # d[j].prefix
<1>1. DOMAIN d = 1..Len(d) /\ Len(d) \in Nat
    OBVIOUS
<1>2. Repeats(d, LAMBDA b : b.prefix) <=>
        \E i \in DOMAIN d, j \in DOMAIN d : i < j /\ d[i].prefix = d[j].prefix
    BY DEF Repeats
<1> QED BY <1>1, <1>2

LEMMA DistinctAttrs ==
    ASSUME NEW a \in Seq(ExpandedName)
    PROVE  ~Repeats(a, LAMBDA b : <<b.ns, b.local>>) <=>
             \A i, j \in DOMAIN a : i # j => <<a[i].ns, a[i].local>> # <<a[j].ns, a[j].local>>
<1> DEFINE same(i, j) == <<a[i].ns, a[i].local>> = <<a[j].ns, a[j].local>>
<1>1. DOMAIN a = 1..Len(a) /\ Len(a) \in Nat
    OBVIOUS
<1>2. Repeats(a, LAMBDA b : <<b.ns, b.local>>) <=>
        \E i \in DOMAIN a, j \in DOMAIN a : i < j /\ same(i, j)
    BY DEF Repeats
<1>3. \A i, j : same(i, j) => same(j, i)
    OBVIOUS
<1>4. SUFFICES (\E i \in DOMAIN a, j \in DOMAIN a : i < j /\ same(i, j)) <=>
               (\E i, j \in DOMAIN a : i # j /\ same(i, j))
    BY <1>2, Zenon
<1> HIDE DEF same
<1> QED BY <1>1, <1>3

(* A start is accepted where the rules allow one.                          *)
LEMMA StartAgrees ==
    ASSUME IInv, last # "refused", phase # "Outside", NEW e \in Events, e.kind = "StartElement"
    PROVE  Lexical(e) /\ OpensElement(e)
             <=> phase \in {"Prolog", "Content"} /\ Rules!StartAllowed(e)
<1> DEFINE decls == e.decls
           attrs == e.attrs
           apart == \A i, j \in DOMAIN decls : i # j => decls[i].prefix # decls[j].prefix
           single == \A i, j \in DOMAIN attrs : i # j =>
                        <<attrs[i].ns, attrs[i].local>> # <<attrs[j].ns, attrs[j].local>>
           may == \A i \in DOMAIN decls : ~BadDeclaration(decls[i])
           scope == bindings \o decls
           within == [p \in PrefixSet |-> Bound(p, scope)]
<1>1. decls \in Seq(Binding) /\ attrs \in Seq(ExpandedName) /\ e.prefix \in PrefixSet
    BY DeclsType
<1>2. Lexical(e) <=> apart /\ single
    <2>1. Lexical(e) <=> /\ ~Repeats(decls, LAMBDA d : d.prefix)
                         /\ ~Repeats(attrs, LAMBDA a : <<a.ns, a.local>>)
        BY Zenon DEF Lexical
    <2>2. ~Repeats(decls, LAMBDA d : d.prefix) <=> apart
        BY <1>1, DistinctDecls
    <2>3. ~Repeats(attrs, LAMBDA a : <<a.ns, a.local>>) <=> single
        BY <1>1, DistinctAttrs
    <2> QED BY <2>1, <2>2, <2>3, Zenon
<1>3. (FirstBad(decls) = 0) <=> may
    BY <1>1, NoneBad
<1>4. Rules!StartAllowed(e) <=>
        /\ apart /\ single /\ may
        /\ Rules!NameAllowed(e, Rules!Within(Rules!Scope, decls))
        /\ \A i \in DOMAIN attrs :
              Rules!AttributeAllowed(attrs[i], Rules!Within(Rules!Scope, decls))
    BY Zenon DEF Rules!StartAllowed, Rules!Distinct, MayDeclare
<1>5. OpensElement(e) <=>
        /\ phase \in {"Prolog", "Content"} /\ FirstBad(decls) = 0
        /\ ElementNamed(e, scope)
        /\ \A i \in DOMAIN attrs : AttributeNamed(attrs[i], scope)
    BY DEF OpensElement
<1>6. ElementNamed(e, scope) <=> Rules!NameAllowed(e, within)
    BY <1>1 DEF ElementNamed, Unbound, Rules!NameAllowed
<1>7. ASSUME NEW i \in DOMAIN attrs
      PROVE  AttributeNamed(attrs[i], scope) <=> Rules!AttributeAllowed(attrs[i], within)
    <2>1. attrs[i].prefix \in PrefixSet
        <3>1. attrs[i] \in ExpandedName
            BY <1>1
        <3> QED BY <3>1 DEF ExpandedName
    <2> QED BY <2>1 DEF AttributeNamed, Unbound, Rules!AttributeAllowed, Rules!NameAllowed
<1>8. ASSUME phase \in {"Prolog", "Content"}, apart, may
      PROVE  Rules!Within(Rules!Scope, decls) = within
    BY <1>1, <1>8, WithinIsConcat
<1> HIDE DEF decls, attrs, apart, single, may, scope, within
<1> QED BY <1>2, <1>3, <1>4, <1>5, <1>6, <1>7, <1>8

(* An end is accepted where the rules allow one: an element is open only   *)
(* in the content.                                                         *)
LEMMA EndAgrees ==
    ASSUME IInv, last # "refused", phase # "Outside", NEW e
    PROVE  ClosesElement(e) <=> phase = "Content" /\ Rules!EndAllowed(e)
<1>1. open # <<>> <=> phase = "Content"
    BY DEF IInv, PlaceFits
<1>2. CASE open = <<>>
    BY <1>1, <1>2 DEF ClosesElement
<1>3. CASE open # <<>>
    <2>1. Len(open) \in DOMAIN open
        BY <1>3, OpenFacts, EmptySeq
    <2> DEFINE top == open[Len(open)]
    <2>2. /\ Path[Len(Path)].prefix = top.prefix /\ Path[Len(Path)].local = top.local
          /\ Path[Len(Path)].ns = top.ns
        BY <2>1, PathFacts DEF Path
    <2>3. Path # <<>>
        BY <1>3, PathFacts
    <2>4. ClosesElement(e) <=> <<top.prefix, top.local>> = <<e.prefix, e.local>> /\ top.ns = e.ns
        BY <1>3 DEF ClosesElement, Last
    <2>5. Rules!EndAllowed(e) <=> <<top.prefix, top.local, top.ns>> = <<e.prefix, e.local, e.ns>>
        BY <2>2, <2>3 DEF Rules!EndAllowed
    <2> QED BY <1>1, <1>3, <2>4, <2>5
<1> QED BY <1>2, <1>3

LEMMA AcceptsWhatIsAllowed ==
    ASSUME IInv, last # "refused", NEW e \in Events
    PROVE  Accepts(e) <=> Rules!Allowed(e)
<1>1. e.kind \in Kinds /\ phase \in {"Outside", "Prolog", "Content", "Epilog"}
    BY EventsAssumption DEF IInv, TypeOK
<1>2. phase # "Outside" => (phase = "Content" <=> open # <<>>)
    BY DEF IInv, PlaceFits
<1>3. CASE e.kind = "StartElement"
    <2>1. CASE phase = "Outside"
        BY <1>3, <2>1 DEF Accepts, Rules!Allowed
    <2>2. CASE phase # "Outside"
        BY <1>3, <2>2, StartAgrees DEF Accepts, Rules!Allowed
    <2> QED BY <2>1, <2>2
<1>4. CASE e.kind = "EndElement"
    <2>1. CASE phase = "Outside"
        BY <1>4, <2>1 DEF Accepts, Rules!Allowed
    <2>2. CASE phase # "Outside"
        BY <1>4, <2>2, EndAgrees DEF Accepts, Rules!Allowed, Lexical
    <2> QED BY <2>1, <2>2
<1>5. CASE e.kind \in {"StartDocument", "EndDocument"}
    BY <1>1, <1>2, <1>5 DEF Accepts, Rules!Allowed, Lexical
<1>6. CASE e.kind \in {"Doctype", "Characters", "Cdata"}
    BY <1>1, <1>6 DEF Accepts, Rules!Allowed, Lexical
<1>7. CASE e.kind \in {"Comment", "ProcessingInstruction"}
    BY <1>1, <1>7 DEF Accepts, Rules!Allowed, Lexical
<1> QED BY <1>1, <1>3, <1>4, <1>5, <1>6, <1>7 DEF Kinds

(* In every state the checks accept exactly the events that the rules of   *)
(* XML and its namespaces allow there (event/strict.rs, check).            *)
THEOREM Enforcement == Spec => []EnforcesTheRules
<1>1. IInv => EnforcesTheRules
    BY AcceptsWhatIsAllowed DEF EnforcesTheRules
<1> QED BY <1>1, Invariant, PTL

-----------------------------------------------------------------------------
(* What a step does to the path.  An environment depends on the bindings   *)
(* up to a mark alone, so it outlives whatever is bound or dropped above.  *)
LEMMA PathStutters ==
    ASSUME UNCHANGED <<open, bindings>>
    PROVE  Path' = Path
BY DEF Path, Env, Reach

LEMMA PathStarts ==
    ASSUME IInv, last # "refused", phase \in {"Prolog", "Content"},
           NEW e \in Events, e.kind = "StartElement", Lexical(e), OpensElement(e), StartElement(e)
    PROVE  Path' = Append(Path, [prefix |-> e.prefix, local |-> e.local, ns |-> e.ns,
                                 env |-> Rules!Within(Rules!Scope, e.decls)])
<1>0. PICK n \in Nat : n = Len(open)
    BY OpenFacts
<1> DEFINE element == [prefix |-> e.prefix, local |-> e.local, ns |-> e.ns, mark |-> Len(bindings)]
           within == Rules!Within(Rules!Scope, e.decls)
           last1 == [prefix |-> e.prefix, local |-> e.local, ns |-> e.ns, env |-> within]
<1>1. /\ e.decls \in Seq(Binding) /\ open \in Seq(OpenElement) /\ bindings \in Seq(Binding)
      /\ DOMAIN open = 1..n /\ Len(bindings) \in Nat /\ element \in OpenElement
      /\ \A i \in 1..n : open[i].mark \in 0..Len(bindings)
    BY SMTT(20), ZenonT(30), <1>0, DeclsType, OpenFacts DEF OpenElement
<1>2. /\ bindings' = bindings \o e.decls /\ bindings' \in Seq(Binding)
      /\ Len(bindings') = Len(bindings) + Len(e.decls)
      /\ \A i \in 1..Len(bindings) : bindings'[i] = bindings[i]
      /\ Len(e.decls) \in Nat
    BY <1>1, ConcatProperties DEF StartElement
<1>3. /\ Len(open') = n + 1 /\ DOMAIN open' = 1..(n + 1)
      /\ open'[n + 1] = element /\ \A i \in 1..n : open'[i] = open[i]
    <2>1. open' = Append(open, element)
        BY DEF StartElement
    <2> HIDE DEF element
    <2> QED BY <1>0, <1>1, <2>1, AppendProperties
<1>4. within = [p \in PrefixSet |-> Bound(p, bindings')]
    <2>1. \A i \in DOMAIN e.decls : ~BadDeclaration(e.decls[i])
        BY <1>1, NoneBad DEF OpensElement
    <2>2. \A i, j \in DOMAIN e.decls : i # j => e.decls[i].prefix # e.decls[j].prefix
        <3>1. ~Repeats(e.decls, LAMBDA d : d.prefix)
            BY Zenon DEF Lexical
        <3> QED BY <1>1, <3>1, DistinctDecls
    <2> QED BY <1>1, <1>2, <2>1, <2>2, WithinIsConcat
(* The marks of the elements that were open stay below the new bindings. *)
<1>5. ASSUME NEW i \in 1..n
      PROVE  Env(i)' = Env(i)
    <2>1. Reach(i) \in 0..Len(bindings)
        <3>1. i # n => i + 1 \in 1..n
            OBVIOUS
        <3> QED BY <1>0, <1>1, <3>1 DEF Reach
    <2>2. Reach(i)' = Reach(i)
        <3>1. CASE i = n
            BY <1>0, <1>3, <3>1 DEF Reach
        <3>2. CASE i # n
            <4>1. i + 1 \in 1..n
                BY <3>2
            <4> QED BY <1>0, <1>3, <3>2, <4>1 DEF Reach
        <3> QED BY <3>1, <3>2
    <2>3. SubSeq(bindings', 1, Reach(i)) = SubSeq(bindings, 1, Reach(i))
        <3>1. Reach(i) \in 0..Len(bindings')
            BY <1>1, <1>2, <2>1
        <3> QED BY <1>1, <1>2, <2>1, <3>1, SamePrefix
    <2> QED BY <2>2, <2>3 DEF Env
<1>6. Env(n + 1)' = within
    <2>1. Env(n + 1)' = [p \in PrefixSet |-> Bound(p, SubSeq(bindings', 1, Len(bindings')))]
        BY <1>3 DEF Env, Reach
    <2> QED BY <1>2, <1>4, <2>1, SubSeqFull
<1>7. /\ DOMAIN Path' = 1..(n + 1) /\ Path'[n + 1] = last1
      /\ \A i \in 1..n : Path'[i] = Path[i]
    <2>1. DOMAIN Path' = 1..(n + 1)
        BY <1>3 DEF Path
    <2>2. \A i \in 1..(n + 1) :
             Path'[i] = [prefix |-> open'[i].prefix, local |-> open'[i].local,
                         ns |-> open'[i].ns, env |-> Env(i)']
        BY <1>3 DEF Path
    <2>3. \A i \in 1..n :
             Path[i] = [prefix |-> open[i].prefix, local |-> open[i].local,
                        ns |-> open[i].ns, env |-> Env(i)]
        BY <1>1 DEF Path
    <2>4. n + 1 \in 1..(n + 1) /\ \A i \in 1..n : i \in 1..(n + 1)
        BY <1>1
    <2>5. Path'[n + 1] = last1
        BY <1>3, <1>6, <2>2, <2>4
    <2>6. \A i \in 1..n : Path'[i] = Path[i]
        BY <1>3, <1>5, <2>2, <2>3, <2>4
    <2> QED BY <2>1, <2>5, <2>6
<1>8. Path' = Append(Path, last1)
    <2>1. PICK S : last1 \in S /\ \A i \in 1..n : Path[i] \in S
        <3> WITNESS {last1} \union {Path[i] : i \in 1..n}
        <3> QED OBVIOUS
    <2> HIDE DEF last1
    <2>2. Path \in Seq(S) /\ Len(Path) = n
        BY <1>0, <2>1, PathFacts
    <2>3. Path' = [i \in DOMAIN Path' |-> Path'[i]]
        BY DEF Path
    <2> QED BY <1>7, <2>1, <2>2, <2>3, GrownByOne
<1> QED BY <1>8

LEMMA PathEnds ==
    ASSUME IInv, LeaveScope, open # <<>>
    PROVE  Path' = SubSeq(Path, 1, Len(Path) - 1)
<1>0. PICK n \in Nat : n = Len(open)
    BY OpenFacts
<1> DEFINE mark == open[n].mark
<1>1. /\ open \in Seq(OpenElement) /\ bindings \in Seq(Binding)
      /\ n \in Nat \ {0} /\ DOMAIN open = 1..n
      /\ Len(bindings) \in Nat /\ mark \in 0..Len(bindings)
      /\ \A i \in 1..n : open[i].mark \in Nat /\ open[i].mark <= mark
    <2>1. n # 0 /\ n \in 1..n
        BY <1>0, OpenFacts, EmptySeq
    <2> QED BY <1>0, <2>1, OpenFacts
<1>2. /\ Len(open') = n - 1 /\ DOMAIN open' = 1..(n - 1)
      /\ \A i \in 1..(n - 1) : open'[i] = open[i]
    <2>1. open' = SubSeq(open, 1, n - 1) /\ \A i \in 1..(n - 1) : open[i] \in OpenElement
        BY <1>0, <1>1 DEF LeaveScope, Front
    <2>2. /\ SubSeq(open, 1, n - 1) \in Seq(OpenElement) /\ Len(SubSeq(open, 1, n - 1)) = n - 1
          /\ \A i \in 1..(n - 1) : SubSeq(open, 1, n - 1)[i] = open[i]
        BY <1>1, <2>1, SubSeqProperties
    <2> QED BY <1>1, <2>1, <2>2, LenProperties
<1>3. /\ bindings' \in Seq(Binding) /\ Len(bindings') = mark
      /\ \A i \in 1..mark : bindings'[i] = bindings[i]
    <2>1. bindings' = SubSeq(bindings, 1, mark)
        BY <1>0 DEF LeaveScope, Last
    <2>2. \A i \in 1..mark : bindings[i] \in Binding
        BY <1>1
    <2> QED BY <1>1, <2>1, <2>2, SubSeqProperties
<1>4. ASSUME NEW i \in 1..(n - 1)
      PROVE  Env(i)' = Env(i)
    <2>1. Reach(i) \in 0..mark
        <3>1. i + 1 \in 1..n /\ i # n
            BY <1>1
        <3> QED BY <1>0, <1>1, <3>1 DEF Reach
    <2>2. Reach(i)' = Reach(i)
        <3>1. CASE i = n - 1
            BY <1>0, <1>1, <1>2, <1>3, <3>1 DEF Reach
        <3>2. CASE i # n - 1
            <4>1. i + 1 \in 1..(n - 1) /\ i # n
                BY <1>1, <3>2
            <4> QED BY <1>0, <1>2, <3>2, <4>1 DEF Reach
        <3> QED BY <3>1, <3>2
    <2>3. SubSeq(bindings', 1, Reach(i)) = SubSeq(bindings, 1, Reach(i))
        <3>1. Reach(i) \in 0..Len(bindings') /\ Reach(i) \in 0..Len(bindings)
              /\ \A j \in 1..Len(bindings') : bindings'[j] = bindings[j]
            BY <1>1, <1>3, <2>1
        <3> QED BY <1>1, <1>3, <3>1, SamePrefix
    <2> QED BY <2>2, <2>3 DEF Env
<1>5. DOMAIN Path' = 1..(n - 1) /\ \A i \in 1..(n - 1) : Path'[i] = Path[i]
    <2>1. DOMAIN Path' = 1..(n - 1)
        BY <1>2 DEF Path
    <2>2. \A i \in 1..(n - 1) :
             Path'[i] = [prefix |-> open'[i].prefix, local |-> open'[i].local,
                         ns |-> open'[i].ns, env |-> Env(i)']
        BY <1>2 DEF Path
    <2>3. \A i \in 1..n :
             Path[i] = [prefix |-> open[i].prefix, local |-> open[i].local,
                        ns |-> open[i].ns, env |-> Env(i)]
        BY <1>1 DEF Path
    <2>4. \A i \in 1..(n - 1) : i \in 1..n
        BY <1>1
    <2> QED BY <1>2, <1>4, <2>1, <2>2, <2>3, <2>4
<1>6. PICK S : \A i \in 1..n : Path[i] \in S
    <2> WITNESS {Path[i] : i \in 1..n}
    <2> QED OBVIOUS
<1>7. Path \in Seq(S) /\ Len(Path) = n
    BY <1>0, <1>6, PathFacts
<1>8. Path' = [i \in DOMAIN Path' |-> Path'[i]]
    BY DEF Path
<1> QED BY <1>1, <1>5, <1>7, <1>8, ShrunkByOne

(* Every step of the checks is a step of the rules. *)
LEMMA StepImplements ==
    ASSUME IInv, [Next]_vars
    PROVE  [Rules!Next]_(Rules!vars)
<1>1. CASE Finish
    BY <1>1 DEF Finish, Rules!Next, Rules!Finish
<1>2. ASSUME NEW e \in Events, last # "refused", Accept(e)
      PROVE  Rules!Next
    <2>1. Rules!Allowed(e) /\ last' = "accepted"
        BY <1>2, AcceptsWhatIsAllowed DEF Accept
    <2> SUFFICES Rules!Start(e) \/ Rules!End(e) \/ Rules!StartDocument(e)
                   \/ Rules!EndDocument(e) \/ Rules!Other(e)
        BY <1>2, <2>1 DEF Rules!Next, Rules!Accept
    <2>2. CASE StartElement(e)
        <3>1. e.kind = "StartElement" /\ phase' = "Content" /\ seenDoctype' = seenDoctype
            BY <2>2 DEF StartElement
        <3>2. Lexical(e) /\ OpensElement(e) /\ phase \in {"Prolog", "Content"}
            BY <1>2, <3>1 DEF Accept, Accepts, OpensElement
        <3>3. Path' = Append(Path, [prefix |-> e.prefix, local |-> e.local, ns |-> e.ns,
                                    env |-> Rules!Within(Rules!Scope, e.decls)])
            BY <1>2, <2>2, <3>1, <3>2, PathStarts
        <3> QED BY <3>1, <3>3 DEF Rules!Start
    <2>3. CASE EndElement(e)
        <3>1. e.kind = "EndElement" /\ LeaveScope /\ seenDoctype' = seenDoctype
              /\ phase' = IF Len(open) = 1 THEN "Epilog" ELSE phase
            BY <2>3 DEF EndElement
        <3>2. open # <<>> /\ phase # "Outside"
            BY <1>2, <3>1 DEF Accept, Accepts, ClosesElement
        <3>3. phase = "Content"
            BY <1>2, <3>2 DEF IInv, PlaceFits
        <3>4. Path' = SubSeq(Path, 1, Len(Path) - 1) /\ Len(Path) = Len(open)
            BY <3>1, <3>2, PathEnds, PathFacts
        <3> QED BY <3>1, <3>3, <3>4 DEF Rules!End
    <2>4. CASE Passing(e) \/ Doctype(e)
        <3>1. seenDoctype \in BOOLEAN
            BY DEF IInv, TypeOK
        <3> QED BY <2>4, <3>1, PathStutters DEF Passing, Doctype, Rules!Other
    <2>5. CASE StartDocument(e)
        <3>1. Path' = <<>>
            BY <2>5 DEF StartDocument, ClearDocument, Path
        <3> QED BY <2>5, <3>1 DEF StartDocument, ClearDocument, Rules!StartDocument
    <2>6. CASE EndDocument(e)
        BY <2>6, PathStutters DEF EndDocument, Rules!EndDocument
    <2> QED BY <1>2, <2>2, <2>3, <2>4, <2>5, <2>6 DEF Accept
<1>3. ASSUME NEW e \in Events, last # "refused", Refuse(e)
      PROVE  Rules!Next
    BY <1>3, AcceptsWhatIsAllowed DEF Refuse, Rules!Next, Rules!Refuse
<1>4. CASE UNCHANGED vars
    BY <1>4, PathStutters DEF vars, Rules!vars
<1> QED BY <1>1, <1>2, <1>3, <1>4 DEF Next, Consume

(* The consumer keeps what the rules need to know of a document, whatever  *)
(* became of the documents before (event/strict.rs, bindings).             *)
THEOREM Context == Spec => KeepsTheContext
<1>1. Init => Rules!Init
    <2> SUFFICES ASSUME Init PROVE Rules!Init
        OBVIOUS
    <2>1. Path = <<>>
        BY DEF Init, Path
    <2> QED BY <2>1 DEF Init, Rules!Init
<1>2. IInv /\ [Next]_vars => [Rules!Next]_(Rules!vars)
    BY StepImplements
<1> QED BY <1>1, <1>2, Invariant, PTL DEF Spec, Rules!Spec, KeepsTheContext
=============================================================================
