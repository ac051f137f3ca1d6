--------------------------- MODULE StartTagProofs ---------------------------
(***************************************************************************)
(* Proofs about StartTag for any tags, declarations and nesting: the two   *)
(* stacks give every open element the namespaces and the context the tags  *)
(* around it say.                                                          *)
(***************************************************************************)
EXTENDS StartTag, SequenceLemmas

(* What is bound in a scope: a prefix, or the default namespace, to a name *)
(* or to none.                                                             *)
ScopeBinding == [prefix : LocalSet \union {None}, ns : Values \union {None}]

-----------------------------------------------------------------------------
(* Only keeps members of its sequence, and chosen ones. *)
LEMMA OnlyTheChosen ==
    ASSUME NEW S, NEW s \in Seq(S), NEW chosen
    PROVE  Only(s, chosen) \in Seq({x \in S : x \in chosen})
<1> DEFINE T == {x \in S : x \in chosen}
           n == Len(s)
           step == [i \in 1..n |-> [v \in Seq(T) |-> IF s[i] \in chosen THEN Append(v, s[i]) ELSE v]]
           Direct(it) == it = [t \in SUBSET DOMAIN s |->
                                 IF t = {} THEN <<>>
                                 ELSE IF s[Max(t)] \in chosen
                                      THEN Append(it[t \ {Max(t)}], s[Max(t)]) ELSE it[t \ {Max(t)}]]
           picked == CHOOSE x : Direct(x)
<1>1. FoldLeft(LAMBDA only, x : IF x \in chosen THEN Append(only, x) ELSE only, <<>>, s) = picked[DOMAIN s]
    BY Zenon DEF FoldLeft, MapThenFoldSet
<1>2. DOMAIN s = 1..n /\ n \in Nat /\ \A i \in 1..n : s[i] \in S
    OBVIOUS
<1>3. <<>> \in Seq(T) /\ \A v \in Seq(T), x \in T : Append(v, x) \in Seq(T)
    OBVIOUS
<1>4. step \in [1..n -> [Seq(T) -> Seq(T)]]
    <2>1. ASSUME NEW i \in 1..n, NEW v \in Seq(T)
          PROVE  (IF s[i] \in chosen THEN Append(v, s[i]) ELSE v) \in Seq(T)
        <3>1. s[i] \in chosen => s[i] \in T
            BY <1>2
        <3> HIDE DEF T
        <3> QED BY <1>3, <3>1
    <2> HIDE DEF T
    <2> QED BY <2>1
<1>5. \A t \in SUBSET (1..n) : t # {} => Max(t) \in 1..n
    BY <1>2, GreatestPosition
<1> HIDE DEF n, T
<1>6. \E it : Direct(it)
    <2>1. PICK it \in [SUBSET (1..n) -> Seq(T)] : Folds(it, n, <<>>, step)
        <3> HIDE DEF step
        <3> QED BY <1>2, <1>3, <1>4, FoldExists
    <2>2. ASSUME NEW t \in SUBSET (1..n), t # {}
          PROVE  step[Max(t)][it[t \ {Max(t)}]]
                   = IF s[Max(t)] \in chosen THEN Append(it[t \ {Max(t)}], s[Max(t)]) ELSE it[t \ {Max(t)}]
        <3>1. it[t \ {Max(t)}] \in Seq(T) /\ Max(t) \in 1..n
            BY <1>5, <2>2
        <3> QED BY <3>1
    <2>3. it = [t \in SUBSET (1..n) |-> IF t = {} THEN <<>> ELSE step[Max(t)][it[t \ {Max(t)}]]]
        BY <2>1 DEF Folds
    <2> HIDE DEF step
    <2>4. Direct(it)
        BY <1>2, <2>2, <2>3
    <2> QED BY <2>4
<1>7. Direct(picked)
    BY <1>6
<1> HIDE DEF picked, step
<1>8. picked \in [SUBSET (1..n) -> Seq(T)]
    <2>1. picked = [t \in SUBSET (1..n) |-> picked[t]] /\ picked[{}] = <<>>
        BY <1>2, <1>7
    <2>2. ASSUME NEW t \in SUBSET (1..n), t # {}, picked[t \ {Max(t)}] \in Seq(T)
          PROVE  picked[t] \in Seq(T)
        <3>1. s[Max(t)] \in chosen => s[Max(t)] \in T
            BY <1>2, <1>5, <2>2 DEF T
        <3>2. picked[t] = IF s[Max(t)] \in chosen
                          THEN Append(picked[t \ {Max(t)}], s[Max(t)]) ELSE picked[t \ {Max(t)}]
            BY <1>2, <1>7, <2>2
        <3> QED BY <1>3, <2>2, <3>1, <3>2
    <2> QED BY <1>2, <1>3, <2>1, <2>2, FoldTyped
<1> QED BY <1>1, <1>2, <1>8 DEF Only, T

(* The attributes of a tag, and the bindings they are. *)
LEMMA AttributesType ==
    ASSUME NEW tag \in Tags
    PROVE  Attributes(tag) \in Seq(WrittenAttribute)
<1>1. Definitions(tag) \in Seq(AttributeDefinition)
    BY TagsAssumption DEF Definitions
<1>2. Supplied(tag) \in Seq({d \in AttributeDefinition : d.default # None})
    <2> DEFINE chosen == {d \in ToSet(Definitions(tag)) :
                            d.default # None /\ ~\E a \in ToSet(tag.attrs) : SameName(a, d)}
               given == {d \in AttributeDefinition : d.default # None}
               found == {d \in AttributeDefinition : d \in chosen}
    <2>1. Supplied(tag) \in Seq(found)
        BY <1>1, OnlyTheChosen DEF Supplied
    <2>2. found \subseteq given
        OBVIOUS
    <2> HIDE DEF found, given
    <2>3. Seq(found) \subseteq Seq(given)
        BY <2>2
    <2> QED BY <2>1, <2>3 DEF given
<1>3. Written(tag) \in Seq(WrittenAttribute)
    <2>1. tag.attrs \in Seq(WrittenAttribute)
        BY TagsAssumption
    <2>2. ASSUME NEW i \in DOMAIN tag.attrs
          PROVE  Written(tag)[i] \in WrittenAttribute
        <3>1. tag.attrs[i] \in WrittenAttribute
            BY <2>1
        <3> QED BY <3>1, TagAssumption DEF Written, WrittenAttribute
    <2>3. DOMAIN Written(tag) = 1..Len(tag.attrs) /\ Len(tag.attrs) \in Nat
          /\ Written(tag) = [i \in DOMAIN Written(tag) |-> Written(tag)[i]]
        BY <2>1 DEF Written
    <2> QED BY <2>1, <2>2, <2>3, ASequence
<1>4. [i \in DOMAIN Supplied(tag) |-> Default(Supplied(tag)[i])] \in Seq(WrittenAttribute)
    <2> DEFINE given == {d \in AttributeDefinition : d.default # None}
    <2>1. PICK s \in Seq(given) : s = Supplied(tag)
        BY <1>2
    <2>2. ASSUME NEW i \in DOMAIN s
          PROVE  Default(s[i]) \in WrittenAttribute
        <3>1. s[i] \in given
            OBVIOUS
        <3>2. s[i] \in AttributeDefinition /\ s[i].default \in Values
            BY <3>1 DEF AttributeDefinition
        <3> QED BY <3>2, TagAssumption DEF Default, WrittenAttribute, AttributeDefinition
    <2> DEFINE defaults == [i \in DOMAIN s |-> Default(s[i])]
    <2>3. /\ DOMAIN defaults = 1..Len(s) /\ Len(s) \in Nat /\ defaults = [i \in DOMAIN defaults |-> defaults[i]]
          /\ \A i \in 1..Len(s) : defaults[i] \in WrittenAttribute
        BY <2>2
    <2> HIDE DEF defaults
    <2>4. defaults \in Seq(WrittenAttribute)
        BY <2>3, ASequence
    <2> QED BY <2>1, <2>4 DEF defaults
<1> QED BY <1>3, <1>4 DEF Attributes

LEMMA DeclarationsType ==
    ASSUME NEW tag \in Tags
    PROVE  Declarations(tag) \in Seq(ScopeBinding)
<1> DEFINE chosen == {a \in ToSet(Attributes(tag)) : DeclaresNamespace(a)}
<1>1. Only(Attributes(tag), chosen) \in Seq({a \in WrittenAttribute : a \in chosen})
    BY AttributesType, OnlyTheChosen
<1>2. PICK s \in Seq(WrittenAttribute) : s = Only(Attributes(tag), chosen)
    <2> DEFINE found == {a \in WrittenAttribute : a \in chosen}
    <2>1. found \subseteq WrittenAttribute
        OBVIOUS
    <2>2. Only(Attributes(tag), chosen) \in Seq(found)
        BY <1>1
    <2> HIDE DEF found, chosen
    <2>3. Seq(found) \subseteq Seq(WrittenAttribute)
        BY <2>1
    <2> QED BY <2>2, <2>3
<1> DEFINE declaration(a) == [prefix |-> IF a.prefix = None THEN None ELSE a.local,
                              ns |-> IF a.value = Empty THEN None ELSE a.value]
           declarations == [i \in DOMAIN s |-> declaration(s[i])]
<1>3. Declarations(tag) = declarations
    BY <1>2 DEF Declarations
<1>4. ASSUME NEW a \in WrittenAttribute
      PROVE  declaration(a) \in ScopeBinding
    BY DEF WrittenAttribute, ScopeBinding
<1>5. /\ DOMAIN declarations = 1..Len(s) /\ Len(s) \in Nat
      /\ declarations = [i \in DOMAIN declarations |-> declarations[i]]
      /\ \A i \in 1..Len(s) : declarations[i] \in ScopeBinding
    <2>1. \A i \in 1..Len(s) : declarations[i] = declaration(s[i]) /\ s[i] \in WrittenAttribute
        OBVIOUS
    <2> HIDE DEF declaration
    <2> QED BY <1>4, <2>1
<1> HIDE DEF declarations
<1> QED BY <1>3, <1>5, ASequence

-----------------------------------------------------------------------------
(* ResolvePrefix is decided by the last binding of the prefix. *)
LEMMA ResolvedByLast ==
    ASSUME NEW s \in Seq(ScopeBinding), NEW p, NEW i \in 1..Len(s),
           s[i].prefix = p, \A j \in 1..Len(s) : j > i => s[j].prefix # p
    PROVE  ResolvePrefix(p, s) = s[i].ns
<1> DEFINE I == {j \in 1..Len(s) : s[j].prefix = p}
<1>1. i \in I /\ \A y \in I : i >= y
    OBVIOUS
<1>2. Max(I) = i
    BY <1>1 DEF Max
<1>3. SelectLastInSeq(s, LAMBDA b : b.prefix = p) = i
    BY <1>1, <1>2 DEF SelectLastInSeq
<1> QED BY <1>3 DEF ResolvePrefix

LEMMA ResolvedByNone ==
    ASSUME NEW s \in Seq(ScopeBinding), NEW p,
           \A j \in 1..Len(s) : s[j].prefix # p
    PROVE  ResolvePrefix(p, s) = None
<1>1. SelectLastInSeq(s, LAMBDA b : b.prefix = p) = 0
    BY DEF SelectLastInSeq
<1> QED BY <1>1 DEF ResolvePrefix

(* Which of the two it is: a prefix has a last binding or none. *)
LEMMA LastOfPrefix ==
    ASSUME NEW s \in Seq(ScopeBinding), NEW p, \E j \in 1..Len(s) : s[j].prefix = p
    PROVE  \E i \in 1..Len(s) : s[i].prefix = p /\ \A j \in 1..Len(s) : j > i => s[j].prefix # p
<1> DEFINE I == {j \in 1..Len(s) : s[j].prefix = p}
<1>1. Len(s) \in Nat /\ I \in SUBSET (1..Len(s)) /\ I # {}
    OBVIOUS
<1> HIDE DEF I
<1>2. PICK i \in I : \A y \in I : i >= y
    BY <1>1, LastPosition
<1>3. i \in 1..Len(s) /\ s[i].prefix = p
    BY <1>2 DEF I
<1>4. \A j \in 1..Len(s) : j > i => s[j].prefix # p
    BY <1>2, <1>3 DEF I
<1> QED BY <1>3, <1>4

LEMMA ResolvedType ==
    ASSUME NEW s \in Seq(ScopeBinding), NEW p
    PROVE  ResolvePrefix(p, s) \in Values \union {None}
<1>1. CASE \A j \in 1..Len(s) : s[j].prefix # p
    BY <1>1, ResolvedByNone
<1>2. CASE \E j \in 1..Len(s) : s[j].prefix = p
    <2>1. PICK i \in 1..Len(s) : s[i].prefix = p /\ \A j \in 1..Len(s) : j > i => s[j].prefix # p
        BY <1>2, LastOfPrefix
    <2>2. s[i] \in ScopeBinding /\ ResolvePrefix(p, s) = s[i].ns
        BY <2>1, ResolvedByLast
    <2> QED BY <2>2 DEF ScopeBinding
<1> QED BY <1>1, <1>2

(* What is bound within hides what is bound around it. *)
LEMMA InnerHidesOuter ==
    ASSUME NEW outer \in Seq(ScopeBinding), NEW inner \in Seq(ScopeBinding), NEW p
    PROVE  /\ (\E j \in 1..Len(inner) : inner[j].prefix = p) =>
                 ResolvePrefix(p, outer \o inner) = ResolvePrefix(p, inner)
           /\ (\A j \in 1..Len(inner) : inner[j].prefix # p) =>
                 ResolvePrefix(p, outer \o inner) = ResolvePrefix(p, outer)
<1> DEFINE n == Len(outer)
           whole == outer \o inner
<1>1. /\ whole \in Seq(ScopeBinding) /\ n \in Nat /\ Len(inner) \in Nat /\ Len(whole) = n + Len(inner)
      /\ \A j \in 1..n : whole[j] = outer[j]
      /\ \A j \in 1..Len(inner) : whole[n + j] = inner[j]
    OBVIOUS
<1>2. \A j \in 1..Len(whole) : j \in 1..n \/ (j - n \in 1..Len(inner) /\ whole[j] = inner[j - n])
    <2>1. ASSUME NEW j \in 1..Len(whole), j \notin 1..n
          PROVE  j - n \in 1..Len(inner) /\ n + (j - n) = j
        BY <1>1, <2>1
    <2> QED BY <1>1, <2>1
<1> HIDE DEF whole, n
<1>3. ASSUME \E j \in 1..Len(inner) : inner[j].prefix = p
      PROVE  ResolvePrefix(p, whole) = ResolvePrefix(p, inner)
    <2>1. PICK i \in 1..Len(inner) : inner[i].prefix = p /\ \A j \in 1..Len(inner) : j > i => inner[j].prefix # p
        BY <1>3, LastOfPrefix
    <2>2. n + i \in 1..Len(whole) /\ whole[n + i] = inner[i]
        BY <1>1
    <2>3. ASSUME NEW j \in 1..Len(whole), j > n + i
          PROVE  whole[j].prefix # p
        <3>1. j - n \in 1..Len(inner) /\ whole[j] = inner[j - n]
            BY <1>1, <1>2, <2>3
        <3>2. j - n > i
            BY <1>1, <2>3
        <3> QED BY <2>1, <3>1, <3>2
    <2>4. ResolvePrefix(p, whole) = whole[n + i].ns
        BY <1>1, <2>1, <2>2, <2>3, ResolvedByLast
    <2> QED BY <2>1, <2>2, <2>4, ResolvedByLast
<1>4. ASSUME \A j \in 1..Len(inner) : inner[j].prefix # p
      PROVE  ResolvePrefix(p, whole) = ResolvePrefix(p, outer)
    <2>1. \A j \in 1..Len(whole) : j \notin 1..n => whole[j].prefix # p
        BY <1>2, <1>4
    <2>2. CASE \A j \in 1..Len(outer) : outer[j].prefix # p
        <3>1. \A j \in 1..Len(whole) : whole[j].prefix # p
            BY <1>1, <2>1, <2>2 DEF n
        <3> QED BY <1>1, <2>2, <3>1, ResolvedByNone
    <2>3. CASE \E j \in 1..Len(outer) : outer[j].prefix = p
        <3>1. PICK i \in 1..Len(outer) : outer[i].prefix = p /\ \A j \in 1..Len(outer) : j > i => outer[j].prefix # p
            BY <2>3, LastOfPrefix
        <3>2. i \in 1..Len(whole) /\ whole[i] = outer[i]
            BY <1>1 DEF n
        <3>3. \A j \in 1..Len(whole) : j > i => whole[j].prefix # p
            BY <1>1, <2>1, <3>1 DEF n
        <3>4. ResolvePrefix(p, whole) = whole[i].ns
            <4>1. whole[i].prefix = p
                BY <3>1, <3>2
            <4> QED BY <1>1, <3>2, <3>3, <4>1, ResolvedByLast
        <3>5. ResolvePrefix(p, outer) = outer[i].ns
            BY <3>1, ResolvedByLast
        <3> QED BY <3>2, <3>4, <3>5
    <2> QED BY <2>2, <2>3
<1> QED BY <1>3, <1>4 DEF whole

-----------------------------------------------------------------------------
(* xml is bound, to its own name, and nothing else is bound to that. *)
Reserves(s) == \A i \in 1..Len(s) : s[i].prefix = Xml <=> s[i].ns = XmlNs
BindsXml(s) == \E i \in 1..Len(s) : s[i].prefix = Xml

LEMMA OnlyXmlIsXml ==
    ASSUME NEW s \in Seq(ScopeBinding), NEW p, Reserves(s), BindsXml(s)
    PROVE  ResolvePrefix(p, s) = XmlNs <=> p = Xml
<1>1. CASE \A j \in 1..Len(s) : s[j].prefix # p
    <2>1. p # Xml
        BY <1>1 DEF BindsXml
    <2>2. XmlNs # None
        BY StrictAssumption
    <2> QED BY <1>1, <2>1, <2>2, ResolvedByNone
<1>2. CASE \E j \in 1..Len(s) : s[j].prefix = p
    <2>1. PICK i \in 1..Len(s) : s[i].prefix = p /\ \A j \in 1..Len(s) : j > i => s[j].prefix # p
        BY <1>2, LastOfPrefix
    <2> QED BY <2>1, ResolvedByLast DEF Reserves
<1> QED BY <1>1, <1>2

(* A tag that is not refused keeps it so. *)
LEMMA DeclarationsReserve ==
    ASSUME NEW tag \in Tags, NEW outer \in Seq(ScopeBinding), Reserves(outer), BindsXml(outer),
           \A i \in DOMAIN Declarations(tag) : ~MayNotDeclare(Declarations(tag)[i])
    PROVE  /\ outer \o Declarations(tag) \in Seq(ScopeBinding)
           /\ Reserves(outer \o Declarations(tag)) /\ BindsXml(outer \o Declarations(tag))
<1>1. PICK inner \in Seq(ScopeBinding) : inner = Declarations(tag)
    BY DeclarationsType
<1>2. \A j \in 1..Len(inner) : inner[j].prefix = Xml <=> inner[j].ns = XmlNs
    <2>1. ASSUME NEW j \in 1..Len(inner)
          PROVE  ~MayNotDeclare(inner[j])
        BY <1>1
    <2> QED BY <2>1, StrictAssumption DEF MayNotDeclare
<1>3. PICK whole \in Seq(ScopeBinding) : whole = outer \o inner
    <2>1. outer \o inner \in Seq(ScopeBinding)
        OBVIOUS
    <2> QED BY <2>1
<1>4. /\ Len(whole) = Len(outer) + Len(inner) /\ Len(outer) \in Nat /\ Len(inner) \in Nat
      /\ \A j \in 1..Len(outer) : whole[j] = outer[j]
      /\ \A j \in 1..Len(whole) : j \notin 1..Len(outer) =>
            j - Len(outer) \in 1..Len(inner) /\ whole[j] = inner[j - Len(outer)]
    BY <1>3
<1>5. Reserves(whole)
    BY <1>2, <1>4 DEF Reserves
<1>6. BindsXml(whole)
    BY <1>4 DEF BindsXml
<1> QED BY <1>1, <1>3, <1>5, <1>6

-----------------------------------------------------------------------------
(* The nearest of the tags around that is in H, when one more is entered. *)
In(around, H) == {j \in DOMAIN around : around[j] \in H}

LEMMA NearestOfMore ==
    ASSUME NEW around \in Seq(Tags), NEW tag \in Tags, NEW H
    PROVE  /\ tag \in H => In(Append(around, tag), H) # {} /\ Append(around, tag)[Max(In(Append(around, tag), H))] = tag
           /\ tag \notin H => In(Append(around, tag), H) = In(around, H)
           /\ In(around, H) # {} =>
                 /\ Append(around, tag)[Max(In(around, H))] = around[Max(In(around, H))]
                 /\ around[Max(In(around, H))] \in H \intersect Tags
<1>0. PICK more : more = Append(around, tag)
    OBVIOUS
<1>1. PICK n \in Nat : n = Len(around)
    OBVIOUS
<1>2. /\ DOMAIN around = 1..n /\ DOMAIN more = 1..(n + 1) /\ more[n + 1] = tag
      /\ \A j \in 1..n : more[j] = around[j] /\ around[j] \in Tags
    BY <1>0, <1>1
<1>3. ASSUME tag \in H
      PROVE  In(more, H) # {} /\ more[Max(In(more, H))] = tag
    <2>1. In(more, H) \in SUBSET (1..(n + 1)) /\ n + 1 \in In(more, H)
        BY <1>2, <1>3 DEF In
    <2>2. n + 1 \in Nat
        OBVIOUS
    <2>3. Max(In(more, H)) = n + 1
        BY <2>1, <2>2, GreatestOfAll
    <2> QED BY <1>2, <2>1, <2>3
<1>4. ASSUME tag \notin H
      PROVE  In(more, H) = In(around, H)
    <2>1. \A j \in 1..(n + 1) : j = n + 1 \/ j \in 1..n
        OBVIOUS
    <2>2. \A j \in 1..n : j \in 1..(n + 1)
        OBVIOUS
    <2>3. ASSUME NEW j \in DOMAIN more, more[j] \in H
          PROVE  j \in DOMAIN around /\ around[j] \in H
        <3>1. j # n + 1
            BY <1>2, <1>4, <2>3
        <3> QED BY <1>2, <2>1, <2>3, <3>1
    <2>4. ASSUME NEW j \in DOMAIN around, around[j] \in H
          PROVE  j \in DOMAIN more /\ more[j] \in H
        BY <1>2, <2>2, <2>4
    <2> QED BY <2>3, <2>4, Zenon DEF In
<1>5. ASSUME In(around, H) # {}
      PROVE  /\ more[Max(In(around, H))] = around[Max(In(around, H))]
             /\ around[Max(In(around, H))] \in H \intersect Tags
    <2>1. In(around, H) \in SUBSET (1..n)
        BY <1>2 DEF In
    <2>2. Max(In(around, H)) \in In(around, H)
        BY <1>5, <2>1, GreatestPosition
    <2> QED BY <1>2, <2>1, <2>2 DEF In
<1> QED BY <1>0, <1>3, <1>4, <1>5

Declares(tag, p) == \E j \in 1..Len(Declarations(tag)) : Declarations(tag)[j].prefix = p

LEMMA NamespacesOfMore ==
    ASSUME NEW around \in Seq(Tags), NEW tag \in Tags, NEW p, p # Xml
    PROVE  NamespaceIn(Append(around, tag), p)
             = IF Declares(tag, p) THEN ResolvePrefix(p, Declarations(tag)) ELSE NamespaceIn(around, p)
<1> DEFINE those == {t \in Tags : \E d \in ToSet(Declarations(t)) : d.prefix = p}
           longer == Append(around, tag)
<1>1. \A t \in Tags : t \in those <=> Declares(t, p)
    <2>1. ASSUME NEW t \in Tags
          PROVE  (\E d \in ToSet(Declarations(t)) : d.prefix = p) <=> Declares(t, p)
        <3>1. PICK s \in Seq(ScopeBinding) : s = Declarations(t)
            BY DeclarationsType
        <3> QED BY <3>1 DEF Declares, ToSet
    <2> QED BY <2>1
<1>2. /\ \A j \in DOMAIN around : around[j] \in Tags
      /\ \A j \in DOMAIN longer : longer[j] \in Tags
    OBVIOUS
<1>3. Declaring(around, p) = In(around, those) /\ Declaring(longer, p) = In(longer, those)
    <2> HIDE DEF longer
    <2> QED BY <1>2 DEF Declaring, In
<1> HIDE DEF those
<1>4. /\ tag \in those => Declaring(longer, p) # {} /\ longer[Max(Declaring(longer, p))] = tag
      /\ tag \notin those => Declaring(longer, p) = Declaring(around, p)
      /\ Declaring(around, p) # {} => longer[Max(Declaring(around, p))] = around[Max(Declaring(around, p))]
    <2>1. /\ tag \in those => In(longer, those) # {} /\ longer[Max(In(longer, those))] = tag
          /\ tag \notin those => In(longer, those) = In(around, those)
          /\ In(around, those) # {} => longer[Max(In(around, those))] = around[Max(In(around, those))]
        BY NearestOfMore
    <2> HIDE DEF longer
    <2> QED BY <1>3, <2>1
<1> HIDE DEF longer
<1>5. CASE Declares(tag, p)
    <2>1. Declaring(longer, p) # {} /\ longer[Max(Declaring(longer, p))] = tag
        BY <1>1, <1>4, <1>5
    <2> QED BY <1>5, <2>1 DEF NamespaceIn, longer
<1>6. CASE ~Declares(tag, p)
    <2>1. Declaring(longer, p) = Declaring(around, p)
        BY <1>1, <1>4, <1>6
    <2>2. NamespaceIn(longer, p) = NamespaceIn(around, p)
        BY <1>4, <2>1 DEF NamespaceIn
    <2> QED BY <1>6, <2>2 DEF longer
<1> QED BY <1>5, <1>6

(* The bindings in scope, when one more tag is entered. *)
LEMMA ScopeOfMore ==
    ASSUME NEW around \in Seq(Tags), NEW tag \in Tags, NEW outer \in Seq(ScopeBinding), NEW p,
           Reserves(outer), BindsXml(outer),
           \A i \in DOMAIN Declarations(tag) : ~MayNotDeclare(Declarations(tag)[i]),
           ResolvePrefix(p, outer) = NamespaceIn(around, p)
    PROVE  ResolvePrefix(p, outer \o Declarations(tag)) = NamespaceIn(Append(around, tag), p)
<1>1. PICK inner \in Seq(ScopeBinding) : inner = Declarations(tag)
    BY DeclarationsType
<1>2. CASE p = Xml
    <2>1. PICK whole \in Seq(ScopeBinding) : whole = outer \o inner /\ Reserves(whole) /\ BindsXml(whole)
        BY <1>1, DeclarationsReserve
    <2>2. ResolvePrefix(Xml, whole) = XmlNs
        BY <2>1, OnlyXmlIsXml
    <2> QED BY <1>1, <1>2, <2>1, <2>2 DEF NamespaceIn
<1>3. CASE p # Xml /\ Declares(tag, p)
    <2>1. ResolvePrefix(p, outer \o inner) = ResolvePrefix(p, inner)
        BY <1>1, <1>3, InnerHidesOuter DEF Declares
    <2>2. NamespaceIn(Append(around, tag), p) = ResolvePrefix(p, inner)
        BY <1>1, <1>3, NamespacesOfMore
    <2> QED BY <1>1, <2>1, <2>2
<1>4. CASE p # Xml /\ ~Declares(tag, p)
    <2>1. ResolvePrefix(p, outer \o inner) = ResolvePrefix(p, outer)
        BY <1>1, <1>4, InnerHidesOuter DEF Declares
    <2>2. NamespaceIn(Append(around, tag), p) = NamespaceIn(around, p)
        BY <1>4, NamespacesOfMore
    <2> QED BY <1>1, <2>1, <2>2
<1> QED BY <1>2, <1>3, <1>4

-----------------------------------------------------------------------------
(* The first and the last xml:local of a tag are among its attributes. *)
LEMMA XmlsPlaces ==
    ASSUME NEW tag \in Tags, NEW local, Xmls(local, Attributes(tag)) # {}
    PROVE  /\ Max(Xmls(local, Attributes(tag))) \in Xmls(local, Attributes(tag))
           /\ Min(Xmls(local, Attributes(tag))) \in Xmls(local, Attributes(tag))
           /\ Attributes(tag)[Max(Xmls(local, Attributes(tag)))].value \in Values
           /\ Attributes(tag)[Min(Xmls(local, Attributes(tag)))].value \in Values
<1>1. PICK s : s = Attributes(tag)
    OBVIOUS
<1>2. s \in Seq(WrittenAttribute)
    BY <1>1, AttributesType
<1>3. PICK n \in Nat : n = Len(s) /\ DOMAIN s = 1..n
    BY <1>2
<1>4. Xmls(local, s) \in SUBSET (1..n) /\ Xmls(local, s) # {} /\ Xmls(local, s) \subseteq DOMAIN s
    BY <1>1, <1>3 DEF Xmls
<1>5. Max(Xmls(local, s)) \in Xmls(local, s)
    BY <1>4, GreatestPosition
<1>6. Min(Xmls(local, s)) \in Xmls(local, s)
    <2>1. Xmls(local, s) \in SUBSET Nat
        BY <1>4
    <2>2. \E x \in Xmls(local, s) : \A y \in Xmls(local, s) : x <= y
        BY <1>4, <2>1, FirstPosition
    <2> QED BY <2>2 DEF Min
<1>7. \A k \in DOMAIN s : s[k].value \in Values
    <2>1. \A k \in DOMAIN s : s[k] \in WrittenAttribute
        BY <1>2
    <2> QED BY <2>1 DEF WrittenAttribute
<1>8. Max(Xmls(local, s)) \in DOMAIN s /\ Min(Xmls(local, s)) \in DOMAIN s
    BY <1>4, <1>5, <1>6, Zenon
<1>9. s[Max(Xmls(local, s))].value \in Values /\ s[Min(Xmls(local, s))].value \in Values
    BY <1>7, <1>8
<1> QED BY <1>1, <1>5, <1>6, <1>9, Zenon

LEMMA GivenByMore ==
    ASSUME NEW around \in Seq(Tags), NEW tag \in Tags, NEW local
    PROVE  /\ Xmls(local, Attributes(tag)) # {} =>
                 /\ Giving(Append(around, tag), local) # {}
                 /\ Nearest(Append(around, tag), local)
                      = Attributes(tag)[Max(Xmls(local, Attributes(tag)))].value
           /\ Xmls(local, Attributes(tag)) = {} =>
                 /\ Giving(Append(around, tag), local) = Giving(around, local)
                 /\ Giving(around, local) # {} => Nearest(Append(around, tag), local) = Nearest(around, local)
<1> DEFINE those == {t \in Tags : Xmls(local, Attributes(t)) # {}}
           longer == Append(around, tag)
<1>1. /\ \A j \in DOMAIN around : around[j] \in Tags
      /\ \A j \in DOMAIN longer : longer[j] \in Tags
    OBVIOUS
<1>2. Giving(around, local) = In(around, those) /\ Giving(longer, local) = In(longer, those)
    <2> HIDE DEF longer
    <2> QED BY <1>1 DEF Giving, In
<1>3. tag \in those <=> Xmls(local, Attributes(tag)) # {}
    OBVIOUS
<1> HIDE DEF those
<1>4. /\ tag \in those => In(longer, those) # {} /\ longer[Max(In(longer, those))] = tag
      /\ tag \notin those => In(longer, those) = In(around, those)
      /\ In(around, those) # {} => longer[Max(In(around, those))] = around[Max(In(around, those))]
    BY NearestOfMore
<1> HIDE DEF longer
<1>5. ASSUME Xmls(local, Attributes(tag)) # {}
      PROVE  /\ Giving(longer, local) # {}
             /\ Nearest(longer, local) = Attributes(tag)[Max(Xmls(local, Attributes(tag)))].value
    <2>1. Giving(longer, local) # {} /\ longer[Max(Giving(longer, local))] = tag
        BY <1>2, <1>3, <1>4, <1>5
    <2> QED BY <2>1 DEF Nearest
<1>6. ASSUME Xmls(local, Attributes(tag)) = {}
      PROVE  /\ Giving(longer, local) = Giving(around, local)
             /\ Giving(around, local) # {} => Nearest(longer, local) = Nearest(around, local)
    <2>1. /\ Giving(longer, local) = Giving(around, local)
          /\ Giving(around, local) # {} =>
                longer[Max(Giving(around, local))] = around[Max(Giving(around, local))]
        BY <1>2, <1>3, <1>4, <1>6
    <2> QED BY <2>1 DEF Nearest
<1> QED BY <1>5, <1>6 DEF longer

-----------------------------------------------------------------------------
(* Base URIs, resolved from the outermost tag to the innermost. *)
LEMMA BaseGivenType ==
    ASSUME NEW tag \in Tags, NEW base \in Seq(Values)
    PROVE  BaseGiven(base, tag) \in Seq(Values)
<1>1. CASE Xmls("base", Attributes(tag)) = {}
    BY <1>1 DEF BaseGiven
<1>2. CASE Xmls("base", Attributes(tag)) # {}
    <2>1. PICK value \in Values : value = Attributes(tag)[Min(Xmls("base", Attributes(tag)))].value
        BY <1>2, XmlsPlaces
    <2>2. BaseGiven(base, tag) = ResolveBase(base, value)
        BY <1>2, <2>1 DEF BaseGiven
    <2>3. <<value>> \in Seq(Values) /\ Append(base, value) \in Seq(Values)
        OBVIOUS
    <2> QED BY <2>2, <2>3 DEF ResolveBase
<1> QED BY <1>1, <1>2

LEMMA FoldOfBases ==
    ASSUME NEW s \in Seq(Tags)
    PROVE  \E it \in [SUBSET (1..Len(s)) -> Seq(Values)] :
             /\ Folds(it, Len(s), DocumentBase, [i \in 1..Len(s) |-> [v \in Seq(Values) |-> BaseGiven(v, s[i])]])
             /\ FoldLeft(LAMBDA base, tag : BaseGiven(base, tag), DocumentBase, s) = it[1..Len(s)]
<1> DEFINE step == [i \in 1..Len(s) |-> [v \in Seq(Values) |-> BaseGiven(v, s[i])]]
           Direct(it) == it = [t \in SUBSET DOMAIN s |->
                                 IF t = {} THEN DocumentBase ELSE BaseGiven(it[t \ {Max(t)}], s[Max(t)])]
           chosen == CHOOSE x : Direct(x)
<1>1. FoldLeft(LAMBDA base, tag : BaseGiven(base, tag), DocumentBase, s) = chosen[DOMAIN s]
    BY Zenon DEF FoldLeft, MapThenFoldSet
<1>2. DOMAIN s = 1..Len(s) /\ Len(s) \in Nat /\ \A i \in 1..Len(s) : s[i] \in Tags
    OBVIOUS
<1>3. DocumentBase \in Seq(Values) /\ \A v \in Seq(Values), tag \in Tags : BaseGiven(v, tag) \in Seq(Values)
    BY TagAssumption, BaseGivenType
<1>4. step \in [1..Len(s) -> [Seq(Values) -> Seq(Values)]]
    BY <1>2, <1>3
<1>5. \A t \in SUBSET (1..Len(s)) : t # {} => Max(t) \in 1..Len(s)
    BY <1>2, GreatestPosition
<1>6. \E it : Direct(it)
    <2>1. PICK it \in [SUBSET (1..Len(s)) -> Seq(Values)] : Folds(it, Len(s), DocumentBase, step)
        <3> HIDE DEF step
        <3> QED BY <1>2, <1>3, <1>4, FoldExists
    <2>2. ASSUME NEW t \in SUBSET (1..Len(s)), t # {}
          PROVE  step[Max(t)][it[t \ {Max(t)}]] = BaseGiven(it[t \ {Max(t)}], s[Max(t)])
        <3>1. it[t \ {Max(t)}] \in Seq(Values) /\ Max(t) \in 1..Len(s)
            BY <1>5, <2>2
        <3> QED BY <3>1
    <2>3. it = [t \in SUBSET (1..Len(s)) |-> IF t = {} THEN DocumentBase ELSE step[Max(t)][it[t \ {Max(t)}]]]
        BY <2>1 DEF Folds
    <2> HIDE DEF step
    <2>4. Direct(it)
        BY <1>2, <2>2, <2>3
    <2> QED BY <2>4
<1>7. Direct(chosen)
    BY <1>6
<1> HIDE DEF chosen
<1>8. chosen \in [SUBSET (1..Len(s)) -> Seq(Values)]
    <2>1. chosen = [t \in SUBSET (1..Len(s)) |-> chosen[t]] /\ chosen[{}] = DocumentBase
        BY <1>2, <1>7
    <2>2. \A t \in SUBSET (1..Len(s)) : t # {} /\ chosen[t \ {Max(t)}] \in Seq(Values) => chosen[t] \in Seq(Values)
        BY <1>2, <1>3, <1>5, <1>7
    <2> QED BY <1>2, <1>3, <2>1, <2>2, FoldTyped
<1>9. Folds(chosen, Len(s), DocumentBase, step)
    <2>1. ASSUME NEW t \in SUBSET (1..Len(s)), t # {}
          PROVE  chosen[t] = step[Max(t)][chosen[t \ {Max(t)}]]
        <3>1. chosen[t \ {Max(t)}] \in Seq(Values) /\ Max(t) \in 1..Len(s)
            BY <1>5, <1>8, <2>1
        <3>2. chosen[t] = BaseGiven(chosen[t \ {Max(t)}], s[Max(t)])
            BY <1>2, <1>7, <2>1
        <3> QED BY <3>1, <3>2
    <2>2. chosen[{}] = DocumentBase /\ chosen = [t \in SUBSET (1..Len(s)) |-> chosen[t]]
        BY <1>2, <1>7
    <2> HIDE DEF step
    <2> QED BY <2>1, <2>2 DEF Folds
<1> QED BY <1>1, <1>2, <1>8, <1>9

LEMMA BaseOfMore ==
    ASSUME NEW s \in Seq(Tags), NEW x \in Tags
    PROVE  /\ FoldLeft(LAMBDA base, tag : BaseGiven(base, tag), DocumentBase, s) \in Seq(Values)
           /\ FoldLeft(LAMBDA base, tag : BaseGiven(base, tag), DocumentBase, Append(s, x))
                = BaseGiven(FoldLeft(LAMBDA base, tag : BaseGiven(base, tag), DocumentBase, s), x)
<1> DEFINE t == Append(s, x)
           step(u) == [i \in 1..Len(u) |-> [v \in Seq(Values) |-> BaseGiven(v, u[i])]]
<1>1. /\ t \in Seq(Tags) /\ Len(t) = Len(s) + 1 /\ Len(s) \in Nat
      /\ \A i \in 1..Len(s) : t[i] = s[i]
      /\ t[Len(t)] = x /\ Len(t) \in 1..Len(t)
    OBVIOUS
<1>2. PICK it :
        /\ it \in [SUBSET (1..Len(s)) -> Seq(Values)]
        /\ Folds(it, Len(s), DocumentBase, step(s))
        /\ FoldLeft(LAMBDA base, tag : BaseGiven(base, tag), DocumentBase, s) = it[1..Len(s)]
    BY FoldOfBases, Zenon
<1>3. PICK too :
        /\ Folds(too, Len(t), DocumentBase, step(t))
        /\ FoldLeft(LAMBDA base, tag : BaseGiven(base, tag), DocumentBase, t) = too[1..Len(t)]
    <2> HIDE DEF t
    <2> QED BY <1>1, FoldOfBases, Zenon
<1> HIDE DEF t
<1>4. ASSUME NEW i \in 1..Len(s)
      PROVE  step(s)[i] = step(t)[i]
    <2>1. i \in 1..Len(t) /\ t[i] = s[i]
        BY <1>1
    <2> QED BY <2>1, Zenon
<1>5. PICK n \in Nat, m \in Nat : n = Len(s) /\ m = Len(t) /\ m = n + 1
    BY <1>1
<1> HIDE DEF step
<1>6. PICK one, other : one = step(s) /\ other = step(t)
    OBVIOUS
<1>7. too[1..m] = step(t)[m][it[1..n]]
    <2>1. Folds(it, n, DocumentBase, one) /\ Folds(too, m, DocumentBase, other)
        BY <1>2, <1>3, <1>5, <1>6, Zenon
    <2>2. \A i \in 1..n : one[i] = other[i]
        BY <1>4, <1>5, <1>6, Zenon
    <2>3. m = n + 1
        BY <1>5
    <2>4. too[1..m] = other[m][it[1..n]]
        BY <2>1, <2>2, <2>3, FoldGrows
    <2> QED BY <1>6, <2>4, Zenon
<1>8. it[1..n] \in Seq(Values)
    <2>1. 1..n \in SUBSET (1..Len(s))
        BY <1>5
    <2>2. it \in [SUBSET (1..Len(s)) -> Seq(Values)]
        BY <1>2, Zenon
    <2> QED BY <2>1, <2>2
<1>9. step(t)[m][it[1..n]] = BaseGiven(it[1..n], x)
    <2>1. m \in 1..Len(t) /\ t[m] = x
        BY <1>1, <1>5, Zenon
    <2> QED BY <1>8, <2>1, Zenon DEF step
<1>10. /\ FoldLeft(LAMBDA base, tag : BaseGiven(base, tag), DocumentBase, s) = it[1..n]
       /\ FoldLeft(LAMBDA base, tag : BaseGiven(base, tag), DocumentBase, t) = too[1..m]
    BY <1>2, <1>3, <1>5, Zenon
<1> QED BY <1>7, <1>8, <1>9, <1>10, Zenon DEF t

LEMMA BaseOutside == FoldLeft(LAMBDA base, tag : BaseGiven(base, tag), DocumentBase, <<>>) = DocumentBase
<1>1. PICK s \in Seq(Tags) : s = <<>> /\ Len(s) = 0
    BY EmptySeq
<1>2. PICK it \in [SUBSET (1..Len(s)) -> Seq(Values)] :
        /\ Folds(it, Len(s), DocumentBase, [i \in 1..Len(s) |-> [v \in Seq(Values) |-> BaseGiven(v, s[i])]])
        /\ FoldLeft(LAMBDA base, tag : BaseGiven(base, tag), DocumentBase, s) = it[1..Len(s)]
    BY FoldOfBases, Zenon
<1>3. Folds(it, Len(s), DocumentBase, [i \in 1..Len(s) |-> [v \in Seq(Values) |-> BaseGiven(v, s[i])]])
    BY <1>2, Zenon
<1>4. \A step : Folds(it, 0, DocumentBase, step) => it[1..0] = DocumentBase
    BY FoldStep
<1>5. it[1..Len(s)] = DocumentBase
    BY <1>1, <1>3, <1>4, Zenon
<1> QED BY <1>1, <1>2, <1>5, Zenon

-----------------------------------------------------------------------------
(* Resolving finds the attributes of the xml specifications by their names *)
(* as they are written.                                                    *)
LEMMA SpecialsAsWritten ==
    ASSUME NEW tag \in Tags, NEW bound \in Seq(ScopeBinding), NEW local, Reserves(bound), BindsXml(bound)
    PROVE  /\ FirstGiven(Resolved(Attributes(tag), bound), local)
                = IF Xmls(local, Attributes(tag)) = {} THEN 0 ELSE Min(Xmls(local, Attributes(tag)))
           /\ LastGiven(Resolved(Attributes(tag), bound), local)
                = IF Xmls(local, Attributes(tag)) = {} THEN 0 ELSE Max(Xmls(local, Attributes(tag)))
           /\ DOMAIN Resolved(Attributes(tag), bound) = DOMAIN Attributes(tag)
           /\ \A k \in DOMAIN Attributes(tag) :
                 /\ Resolved(Attributes(tag), bound)[k].value = Attributes(tag)[k].value
                 /\ Special(local, Resolved(Attributes(tag), bound)[k]) <=> k \in Xmls(local, Attributes(tag))
<1>1. PICK s \in Seq(WrittenAttribute) : s = Attributes(tag)
    BY AttributesType
<1>2. PICK n \in Nat : n = Len(s) /\ DOMAIN s = 1..n
    OBVIOUS
<1>3. \A k \in 1..n : s[k] \in WrittenAttribute
    BY <1>2
<1> DEFINE attribute(k) == [prefix |-> s[k].prefix, local |-> s[k].local, value |-> s[k].value,
                            ns |-> AttributeNs(s[k], bound)]
<1>4. PICK attrs : attrs = Resolved(s, bound)
    OBVIOUS
<1>5. attrs = [k \in 1..n |-> attribute(k)]
    BY <1>2, <1>4 DEF Resolved
<1>6. DOMAIN attrs = 1..n /\ \A k \in 1..n : attrs[k] = attribute(k) /\ attrs[k].value = s[k].value
    BY <1>5
<1>7. Len(attrs) = n
    <2> DEFINE Found == {attrs[k] : k \in 1..n}
    <2>1. attrs = [k \in DOMAIN attrs |-> attrs[k]] /\ \A k \in 1..n : attrs[k] \in Found
        BY <1>5
    <2> HIDE DEF Found
    <2> QED BY <1>6, <2>1, ASequence
<1>8. ASSUME NEW k \in 1..n
      PROVE  Special(local, attrs[k]) <=> k \in Xmls(local, s)
    <2>1. s[k].prefix = Xml <=> AttributeNs(s[k], bound) = XmlNs
        <3>1. CASE DeclaresNamespace(s[k])
            <4>1. s[k].prefix = None \/ s[k].prefix = Xmlns
                BY <3>1 DEF DeclaresNamespace
            <4> QED BY <3>1, <4>1, StrictAssumption DEF AttributeNs
        <3>2. CASE ~DeclaresNamespace(s[k]) /\ s[k].prefix = None
            BY <3>2, StrictAssumption DEF AttributeNs
        <3>3. CASE ~DeclaresNamespace(s[k]) /\ s[k].prefix # None
            BY <3>3, OnlyXmlIsXml DEF AttributeNs
        <3> QED BY <3>1, <3>2, <3>3
    <2>2. attrs[k].ns = AttributeNs(s[k], bound) /\ attrs[k].local = s[k].local
        BY <1>6
    <2> QED BY <1>2, <2>1, <2>2 DEF Special, Xmls
<1>9. {k \in 1..Len(attrs) : Special(local, attrs[k])} = Xmls(local, s)
    <2>1. Xmls(local, s) \subseteq 1..n
        BY <1>2 DEF Xmls
    <2> QED BY <1>7, <1>8, <2>1
<1>10. FirstGiven(attrs, local) = IF Xmls(local, s) = {} THEN 0 ELSE Min(Xmls(local, s))
    BY <1>9 DEF FirstGiven, SelectInSeq
<1>11. LastGiven(attrs, local) = IF Xmls(local, s) = {} THEN 0 ELSE Max(Xmls(local, s))
    BY <1>9 DEF LastGiven, SelectLastInSeq
<1> QED BY <1>1, <1>2, <1>4, <1>6, <1>8, <1>10, <1>11

LEMMA ContextOfMore ==
    ASSUME NEW around \in Seq(Tags), NEW tag \in Tags, NEW bound \in Seq(ScopeBinding),
           Reserves(bound), BindsXml(bound), Context = ContextIn(around)
    PROVE  ContextOf(Resolved(Attributes(tag), bound)) = ContextIn(Append(around, tag))
<1>1. PICK attrs, written, more :
        attrs = Resolved(Attributes(tag), bound) /\ written = Attributes(tag) /\ more = Append(around, tag)
    OBVIOUS
<1>2. ASSUME NEW local
      PROVE  /\ FirstGiven(attrs, local) = IF Xmls(local, written) = {} THEN 0 ELSE Min(Xmls(local, written))
             /\ LastGiven(attrs, local) = IF Xmls(local, written) = {} THEN 0 ELSE Max(Xmls(local, written))
             /\ Xmls(local, written) # {} =>
                   /\ Max(Xmls(local, written)) # 0 /\ Min(Xmls(local, written)) # 0
                   /\ attrs[Max(Xmls(local, written))].value = written[Max(Xmls(local, written))].value
                   /\ attrs[Min(Xmls(local, written))].value = written[Min(Xmls(local, written))].value
    <2>1. /\ FirstGiven(attrs, local) = IF Xmls(local, written) = {} THEN 0 ELSE Min(Xmls(local, written))
          /\ LastGiven(attrs, local) = IF Xmls(local, written) = {} THEN 0 ELSE Max(Xmls(local, written))
          /\ \A k \in DOMAIN written : attrs[k].value = written[k].value
        BY <1>1, SpecialsAsWritten
    <2>2. ASSUME Xmls(local, written) # {}
          PROVE  Max(Xmls(local, written)) \in Xmls(local, written) /\ Min(Xmls(local, written)) \in Xmls(local, written)
        BY <1>1, <2>2, XmlsPlaces
    <2>3. \A k \in Xmls(local, written) : k \in DOMAIN written /\ k # 0
        <3>1. written \in Seq(WrittenAttribute)
            BY <1>1, AttributesType
        <3> QED BY <3>1 DEF Xmls
    <2> QED BY <2>1, <2>2, <2>3
<1>3. ASSUME NEW local
      PROVE  /\ Xmls(local, written) # {} =>
                   Giving(more, local) # {} /\ Nearest(more, local) = written[Max(Xmls(local, written))].value
             /\ Xmls(local, written) = {} =>
                   /\ Giving(more, local) = Giving(around, local)
                   /\ Giving(around, local) # {} => Nearest(more, local) = Nearest(around, local)
    BY <1>1, GivenByMore
<1>4. Context.space = SpaceIn(around) /\ Context.lang = LangIn(around) /\ Context.base = BaseIn(around)
    BY DEF ContextIn
<1>5. SpaceOf(attrs) = SpaceIn(more)
    <2>1. CASE Xmls("space", written) = {}
        BY <1>2, <1>3, <1>4, <2>1 DEF SpaceOf, SpaceIn
    <2>2. CASE Xmls("space", written) # {}
        BY <1>2, <1>3, <2>2 DEF SpaceOf, SpaceIn
    <2> QED BY <2>1, <2>2
<1>6. LangOf(attrs) = LangIn(more)
    <2>1. CASE Xmls("lang", written) = {}
        BY <1>2, <1>3, <1>4, <2>1 DEF LangOf, LangIn
    <2>2. CASE Xmls("lang", written) # {}
        BY <1>2, <1>3, <2>2 DEF LangOf, LangIn
    <2> QED BY <2>1, <2>2
<1>7. BaseOf(attrs) = BaseIn(more)
    <2>1. CASE "xml:base" \notin Extensions
        BY <2>1 DEF BaseOf, BaseIn
    <2>2. CASE "xml:base" \in Extensions
        <3>1. BaseIn(more) = BaseGiven(BaseIn(around), tag)
            BY <1>1, <2>2, BaseOfMore DEF BaseIn
        <3>2. CASE Xmls("base", written) = {}
            BY <1>1, <1>2, <1>4, <2>2, <3>1, <3>2 DEF BaseOf, BaseGiven
        <3>3. CASE Xmls("base", written) # {}
            BY <1>1, <1>2, <1>4, <2>2, <3>1, <3>3 DEF BaseOf, BaseGiven
        <3> QED BY <3>2, <3>3
    <2> QED BY <2>1, <2>2
<1> QED BY <1>1, <1>5, <1>6, <1>7 DEF ContextOf, ContextIn

(* Outside the root no tag says anything. *)
LEMMA ContextOutside == ContextIn(<<>>) = OuterContext
<1>1. \A local : Giving(<<>>, local) = {}
    BY DEF Giving
<1>2. BaseIn(<<>>) = IF "xml:base" \in Extensions THEN DocumentBase ELSE <<>>
    BY BaseOutside DEF BaseIn
<1> QED BY <1>1, <1>2 DEF ContextIn, SpaceIn, LangIn, OuterContext

LEMMA NamespacesOutside ==
    ASSUME NEW p
    PROVE  NamespaceIn(<<>>, p) = IF p = Xml THEN XmlNs ELSE None
<1>1. Declaring(<<>>, p) = {}
    BY DEF Declaring
<1> QED BY <1>1 DEF NamespaceIn

-----------------------------------------------------------------------------
ContextSet ==
    [space : {"default", "preserve"}, lang : (Values \ {Empty}) \union {None}, base : Seq(Values)]
ElementName == [prefix : PrefixSet, local : Locals, ns : Values \union {None}]
OpenTag == [name : ElementName, mark : Nat, context : ContextSet]

(* The contexts of a tag that is not refused are such. *)
LEMMA ContextType ==
    ASSUME NEW tag \in Tags, NEW bound \in Seq(ScopeBinding), Reserves(bound), BindsXml(bound),
           Context \in ContextSet, ~BadSpecial(Resolved(Attributes(tag), bound))
    PROVE  ContextOf(Resolved(Attributes(tag), bound)) \in ContextSet
<1>1. PICK attrs, written : attrs = Resolved(Attributes(tag), bound) /\ written = Attributes(tag)
    OBVIOUS
<1>2. ASSUME NEW local
      PROVE  /\ FirstGiven(attrs, local) # 0 => attrs[FirstGiven(attrs, local)].value \in Values
             /\ LastGiven(attrs, local) # 0 =>
                   /\ attrs[LastGiven(attrs, local)].value \in Values
                   /\ LastGiven(attrs, local) \in DOMAIN attrs /\ Special(local, attrs[LastGiven(attrs, local)])
    <2>1. /\ FirstGiven(attrs, local) = IF Xmls(local, written) = {} THEN 0 ELSE Min(Xmls(local, written))
          /\ LastGiven(attrs, local) = IF Xmls(local, written) = {} THEN 0 ELSE Max(Xmls(local, written))
          /\ DOMAIN attrs = DOMAIN written
          /\ \A k \in DOMAIN written :
                attrs[k].value = written[k].value /\ (Special(local, attrs[k]) <=> k \in Xmls(local, written))
        BY <1>1, SpecialsAsWritten
    <2>2. CASE Xmls(local, written) = {}
        BY <2>1, <2>2
    <2>3. CASE Xmls(local, written) # {}
        <3>1. /\ Max(Xmls(local, written)) \in Xmls(local, written)
              /\ Min(Xmls(local, written)) \in Xmls(local, written)
              /\ written[Max(Xmls(local, written))].value \in Values
              /\ written[Min(Xmls(local, written))].value \in Values
            BY <1>1, <2>3, XmlsPlaces
        <3>2. Xmls(local, written) \subseteq DOMAIN written
            BY DEF Xmls
        <3> QED BY <2>1, <2>3, <3>1, <3>2
    <2> QED BY <2>2, <2>3
<1>3. SpaceOf(attrs) \in {"default", "preserve"}
    BY <1>1, <1>2 DEF SpaceOf, BadSpecial, ContextSet
<1>4. LangOf(attrs) \in (Values \ {Empty}) \union {None}
    BY <1>2 DEF LangOf, ContextSet
<1>5. BaseOf(attrs) \in Seq(Values)
    <2>1. <<>> \in Seq(Values) /\ Context.base \in Seq(Values)
        BY DEF ContextSet
    <2>2. \A value \in Values : ResolveBase(Context.base, value) \in Seq(Values)
        <3>1. ASSUME NEW value \in Values
              PROVE  <<value>> \in Seq(Values) /\ Append(Context.base, value) \in Seq(Values)
            BY <2>1
        <3> QED BY <3>1 DEF ResolveBase
    <2> QED BY <1>2, <2>1, <2>2 DEF BaseOf
<1> QED BY <1>1, <1>3, <1>4, <1>5 DEF ContextOf, ContextSet

-----------------------------------------------------------------------------
(* Sequences that begin as another one does. *)
LEMMA BeginningOfLonger ==
    ASSUME NEW S, NEW s \in Seq(S), NEW t \in Seq(S), NEW n \in 0..Len(s)
    PROVE  SubSeq(s \o t, 1, n) = SubSeq(s, 1, n)
<1>1. PICK whole : whole = s \o t
    OBVIOUS
<1>2. whole \in Seq(S) /\ n \in 0..Len(whole) /\ \A i \in 1..Len(s) : whole[i] = s[i]
    BY <1>1
<1> QED BY <1>1, <1>2, SamePrefix

LEMMA Beginning ==
    ASSUME NEW S, NEW s \in Seq(S), NEW n \in 0..Len(s)
    PROVE  /\ SubSeq(s, 1, n) \in Seq(S) /\ Len(SubSeq(s, 1, n)) = n
           /\ \A i \in 1..n : SubSeq(s, 1, n)[i] = s[i]
<1>1. n \in Nat /\ Len(s) \in Nat /\ \A i \in 1..n : s[i] \in S
    OBVIOUS
<1> QED BY <1>1, SubSeqProperties

LEMMA BeginningOfBeginning ==
    ASSUME NEW S, NEW s \in Seq(S), NEW n \in 0..Len(s), NEW m \in 0..n
    PROVE  SubSeq(SubSeq(s, 1, n), 1, m) = SubSeq(s, 1, m)
<1>1. PICK t : t = SubSeq(s, 1, n)
    OBVIOUS
<1>2. t \in Seq(S) /\ Len(t) = n /\ \A i \in 1..n : t[i] = s[i]
    BY <1>1, Beginning
<1>3. m \in 0..Len(s) /\ m \in 0..Len(t) /\ \A i \in 1..Len(t) : t[i] = s[i]
    BY <1>2
<1> QED BY <1>1, <1>2, <1>3, SamePrefix

LEMMA BeginningOfAppended ==
    ASSUME NEW S, NEW s \in Seq(S), NEW n \in 0..Len(s), NEW x \in S, NEW m \in 0..n
    PROVE  /\ SubSeq(Append(SubSeq(s, 1, n), x), 1, m) = SubSeq(s, 1, m)
           /\ SubSeq(Append(SubSeq(s, 1, n), x), 1, n + 1) = Append(SubSeq(s, 1, n), x)
<1>1. PICK t : t = SubSeq(s, 1, n)
    OBVIOUS
<1>2. t \in Seq(S) /\ Len(t) = n /\ \A i \in 1..n : t[i] = s[i]
    BY <1>1, Beginning
<1>3. PICK u : u = Append(t, x)
    OBVIOUS
<1>4. u \in Seq(S) /\ Len(u) = n + 1 /\ \A i \in 1..Len(t) : u[i] = t[i]
    BY <1>2, <1>3
<1>5. m \in 0..Len(t) /\ m \in 0..Len(u)
    BY <1>2, <1>4
<1>6. SubSeq(u, 1, m) = SubSeq(t, 1, m)
    BY <1>2, <1>4, <1>5, SamePrefix
<1>7. SubSeq(t, 1, m) = SubSeq(s, 1, m)
    BY <1>1, BeginningOfBeginning
<1>8. SubSeq(u, 1, Len(u)) = u
    BY <1>4
<1> QED BY <1>1, <1>3, <1>4, <1>6, <1>7, <1>8

LEMMA AllOfIt ==
    ASSUME NEW S, NEW s \in Seq(S)
    PROVE  SubSeq(s, 1, Len(s)) = s /\ SubSeq(s, 1, 0) = <<>>
OBVIOUS

-----------------------------------------------------------------------------
TagTypeOK ==
    /\ stage \in {"Prolog", "Content", "Epilog"}
    /\ scope \in Seq(ScopeBinding) /\ elements \in Seq(OpenTag) /\ tags \in Seq(Tags)
    /\ ended \in BOOLEAN /\ failed \in BOOLEAN
    /\ event.context \in ContextSet

(* Each open element has its tag and its mark, in the order they nest.     *)
Nested ==
    /\ Len(elements) <= Len(tags)
    /\ ended => elements # <<>>
    /\ \A i \in 1..Len(elements) : elements[i].mark \in 1..Len(scope)
    /\ \A i, j \in 1..Len(elements) : i <= j => elements[i].mark <= elements[j].mark

(* xml is bound at the bottom of the scope, where no end tag reaches.      *)
Rooted == Reserves(scope) /\ Len(scope) >= 1 /\ scope[1].prefix = Xml

ScopesAgree ==
    \A i \in 0..Len(elements), p \in PrefixSet : ResolvePrefix(p, ScopeOf(i)) = NamespaceIn(TagsTo(i), p)

ContextsAgree == \A i \in 1..Len(elements) : elements[i].context = ContextIn(TagsTo(i))

EventAgrees == event.kind \notin {"Nothing", "Text"} => event.context = ContextIn(tags)

TagIInv == TagTypeOK /\ Nested /\ Rooted /\ ScopesAgree /\ ContextsAgree /\ EventAgrees

-----------------------------------------------------------------------------
(* What holds at rest: the tags around are those of the open elements, and *)
(* the fields speak of them.                                               *)
LEMMA AroundType ==
    ASSUME TagIInv
    PROVE  /\ Len(elements) \in Nat /\ Around \in Seq(Tags) /\ Len(Around) = Len(elements)
           /\ \A i \in 0..Len(elements) : SubSeq(Around, 1, i) = TagsTo(i)
<1>1. tags \in Seq(Tags) /\ Len(elements) \in 0..Len(tags) /\ Len(elements) \in Nat
    BY DEF TagIInv, TagTypeOK, Nested
<1> QED BY <1>1, Beginning, BeginningOfBeginning DEF Around, TagsTo

LEMMA ContextHere ==
    ASSUME TagIInv
    PROVE  Context = ContextIn(Around) /\ Context \in ContextSet
<1>1. elements \in Seq(OpenTag) /\ tags \in Seq(Tags)
    BY DEF TagIInv, TagTypeOK
<1>2. CASE elements = <<>>
    <2>1. Around = <<>>
        BY <1>1, <1>2, AllOfIt DEF Around, TagsTo
    <2>2. OuterContext \in ContextSet
        <3>1. <<>> \in Seq(Values) /\ DocumentBase \in Seq(Values)
            BY TagAssumption
        <3> QED BY <3>1 DEF OuterContext, ContextSet
    <2> QED BY <1>2, <2>1, <2>2, ContextOutside DEF Context
<1>3. CASE elements # <<>>
    <2>1. Len(elements) \in 1..Len(elements) /\ Last(elements) = elements[Len(elements)] /\ Last(elements) \in OpenTag
        BY <1>1, <1>3, LastSplit
    <2>2. Last(elements).context = ContextIn(Around)
        BY <2>1 DEF TagIInv, ContextsAgree, Around
    <2>3. Last(elements).context \in ContextSet
        BY <2>1 DEF OpenTag
    <2> QED BY <1>3, <2>2, <2>3 DEF Context
<1> QED BY <1>2, <1>3

(* Reading on within the same elements. *)
LEMMA SameElements ==
    ASSUME TagIInv, UNCHANGED <<stage, scope, elements, ended>>, failed' \in BOOLEAN,
           tags' = tags \/ tags' = Around,
           event'.context \in ContextSet, EventAgrees'
    PROVE  TagIInv'
<1>1. Len(elements) \in Nat /\ tags' \in Seq(Tags) /\ Len(elements) <= Len(tags')
    BY AroundType DEF TagIInv, TagTypeOK, Nested
<1>2. \A i \in 0..Len(elements) : TagsTo(i)' = TagsTo(i) /\ ScopeOf(i)' = ScopeOf(i)
    BY AroundType DEF TagsTo, ScopeOf
<1>3. TagTypeOK' /\ Nested' /\ Rooted'
    BY <1>1 DEF TagIInv, TagTypeOK, Nested, Rooted
<1>4. ScopesAgree'
    BY <1>2 DEF TagIInv, ScopesAgree
<1>5. ContextsAgree'
    BY <1>1, <1>2 DEF TagIInv, ContextsAgree
<1> QED BY <1>3, <1>4, <1>5 DEF TagIInv

LEMMA Entering ==
    ASSUME TagIInv, NEW tag \in Tags, ReadStartTag(tag)
    PROVE  TagIInv'
<1>0. PICK n \in Nat : n = Len(elements)
    BY AroundType
<1> DEFINE declared == Declarations(tag)
           attrs == Resolved(Attributes(tag), scope')
           name == [prefix |-> tag.prefix, local |-> tag.local, ns |-> ResolvePrefix(tag.prefix, scope')]
           entered == [name |-> name, mark |-> Len(scope), context |-> ContextOf(attrs)]
<1>1. /\ scope' = scope \o declared /\ elements' = Append(elements, entered)
      /\ event'.kind = "StartElement" /\ event'.context = ContextOf(attrs)
      /\ stage' = "Content" /\ ended' = tag.empty /\ tags' = Append(Around, tag) /\ failed' = failed
    BY DEF ReadStartTag, Reported
<1>2. /\ \A i \in DOMAIN declared : ~MayNotDeclare(declared[i])
      /\ ~BadSpecial(attrs)
    BY <1>1 DEF ReadStartTag, Refused
<1>3. scope \in Seq(ScopeBinding) /\ elements \in Seq(OpenTag) /\ tags \in Seq(Tags)
    BY DEF TagIInv, TagTypeOK
<1>4. n \in Nat /\ n = Len(elements) /\ Around \in Seq(Tags) /\ Len(Around) = n
    BY <1>0, AroundType
<1>5. Reserves(scope) /\ BindsXml(scope) /\ Len(scope) \in Nat /\ Len(scope) >= 1 /\ scope[1].prefix = Xml
    BY <1>3 DEF TagIInv, Rooted, BindsXml
<1>6. scope' \in Seq(ScopeBinding) /\ Reserves(scope') /\ BindsXml(scope')
    BY <1>1, <1>2, <1>3, <1>5, DeclarationsReserve
<1>7. declared \in Seq(ScopeBinding)
    BY DeclarationsType
<1>8. ContextOf(attrs) = ContextIn(tags') /\ ContextOf(attrs) \in ContextSet
    <2>1. PICK bound \in Seq(ScopeBinding) : bound = scope' /\ Reserves(bound) /\ BindsXml(bound)
        BY <1>6
    <2>2. Context = ContextIn(Around) /\ Context \in ContextSet
        BY ContextHere
    <2>3. ~BadSpecial(Resolved(Attributes(tag), bound))
        BY <1>2, <2>1
    <2>4. ContextOf(Resolved(Attributes(tag), bound)) = ContextIn(Append(Around, tag))
        BY <1>4, <2>1, <2>2, ContextOfMore
    <2>5. ContextOf(Resolved(Attributes(tag), bound)) \in ContextSet
        BY <2>1, <2>2, <2>3, ContextType
    <2> QED BY <1>1, <2>1, <2>4, <2>5
<1>9. entered \in OpenTag
    <2>1. name \in ElementName
        <3>1. ResolvePrefix(tag.prefix, scope') \in Values \union {None}
            BY <1>6, ResolvedType
        <3>2. tag.prefix \in PrefixSet /\ tag.local \in Locals
            BY TagsAssumption
        <3> QED BY <3>1, <3>2 DEF ElementName
    <2> HIDE DEF name, attrs
    <2> QED BY <1>5, <1>8, <2>1 DEF OpenTag
<1>10. PICK e \in OpenTag : e = entered /\ e.mark = Len(scope) /\ e.context = ContextIn(tags')
    BY <1>8, <1>9
<1> HIDE DEF entered, attrs, name
<1>11. /\ elements' = Append(elements, e) /\ elements' \in Seq(OpenTag) /\ Len(elements') = n + 1
       /\ \A i \in 1..n : elements'[i] = elements[i]
       /\ elements'[n + 1] = e
    <2>1. PICK more : more = Append(elements, e)
        OBVIOUS
    <2>2. more \in Seq(OpenTag) /\ Len(more) = n + 1 /\ more[n + 1] = e /\ \A i \in 1..n : more[i] = elements[i]
        BY <1>3, <1>4, <2>1
    <2> QED BY <1>1, <1>10, <2>1, <2>2, Zenon
<1>12. tags' \in Seq(Tags) /\ Len(tags') = n + 1
    BY <1>1, <1>4
<1>13. /\ Len(scope') = Len(scope) + Len(declared) /\ Len(declared) \in Nat
       /\ scope'[1] = scope[1]
    BY <1>1, <1>3, <1>5, <1>7
<1>14. /\ \A i \in 0..n : TagsTo(i)' = TagsTo(i)
       /\ TagsTo(n + 1)' = tags' /\ tags' = Append(TagsTo(n), tag)
    <2>1. n \in 0..Len(tags)
        BY <1>3, <1>4 DEF TagIInv, Nested
    <2>2. tags' = Append(SubSeq(tags, 1, n), tag)
        BY <1>1, <1>4 DEF Around, TagsTo
    <2>3. /\ \A i \in 0..n : SubSeq(Append(SubSeq(tags, 1, n), tag), 1, i) = SubSeq(tags, 1, i)
          /\ SubSeq(Append(SubSeq(tags, 1, n), tag), 1, n + 1) = Append(SubSeq(tags, 1, n), tag)
        <3>1. n \in 0..n
            BY <1>4
        <3> QED BY <1>3, <2>1, <3>1, BeginningOfAppended
    <2> QED BY <2>2, <2>3 DEF TagsTo
<1>15. /\ \A i \in 0..n : ScopeOf(i)' = ScopeOf(i)
       /\ ScopeOf(n + 1)' = ScopeOf(n) \o declared /\ ScopeOf(n) = scope
    <2>1. ScopeOf(n) = scope
        BY <1>3, <1>4, AllOfIt DEF ScopeOf
    <2>2. ScopeOf(n + 1)' = scope'
        <3>1. SubSeq(scope', 1, Len(scope')) = scope'
            BY <1>6, AllOfIt
        <3> QED BY <1>11, <3>1 DEF ScopeOf
    <2>3. ASSUME NEW i \in 0..n
          PROVE  ScopeOf(i)' = ScopeOf(i)
        <3>1. CASE i = n
            <4>1. SubSeq(scope', 1, Len(scope)) = SubSeq(scope, 1, Len(scope))
                <5>1. Len(scope) \in 0..Len(scope)
                    BY <1>5
                <5> QED BY <1>1, <1>3, <1>7, <5>1, BeginningOfLonger
            <4>2. i # n + 1 /\ elements'[i + 1].mark = Len(scope)
                BY <1>4, <1>10, <1>11, <3>1
            <4> QED BY <1>11, <3>1, <4>1, <4>2, <1>4 DEF ScopeOf
        <3>2. CASE i # n
            <4>1. i + 1 \in 1..n /\ i # n + 1
                BY <1>4, <3>2
            <4>2. elements'[i + 1].mark = elements[i + 1].mark /\ elements[i + 1].mark \in 0..Len(scope)
                BY <1>4, <1>5, <1>11, <4>1 DEF TagIInv, Nested
            <4>3. SubSeq(scope', 1, elements[i + 1].mark) = SubSeq(scope, 1, elements[i + 1].mark)
                BY <1>1, <1>3, <1>7, <4>2, BeginningOfLonger
            <4> QED BY <1>11, <3>2, <4>1, <4>2, <4>3, <1>4 DEF ScopeOf
        <3> QED BY <3>1, <3>2
    <2> QED BY <1>1, <2>1, <2>2, <2>3
<1>16. TagTypeOK'
    <2>1. tag.empty \in BOOLEAN /\ failed \in BOOLEAN
        BY TagsAssumption DEF TagIInv, TagTypeOK
    <2> QED BY <1>1, <1>6, <1>8, <1>11, <1>12, <2>1 DEF TagTypeOK
<1>17. Nested'
    <2>1. elements' # <<>>
        BY <1>4, <1>11
    <2>2. ASSUME NEW i \in 1..Len(elements')
          PROVE  elements'[i].mark \in 1..Len(scope') /\ elements'[i].mark <= Len(scope)
        <3>1. CASE i = n + 1
            BY <1>5, <1>10, <1>11, <1>13, <3>1
        <3>2. CASE i \in 1..n
            <4>1. elements'[i].mark = elements[i].mark /\ elements[i].mark \in 1..Len(scope)
                BY <1>4, <1>11, <3>2 DEF TagIInv, Nested
            <4> QED BY <1>5, <1>13, <4>1
        <3> QED BY <1>4, <1>11, <3>1, <3>2
    <2>3. ASSUME NEW i \in 1..Len(elements'), NEW j \in 1..Len(elements'), i <= j
          PROVE  elements'[i].mark <= elements'[j].mark
        <3>1. CASE j = n + 1
            BY <1>10, <1>11, <2>2, <3>1
        <3>2. CASE j \in 1..n
            <4>1. i \in 1..n
                BY <1>4, <2>3, <3>2
            <4> QED BY <1>4, <1>11, <2>3, <3>2, <4>1 DEF TagIInv, Nested
        <3> QED BY <1>4, <1>11, <3>1, <3>2
    <2>4. Len(elements') <= Len(tags')
        BY <1>4, <1>11, <1>12
    <2> QED BY <2>1, <2>2, <2>3, <2>4 DEF Nested
<1>18. Rooted'
    BY <1>5, <1>6, <1>13 DEF Rooted
<1>19. ScopesAgree'
    <2>1. ASSUME NEW i \in 0..(n + 1), NEW p \in PrefixSet
          PROVE  ResolvePrefix(p, ScopeOf(i)') = NamespaceIn(TagsTo(i)', p)
        <3>1. CASE i \in 0..n
            BY <1>4, <1>14, <1>15, <3>1 DEF TagIInv, ScopesAgree
        <3>2. CASE i = n + 1
            <4>1. ResolvePrefix(p, scope) = NamespaceIn(Around, p)
                <5>1. n \in 0..n
                    BY <1>4
                <5> QED BY <1>4, <1>15, <5>1 DEF TagIInv, ScopesAgree, Around
            <4>2. ResolvePrefix(p, scope \o declared) = NamespaceIn(Append(Around, tag), p)
                BY <1>2, <1>3, <1>4, <1>5, <4>1, ScopeOfMore
            <4> QED BY <1>1, <1>14, <1>15, <3>2, <4>2
        <3> QED BY <1>4, <3>1, <3>2
    <2> QED BY <1>11, <2>1 DEF ScopesAgree
<1>20. ContextsAgree'
    <2>1. ASSUME NEW i \in 1..(n + 1)
          PROVE  elements'[i].context = ContextIn(TagsTo(i)')
        <3>1. CASE i \in 1..n
            <4>1. TagsTo(i)' = TagsTo(i)
                BY <1>4, <1>14, <3>1
            <4> QED BY <1>4, <1>11, <3>1, <4>1 DEF TagIInv, ContextsAgree
        <3>2. CASE i = n + 1
            BY <1>10, <1>11, <1>14, <3>2
        <3> QED BY <1>4, <3>1, <3>2
    <2> QED BY <1>11, <2>1 DEF ContextsAgree
<1>21. EventAgrees'
    BY <1>1, <1>8 DEF EventAgrees
<1> QED BY <1>16, <1>17, <1>18, <1>19, <1>20, <1>21 DEF TagIInv

LEMMA Leaving ==
    ASSUME TagIInv, elements # <<>>, CloseElement, ended' = FALSE
    PROVE  TagIInv'
<1>0. PICK n \in Nat : n = Len(elements)
    BY AroundType
<1>1. scope \in Seq(ScopeBinding) /\ elements \in Seq(OpenTag) /\ tags \in Seq(Tags)
    BY DEF TagIInv, TagTypeOK
<1>2. n \in Nat /\ n >= 1 /\ n = Len(elements) /\ Around \in Seq(Tags) /\ Len(Around) = n
    <2>1. Len(elements) >= 1
        BY <1>1, LastSplit
    <2> QED BY <1>0, <2>1, AroundType
<1>3. PICK m \in 1..Len(scope) : m = elements[n].mark
    BY <1>2 DEF TagIInv, Nested
<1>4. /\ elements' = Front(elements) /\ elements' \in Seq(OpenTag) /\ Len(elements') = n - 1
      /\ \A i \in 1..(n - 1) : elements'[i] = elements[i]
      /\ Last(elements) = elements[n] /\ elements[n] \in OpenTag
    <2>1. /\ Front(elements) \in Seq(OpenTag) /\ Last(elements) \in OpenTag /\ Last(elements) = elements[Len(elements)]
          /\ Len(Front(elements)) = Len(elements) - 1
          /\ \A i \in 1..(Len(elements) - 1) : Front(elements)[i] = elements[i]
        BY <1>1, LastSplit
    <2>2. elements' = Front(elements)
        BY DEF CloseElement, LeaveElement
    <2> QED BY <1>2, <2>1, <2>2
<1>5. /\ scope' = SubSeq(scope, 1, m) /\ tags' = Around /\ failed' = failed
      /\ event'.context = elements[n].context
      /\ stage' = stage \/ stage' = "Epilog"
    BY <1>2, <1>3, <1>4 DEF CloseElement, LeaveElement, Reported
<1>6. Len(scope) \in Nat /\ m \in 0..Len(scope)
    BY <1>1
<1>7. scope' \in Seq(ScopeBinding) /\ Len(scope') = m /\ \A i \in 1..m : scope'[i] = scope[i]
    BY <1>1, <1>5, <1>6, Beginning
<1>8. \A i \in 0..(n - 1) : TagsTo(i)' = TagsTo(i)
    <2>1. \A i \in 0..n : SubSeq(Around, 1, i) = SubSeq(tags, 1, i)
        BY <1>2, AroundType DEF TagsTo
    <2> QED BY <1>2, <1>5, <2>1 DEF TagsTo
<1>9. \A i \in 0..(n - 1) : ScopeOf(i)' = ScopeOf(i)
    <2>1. ASSUME NEW i \in 0..(n - 1)
          PROVE  ScopeOf(i)' = ScopeOf(i)
        <3>1. i + 1 \in 1..n /\ i # n
            BY <1>2
        <3>2. ScopeOf(i) = SubSeq(scope, 1, elements[i + 1].mark)
            BY <1>2, <3>1 DEF ScopeOf
        <3>3. CASE i = n - 1
            <4>1. ScopeOf(i)' = SubSeq(scope', 1, Len(scope'))
                BY <1>4, <3>3 DEF ScopeOf
            <4>2. ScopeOf(i)' = scope'
                BY <1>7, <4>1, AllOfIt
            <4>3. i + 1 = n
                BY <1>2, <3>3
            <4> QED BY <1>3, <1>5, <3>2, <4>2, <4>3
        <3>4. CASE i # n - 1
            <4>1. i + 1 \in 1..(n - 1)
                BY <1>2, <3>4
            <4>2. ScopeOf(i)' = SubSeq(scope', 1, elements[i + 1].mark)
                BY <1>4, <3>4, <4>1 DEF ScopeOf
            <4>3. elements[i + 1].mark \in 0..m
                <5>1. elements[i + 1].mark \in 1..Len(scope) /\ elements[i + 1].mark <= elements[n].mark
                    <6>1. i + 1 <= n /\ n \in 1..n
                        BY <1>2, <3>1
                    <6> QED BY <1>2, <3>1, <6>1 DEF TagIInv, Nested
                <5> QED BY <1>3, <1>6, <5>1
            <4>4. SubSeq(scope', 1, elements[i + 1].mark) = SubSeq(scope, 1, elements[i + 1].mark)
                BY <1>1, <1>5, <1>6, <4>3, BeginningOfBeginning
            <4> QED BY <3>2, <4>2, <4>4
        <3> QED BY <3>3, <3>4
    <2> QED BY <2>1
<1>10. TagTypeOK'
    <2>1. elements[n].context \in ContextSet
        BY <1>4 DEF OpenTag
    <2> QED BY <1>2, <1>4, <1>5, <1>7, <2>1 DEF TagIInv, TagTypeOK
<1>11. Nested'
    <2>1. ASSUME NEW i \in 1..(n - 1)
          PROVE  elements'[i].mark \in 1..m
        <3>1. i \in 1..n /\ n \in 1..n /\ i <= n
            BY <1>2
        <3>2. elements[i].mark \in 1..Len(scope) /\ elements[i].mark <= elements[n].mark
            BY <1>2, <3>1 DEF TagIInv, Nested
        <3> QED BY <1>3, <1>4, <1>6, <3>2
    <2>2. ASSUME NEW i \in 1..(n - 1), NEW j \in 1..(n - 1), i <= j
          PROVE  elements'[i].mark <= elements'[j].mark
        <3>1. i \in 1..n /\ j \in 1..n
            BY <1>2
        <3> QED BY <1>2, <1>4, <2>2, <3>1 DEF TagIInv, Nested
    <2>3. Len(elements') <= Len(tags')
        BY <1>2, <1>4, <1>5
    <2> QED BY <1>4, <1>7, <2>1, <2>2, <2>3 DEF Nested
<1>12. Rooted'
    <2>1. 1 \in 1..m /\ m <= Len(scope)
        BY <1>6
    <2>2. \A i \in 1..m : scope'[i].prefix = Xml <=> scope'[i].ns = XmlNs
        BY <1>6, <1>7 DEF TagIInv, Rooted, Reserves
    <2> QED BY <1>7, <2>1, <2>2 DEF TagIInv, Rooted, Reserves
<1>13. ScopesAgree'
    <2>1. \A i \in 0..(n - 1) : i \in 0..Len(elements)
        BY <1>2
    <2> QED BY <1>4, <1>8, <1>9, <2>1 DEF TagIInv, ScopesAgree
<1>14. ContextsAgree'
    <2>1. \A i \in 1..(n - 1) : i \in 1..Len(elements) /\ i \in 0..(n - 1)
        BY <1>2
    <2> QED BY <1>4, <1>8, <2>1 DEF TagIInv, ContextsAgree
<1>15. EventAgrees'
    <2>1. n \in 1..Len(elements) /\ TagsTo(n) = Around
        BY <1>2 DEF Around
    <2>2. elements[n].context = ContextIn(TagsTo(n))
        BY <2>1 DEF TagIInv, ContextsAgree
    <2> QED BY <1>5, <2>1, <2>2 DEF EventAgrees
<1> QED BY <1>10, <1>11, <1>12, <1>13, <1>14, <1>15 DEF TagIInv

-----------------------------------------------------------------------------
LEMMA TagsBegin == TagInit => TagIInv
<1> SUFFICES ASSUME TagInit PROVE TagIInv
    OBVIOUS
<1> DEFINE xml == [prefix |-> Xml, ns |-> XmlNs]
<1>1. /\ stage = "Prolog" /\ scope = <<xml>> /\ elements = <<>> /\ tags = <<>> /\ ended = FALSE /\ failed = FALSE
      /\ event.kind = "Nothing" /\ event.context = [space |-> "default", lang |-> None, base |-> <<>>]
    BY DEF TagInit, Reported
<1>2. xml \in ScopeBinding /\ xml.prefix = Xml /\ xml.ns = XmlNs
    BY StrictAssumption, TagAssumption DEF ScopeBinding, LocalSet
<1> HIDE DEF xml
<1>3. scope \in Seq(ScopeBinding) /\ Len(scope) = 1 /\ scope[1] = xml
    BY <1>1, <1>2
<1>4. Len(elements) = 0 /\ elements \in Seq(OpenTag) /\ tags \in Seq(Tags) /\ Len(tags) = 0
    BY <1>1
<1>5. TagTypeOK
    <2>1. event.context \in ContextSet
        BY <1>1 DEF ContextSet
    <2> QED BY <1>1, <1>3, <1>4, <2>1 DEF TagTypeOK
<1>6. Rooted
    BY <1>2, <1>3 DEF Rooted, Reserves
<1>7. Nested /\ ContextsAgree /\ EventAgrees
    BY <1>1, <1>4 DEF Nested, ContextsAgree, EventAgrees
<1>8. ScopesAgree
    <2>1. ASSUME NEW p \in PrefixSet
          PROVE  ResolvePrefix(p, scope) = NamespaceIn(<<>>, p)
        <3>1. CASE p = Xml
            <4>1. Reserves(scope) /\ BindsXml(scope)
                BY <1>2, <1>3, <1>6 DEF Rooted, BindsXml
            <4> QED BY <1>3, <3>1, <4>1, OnlyXmlIsXml, NamespacesOutside
        <3>2. CASE p # Xml
            <4>1. \A j \in 1..Len(scope) : scope[j].prefix # p
                BY <1>2, <1>3, <3>2
            <4> QED BY <1>3, <3>2, <4>1, ResolvedByNone, NamespacesOutside
        <3> QED BY <3>1, <3>2
    <2>2. ScopeOf(0) = scope /\ TagsTo(0) = <<>>
        BY <1>3, <1>4, AllOfIt DEF ScopeOf, TagsTo
    <2> QED BY <1>4, <2>1, <2>2 DEF ScopesAgree
<1> QED BY <1>5, <1>6, <1>7, <1>8 DEF TagIInv

LEMMA TagsGoOn == TagIInv /\ [TagNext]_tagVars => TagIInv'
<1> SUFFICES ASSUME TagIInv, [TagNext]_tagVars PROVE TagIInv'
    OBVIOUS
<1>1. event.context \in ContextSet /\ failed \in BOOLEAN /\ ended \in BOOLEAN /\ EventAgrees
    BY DEF TagIInv, TagTypeOK
<1>2. CASE UNCHANGED tagVars
    <2>1. EventAgrees'
        BY <1>1, <1>2 DEF tagVars, EventAgrees
    <2> QED BY <1>1, <1>2, <2>1, SameElements DEF tagVars
<1>3. CASE EndEmptyElement
    <2>1. elements # <<>>
        BY <1>3 DEF EndEmptyElement, TagIInv, Nested
    <2> QED BY <1>3, <2>1, Leaving DEF EndEmptyElement
<1>4. CASE ReadMarkup
    <2>1. event'.context = Context /\ tags' = Around /\ Context \in ContextSet /\ Context = ContextIn(Around)
        BY <1>4, ContextHere DEF ReadMarkup, Reported
    <2>2. EventAgrees'
        BY <2>1 DEF EventAgrees
    <2> QED BY <1>1, <1>4, <2>1, <2>2, SameElements DEF ReadMarkup
<1>5. CASE ReadText
    <2>1. event'.context = event.context /\ event'.kind = "Text" /\ tags' = Around
        BY <1>5 DEF ReadText, Reported
    <2>2. EventAgrees'
        BY <2>1 DEF EventAgrees
    <2> QED BY <1>1, <1>5, <2>1, <2>2, SameElements DEF ReadText
<1>6. ASSUME NEW tag \in Tags, ReadStartTag(tag)
      PROVE  TagIInv'
    BY <1>6, Entering
<1>7. ASSUME NEW tag \in Tags, RefuseTag(tag) \/ RefuseEndTag(tag)
      PROVE  TagIInv'
    <2>1. FailParsing
        BY <1>7 DEF RefuseTag, RefuseEndTag
    <2>2. EventAgrees'
        BY <1>1, <2>1 DEF FailParsing, EventAgrees
    <2> QED BY <1>1, <2>1, <2>2, SameElements DEF FailParsing
<1>8. ASSUME NEW tag \in Tags, ReadEndTag(tag)
      PROVE  TagIInv'
    <2>1. elements # <<>> /\ ended = FALSE /\ ended' = ended
        BY <1>1, <1>8 DEF ReadEndTag, Ends, Ready
    <2> QED BY <1>8, <2>1, Leaving DEF ReadEndTag
<1> QED BY <1>2, <1>3, <1>4, <1>5, <1>6, <1>7, <1>8 DEF TagNext

(* The stacks of the parser (io/parse.rs, io/parse/namespace.rs) nest: the *)
(* marks rise within the scope, xml is bound below all of them and nothing *)
(* else to its name, and what they hold is what the tags around say.       *)
THEOREM Invariant == TagSpec => []TagIInv
BY TagsBegin, TagsGoOn, PTL DEF TagSpec

(* However elements nest, redeclare and end, in each open one, and outside *)
(* the root, a prefix resolves to what the nearest tag that declares it    *)
(* says; xml:space, xml:lang and the base URI are those of the nearest tag *)
(* that gives them; and an event other than text is reported so.           *)
THEOREM InEffect == TagSpec => []ContextAsDefined
<1>1. TagIInv => ContextAsDefined
    <2> SUFFICES ASSUME TagIInv PROVE ContextAsDefined
        OBVIOUS
    <2>1. DOMAIN elements = 1..Len(elements)
        BY DEF TagIInv, TagTypeOK
    <2> QED BY <2>1 DEF TagIInv, ScopesAgree, ContextsAgree, EventAgrees, ContextAsDefined
<1> QED BY <1>1, Invariant, PTL
=============================================================================
