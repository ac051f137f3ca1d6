--------------------------- MODULE XIncludeProofs ---------------------------
(***************************************************************************)
(* Proofs about XInclude for any library, limits and answers: the chain of *)
(* scopes is the chain of what is being read, nothing is said to consumers *)
(* that have had enough, and every error found is returned upstream.       *)
(***************************************************************************)
EXTENDS XInclude, SequenceLemmas, FiniteSetTheorems

-----------------------------------------------------------------------------
(* The invariant.  L are the lanes and I the scopes.  A scope belongs to   *)
(* the lane its xi:include stands in, and starts at the event it was.      *)
IsSequence(s) == s \in Seq(ToSet(s))

LaneOf(s) == s.element[1]
StartOf(s) == s.element[2]
Includes(s) == s.behavior = "InclusionInProcessing"

(* The lane that reads what a scope decides about. *)
Reader(s) == IF Includes(s) THEN LaneOf(s) + 1 ELSE LaneOf(s)

Behaviors == {"InclusionInProcessing", "SeekingFallback", "FallbackInProgress", "IgnoreAll"}

IsScope(s) ==
    s \in [uri : {s.uri}, xpointer : {s.xpointer}, base : {s.base}, lang : {s.lang},
           observed : {s.observed}, depth : Nat, error : {s.error}, behavior : Behaviors,
           element : Nat \X Nat]

(* How deep a lane stands in its document; how deep the part of it begins  *)
(* that its pointer selects.                                               *)
Depth(l) == Level(l.events, l.at)
Bottom(l) ==
    IF l.pointer = <<>> THEN 0
    ELSE IF l.selector.selected = {} THEN Depth(l) ELSE CHOOSE d \in l.selector.selected : TRUE

(* Elements that are open at an event stand in each other. *)
Nests(D, i) ==
    /\ \A p \in StillOpen(D, i) : Level(D, p) < Level(D, i)
    /\ \A p, q \in StillOpen(D, i) : p < q => Level(D, p) < Level(D, q)

IsSelector(s) ==
    s \in [part : {s.part}, declared : BOOLEAN, counts : {s.counts}, anchor : {s.anchor},
           selected : {s.selected}, searching : BOOLEAN]

LaneFits(library, l) ==
    /\ \E u \in DOMAIN library :
         l.events = IF l.parse = "text" THEN library[u].text ELSE library[u].xml
    /\ Reported(l.events)
    /\ l.at \in 1..(Len(l.events) + 1)
    /\ Depth(l) \in Nat /\ (l.at = Len(l.events) + 1 => Depth(l) = 0)
    /\ Nests(l.events, l.at)
    /\ IsSelector(l.selector)
    /\ IsSequence(l.selector.counts) /\ Len(l.selector.counts) = Depth(l) + 1
    /\ l.selector.selected # {} =>
         /\ ~l.selector.searching
         /\ \E d \in 0..Depth(l) : d < Depth(l) /\ l.selector.selected = {d}

LevelOf(L, s) == Level(L[LaneOf(s)].events, StartOf(s))

ScopeFits(L, s) ==
    /\ IsScope(s)
    /\ LaneOf(s) \in 1..Len(L) /\ StartOf(s) \in OpenIncludes(L[LaneOf(s)])
    /\ Includes(s) =>
         /\ LaneOf(s) + 1 \in 1..Len(L)
         /\ L[LaneOf(s)].at = StartOf(s) + 1
         /\ s.uri = L[LaneOf(s) + 1].uri /\ s.xpointer = L[LaneOf(s) + 1].pointer
    /\ s.behavior = "FallbackInProgress" => s.depth > 0
    /\ L[LaneOf(s)].pointer # <<>> =>
         \E d \in 0..LevelOf(L, s) : L[LaneOf(s)].selector.selected = {d}

(* The scopes follow each other down the lanes, to the last one. *)
Follows(L, I) ==
    /\ \A i \in 1..Len(I) : LaneOf(I[i]) = IF i = 1 THEN 1 ELSE Reader(I[i - 1])
    /\ Len(L) = IF Len(I) = 0 THEN 1 ELSE Reader(I[Len(I)])

Before(s, t) ==
    \/ LaneOf(s) < LaneOf(t)
    \/ LaneOf(s) = LaneOf(t) /\ StartOf(s) < StartOf(t) /\ ~Includes(s)

InLine(I) == \A i, j \in 1..Len(I) : i < j => Before(I[i], I[j])

(* Every lane but the first is read for a scope. *)
Explained(L, I) ==
    \A k \in 1..(Len(L) - 1) : \E i \in 1..Len(I) : Includes(I[i]) /\ LaneOf(I[i]) = k

NoLoop(I) ==
    \A i, j \in 1..Len(I) :
        Includes(I[i]) /\ Includes(I[j]) /\ I[i].uri = I[j].uri /\ I[i].xpointer = I[j].xpointer => i = j

(* How deep it is, in what scope i decides about, to where the next scope  *)
(* begins, or to the next event.                                           *)
Reached(L, I, i) == IF i < Len(I) THEN LevelOf(L, I[i + 1]) ELSE Depth(L[Len(L)])
Floor(L, s) == IF Includes(s) THEN Bottom(L[LaneOf(s) + 1]) ELSE LevelOf(L, s) + 1

Measured(L, I) == \A i \in 1..Len(I) : I[i].depth + Floor(L, I[i]) = Reached(L, I, i)

(* An open xi:include has a scope, or one around it in its lane has. *)
Covered(L, I) ==
    \A k \in 1..Len(L) : L[k].pointer = <<>> =>
        \A p \in OpenIncludes(L[k]) : \E i \in 1..Len(I) : LaneOf(I[i]) = k /\ StartOf(I[i]) <= p

Chained(library, L, I) ==
    /\ IsSequence(L) /\ IsSequence(I) /\ Len(L) >= 1
    /\ \A k \in 1..Len(L) : LaneFits(library, L[k])
    /\ \A i \in 1..Len(I) : ScopeFits(L, I[i])
    /\ Follows(L, I) /\ InLine(I) /\ Explained(L, I) /\ NoLoop(I)
    /\ Measured(L, I) /\ Covered(L, I)

(* The lane of the pipeline, and what the counters say of each other.      *)
Counting ==
    /\ work \in Works
    /\ IsSequence(lanes) /\ Len(lanes) >= 1
    /\ lanes[1].events = work.library[Main].xml /\ lanes[1].parse = "xml" /\ lanes[1].pointer = <<>>
    /\ lanes[1].at \in Nat \ {0}
    /\ {errorCount, reported, counted, occurrence} \subseteq Nat
    /\ runs \in Nat
    /\ lanes[1].at = 1 => Len(lanes) = 1 /\ ~busy /\ reported = 0 /\ counted = 0
    /\ lanes[1].at = 1 => LaneFits(work.library, lanes[1])
    /\ lanes[1].at > 1 => reported = counted + errorCount
    /\ outcome \in {"Completed", "Stopped"} => counted = reported

WithinLimits ==
    /\ work.maxDepth # NoLimit => Len(inclusions) <= work.maxDepth
    /\ work.maxIncludes # NoLimit => occurrence <= work.maxIncludes

Chaining == Chained(work.library, lanes, inclusions) /\ WithinLimits

XIncludeIInv == Counting /\ (InRun => Chaining)

-----------------------------------------------------------------------------
(* Sequences, and their last member. *)
LEMMA ASequenceOf ==
    ASSUME NEW S, NEW s \in Seq(S)
    PROVE  IsSequence(s)
<1>1. Len(s) \in Nat /\ DOMAIN s = 1..Len(s) /\ \A i \in 1..Len(s) : s[i] \in S
    OBVIOUS
<1>2. \A i \in 1..Len(s) : s[i] \in ToSet(s)
    BY <1>1 DEF ToSet
<1>3. s \in [1..Len(s) -> ToSet(s)]
    BY <1>1, <1>2
<1> QED BY <1>1, <1>3, SeqDef DEF IsSequence

LEMMA SequenceHas ==
    ASSUME NEW s, IsSequence(s)
    PROVE  Len(s) \in Nat /\ DOMAIN s = 1..Len(s) /\ (Len(s) = 0 <=> s = <<>>)
BY DEF IsSequence

LEMMA Pushed ==
    ASSUME NEW s, IsSequence(s), NEW x
    PROVE  /\ IsSequence(Append(s, x)) /\ Len(Append(s, x)) = Len(s) + 1
           /\ Append(s, x)[Len(s) + 1] = x
           /\ \A i \in 1..Len(s) : Append(s, x)[i] = s[i]
<1>1. PICK S : s \in Seq(S) /\ x \in S
    <2>1. s \in Seq(ToSet(s) \union {x})
        <3>1. \A i \in 1..Len(s) : s[i] \in ToSet(s) \union {x}
            BY DEF IsSequence
        <3>2. Len(s) \in Nat /\ s \in [1..Len(s) -> ToSet(s) \union {x}]
            BY <3>1 DEF IsSequence
        <3> QED BY <3>2, SeqDef
    <2> QED BY <2>1
<1>2. Append(s, x) \in Seq(S)
    BY <1>1
<1>3. IsSequence(Append(s, x))
    BY <1>2, ASequenceOf
<1> QED BY <1>1, <1>3

LEMMA Popped ==
    ASSUME NEW s, IsSequence(s), Len(s) >= 1
    PROVE  /\ Last(s) = s[Len(s)] /\ IsSequence(Front(s)) /\ Len(Front(s)) = Len(s) - 1
           /\ \A i \in 1..(Len(s) - 1) : Front(s)[i] = s[i]
<1>1. s # <<>> /\ s \in Seq(ToSet(s))
    BY DEF IsSequence
<1>2. Front(s) \in Seq(ToSet(s))
    BY <1>1, LastSplit
<1>3. IsSequence(Front(s))
    BY <1>2, ASequenceOf
<1> QED BY <1>1, <1>3, LastSplit

LEMMA Replaced ==
    ASSUME NEW s, IsSequence(s), Len(s) >= 1, NEW x
    PROVE  /\ IsSequence(WithLast(s, x)) /\ Len(WithLast(s, x)) = Len(s)
           /\ WithLast(s, x)[Len(s)] = x
           /\ \A i \in 1..(Len(s) - 1) : WithLast(s, x)[i] = s[i]
<1>1. PICK S : s \in Seq(S) /\ x \in S
    <2>1. s \in Seq(ToSet(s) \union {x})
        <3>1. \A i \in 1..Len(s) : s[i] \in ToSet(s) \union {x}
            BY DEF IsSequence
        <3>2. Len(s) \in Nat /\ s \in [1..Len(s) -> ToSet(s) \union {x}]
            BY <3>1 DEF IsSequence
        <3> QED BY <3>2, SeqDef
    <2> QED BY <2>1
<1>2. s # <<>> /\ Len(s) \in Nat
    BY <1>1
<1>3. /\ WithLast(s, x) \in Seq(S) /\ Len(WithLast(s, x)) = Len(s) /\ WithLast(s, x)[Len(s)] = x
      /\ \A i \in 1..Len(s) : i # Len(s) => WithLast(s, x)[i] = s[i]
    BY <1>1, <1>2, LastReplaced
<1>4. IsSequence(WithLast(s, x))
    BY <1>3, ASequenceOf
<1> QED BY <1>2, <1>3, <1>4

-----------------------------------------------------------------------------
(* How the level of a document changes with its events, and what of it is  *)
(* open.                                                                   *)
Change(e) == IF IsStart(e) THEN 1 ELSE IF IsEnd(e) THEN -1 ELSE 0

LEMMA CountGrows ==
    ASSUME NEW i \in Nat \ {0}, NEW T, NEW U, T \in SUBSET (1..(i - 1)), U = T \/ U = T \union {i}
    PROVE  /\ Cardinality(T) \in Nat /\ Cardinality(U) \in Nat
           /\ Cardinality(U) = IF U = T THEN Cardinality(T) ELSE Cardinality(T) + 1
<1>1. IsFiniteSet(T)
    <2>1. IsFiniteSet(1..(i - 1))
        BY FS_Interval
    <2> QED BY <2>1, FS_Subset
<1>2. Cardinality(T) \in Nat
    BY <1>1, FS_CardinalityType
<1>3. CASE U = T
    BY <1>2, <1>3
<1>4. CASE U # T
    <2>1. U = T \union {i} /\ i \notin T
        BY <1>4
    <2>2. Cardinality(T \union {i}) = Cardinality(T) + 1
        BY <1>1, <2>1, FS_AddElement
    <2> QED BY <1>2, <1>4, <2>1, <2>2
<1> QED BY <1>3, <1>4

LEMMA LevelStep ==
    ASSUME NEW D, NEW i \in Nat \ {0}
    PROVE  /\ Level(D, 1) = 0 /\ Level(D, i) \in Int
           /\ Level(D, i + 1) = Level(D, i) + Change(D[i])
<1> DEFINE starts(n) == {j \in 1..(n - 1) : IsStart(D[j])}
           ends(n) == {j \in 1..(n - 1) : IsEnd(D[j])}
<1>1. Level(D, 1) = 0
    <2>1. starts(1) = {} /\ ends(1) = {}
        OBVIOUS
    <2> HIDE DEF starts, ends
    <2>2. Cardinality(starts(1)) = 0 /\ Cardinality(ends(1)) = 0
        BY <2>1, FS_EmptySet
    <2>3. Level(D, 1) = Cardinality(starts(1)) - Cardinality(ends(1))
        BY DEF Level, starts, ends
    <2> QED BY <2>2, <2>3
<1>2. ~(IsStart(D[i]) /\ IsEnd(D[i]))
    BY DEF IsStart, IsEnd
<1>3. starts(i + 1) = IF IsStart(D[i]) THEN starts(i) \union {i} ELSE starts(i)
    OBVIOUS
<1>4. ends(i + 1) = IF IsEnd(D[i]) THEN ends(i) \union {i} ELSE ends(i)
    OBVIOUS
<1>5. starts(i) \in SUBSET (1..(i - 1)) /\ ends(i) \in SUBSET (1..(i - 1)) /\ i \notin 1..(i - 1)
    OBVIOUS
<1>6. /\ Level(D, i) = Cardinality(starts(i)) - Cardinality(ends(i))
      /\ Level(D, i + 1) = Cardinality(starts(i + 1)) - Cardinality(ends(i + 1))
    BY DEF Level
<1> HIDE DEF starts, ends
<1>7. /\ Cardinality(starts(i)) \in Nat
      /\ Cardinality(starts(i + 1)) = IF IsStart(D[i]) THEN Cardinality(starts(i)) + 1 ELSE Cardinality(starts(i))
    <2>1. starts(i + 1) = starts(i) <=> ~IsStart(D[i])
        BY <1>3, <1>5
    <2>2. starts(i + 1) = starts(i) \/ starts(i + 1) = starts(i) \union {i}
        BY <1>3
    <2>3. /\ Cardinality(starts(i)) \in Nat
          /\ Cardinality(starts(i + 1)) = IF starts(i + 1) = starts(i) THEN Cardinality(starts(i)) ELSE Cardinality(starts(i)) + 1
        BY <1>5, <2>2, CountGrows
    <2> QED BY <2>1, <2>3
<1>8. /\ Cardinality(ends(i)) \in Nat
      /\ Cardinality(ends(i + 1)) = IF IsEnd(D[i]) THEN Cardinality(ends(i)) + 1 ELSE Cardinality(ends(i))
    <2>1. ends(i + 1) = ends(i) <=> ~IsEnd(D[i])
        BY <1>4, <1>5
    <2>2. ends(i + 1) = ends(i) \/ ends(i + 1) = ends(i) \union {i}
        BY <1>4
    <2>3. /\ Cardinality(ends(i)) \in Nat
          /\ Cardinality(ends(i + 1)) = IF ends(i + 1) = ends(i) THEN Cardinality(ends(i)) ELSE Cardinality(ends(i)) + 1
        BY <1>5, <2>2, CountGrows
    <2> QED BY <2>1, <2>3
<1> QED BY <1>1, <1>2, <1>6, <1>7, <1>8 DEF Change

LEMMA OpenAfter ==
    ASSUME NEW D, IsSequence(D), NEW i \in 1..Len(D)
    PROVE  /\ StillOpen(D, i) \subseteq 1..(i - 1)
           /\ StillOpen(D, 1) = {}
           /\ StillOpen(D, i + 1) =
                IF IsStart(D[i]) THEN StillOpen(D, i) \union {i}
                ELSE IF IsEnd(D[i]) THEN {p \in StillOpen(D, i) : Level(D, p) + 1 # Level(D, i)}
                ELSE StillOpen(D, i)
<1>1. DOMAIN D = 1..Len(D) /\ Len(D) \in Nat
    BY SequenceHas
<1>2. Elements(D) \subseteq 1..Len(D) /\ \A p \in 1..Len(D) : p \in Elements(D) <=> IsStart(D[p])
    BY <1>1 DEF Elements
<1>3. ~(IsStart(D[i]) /\ IsEnd(D[i]))
    BY DEF IsStart, IsEnd
<1>4. \A p \in 1..Len(D) : p < i =>
        (p \in StillOpen(D, i + 1) <=>
            p \in StillOpen(D, i) /\ ~(IsEnd(D[i]) /\ Level(D, i) = Level(D, p) + 1))
    <2>1. TAKE p \in 1..Len(D)
    <2>2. HAVE p < i
    <2>3. (p + 1)..((i + 1) - 1) = ((p + 1)..(i - 1)) \union {i}
        BY <2>2, <1>1
    <2> QED BY <2>2, <2>3 DEF StillOpen
<1>5. i \in StillOpen(D, i + 1) <=> IsStart(D[i])
    <2>1. (i + 1)..((i + 1) - 1) = {}
        BY <1>1
    <2>2. i < i + 1
        BY <1>1
    <2> QED BY <1>2, <2>1, <2>2 DEF StillOpen
<1>6. /\ StillOpen(D, i) \subseteq 1..(i - 1)
      /\ StillOpen(D, i + 1) \subseteq 1..i
      /\ StillOpen(D, 1) = {}
    BY <1>1, <1>2 DEF StillOpen
<1> HIDE DEF StillOpen
<1>7. CASE IsStart(D[i])
    BY <1>1, <1>3, <1>4, <1>5, <1>6, <1>7
<1>8. CASE IsEnd(D[i])
    <2>1. PICK T : T = {p \in StillOpen(D, i) : Level(D, p) + 1 # Level(D, i)}
        OBVIOUS
    <2>2. \A p : p \in StillOpen(D, i + 1) <=> p \in T
        BY <1>1, <1>3, <1>4, <1>5, <1>6, <1>8, <2>1
    <2>3. StillOpen(D, i + 1) = T
        BY <2>2
    <2> QED BY <1>3, <1>6, <1>8, <2>1, <2>3
<1>9. CASE ~IsStart(D[i]) /\ ~IsEnd(D[i])
    BY <1>1, <1>4, <1>5, <1>6, <1>9
<1> QED BY <1>7, <1>8, <1>9

LEMMA NestsAfter ==
    ASSUME NEW D, IsSequence(D), NEW i \in 1..Len(D), Nests(D, i)
    PROVE  Nests(D, i + 1)
<1>1. Len(D) \in Nat /\ i \in Nat \ {0}
    BY SequenceHas
<1>2. /\ StillOpen(D, i) \subseteq 1..(i - 1)
      /\ StillOpen(D, i + 1) =
           IF IsStart(D[i]) THEN StillOpen(D, i) \union {i}
           ELSE IF IsEnd(D[i]) THEN {p \in StillOpen(D, i) : Level(D, p) + 1 # Level(D, i)}
           ELSE StillOpen(D, i)
    BY OpenAfter
<1>3. \A p \in StillOpen(D, i + 1) :
        /\ Level(D, p) \in Int
        /\ p \in StillOpen(D, i) \/ (p = i /\ IsStart(D[i]))
        /\ IsEnd(D[i]) => Level(D, p) + 1 # Level(D, i)
    <2>1. TAKE p \in StillOpen(D, i + 1)
    <2>2. ~(IsStart(D[i]) /\ IsEnd(D[i]))
        BY DEF IsStart, IsEnd
    <2>3. p \in StillOpen(D, i) \/ (p = i /\ IsStart(D[i]))
        BY <1>2
    <2>4. p \in Nat \ {0}
        BY <1>1, <1>2, <2>3
    <2>5. Level(D, p) \in Int
        BY <2>4, LevelStep
    <2> QED BY <1>2, <2>2, <2>3, <2>5
<1>4. Level(D, i) \in Int /\ Level(D, i + 1) = Level(D, i) + Change(D[i])
    BY <1>1, LevelStep
<1>5. ASSUME NEW p \in StillOpen(D, i + 1)
      PROVE  Level(D, p) < Level(D, i + 1)
    <2>1. CASE p = i /\ IsStart(D[i])
        BY <2>1, <1>4 DEF Change
    <2>2. CASE p \in StillOpen(D, i)
        <3>1. Level(D, p) < Level(D, i) /\ Level(D, p) \in Int
            BY <1>3, <2>2 DEF Nests
        <3>2. CASE IsEnd(D[i])
            BY <1>3, <1>4, <3>1, <3>2 DEF Change, IsStart, IsEnd
        <3>3. CASE ~IsEnd(D[i])
            BY <1>4, <3>1, <3>3 DEF Change
        <3> QED BY <3>2, <3>3
    <2> QED BY <1>3, <2>1, <2>2
<1>6. ASSUME NEW p \in StillOpen(D, i + 1), NEW q \in StillOpen(D, i + 1), p < q
      PROVE  Level(D, p) < Level(D, q)
    <2>1. p \in StillOpen(D, i)
        <3>1. CASE p = i
            <4>1. q \in 1..(i - 1) \/ q = i
                BY <1>2, <1>3
            <4> QED BY <1>1, <1>6, <3>1, <4>1
        <3> QED BY <1>3, <3>1
    <2>2. CASE q = i
        BY <1>3, <2>1, <2>2 DEF Nests
    <2>3. CASE q \in StillOpen(D, i)
        BY <1>6, <2>1, <2>3 DEF Nests
    <2> QED BY <1>3, <2>2, <2>3
<1> QED BY <1>5, <1>6 DEF Nests

-----------------------------------------------------------------------------
(* What an event does to a selector, and to a lane. *)
LEMMA FilteredStep ==
    ASSUME NEW s, IsSelector(s), IsSequence(s.counts), NEW e,
           Len(s.counts) >= 1
    PROVE  /\ IsSelector(Filtered(s, e)) /\ IsSequence(Filtered(s, e).counts)
           /\ Len(Filtered(s, e).counts) = Len(s.counts) + Change(e)
           /\ IsStart(e) =>
                \/ /\ Filtered(s, e).selected = s.selected
                   /\ Filtered(s, e).searching => s.searching
                \/ /\ Filtered(s, e).selected = {Len(s.counts) - 1}
                   /\ ~Filtered(s, e).searching /\ s.searching
           /\ IsEnd(e) =>
                /\ Filtered(s, e).selected = s.selected \ {Len(s.counts) - 2}
                /\ Filtered(s, e).searching => s.searching
           /\ ~IsStart(e) /\ ~IsEnd(e) =>
                Filtered(s, e).selected = s.selected /\ Filtered(s, e).searching = s.searching
<1>1. Len(s.counts) \in Nat /\ DOMAIN s.counts = 1..Len(s.counts)
    BY SequenceHas
<1>2. CASE IsStart(e)
    <2>1. Filtered(s, e) = Started(s, e)
        <3>1. e.kind # "Doctype" /\ ~IsEnd(e)
            BY <1>2 DEF IsStart, IsEnd
        <3> QED BY <1>2, <3>1, Zenon DEF Filtered
    <2>2. PICK counts : counts = [s.counts EXCEPT ![(Len(s.counts) - 1) + 1] = @ + 1]
        OBVIOUS
    <2>3. IsSequence(counts) /\ Len(counts) = Len(s.counts)
        <3>1. (Len(s.counts) - 1) + 1 = Len(s.counts)
            BY <1>1
        <3>2. counts = WithLast(s.counts, s.counts[Len(s.counts)] + 1)
            BY <2>2, <3>1, Zenon DEF WithLast
        <3> QED BY <3>2, Replaced
    <2>4. PICK target \in BOOLEAN :
            /\ target => s.searching
            /\ Started(s, e).part = s.part
            /\ Started(s, e).counts = Append(counts, 0)
            /\ Started(s, e).selected = IF target THEN {Len(s.counts) - 1} ELSE s.selected
            /\ Started(s, e).searching = (s.searching /\ ~target)
        BY <2>2 DEF Started
    <2>5. IsSelector(Started(s, e))
        <3>1. s.declared \in BOOLEAN /\ s.searching \in BOOLEAN
            BY DEF IsSelector
        <3> QED BY <3>1 DEF Started, IsSelector
    <2>6. IsSequence(Append(counts, 0)) /\ Len(Append(counts, 0)) = Len(s.counts) + 1
        BY <2>3, Pushed
    <2>7. Change(e) = 1 /\ ~IsEnd(e)
        BY <1>2 DEF Change, IsStart, IsEnd
    <2> QED BY <1>2, <2>1, <2>4, <2>5, <2>6, <2>7
<1>3. CASE IsEnd(e)
    <2>1. Filtered(s, e) = Ended(s) /\ ~IsStart(e)
        BY <1>3 DEF Filtered, IsStart, IsEnd
    <2>2. /\ Ended(s).counts = Front(s.counts) /\ Ended(s).selected = s.selected \ {Len(s.counts) - 2}
          /\ Ended(s).searching => s.searching
        BY DEF Ended
    <2>3. IsSelector(Ended(s))
        <3>1. s.declared \in BOOLEAN /\ s.searching \in BOOLEAN
            BY DEF IsSelector
        <3> QED BY <3>1 DEF Ended, IsSelector
    <2>4. IsSequence(Front(s.counts)) /\ Len(Front(s.counts)) = Len(s.counts) - 1
        BY Popped
    <2>5. Change(e) = -1
        BY <1>3, <2>1 DEF Change
    <2> QED BY <1>1, <1>3, <2>1, <2>2, <2>3, <2>4, <2>5
<1>4. CASE ~IsStart(e) /\ ~IsEnd(e)
    <2>1. PICK f : f = Filtered(s, e)
        OBVIOUS
    <2>2. f = [s EXCEPT !.declared = TRUE] \/ f = s
        BY <1>4, <2>1 DEF Filtered
    <2>3. f.counts = s.counts /\ f.selected = s.selected /\ f.searching = s.searching /\ IsSelector(f)
        BY <2>2 DEF IsSelector
    <2>4. Change(e) = 0
        BY <1>4 DEF Change
    <2>5. IsSequence(f.counts) /\ Len(f.counts) = Len(s.counts) + Change(e)
        BY <1>1, <2>3, <2>4
    <2> QED BY <1>4, <2>1, <2>3, <2>5
<1> QED BY <1>2, <1>3, <1>4

LEMMA ReportedFacts ==
    ASSUME NEW D, Reported(D)
    PROVE  /\ IsSequence(D) /\ Len(D) \in Nat /\ DOMAIN D = 1..Len(D)
           /\ \A i \in 1..Len(D) :
                /\ Level(D, i) \in Nat
                /\ IsEnd(D[i]) => Level(D, i) > 0
                /\ D[i].kind \in Frame => Level(D, i) = 0
                /\ D[i].kind = "StartDocument" => i = 1
           /\ D # <<>> /\ D[Len(D)].kind # "Malformed" => Level(D, Len(D) + 1) = 0
<1>1. IsSequence(D)
    BY DEF Reported, IsSequence
<1>2. Len(D) \in Nat /\ DOMAIN D = 1..Len(D)
    BY <1>1, SequenceHas
<1>3. \A i \in 1..Len(D) : Level(D, i) \in Int
    BY LevelStep
<1>4. Last(D) = D[Len(D)]
    BY DEF Last
<1> QED BY <1>1, <1>2, <1>3, <1>4 DEF Reported

LEMMA LaneFacts ==
    ASSUME NEW library, NEW l, LaneFits(library, l)
    PROVE  /\ IsSequence(l.events) /\ Len(l.events) \in Nat /\ DOMAIN l.events = 1..Len(l.events)
           /\ l.at \in Nat \ {0} /\ Depth(l) \in Nat
           /\ \A p \in StillOpen(l.events, l.at) :
                p \in Nat \ {0} /\ p < l.at /\ p \in 1..Len(l.events) /\ Level(l.events, p) \in Nat
<1>1. Reported(l.events) /\ l.at \in 1..(Len(l.events) + 1) /\ Depth(l) \in Nat
    BY DEF LaneFits
<1>2. /\ IsSequence(l.events) /\ Len(l.events) \in Nat /\ DOMAIN l.events = 1..Len(l.events)
      /\ \A i \in 1..Len(l.events) : Level(l.events, i) \in Nat
    BY <1>1, ReportedFacts
<1>3. \A p \in StillOpen(l.events, l.at) : p \in 1..Len(l.events) /\ p < l.at
    BY <1>2 DEF StillOpen, Elements
<1> QED BY <1>1, <1>2, <1>3

LEMMA OnwardFits ==
    ASSUME NEW library, NEW l, LaneFits(library, l), l.at <= Len(l.events),
           l.events[l.at].kind # "Malformed"
    PROVE  /\ LaneFits(library, Onward(l, l.events[l.at]))
           /\ Depth(Onward(l, l.events[l.at])) = Depth(l) + Change(l.events[l.at])
<1>1. PICK e : e = l.events[l.at]
    OBVIOUS
<1>2. PICK m : m = Onward(l, e)
    OBVIOUS
<1>3. PICK D : D = l.events
    OBVIOUS
<1>4. PICK i \in 1..Len(D) : i = l.at
    BY <1>3 DEF LaneFits
<1>5. /\ m.events = D /\ m.parse = l.parse /\ m.at = i + 1 /\ m.selector = Filtered(l.selector, e)
      /\ e = D[i] /\ Depth(l) = Level(D, i) /\ Depth(m) = Level(D, i + 1)
    BY <1>1, <1>2, <1>3, <1>4 DEF Onward, Depth
<1>6. /\ IsSequence(D) /\ Len(D) \in Nat /\ Reported(D) /\ Nests(D, i) /\ Level(D, i) \in Nat
      /\ IsEnd(e) => Level(D, i) > 0
      /\ i = Len(D) => Level(D, i + 1) = 0
      /\ i < Len(D) => Level(D, i + 1) \in Nat
    <2>1. Reported(D) /\ Nests(D, i) /\ Level(D, i) \in Nat
        BY <1>3, <1>4, <1>5 DEF LaneFits
    <2>2. i < Len(D) => i + 1 \in 1..Len(D)
        BY <2>1, ReportedFacts
    <2>3. D # <<>>
        BY <2>1, ReportedFacts
    <2> QED BY <1>1, <1>5, <2>1, <2>2, <2>3, ReportedFacts
<1>7. Level(D, i + 1) = Level(D, i) + Change(e)
    BY <1>5, <1>6, LevelStep
<1>8. Nests(D, i + 1)
    BY <1>6, NestsAfter
<1>9. i + 1 \in 1..(Len(D) + 1) /\ (i + 1 = Len(D) + 1 => Level(D, i + 1) = 0) /\ Level(D, i + 1) \in Nat
    BY <1>6
<1>10. /\ IsSelector(l.selector) /\ IsSequence(l.selector.counts)
       /\ Len(l.selector.counts) = Level(D, i) + 1
       /\ l.selector.selected # {} =>
            /\ ~l.selector.searching
            /\ \E d \in 0..Level(D, i) : d < Level(D, i) /\ l.selector.selected = {d}
    BY <1>5 DEF LaneFits
<1>11. /\ IsSelector(m.selector) /\ IsSequence(m.selector.counts)
       /\ Len(m.selector.counts) = Level(D, i + 1) + 1
    <2>1. Len(l.selector.counts) >= 1
        BY <1>6, <1>10
    <2>2. /\ IsSelector(m.selector) /\ IsSequence(m.selector.counts)
          /\ Len(m.selector.counts) = Len(l.selector.counts) + Change(e)
        BY <1>5, <1>10, <2>1, FilteredStep
    <2>3. Change(e) \in Int
        BY DEF Change
    <2> QED BY <1>6, <1>7, <1>10, <2>2, <2>3
<1>12. m.selector.selected # {} =>
            /\ ~m.selector.searching
            /\ \E d \in 0..Level(D, i + 1) : d < Level(D, i + 1) /\ m.selector.selected = {d}
    <2>1. SUFFICES ASSUME m.selector.selected # {}
                   PROVE  /\ ~m.selector.searching
                          /\ \E d \in Nat : d < Level(D, i + 1) /\ m.selector.selected = {d}
        BY <1>9
    <2>2. Len(l.selector.counts) >= 1
        BY <1>6, <1>10
    <2>3. CASE IsStart(e)
        <3>1. Change(e) = 1
            BY <2>3 DEF Change
        <3>2. \/ /\ m.selector.selected = l.selector.selected
                 /\ m.selector.searching => l.selector.searching
              \/ m.selector.selected = {Level(D, i)} /\ ~m.selector.searching
            BY SMTT(30), <1>5, <1>6, <1>10, <2>2, <2>3, FilteredStep
        <3> QED BY <1>6, <1>7, <1>10, <2>1, <3>1, <3>2
    <2>4. CASE IsEnd(e)
        <3>1. Change(e) = -1
            BY <2>4 DEF Change, IsStart, IsEnd
        <3>2. /\ m.selector.selected = l.selector.selected \ {Level(D, i) - 1}
              /\ m.selector.searching => l.selector.searching
            BY <1>5, <1>6, <1>10, <2>2, <2>4, FilteredStep
        <3>3. PICK d \in Nat : d < Level(D, i) /\ l.selector.selected = {d} /\ ~l.selector.searching
            BY <1>10, <2>1, <3>2
        <3>4. d # Level(D, i) - 1 /\ m.selector.selected = {d}
            BY <2>1, <3>2, <3>3
        <3> QED BY <1>6, <1>7, <3>1, <3>2, <3>3, <3>4
    <2>5. CASE ~IsStart(e) /\ ~IsEnd(e)
        <3>1. Change(e) = 0
            BY <2>5 DEF Change
        <3>2. m.selector.selected = l.selector.selected /\ m.selector.searching = l.selector.searching
            BY <1>5, <1>10, <2>2, <2>5, FilteredStep
        <3> QED BY <1>6, <1>7, <1>10, <2>1, <3>1, <3>2
    <2> QED BY <2>3, <2>4, <2>5
<1>13. \E u \in DOMAIN library :
          m.events = IF m.parse = "text" THEN library[u].text ELSE library[u].xml
    BY <1>3, <1>5 DEF LaneFits
<1>14. LaneFits(library, m)
    BY <1>5, <1>6, <1>8, <1>9, <1>11, <1>12, <1>13 DEF LaneFits
<1> QED BY <1>1, <1>2, <1>5, <1>7, <1>14

(* What is left out stands outside the part that is selected; what is not  *)
(* leaves the bottom of it where it is.                                    *)
Chosen(l, e) == l.pointer = <<>> \/ e.kind \in Frame \/ Picks(l.selector, e)

EventOf(l) == l.events[l.at]

LEMMA BottomFacts ==
    ASSUME NEW library, NEW l, LaneFits(library, l)
    PROVE  /\ Bottom(l) \in Nat /\ Bottom(l) <= Depth(l)
           /\ l.pointer # <<>> => \A d : l.selector.selected = {d} => Bottom(l) = d /\ d \in Nat /\ d < Depth(l)
<1>1. Depth(l) \in Nat
    BY LaneFacts
<1>2. CASE l.pointer = <<>> \/ l.selector.selected = {}
    <2>1. Bottom(l) = 0 \/ Bottom(l) = Depth(l)
        BY <1>2 DEF Bottom
    <2>2. l.pointer # <<>> => l.selector.selected = {}
        BY <1>2
    <2> QED BY <1>1, <2>1, <2>2
<1>3. CASE l.pointer # <<>> /\ l.selector.selected # {}
    <2>1. PICK d \in Nat : d < Depth(l) /\ l.selector.selected = {d}
        BY <1>3 DEF LaneFits
    <2>2. (CHOOSE x \in {d} : TRUE) = d
        OBVIOUS
    <2>3. Bottom(l) = d
        BY <1>3, <2>1, <2>2 DEF Bottom
    <2> QED BY <1>1, <2>1, <2>3
<1> QED BY <1>2, <1>3

LEMMA Selection ==
    ASSUME NEW library, NEW l, LaneFits(library, l), l.at <= Len(l.events),
           EventOf(l).kind # "Malformed"
    PROVE  /\ Chosen(l, EventOf(l)) => Bottom(Onward(l, EventOf(l))) = Bottom(l)
           /\ ~Chosen(l, EventOf(l)) =>
                /\ l.pointer # <<>> /\ l.selector.selected = {}
                /\ Bottom(l) = Depth(l) /\ Bottom(Onward(l, EventOf(l))) = Depth(Onward(l, EventOf(l)))
           /\ Chosen(l, EventOf(l)) /\ IsStart(EventOf(l)) /\ l.pointer # <<>> =>
                \E d \in 0..Depth(l) : Onward(l, EventOf(l)).selector.selected = {d}
           /\ l.selector.selected # {} /\ ~(IsEnd(EventOf(l)) /\ l.selector.selected = {Depth(l) - 1}) =>
                Onward(l, EventOf(l)).selector.selected = l.selector.selected
<1>1. PICK e : e = EventOf(l)
    OBVIOUS
<1>2. PICK m : m = Onward(l, e)
    OBVIOUS
<1>3. /\ LaneFits(library, m) /\ Depth(m) = Depth(l) + Change(e)
      /\ m.pointer = l.pointer /\ m.selector = Filtered(l.selector, e)
    <2>1. LaneFits(library, Onward(l, e)) /\ Depth(Onward(l, e)) = Depth(l) + Change(e)
        BY <1>1, OnwardFits DEF EventOf
    <2> QED BY <1>2, <2>1 DEF Onward
<1>4. Depth(l) \in Nat /\ Depth(m) \in Nat
    BY <1>3, LaneFacts
<1>5. /\ IsSelector(l.selector) /\ IsSequence(l.selector.counts)
      /\ Len(l.selector.counts) = Depth(l) + 1 /\ Len(l.selector.counts) >= 1
      /\ l.selector.selected # {} => ~l.selector.searching /\ \E d \in Nat : d < Depth(l) /\ l.selector.selected = {d}
    BY <1>4 DEF LaneFits
<1>6. IsStart(e) =>
        /\ ~IsEnd(e) /\ e.kind \notin Frame
        /\ \/ m.selector.selected = l.selector.selected
           \/ m.selector.selected = {Depth(l)} /\ l.selector.selected = {}
    <2>1. SUFFICES ASSUME IsStart(e) PROVE <1>6!2
        OBVIOUS
    <2>2. \/ m.selector.selected = l.selector.selected
          \/ m.selector.selected = {Len(l.selector.counts) - 1} /\ l.selector.searching
        BY <1>3, <1>5, <2>1, FilteredStep
    <2> QED BY <1>4, <1>5, <2>1, <2>2 DEF IsStart, IsEnd, Frame
<1>7. IsEnd(e) => m.selector.selected = l.selector.selected \ {Depth(l) - 1}
    <2>1. Len(l.selector.counts) - 2 = Depth(l) - 1
        BY <1>4, <1>5
    <2> QED BY <1>3, <1>5, <2>1, FilteredStep
<1>8. ~IsStart(e) /\ ~IsEnd(e) => m.selector.selected = l.selector.selected
    BY <1>3, <1>5, FilteredStep
<1>9. IsStart(e) => (Picks(l.selector, e) <=> m.selector.selected # {})
    <2>1. IsStart(e) => Filtered(l.selector, e) = Started(l.selector, e)
        <3>1. IsStart(e) => e.kind # "Doctype" /\ ~IsEnd(e)
            BY DEF IsStart, IsEnd
        <3> QED BY <3>1, Zenon DEF Filtered
    <2> QED BY <1>3, <1>6, <2>1 DEF Picks
<1>10. ~IsStart(e) => (Picks(l.selector, e) <=> e.kind \notin Frame /\ l.selector.selected # {})
    BY DEF Picks
<1>11. e.kind \in Frame => ~IsStart(e) /\ ~IsEnd(e)
    BY DEF Frame, IsStart, IsEnd
<1>12. Chosen(l, e) => Bottom(m) = Bottom(l)
    <2>1. CASE l.pointer = <<>>
        BY <1>3, <2>1 DEF Bottom
    <2>2. CASE l.pointer # <<>> /\ m.selector.selected = l.selector.selected
        <3>1. CASE l.selector.selected = {}
            <4>1. Chosen(l, e) => e.kind \in Frame
                BY <1>9, <1>10, <2>2, <3>1 DEF Chosen
            <4>2. e.kind \in Frame => Change(e) = 0
                BY <1>11 DEF Change
            <4> QED BY <1>3, <1>4, <2>2, <3>1, <4>1, <4>2 DEF Bottom
        <3>2. CASE l.selector.selected # {}
            BY <1>3, <1>5, <2>2, <3>2, BottomFacts
        <3> QED BY <3>1, <3>2
    <2>3. CASE l.pointer # <<>> /\ m.selector.selected # l.selector.selected /\ IsStart(e)
        <3>1. m.selector.selected = {Depth(l)} /\ l.selector.selected = {}
            BY <1>6, <2>3
        <3>2. Bottom(m) = Depth(l)
            BY <1>3, <2>3, <3>1, BottomFacts
        <3> QED BY <2>3, <3>1, <3>2 DEF Bottom
    <2>4. CASE l.pointer # <<>> /\ m.selector.selected # l.selector.selected /\ IsEnd(e)
        <3>1. PICK d \in Nat : d < Depth(l) /\ l.selector.selected = {d}
            BY <1>5, <1>7, <2>4
        <3>2. d = Depth(l) - 1 /\ m.selector.selected = {}
            BY <1>7, <2>4, <3>1
        <3>3. Bottom(l) = d
            BY <2>4, <3>1, BottomFacts
        <3>4. Bottom(m) = Depth(m)
            BY <1>3, <2>4, <3>2 DEF Bottom
        <3>5. Change(e) = -1
            BY <2>4 DEF Change, IsStart, IsEnd
        <3> QED BY <1>3, <1>4, <3>2, <3>3, <3>4, <3>5
    <2> QED BY <1>8, <2>1, <2>2, <2>3, <2>4
<1>13. ~Chosen(l, e) =>
         /\ l.pointer # <<>> /\ l.selector.selected = {}
         /\ Bottom(l) = Depth(l) /\ Bottom(m) = Depth(m)
    <2>1. SUFFICES ASSUME ~Chosen(l, e) PROVE <1>13!2
        OBVIOUS
    <2>2. l.pointer # <<>> /\ ~Picks(l.selector, e) /\ e.kind \notin Frame
        BY <2>1 DEF Chosen
    <2>3. l.selector.selected = {} /\ m.selector.selected = {}
        BY <1>6, <1>7, <1>8, <1>9, <1>10, <2>2
    <2> QED BY <1>3, <2>2, <2>3 DEF Bottom
<1>14. Chosen(l, e) /\ IsStart(e) /\ l.pointer # <<>> => \E d \in 0..Depth(l) : m.selector.selected = {d}
    <2>1. SUFFICES ASSUME Chosen(l, e), IsStart(e), l.pointer # <<>>
                   PROVE  \E d \in 0..Depth(l) : m.selector.selected = {d}
        OBVIOUS
    <2>2. m.selector.selected # {}
        BY <1>6, <1>9, <2>1 DEF Chosen
    <2> QED BY <1>4, <1>5, <1>6, <2>1, <2>2
<1>15. l.selector.selected # {} /\ ~(IsEnd(e) /\ l.selector.selected = {Depth(l) - 1}) =>
          m.selector.selected = l.selector.selected
    BY <1>5, <1>6, <1>7, <1>8
<1> QED BY <1>1, <1>2, <1>12, <1>13, <1>14, <1>15

-----------------------------------------------------------------------------
(* The last lane moves on to its next event. *)
Lanes(library, L) == IsSequence(L) /\ Len(L) >= 1 /\ \A k \in 1..Len(L) : LaneFits(library, L[k])

Readable(l) == l.at <= Len(l.events) /\ EventOf(l).kind # "Malformed"

Moves(L, M) ==
    /\ IsSequence(M) /\ Len(M) = Len(L)
    /\ M[Len(L)] = Onward(L[Len(L)], EventOf(L[Len(L)]))
    /\ \A k \in 1..(Len(L) - 1) : M[k] = L[k]

(* The event is not the end of the xi:include of s. *)
Leaves(l, level) == ~(IsEnd(EventOf(l)) /\ level + 1 = Depth(l))

Like(s, t) ==
    /\ t.element = s.element /\ t.uri = s.uri /\ t.xpointer = s.xpointer
    /\ Includes(t) <=> Includes(s)

LEMMA ScopeFacts ==
    ASSUME NEW library, NEW L, Lanes(library, L), NEW s, ScopeFits(L, s)
    PROVE  /\ LaneOf(s) \in 1..Len(L) /\ LaneOf(s) \in Nat /\ s.depth \in Nat
           /\ StartOf(s) \in Nat \ {0} /\ StartOf(s) < L[LaneOf(s)].at
           /\ StartOf(s) \in StillOpen(L[LaneOf(s)].events, L[LaneOf(s)].at)
           /\ StartOf(s) \in 1..Len(L[LaneOf(s)].events)
           /\ IsStart(L[LaneOf(s)].events[StartOf(s)])
           /\ LevelOf(L, s) \in Nat /\ Depth(L[LaneOf(s)]) \in Nat /\ LevelOf(L, s) < Depth(L[LaneOf(s)])
<1>1. Len(L) \in Nat /\ LaneOf(s) \in 1..Len(L) /\ s.depth \in Nat
    <2>1. s.depth \in Nat
        BY DEF ScopeFits, IsScope
    <2> QED BY <2>1, SequenceHas DEF Lanes, ScopeFits
<1>2. PICK l : l = L[LaneOf(s)] /\ LaneFits(library, l)
    BY <1>1 DEF Lanes
<1>3. StartOf(s) \in StillOpen(l.events, l.at) /\ IsStart(l.events[StartOf(s)])
    BY <1>2 DEF ScopeFits, OpenIncludes, IsInclude
<1>4. /\ StartOf(s) \in Nat \ {0} /\ StartOf(s) < l.at /\ StartOf(s) \in 1..Len(l.events)
      /\ Level(l.events, StartOf(s)) \in Nat /\ Depth(l) \in Nat
    BY <1>2, <1>3, LaneFacts
<1>5. Level(l.events, StartOf(s)) < Depth(l)
    BY <1>2, <1>3 DEF LaneFits, Nests, Depth
<1> QED BY <1>1, <1>2, <1>3, <1>4, <1>5 DEF LevelOf

LEMMA LanesMove ==
    ASSUME NEW library, NEW L, Lanes(library, L), Readable(L[Len(L)]), NEW M, Moves(L, M)
    PROVE  /\ Lanes(library, M)
           /\ Depth(M[Len(L)]) = Depth(L[Len(L)]) + Change(EventOf(L[Len(L)]))
           /\ M[Len(L)].at = L[Len(L)].at + 1
           /\ \A k \in 1..Len(L) :
                M[k].events = L[k].events /\ M[k].uri = L[k].uri /\ M[k].pointer = L[k].pointer
           /\ \A s : LaneOf(s) \in 1..Len(L) => LevelOf(M, s) = LevelOf(L, s)
<1>1. Len(L) \in Nat \ {0}
    BY SequenceHas DEF Lanes
<1>2. PICK l : l = L[Len(L)] /\ LaneFits(library, l) /\ Readable(l)
    BY <1>1 DEF Lanes
<1>3. /\ LaneFits(library, Onward(l, EventOf(l)))
      /\ Depth(Onward(l, EventOf(l))) = Depth(l) + Change(EventOf(l))
    BY <1>2, OnwardFits DEF Readable, EventOf
<1>4. /\ Onward(l, EventOf(l)).events = l.events /\ Onward(l, EventOf(l)).uri = l.uri
      /\ Onward(l, EventOf(l)).pointer = l.pointer /\ Onward(l, EventOf(l)).at = l.at + 1
    BY DEF Onward
<1>5. \A k \in 1..Len(L) : k \in 1..(Len(L) - 1) \/ k = Len(L)
    BY <1>1
<1>6. \A k \in 1..Len(L) :
        /\ LaneFits(library, M[k])
        /\ M[k].events = L[k].events /\ M[k].uri = L[k].uri /\ M[k].pointer = L[k].pointer
    BY <1>2, <1>3, <1>4, <1>5 DEF Moves, Lanes
<1>7. \A s : LaneOf(s) \in 1..Len(L) => LevelOf(M, s) = LevelOf(L, s)
    BY <1>6 DEF LevelOf
<1>8. Lanes(library, M)
    BY <1>1, <1>6 DEF Lanes, Moves
<1> QED BY <1>2, <1>3, <1>4, <1>6, <1>7, <1>8 DEF Moves

(* A scope whose xi:include does not end stays where it is. *)
LEMMA ScopeStays ==
    ASSUME NEW library, NEW L, Lanes(library, L), Readable(L[Len(L)]), NEW M, Moves(L, M),
           NEW s, ScopeFits(L, s), LaneOf(s) = Len(L) => Leaves(L[Len(L)], LevelOf(L, s)),
           NEW t, IsScope(t), Like(s, t), t.behavior = "FallbackInProgress" => t.depth > 0
    PROVE  ScopeFits(M, t)
<1>1. Len(L) \in Nat \ {0} /\ Len(M) = Len(L)
    BY SequenceHas DEF Lanes, Moves
<1>2. /\ LaneOf(s) \in 1..Len(L) /\ LevelOf(L, s) \in Nat
      /\ StartOf(s) \in StillOpen(L[LaneOf(s)].events, L[LaneOf(s)].at)
      /\ LevelOf(L, s) < Depth(L[LaneOf(s)]) /\ Depth(L[LaneOf(s)]) \in Nat
    BY ScopeFacts
<1>3. /\ LaneOf(t) = LaneOf(s) /\ StartOf(t) = StartOf(s) /\ LevelOf(M, t) = LevelOf(L, s)
    <2>1. LaneOf(t) = LaneOf(s) /\ StartOf(t) = StartOf(s)
        BY DEF Like, LaneOf, StartOf
    <2> QED BY <1>2, <2>1, LanesMove DEF LevelOf
<1>4. \A k \in 1..Len(L) :
        M[k].events = L[k].events /\ M[k].uri = L[k].uri /\ M[k].pointer = L[k].pointer
    BY LanesMove
<1>5. LaneOf(s) \in 1..(Len(L) - 1) => M[LaneOf(s)] = L[LaneOf(s)]
    BY DEF Moves
<1>6. LaneOf(s) \in 1..(Len(L) - 1) \/ LaneOf(s) = Len(L)
    BY <1>1, <1>2
<1>7. StartOf(t) \in OpenIncludes(M[LaneOf(t)])
    <2>1. StartOf(s) \in OpenIncludes(L[LaneOf(s)])
        BY DEF ScopeFits
    <2>2. CASE LaneOf(s) \in 1..(Len(L) - 1)
        BY <1>3, <1>5, <2>1, <2>2
    <2>3. CASE LaneOf(s) = Len(L)
        <3>1. PICK l : l = L[Len(L)] /\ LaneFits(library, l) /\ Readable(l)
            BY <1>1 DEF Lanes
        <3>2. PICK m : m = M[Len(L)] /\ m.events = l.events /\ m.at = l.at + 1
            BY <1>1, <3>1, LanesMove
        <3>3. IsSequence(l.events) /\ l.at \in 1..Len(l.events)
            BY <3>1, LaneFacts DEF Readable
        <3>4. StillOpen(l.events, l.at + 1) =
                IF IsStart(l.events[l.at]) THEN StillOpen(l.events, l.at) \union {l.at}
                ELSE IF IsEnd(l.events[l.at])
                THEN {p \in StillOpen(l.events, l.at) : Level(l.events, p) + 1 # Level(l.events, l.at)}
                ELSE StillOpen(l.events, l.at)
            BY <3>3, OpenAfter
        <3>5. ~(IsEnd(l.events[l.at]) /\ Level(l.events, StartOf(s)) + 1 = Level(l.events, l.at))
            BY <2>3, <3>1 DEF Leaves, EventOf, LevelOf, Depth
        <3>6. StartOf(s) \in StillOpen(l.events, l.at) /\ IsInclude(l.events[StartOf(s)])
            BY <2>1, <2>3, <3>1 DEF OpenIncludes
        <3>7. StartOf(s) \in StillOpen(l.events, l.at + 1)
            BY <3>4, <3>5, <3>6
        <3> QED BY <1>3, <2>3, <3>2, <3>6, <3>7 DEF OpenIncludes
    <2> QED BY <1>6, <2>2, <2>3
<1>8. Includes(t) =>
        /\ LaneOf(t) + 1 \in 1..Len(M)
        /\ M[LaneOf(t)].at = StartOf(t) + 1
        /\ t.uri = M[LaneOf(t) + 1].uri /\ t.xpointer = M[LaneOf(t) + 1].pointer
    <2>1. SUFFICES ASSUME Includes(t) PROVE <1>8!2
        OBVIOUS
    <2>2. /\ LaneOf(s) + 1 \in 1..Len(L) /\ L[LaneOf(s)].at = StartOf(s) + 1
          /\ s.uri = L[LaneOf(s) + 1].uri /\ s.xpointer = L[LaneOf(s) + 1].pointer
        BY <2>1 DEF Like, ScopeFits
    <2>3. LaneOf(s) \in 1..(Len(L) - 1)
        BY <1>1, <1>2, <2>2
    <2>4. t.uri = s.uri /\ t.xpointer = s.xpointer
        BY DEF Like
    <2> QED BY <1>1, <1>3, <1>4, <1>5, <2>2, <2>3, <2>4
<1>9. M[LaneOf(t)].pointer # <<>> =>
        \E d \in 0..LevelOf(M, t) : M[LaneOf(t)].selector.selected = {d}
    <2>1. SUFFICES ASSUME L[LaneOf(s)].pointer # <<>>
                   PROVE  \E d \in 0..LevelOf(L, s) : M[LaneOf(s)].selector.selected = {d}
        BY <1>2, <1>3, <1>4
    <2>2. PICK d \in 0..LevelOf(L, s) : L[LaneOf(s)].selector.selected = {d}
        BY <2>1 DEF ScopeFits
    <2>3. CASE LaneOf(s) \in 1..(Len(L) - 1)
        BY <1>5, <2>2, <2>3
    <2>4. CASE LaneOf(s) = Len(L)
        <3>1. PICK l : l = L[Len(L)] /\ LaneFits(library, l) /\ Readable(l)
            BY <1>1 DEF Lanes
        <3>2. /\ l.selector.selected = {d} /\ d \in Nat /\ d <= LevelOf(L, s)
              /\ LevelOf(L, s) < Depth(l) /\ Depth(l) \in Nat
            BY <1>2, <2>2, <2>4, <3>1
        <3>3. ~(IsEnd(EventOf(l)) /\ LevelOf(L, s) + 1 = Depth(l))
            BY <2>4, <3>1 DEF Leaves
        <3>4. ~(IsEnd(EventOf(l)) /\ l.selector.selected = {Depth(l) - 1})
            <4>1. SUFFICES ASSUME IsEnd(EventOf(l)), {d} = {Depth(l) - 1} PROVE FALSE
                BY <3>2
            <4>2. d = Depth(l) - 1
                BY <4>1
            <4> QED BY <1>2, <3>2, <3>3, <4>1, <4>2
        <3>5. l.selector.selected # {} /\ l.at <= Len(l.events) /\ EventOf(l).kind # "Malformed"
            BY <3>1, <3>2 DEF Readable
        <3>6. Onward(l, EventOf(l)).selector.selected = l.selector.selected
            BY <3>1, <3>4, <3>5, Selection
        <3> QED BY <2>2, <2>4, <3>1, <3>6 DEF Moves
    <2> QED BY <1>6, <2>3, <2>4
<1> QED BY <1>1, <1>2, <1>3, <1>7, <1>8, <1>9 DEF ScopeFits

(* What is chained, by parts. *)
LEMMA ChainFacts ==
    ASSUME NEW library, NEW L, NEW I, Chained(library, L, I)
    PROVE  /\ Lanes(library, L) /\ IsSequence(I) /\ Len(I) \in Nat /\ Len(L) \in Nat \ {0}
           /\ LaneFits(library, L[Len(L)])
           /\ \A i \in 1..Len(I) :
                /\ ScopeFits(L, I[i])
                /\ LaneOf(I[i]) \in 1..Len(L)
                /\ Includes(I[i]) => LaneOf(I[i]) + 1 \in 1..Len(L)
                /\ I[i].depth + Floor(L, I[i]) = Reached(L, I, i)
           /\ Len(I) = 0 => Len(L) = 1
           /\ Len(I) > 0 => Len(L) = Reader(I[Len(I)])
           /\ Follows(L, I) /\ InLine(I) /\ Explained(L, I) /\ NoLoop(I) /\ Measured(L, I) /\ Covered(L, I)
<1>1. /\ IsSequence(L) /\ IsSequence(I) /\ Len(L) >= 1
      /\ \A k \in 1..Len(L) : LaneFits(library, L[k])
      /\ \A i \in 1..Len(I) : ScopeFits(L, I[i])
      /\ Follows(L, I) /\ InLine(I) /\ Explained(L, I) /\ NoLoop(I) /\ Measured(L, I) /\ Covered(L, I)
    BY DEF Chained
<1>2. Len(I) \in Nat /\ Len(L) \in Nat \ {0}
    BY <1>1, SequenceHas
<1>3. Len(L) = IF Len(I) = 0 THEN 1 ELSE Reader(I[Len(I)])
    BY <1>1 DEF Follows
<1>4. \A i \in 1..Len(I) :
        /\ LaneOf(I[i]) \in 1..Len(L)
        /\ Includes(I[i]) => LaneOf(I[i]) + 1 \in 1..Len(L)
        /\ I[i].depth + Floor(L, I[i]) = Reached(L, I, i)
    BY <1>1 DEF ScopeFits, Measured
<1> QED BY <1>1, <1>2, <1>3, <1>4 DEF Lanes

(* The scopes in the lane that is read stand in each other. *)
LEMMA InLastLane ==
    ASSUME NEW library, NEW L, NEW I, Chained(library, L, I),
           NEW i \in 1..Len(I), i < Len(I), Reader(I[i]) = Len(L) \/ LaneOf(I[i]) = Len(L)
    PROVE  /\ LaneOf(I[Len(I)]) = Len(L) /\ ~Includes(I[Len(I)])
           /\ LaneOf(I[i]) = Len(L) =>
                /\ ~Includes(I[i])
                /\ LevelOf(L, I[i]) < LevelOf(L, I[Len(I)])
                /\ LevelOf(L, I[i]) + 1 < Depth(L[Len(L)])
<1>1. PICK m \in Nat : m = Len(I) /\ i < m /\ m \in 1..Len(I)
    BY ChainFacts
<1>2. PICK n \in Nat : n = Len(L)
    BY ChainFacts
<1>3. /\ Lanes(library, L) /\ LaneFits(library, L[n]) /\ ScopeFits(L, I[i]) /\ ScopeFits(L, I[m])
      /\ n = Reader(I[m]) /\ Before(I[i], I[m])
    <2>1. Before(I[i], I[m])
        BY <1>1, ChainFacts DEF InLine
    <2> QED BY <1>1, <1>2, <2>1, ChainFacts
<1>4. /\ LaneOf(I[i]) \in 1..n /\ LaneOf(I[m]) \in 1..n
      /\ Includes(I[i]) => LaneOf(I[i]) + 1 \in 1..n
      /\ Includes(I[m]) => LaneOf(I[m]) + 1 \in 1..n
    BY <1>1, <1>2, ChainFacts
<1>5. LaneOf(I[m]) = n /\ ~Includes(I[m])
    <2>1. (LaneOf(I[i]) = n - 1 /\ Includes(I[i])) \/ LaneOf(I[i]) = n
        BY <1>2, <1>4 DEF Reader
    <2>2. LaneOf(I[m]) = n
        BY <1>2, <1>3, <1>4, <2>1 DEF Before
    <2> QED BY <1>2, <1>4, <2>2
<1>6. ASSUME LaneOf(I[i]) = n
      PROVE  /\ ~Includes(I[i]) /\ LevelOf(L, I[i]) < LevelOf(L, I[m])
             /\ LevelOf(L, I[i]) + 1 < Depth(L[n])
    <2>1. StartOf(I[i]) < StartOf(I[m]) /\ ~Includes(I[i])
        BY <1>2, <1>3, <1>4, <1>5, <1>6 DEF Before
    <2>2. /\ StartOf(I[i]) \in StillOpen(L[n].events, L[n].at) /\ StartOf(I[m]) \in StillOpen(L[n].events, L[n].at)
          /\ LevelOf(L, I[i]) \in Nat /\ LevelOf(L, I[m]) \in Nat /\ Depth(L[n]) \in Nat
          /\ LevelOf(L, I[m]) < Depth(L[n])
        BY <1>3, <1>5, <1>6, ScopeFacts
    <2>3. LevelOf(L, I[i]) < LevelOf(L, I[m])
        BY <1>3, <1>5, <1>6, <2>1, <2>2 DEF LevelOf, LaneFits, Nests
    <2> QED BY <2>1, <2>2, <2>3
<1> QED BY <1>1, <1>2, <1>5, <1>6

LEMMA AlikeScopes ==
    ASSUME NEW L, NEW I, NEW M, NEW J, Len(I) \in Nat, Len(J) = Len(I), Len(M) = Len(L),
           \A i \in 1..Len(I) : Like(I[i], J[i]),
           Follows(L, I), InLine(I), Explained(L, I), NoLoop(I)
    PROVE  Follows(M, J) /\ InLine(J) /\ Explained(M, J) /\ NoLoop(J)
<1>1. \A i \in 1..Len(I) :
        /\ LaneOf(J[i]) = LaneOf(I[i]) /\ StartOf(J[i]) = StartOf(I[i])
        /\ Includes(J[i]) <=> Includes(I[i])
        /\ Reader(J[i]) = Reader(I[i])
        /\ J[i].uri = I[i].uri /\ J[i].xpointer = I[i].xpointer
    BY DEF Like, LaneOf, StartOf, Reader
<1>2. Follows(M, J)
    <2>1. \A i \in 1..Len(I) : i = 1 \/ i - 1 \in 1..Len(I)
        OBVIOUS
    <2>2. Len(I) # 0 => Len(I) \in 1..Len(I)
        OBVIOUS
    <2>3. \A i \in 1..Len(J) : LaneOf(J[i]) = IF i = 1 THEN 1 ELSE Reader(J[i - 1])
        BY <1>1, <2>1 DEF Follows
    <2>4. Len(M) = IF Len(J) = 0 THEN 1 ELSE Reader(J[Len(J)])
        BY <1>1, <2>2 DEF Follows
    <2> QED BY <2>3, <2>4 DEF Follows
<1>3. InLine(J)
    BY <1>1 DEF InLine, Before
<1>4. Explained(M, J)
    BY <1>1 DEF Explained
<1>5. NoLoop(J)
    BY <1>1 DEF NoLoop
<1> QED BY <1>2, <1>3, <1>4, <1>5

LEMMA FloorMoves ==
    ASSUME NEW library, NEW L, Lanes(library, L), Readable(L[Len(L)]), NEW M, Moves(L, M),
           NEW s, ScopeFits(L, s)
    PROVE  /\ ~(Includes(s) /\ LaneOf(s) + 1 = Len(L)) => Floor(M, s) = Floor(L, s)
           /\ Includes(s) /\ LaneOf(s) + 1 = Len(L) =>
                Floor(L, s) = Bottom(L[Len(L)]) /\ Floor(M, s) = Bottom(M[Len(L)])
<1>1. Len(L) \in Nat \ {0} /\ LaneOf(s) \in 1..Len(L) /\ (Includes(s) => LaneOf(s) + 1 \in 1..Len(L))
    BY SequenceHas DEF Lanes, ScopeFits
<1>2. LevelOf(M, s) = LevelOf(L, s)
    BY <1>1, LanesMove
<1>3. Includes(s) /\ LaneOf(s) + 1 # Len(L) => M[LaneOf(s) + 1] = L[LaneOf(s) + 1]
    BY <1>1 DEF Moves
<1> QED BY <1>2, <1>3 DEF Floor

(* Where the xi:include elements of a lane have their scopes. *)
Inherits(M, I, J) ==
    \A k \in 1..Len(M) : \A p \in OpenIncludes(M[k]) : \A i \in 1..Len(I) :
        LaneOf(I[i]) = k /\ StartOf(I[i]) <= p =>
            \E j \in 1..Len(J) : LaneOf(J[j]) = k /\ StartOf(J[j]) <= p

CoversNew(L, J) ==
    L[Len(L)].pointer = <<>> /\ IsInclude(EventOf(L[Len(L)])) =>
        \E j \in 1..Len(J) : LaneOf(J[j]) = Len(L) /\ StartOf(J[j]) <= L[Len(L)].at

LEMMA CoverMoves ==
    ASSUME NEW library, NEW L, Lanes(library, L), Readable(L[Len(L)]), NEW M, Moves(L, M),
           NEW I, Covered(L, I), NEW J,
           Inherits(M, I, J), CoversNew(L, J)
    PROVE  Covered(M, J)
<1>1. Len(L) \in Nat \ {0} /\ Len(M) = Len(L)
    BY SequenceHas DEF Lanes, Moves
<1>2. SUFFICES ASSUME NEW k \in 1..Len(L), M[k].pointer = <<>>, NEW p \in OpenIncludes(M[k])
               PROVE  \E j \in 1..Len(J) : LaneOf(J[j]) = k /\ StartOf(J[j]) <= p
    BY <1>1 DEF Covered
<1>3. L[k].pointer = <<>>
    BY <1>2, LanesMove
<1>4. CASE p \in OpenIncludes(L[k])
    <2>1. PICK i \in 1..Len(I) : LaneOf(I[i]) = k /\ StartOf(I[i]) <= p
        BY <1>3, <1>4 DEF Covered
    <2> QED BY <1>1, <1>2, <2>1 DEF Inherits
<1>5. CASE p \notin OpenIncludes(L[k])
    <2>1. k = Len(L)
        BY <1>1, <1>5 DEF Moves
    <2>2. PICK l : l = L[Len(L)] /\ LaneFits(library, l) /\ Readable(l)
        BY <1>1 DEF Lanes
    <2>3. PICK m : m = M[Len(L)] /\ m.events = l.events /\ m.at = l.at + 1
        BY <1>1, <2>2, LanesMove
    <2>4. IsSequence(l.events) /\ l.at \in 1..Len(l.events)
        BY <2>2, LaneFacts DEF Readable
    <2>5. StillOpen(l.events, l.at + 1) =
            IF IsStart(l.events[l.at]) THEN StillOpen(l.events, l.at) \union {l.at}
            ELSE IF IsEnd(l.events[l.at])
            THEN {q \in StillOpen(l.events, l.at) : Level(l.events, q) + 1 # Level(l.events, l.at)}
            ELSE StillOpen(l.events, l.at)
        BY <2>4, OpenAfter
    <2>6. p \in StillOpen(l.events, l.at + 1) /\ IsInclude(l.events[p])
        BY <1>2, <2>1, <2>3 DEF OpenIncludes
    <2>7. p \notin StillOpen(l.events, l.at)
        BY <1>5, <2>1, <2>2, <2>6 DEF OpenIncludes
    <2>8. p = l.at
        BY <2>5, <2>6, <2>7
    <2> QED BY <1>3, <2>1, <2>2, <2>6, <2>8 DEF EventOf, CoversNew
<1> QED BY <1>4, <1>5

(* The lane in which a scope stands is being read in what its pointer      *)
(* selects.                                                                *)
LEMMA ScopeIsChosen ==
    ASSUME NEW library, NEW L, Lanes(library, L), Readable(L[Len(L)]),
           NEW s, ScopeFits(L, s), LaneOf(s) = Len(L)
    PROVE  Chosen(L[Len(L)], EventOf(L[Len(L)]))
<1>1. Len(L) \in Nat \ {0} /\ LaneFits(library, L[Len(L)])
    BY SequenceHas DEF Lanes
<1>2. L[Len(L)].pointer # <<>> => L[Len(L)].selector.selected # {}
    BY DEF ScopeFits
<1>3. ~Chosen(L[Len(L)], EventOf(L[Len(L)])) =>
        L[Len(L)].pointer # <<>> /\ L[Len(L)].selector.selected = {}
    BY <1>1, Selection DEF Readable
<1> QED BY <1>2, <1>3

-----------------------------------------------------------------------------
(* The steps.  An event is read that opens and closes no scope: at most    *)
(* the innermost one changes, and counts it if it is not left out.         *)
LEMMA Reading ==
    ASSUME NEW library, NEW L, NEW I, Chained(library, L, I), Readable(L[Len(L)]),
           NEW M, Moves(L, M),
           NEW J, IsSequence(J), Len(J) = Len(I), \A i \in 1..(Len(I) - 1) : J[i] = I[i],
           Len(I) > 0 =>
              /\ IsScope(J[Len(I)]) /\ Like(I[Len(I)], J[Len(I)])
              /\ J[Len(I)].behavior = "FallbackInProgress" => J[Len(I)].depth > 0
              /\ J[Len(I)].depth = I[Len(I)].depth
                   + IF Chosen(L[Len(L)], EventOf(L[Len(L)])) THEN Change(EventOf(L[Len(L)])) ELSE 0
              /\ ~Includes(I[Len(I)]) /\ IsEnd(EventOf(L[Len(L)])) => I[Len(I)].depth > 0,
           L[Len(L)].pointer = <<>> /\ IsInclude(EventOf(L[Len(L)])) =>
              Len(I) > 0 /\ ~Includes(I[Len(I)])
    PROVE  Chained(library, M, J)
<1>1. PICK m \in Nat : m = Len(I)
    BY ChainFacts
<1>2. PICK n \in Nat \ {0} : n = Len(L)
    BY ChainFacts
<1>3. PICK l : l = L[n] /\ LaneFits(library, l) /\ Readable(l)
    BY <1>2, ChainFacts
<1>4. PICK e : e = EventOf(l)
    OBVIOUS
<1>5. /\ Lanes(library, L) /\ IsSequence(I) /\ (m = 0 => n = 1) /\ (m > 0 => n = Reader(I[m]))
      /\ \A i \in 1..m : ScopeFits(L, I[i]) /\ LaneOf(I[i]) \in 1..n
      /\ \A i \in 1..m : I[i].depth + Floor(L, I[i]) = Reached(L, I, i)
    BY <1>1, <1>2, ChainFacts
<1>6. /\ Lanes(library, M) /\ Len(M) = n /\ Depth(M[n]) = Depth(l) + Change(e)
      /\ \A s : LaneOf(s) \in 1..n => LevelOf(M, s) = LevelOf(L, s)
      /\ Depth(l) \in Nat /\ Change(e) \in Int
    <2>1. Change(e) \in Int
        BY DEF Change
    <2>2. Len(M) = n
        BY <1>2 DEF Moves
    <2> QED BY <1>2, <1>3, <1>4, <1>5, <2>1, <2>2, LanesMove, LaneFacts
<1>7. \A i \in 1..m :
        /\ i < m => J[i] = I[i]
        /\ Like(I[i], J[i])
        /\ IsScope(J[i])
        /\ J[i].behavior = "FallbackInProgress" => J[i].depth > 0
        /\ LaneOf(J[i]) = LaneOf(I[i]) /\ StartOf(J[i]) = StartOf(I[i]) /\ (Includes(J[i]) <=> Includes(I[i]))
    <2>1. TAKE i \in 1..m
    <2>2. CASE i = m
        BY <1>1, <2>2 DEF Like, LaneOf, StartOf
    <2>3. CASE i < m
        <3>1. J[i] = I[i]
            BY <1>1, <2>3
        <3>2. IsScope(I[i]) /\ (I[i].behavior = "FallbackInProgress" => I[i].depth > 0)
            BY <1>5 DEF ScopeFits
        <3> QED BY <3>1, <3>2, <2>3 DEF Like
    <2> QED BY <2>2, <2>3
<1>8. m > 0 /\ LaneOf(I[m]) = n => ~Includes(I[m]) /\ I[m].depth + (LevelOf(L, I[m]) + 1) = Depth(l)
    <2>1. SUFFICES ASSUME m > 0, LaneOf(I[m]) = n
                   PROVE  ~Includes(I[m]) /\ I[m].depth + (LevelOf(L, I[m]) + 1) = Depth(l)
        OBVIOUS
    <2>2. ~Includes(I[m])
        BY <1>2, <1>5, <2>1 DEF Reader
    <2>3. m \in 1..m /\ I[m].depth + Floor(L, I[m]) = Depth(L[n])
        BY <1>1, <1>2, <1>5, <2>1 DEF Reached
    <2>4. I[m].depth \in Nat /\ LevelOf(L, I[m]) \in Nat
        BY <1>5, <2>3, ScopeFacts
    <2>5. Floor(L, I[m]) = LevelOf(L, I[m]) + 1
        BY <2>2 DEF Floor
    <2> QED BY <1>3, <2>2, <2>3, <2>4, <2>5
<1>9. \A i \in 1..m : LaneOf(I[i]) = n => Leaves(l, LevelOf(L, I[i]))
    <2>1. TAKE i \in 1..m
    <2>2. HAVE LaneOf(I[i]) = n
    <2>3. CASE i = m
        <3>1. IsEnd(e) => I[m].depth > 0
            BY <1>1, <1>2, <1>3, <1>4, <1>8, <2>2, <2>3
        <3>2. I[m].depth \in Nat /\ LevelOf(L, I[m]) \in Nat
            BY <1>5, <2>3, ScopeFacts
        <3> QED BY <1>4, <1>6, <1>8, <2>2, <2>3, <3>1, <3>2 DEF Leaves
    <2>4. CASE i < m
        <3>1. LevelOf(L, I[i]) + 1 < Depth(L[n])
            BY <1>1, <1>2, <2>2, <2>4, InLastLane
        <3>2. LevelOf(L, I[i]) \in Nat
            BY <1>5, ScopeFacts
        <3> QED BY <1>3, <1>6, <3>1, <3>2 DEF Leaves
    <2> QED BY <2>3, <2>4
<1>10. \A i \in 1..m : ScopeFits(M, J[i])
    BY <1>2, <1>3, <1>5, <1>7, <1>9, ScopeStays
<1>11. Follows(M, J) /\ InLine(J) /\ Explained(M, J) /\ NoLoop(J)
    <2>1. /\ Len(I) \in Nat /\ Len(J) = Len(I) /\ Len(M) = Len(L)
          /\ \A i \in 1..Len(I) : Like(I[i], J[i])
        BY <1>1, <1>2, <1>6, <1>7
    <2>2. Follows(L, I) /\ InLine(I) /\ Explained(L, I) /\ NoLoop(I)
        BY ChainFacts
    <2> QED BY <2>1, <2>2, AlikeScopes
<1>12. m > 0 /\ LaneOf(I[m]) = n => Chosen(l, e) /\ Bottom(M[n]) = Bottom(l)
    <2>1. SUFFICES ASSUME m > 0, LaneOf(I[m]) = n PROVE Chosen(l, e) /\ Bottom(M[n]) = Bottom(l)
        OBVIOUS
    <2>2. ScopeFits(L, I[m])
        BY <1>5, <2>1
    <2>3. Chosen(l, e)
        BY <1>2, <1>3, <1>4, <1>5, <2>1, <2>2, ScopeIsChosen
    <2>4. M[n] = Onward(l, e)
        BY <1>2, <1>3, <1>4 DEF Moves
    <2>5. Bottom(Onward(l, e)) = Bottom(l)
        BY <1>3, <1>4, <2>3, Selection DEF Readable
    <2> QED BY <2>3, <2>4, <2>5
<1>13. ASSUME NEW i \in 1..m PROVE J[i].depth + Floor(M, J[i]) = Reached(M, J, i)
    <2>1. Floor(M, J[i]) = Floor(M, I[i])
        BY <1>5, <1>7, <1>6 DEF Floor, LevelOf
    <2>2. ScopeFits(L, I[i]) /\ I[i].depth \in Nat /\ LevelOf(L, I[i]) \in Nat
        BY <1>5, ScopeFacts
    <2>3. CASE i < m
        <3>1. Floor(M, I[i]) = Floor(L, I[i])
            <4>1. CASE ~(Includes(I[i]) /\ LaneOf(I[i]) + 1 = n)
                <5>1. ~(Includes(I[i]) /\ LaneOf(I[i]) + 1 = Len(L)) /\ Lanes(library, L)
                    BY <1>2, <1>5, <4>1
                <5> QED BY <2>2, <5>1, FloorMoves
            <4>2. CASE Includes(I[i]) /\ LaneOf(I[i]) + 1 = n
                <5>1. Floor(L, I[i]) = Bottom(L[n]) /\ Floor(M, I[i]) = Bottom(M[n])
                    BY SMTT(30), <1>2, <1>3, <1>5, <4>2, FloorMoves
                <5>2. LaneOf(I[m]) = n
                    BY <1>1, <1>2, <2>3, <4>2, InLastLane DEF Reader
                <5> QED BY <1>3, <1>12, <5>1, <5>2
            <4> QED BY <4>1, <4>2
        <3>2. i + 1 \in 1..m
            BY <2>3
        <3>3. Reached(M, J, i) = LevelOf(M, J[i + 1]) /\ Reached(L, I, i) = LevelOf(L, I[i + 1])
            BY <1>1, <2>3 DEF Reached
        <3>4. LevelOf(M, J[i + 1]) = LevelOf(L, I[i + 1])
            BY <1>5, <1>6, <1>7, <3>2 DEF LevelOf
        <3> QED BY <1>5, <1>7, <2>1, <2>3, <3>1, <3>3, <3>4
    <2>4. CASE i = m
        <3>1. Reached(M, J, i) = Depth(M[n]) /\ Reached(L, I, i) = Depth(l)
            BY <1>1, <1>2, <1>3, <1>6, <2>4 DEF Reached
        <3>2. J[m].depth = I[m].depth + IF Chosen(l, e) THEN Change(e) ELSE 0
            BY <1>1, <1>2, <1>3, <1>4, <2>4
        <3>3. CASE Includes(I[m])
            <4>1. LaneOf(I[m]) + 1 = n
                BY <1>5, <2>4, <3>3 DEF Reader
            <4>2. Floor(L, I[m]) = Bottom(l) /\ Floor(M, I[m]) = Bottom(M[n])
                BY <1>2, <1>3, <1>5, <2>4, <3>3, <4>1, FloorMoves
            <4>3. M[n] = Onward(l, e)
                BY <1>2, <1>3, <1>4 DEF Moves
            <4>4. Bottom(l) \in Nat
                BY <1>3, BottomFacts
            <4>5. I[m].depth + Bottom(l) = Depth(l)
                BY <1>5, <2>4, <3>1, <4>2
            <4>6. CASE Chosen(l, e)
                <5>1. Bottom(M[n]) = Bottom(l)
                    BY <1>3, <1>4, <4>3, <4>6, Selection DEF Readable
                <5> QED BY <1>6, <2>1, <2>2, <2>4, <3>1, <3>2, <4>2, <4>4, <4>5, <4>6, <5>1
            <4>7. CASE ~Chosen(l, e)
                <5>1. Bottom(l) = Depth(l) /\ Bottom(M[n]) = Depth(M[n])
                    BY <1>3, <1>4, <4>3, <4>7, Selection DEF Readable
                <5> QED BY <1>6, <2>1, <2>2, <2>4, <3>1, <3>2, <4>2, <4>4, <4>5, <4>7, <5>1
            <4> QED BY <4>6, <4>7
        <3>4. CASE ~Includes(I[m])
            <4>1. LaneOf(I[m]) = n
                BY <1>5, <2>4, <3>4 DEF Reader
            <4>2. Floor(M, I[m]) = LevelOf(L, I[m]) + 1
                BY <1>5, <1>6, <2>4, <3>4 DEF Floor
            <4>3. Chosen(l, e) /\ I[m].depth + (LevelOf(L, I[m]) + 1) = Depth(l)
                BY <1>8, <1>12, <2>4, <4>1
            <4>4. J[m].depth = I[m].depth + Change(e)
                BY <3>2, <4>3
            <4>5. I[m].depth \in Nat /\ LevelOf(L, I[m]) \in Nat
                BY <2>2, <2>4
            <4>6. J[m].depth + (LevelOf(L, I[m]) + 1) = Depth(l) + Change(e)
                <5>1. PICK d \in Nat : d = I[m].depth
                    BY <4>5
                <5>2. PICK v \in Nat : v = LevelOf(L, I[m])
                    BY <4>5
                <5>3. PICK c \in Int : c = Change(e)
                    BY <1>6
                <5>4. J[m].depth = d + c /\ d + (v + 1) = Depth(l)
                    BY <4>3, <4>4, <5>1, <5>2, <5>3
                <5>5. (d + c) + (v + 1) = (d + (v + 1)) + c
                    BY <5>1, <5>2, <5>3
                <5> QED BY <5>2, <5>3, <5>4, <5>5
            <4> QED BY <1>6, <2>1, <2>4, <3>1, <4>2, <4>6
        <3> QED BY <3>3, <3>4
    <2> QED BY <2>3, <2>4
<1>14. Covered(M, J)
    <2>1. Inherits(M, I, J)
        BY <1>1, <1>7 DEF Inherits
    <2>2. CoversNew(L, J)
        <3>1. SUFFICES ASSUME m > 0, ~Includes(I[m])
                       PROVE  m \in 1..m /\ LaneOf(J[m]) = n /\ StartOf(J[m]) <= L[n].at
            BY <1>1, <1>2 DEF CoversNew
        <3>2. m \in 1..m /\ LaneOf(I[m]) = n
            BY <1>5, <3>1 DEF Reader
        <3>3. StartOf(I[m]) < L[n].at /\ StartOf(I[m]) \in Nat /\ L[n].at \in Nat
            BY <1>3, <1>5, <3>2, ScopeFacts, LaneFacts
        <3> QED BY <1>7, <3>2, <3>3
    <2>3. Covered(L, I) /\ Lanes(library, L)
        BY ChainFacts
    <2> QED BY <2>1, <2>2, <2>3, CoverMoves
<1>15. Measured(M, J)
    BY <1>1, <1>13 DEF Measured
<1> QED BY <1>1, <1>2, <1>6, <1>10, <1>11, <1>14, <1>15 DEF Chained, Lanes

(* Where what is read is chosen, no floor moves. *)
LEMMA FloorsStay ==
    ASSUME NEW library, NEW L, Lanes(library, L), Readable(L[Len(L)]), NEW M, Moves(L, M),
           Chosen(L[Len(L)], EventOf(L[Len(L)])), NEW s, ScopeFits(L, s)
    PROVE  Floor(M, s) = Floor(L, s) /\ Floor(L, s) \in Nat
<1>1. Len(L) \in Nat \ {0} /\ LaneFits(library, L[Len(L)])
    BY SequenceHas DEF Lanes
<1>2. M[Len(L)] = Onward(L[Len(L)], EventOf(L[Len(L)]))
    BY DEF Moves
<1>3. Bottom(M[Len(L)]) = Bottom(L[Len(L)])
    BY <1>1, <1>2, Selection DEF Readable
<1>4. Floor(M, s) = Floor(L, s)
    BY <1>3, FloorMoves
<1>5. Floor(L, s) \in Nat
    <2>1. LevelOf(L, s) \in Nat
        BY ScopeFacts
    <2>2. Includes(s) => LaneFits(library, L[LaneOf(s) + 1])
        BY DEF ScopeFits, Lanes
    <2>3. Includes(s) => Bottom(L[LaneOf(s) + 1]) \in Nat
        BY <2>2, BottomFacts
    <2> QED BY <2>1, <2>3 DEF Floor
<1> QED BY <1>4, <1>5

(* The innermost scope closes with its xi:include. *)
LEMMA Closing ==
    ASSUME NEW library, NEW L, NEW I, Chained(library, L, I), Readable(L[Len(L)]),
           NEW M, Moves(L, M), Len(I) > 0,
           ~Includes(I[Len(I)]), I[Len(I)].depth = 0, IsEnd(EventOf(L[Len(L)])),
           NEW J, IsSequence(J), Len(J) = Len(I) - 1, \A i \in 1..(Len(I) - 1) : J[i] = I[i]
    PROVE  Chained(library, M, J)
<1>1. PICK m \in Nat : m = Len(I) /\ m > 0 /\ m \in 1..m
    BY ChainFacts
<1>2. PICK n \in Nat \ {0} : n = Len(L)
    BY ChainFacts
<1>3. PICK l : l = L[n] /\ LaneFits(library, l) /\ Readable(l)
    BY <1>2, ChainFacts
<1>4. PICK e : e = EventOf(l)
    OBVIOUS
<1>5. /\ Lanes(library, L) /\ IsSequence(I) /\ n = Reader(I[m])
      /\ \A i \in 1..m : ScopeFits(L, I[i]) /\ LaneOf(I[i]) \in 1..n
      /\ \A i \in 1..m : I[i].depth + Floor(L, I[i]) = Reached(L, I, i)
      /\ Follows(L, I) /\ InLine(I) /\ Explained(L, I) /\ NoLoop(I) /\ Covered(L, I)
    BY <1>1, <1>2, ChainFacts
<1>6. LaneOf(I[m]) = n /\ ~Includes(I[m]) /\ I[m].depth = 0 /\ IsEnd(e)
    BY <1>1, <1>2, <1>3, <1>4, <1>5 DEF Reader
<1>7. LevelOf(L, I[m]) \in Nat /\ Depth(l) = LevelOf(L, I[m]) + 1
    <2>1. LevelOf(L, I[m]) \in Nat
        BY <1>1, <1>5, ScopeFacts
    <2>2. Reached(L, I, m) = Depth(l) /\ Floor(L, I[m]) = LevelOf(L, I[m]) + 1
        BY <1>1, <1>2, <1>3, <1>6 DEF Reached, Floor
    <2>3. 0 + (LevelOf(L, I[m]) + 1) = Depth(l)
        BY <1>1, <1>5, <1>6, <2>2
    <2> QED BY <2>1, <2>3
<1>8. /\ Lanes(library, M) /\ Len(M) = n /\ Depth(M[n]) = LevelOf(L, I[m])
      /\ M[n].events = l.events /\ M[n].at = l.at + 1
      /\ \A s : LaneOf(s) \in 1..n => LevelOf(M, s) = LevelOf(L, s)
    <2>1. Lanes(library, L) /\ Len(L) \in 1..Len(L)
        BY <1>2, <1>5
    <2>2. /\ Lanes(library, M)
          /\ Depth(M[Len(L)]) = Depth(L[Len(L)]) + Change(EventOf(L[Len(L)]))
          /\ M[Len(L)].at = L[Len(L)].at + 1 /\ M[Len(L)].events = L[Len(L)].events
          /\ \A s : LaneOf(s) \in 1..Len(L) => LevelOf(M, s) = LevelOf(L, s)
        BY <2>1, LanesMove
    <2>3. Change(e) = -1
        BY <1>6 DEF Change, IsStart, IsEnd
    <2>4. Len(M) = n
        BY <1>2 DEF Moves
    <2>5. /\ Lanes(library, M) /\ Depth(M[n]) = Depth(l) + Change(e)
          /\ M[n].at = l.at + 1 /\ M[n].events = l.events
          /\ \A s : LaneOf(s) \in 1..n => LevelOf(M, s) = LevelOf(L, s)
        BY <1>2, <1>3, <1>4, <2>2
    <2>6. Depth(M[n]) = LevelOf(L, I[m])
        BY <1>7, <2>3, <2>5
    <2> QED BY <2>4, <2>5, <2>6
<1>9. \A i \in 1..(m - 1) : i \in 1..m /\ i < m /\ J[i] = I[i]
    BY <1>1
<1>10. \A i \in 1..(m - 1) : ScopeFits(M, J[i])
    <2>1. TAKE i \in 1..(m - 1)
    <2>2. LaneOf(I[i]) = n => Leaves(l, LevelOf(L, I[i]))
        <3>1. LaneOf(I[i]) = n => LevelOf(L, I[i]) + 1 < Depth(L[n])
            BY <1>1, <1>2, <1>9, InLastLane
        <3>2. LevelOf(L, I[i]) \in Nat /\ Depth(l) \in Nat
            BY <1>5, <1>7, <1>9, ScopeFacts
        <3> QED BY <1>3, <3>1, <3>2 DEF Leaves
    <2>3. ScopeFits(L, I[i]) /\ IsScope(I[i]) /\ (I[i].behavior = "FallbackInProgress" => I[i].depth > 0)
        BY <1>5, <1>9 DEF ScopeFits
    <2>4. Like(I[i], I[i])
        BY DEF Like
    <2>5. ScopeFits(M, I[i])
        BY <1>2, <1>3, <1>5, <2>2, <2>3, <2>4, ScopeStays
    <2> QED BY <1>9, <2>5
<1>11. Follows(M, J)
    <2>1. \A i \in 1..(m - 1) : i = 1 \/ i - 1 \in 1..(m - 1)
        OBVIOUS
    <2>2. \A i \in 1..Len(J) : LaneOf(J[i]) = IF i = 1 THEN 1 ELSE Reader(J[i - 1])
        BY <1>1, <1>5, <1>9, <2>1 DEF Follows
    <2>3. CASE m = 1
        <3>1. LaneOf(I[m]) = 1
            BY <1>1, <1>5, <2>3 DEF Follows
        <3>2. Len(J) = 0
            BY <1>1, <2>3
        <3> QED BY <1>6, <1>8, <2>2, <3>1, <3>2 DEF Follows
    <2>4. CASE m # 1
        <3>1. LaneOf(I[m]) = Reader(I[m - 1])
            BY <1>1, <1>5, <2>4 DEF Follows
        <3>2. Len(J) = m - 1 /\ Len(J) # 0 /\ J[m - 1] = I[m - 1]
            BY <1>1, <1>9, <2>4
        <3> QED BY <1>6, <1>8, <2>2, <3>1, <3>2 DEF Follows
    <2> QED BY <2>3, <2>4
<1>12. InLine(J)
    BY <1>1, <1>5, <1>9 DEF InLine
<1>13. Explained(M, J)
    <2>1. SUFFICES ASSUME NEW k \in 1..(n - 1)
                   PROVE  \E i \in 1..(m - 1) : Includes(J[i]) /\ LaneOf(J[i]) = k
        BY <1>1, <1>8 DEF Explained
    <2>2. PICK i \in 1..m : Includes(I[i]) /\ LaneOf(I[i]) = k
        BY <1>1, <1>2, <1>5 DEF Explained
    <2>3. i # m
        BY <1>6, <2>2
    <2>4. i \in 1..(m - 1)
        BY <2>3
    <2> QED BY <1>9, <2>2, <2>4
<1>14. NoLoop(J)
    BY ZenonT(40), SMTT(20), <1>1, <1>5, <1>9 DEF NoLoop
<1>15. ASSUME NEW i \in 1..(m - 1) PROVE J[i].depth + Floor(M, J[i]) = Reached(M, J, i)
    <2>1. i \in 1..m /\ J[i] = I[i] /\ ScopeFits(L, I[i])
        BY <1>5, <1>9
    <2>2. Chosen(l, e)
        BY <1>1, <1>2, <1>3, <1>4, <1>5, <1>6, ScopeIsChosen
    <2>3. Floor(M, I[i]) = Floor(L, I[i])
        BY ZenonT(40), SMTT(20), <1>2, <1>3, <1>4, <1>5, <2>1, <2>2, FloorsStay
    <2>4. Reached(L, I, i) = LevelOf(L, I[i + 1])
        BY <1>1 DEF Reached
    <2>5. CASE i < m - 1
        <3>1. i + 1 \in 1..(m - 1)
            BY <2>5
        <3>2. Reached(M, J, i) = LevelOf(M, I[i + 1])
            BY <1>1, <1>9, <2>5, <3>1 DEF Reached
        <3>3. LevelOf(M, I[i + 1]) = LevelOf(L, I[i + 1])
            BY <1>5, <1>8, <1>9, <3>1
        <3> QED BY <1>5, <2>1, <2>3, <2>4, <3>2, <3>3
    <2>6. CASE i = m - 1
        <3>1. Reached(M, J, i) = Depth(M[n]) /\ i + 1 = m
            BY <1>1, <1>8, <2>6 DEF Reached
        <3> QED BY <1>5, <1>8, <2>1, <2>3, <2>4, <3>1
    <2> QED BY <2>5, <2>6
<1>16. Covered(M, J)
    <2>1. Inherits(M, I, J)
        <3>1. SUFFICES ASSUME NEW k \in 1..n, NEW p \in OpenIncludes(M[k]), NEW i \in 1..m,
                              LaneOf(I[i]) = k, StartOf(I[i]) <= p
                       PROVE  \E j \in 1..(m - 1) : LaneOf(J[j]) = k /\ StartOf(J[j]) <= p
            BY <1>1, <1>8 DEF Inherits
        <3>2. CASE i \in 1..(m - 1)
            BY <1>9, <3>1, <3>2
        <3>3. CASE i = m
            <4>1. k = n /\ IsSequence(l.events) /\ l.at \in 1..Len(l.events) /\ Nests(l.events, l.at)
                <5>1. k = n
                    BY <1>6, <3>1, <3>3
                <5>2. IsSequence(l.events) /\ Len(l.events) \in Nat /\ l.at \in Nat \ {0}
                    BY <1>3, LaneFacts
                <5>3. l.at <= Len(l.events) /\ Nests(l.events, l.at)
                    BY <1>3 DEF Readable, LaneFits
                <5> QED BY <5>1, <5>2, <5>3
            <4>2. StillOpen(l.events, l.at + 1) =
                    IF IsStart(l.events[l.at]) THEN StillOpen(l.events, l.at) \union {l.at}
                    ELSE IF IsEnd(l.events[l.at])
                    THEN {q \in StillOpen(l.events, l.at) : Level(l.events, q) + 1 # Level(l.events, l.at)}
                    ELSE StillOpen(l.events, l.at)
                BY <4>1, OpenAfter
            <4>3. p \in StillOpen(l.events, l.at + 1)
                BY <1>8, <3>1, <4>1 DEF OpenIncludes
            <4>4. IsEnd(l.events[l.at]) /\ ~IsStart(l.events[l.at])
                BY <1>4, <1>6 DEF EventOf, IsStart, IsEnd
            <4>5. /\ p \in StillOpen(l.events, l.at) /\ Level(l.events, p) + 1 # Depth(l)
                  /\ Level(l.events, p) < Depth(l)
                BY <4>1, <4>2, <4>3, <4>4 DEF Nests, Depth
            <4>6. p \in Nat /\ Level(l.events, p) \in Nat /\ StartOf(I[m]) \in Nat
                <5>1. p \in Nat /\ Level(l.events, p) \in Nat
                    BY <1>3, <4>5, LaneFacts
                <5>2. StartOf(I[m]) \in Nat
                    BY <1>1, <1>5, ScopeFacts
                <5> QED BY <5>1, <5>2
            <4>7. StartOf(I[m]) \in StillOpen(l.events, l.at) /\ LevelOf(L, I[m]) = Level(l.events, StartOf(I[m]))
                <5>1. StartOf(I[m]) \in StillOpen(L[n].events, L[n].at)
                    BY <1>1, <1>5, <1>6, ScopeFacts
                <5> QED BY <1>3, <1>6, <5>1 DEF LevelOf
            <4>8. StartOf(I[m]) < p => LevelOf(L, I[m]) < Level(l.events, p)
                BY <4>1, <4>5, <4>7 DEF Nests
            <4>9. StartOf(I[m]) = p => LevelOf(L, I[m]) = Level(l.events, p)
                BY <4>7
            <4> QED BY <1>7, <3>1, <3>3, <4>5, <4>6, <4>8, <4>9
        <3>4. i \in 1..(m - 1) \/ i = m
            BY <1>1
        <3> QED BY <3>2, <3>3, <3>4
    <2>2. CoversNew(L, J)
        BY <1>2, <1>3, <1>4, <1>6 DEF CoversNew, IsInclude, IsStart, IsEnd
    <2> QED BY <1>5, <2>1, <2>2, CoverMoves
<1>17. Measured(M, J)
    BY <1>1, <1>15 DEF Measured
<1> QED BY <1>1, <1>8, <1>10, <1>11, <1>12, <1>13, <1>14, <1>16, <1>17 DEF Chained, Lanes

(* An xi:include begins that has a scope of its own from here on. *)
LEMMA Pushing ==
    ASSUME NEW library, NEW L, NEW I, Chained(library, L, I), Readable(L[Len(L)]),
           NEW M, Moves(L, M), IsInclude(EventOf(L[Len(L)])), Chosen(L[Len(L)], EventOf(L[Len(L)])),
           NEW t, IsScope(t), t.element = <<Len(L), L[Len(L)].at>>, t.depth = 0,
           ~Includes(t), t.behavior # "FallbackInProgress",
           NEW J, IsSequence(J), Len(J) = Len(I) + 1, J[Len(I) + 1] = t,
           \A i \in 1..Len(I) : J[i] = I[i]
    PROVE  Chained(library, M, J)
<1>1. PICK m \in Nat : m = Len(I)
    BY ChainFacts
<1>2. PICK n \in Nat \ {0} : n = Len(L)
    BY ChainFacts
<1>3. PICK l : l = L[n] /\ LaneFits(library, l) /\ Readable(l)
    BY <1>2, ChainFacts
<1>4. PICK e : e = EventOf(l)
    OBVIOUS
<1>5. /\ Lanes(library, L) /\ IsSequence(I) /\ (m = 0 => n = 1) /\ (m > 0 => n = Reader(I[m]))
      /\ \A i \in 1..m : ScopeFits(L, I[i]) /\ LaneOf(I[i]) \in 1..n /\ (Includes(I[i]) => LaneOf(I[i]) + 1 \in 1..n)
      /\ \A i \in 1..m : I[i].depth + Floor(L, I[i]) = Reached(L, I, i)
      /\ Follows(L, I) /\ InLine(I) /\ Explained(L, I) /\ NoLoop(I) /\ Covered(L, I)
    BY SMTT(30), <1>1, <1>2, ChainFacts
<1>6. /\ LaneOf(t) = n /\ StartOf(t) = l.at /\ IsStart(e) /\ ~IsEnd(e) /\ Change(e) = 1
      /\ Depth(l) \in Nat /\ l.at \in Nat \ {0} /\ l.at <= Len(l.events) /\ Len(l.events) \in Nat
      /\ IsSequence(l.events)
    <2>1. LaneOf(t) = n /\ StartOf(t) = l.at
        BY <1>2, <1>3 DEF LaneOf, StartOf
    <2>2. IsStart(e) /\ ~IsEnd(e) /\ Change(e) = 1
        BY <1>2, <1>3, <1>4 DEF IsInclude, IsStart, IsEnd, Change
    <2>3. /\ Depth(l) \in Nat /\ l.at \in Nat \ {0} /\ Len(l.events) \in Nat /\ IsSequence(l.events)
        BY <1>3, LaneFacts
    <2> QED BY <1>3, <2>1, <2>2, <2>3 DEF Readable
<1>7. /\ Lanes(library, M) /\ Len(M) = n /\ Depth(M[n]) = Depth(l) + 1
      /\ M[n].events = l.events /\ M[n].at = l.at + 1 /\ M[n].pointer = l.pointer
      /\ \A s : LaneOf(s) \in 1..n => LevelOf(M, s) = LevelOf(L, s)
    <2>1. Lanes(library, L) /\ Len(L) \in 1..Len(L)
        BY <1>2, <1>5
    <2>2. /\ Lanes(library, M)
          /\ Depth(M[Len(L)]) = Depth(L[Len(L)]) + Change(EventOf(L[Len(L)]))
          /\ M[Len(L)].at = L[Len(L)].at + 1 /\ M[Len(L)].events = L[Len(L)].events
          /\ M[Len(L)].pointer = L[Len(L)].pointer
          /\ \A s : LaneOf(s) \in 1..Len(L) => LevelOf(M, s) = LevelOf(L, s)
        BY <2>1, LanesMove
    <2>3. Len(M) = n
        BY <1>2 DEF Moves
    <2> QED BY <1>2, <1>3, <1>4, <1>6, <2>2, <2>3
<1>8. LevelOf(M, t) = Depth(l)
    BY <1>6, <1>7 DEF LevelOf, Depth
<1>9. \A i \in 1..m : J[i] = I[i] /\ i \in 1..(m + 1)
    BY <1>1
<1>10. J[m + 1] = t /\ Len(J) = m + 1 /\ m + 1 \in 1..(m + 1)
    BY <1>1
<1>11. \A i \in 1..(m + 1) : i \in 1..m \/ i = m + 1
    OBVIOUS
<1>12. ScopeFits(M, t)
    <2>1. LaneOf(t) \in 1..Len(M)
        BY <1>6, <1>7
    <2>2. StartOf(t) \in OpenIncludes(M[LaneOf(t)])
        <3>1. l.at \in 1..Len(l.events)
            BY <1>6
        <3>2. StillOpen(l.events, l.at + 1) =
                IF IsStart(l.events[l.at]) THEN StillOpen(l.events, l.at) \union {l.at}
                ELSE IF IsEnd(l.events[l.at])
                THEN {q \in StillOpen(l.events, l.at) : Level(l.events, q) + 1 # Level(l.events, l.at)}
                ELSE StillOpen(l.events, l.at)
            BY <1>6, <3>1, OpenAfter
        <3>3. l.at \in StillOpen(l.events, l.at + 1) /\ IsInclude(l.events[l.at])
            BY <1>2, <1>3, <1>4, <1>6, <3>2 DEF EventOf
        <3> QED BY <1>6, <1>7, <3>3 DEF OpenIncludes
    <2>3. M[LaneOf(t)].pointer # <<>> => \E d \in 0..LevelOf(M, t) : M[LaneOf(t)].selector.selected = {d}
        <3>1. M[n] = Onward(l, e)
            BY <1>2, <1>3, <1>4 DEF Moves
        <3>2. Chosen(l, EventOf(l)) /\ IsStart(EventOf(l)) /\ l.at <= Len(l.events) /\ EventOf(l).kind # "Malformed"
            BY <1>2, <1>3, <1>4, <1>6 DEF Readable
        <3>3. l.pointer # <<>> => \E d \in 0..Depth(l) : Onward(l, EventOf(l)).selector.selected = {d}
            BY <1>3, <3>2, Selection
        <3> QED BY <1>4, <1>6, <1>7, <1>8, <3>1, <3>3
    <2> QED BY <2>1, <2>2, <2>3 DEF ScopeFits
<1>13. ASSUME NEW i \in 1..m PROVE ScopeFits(M, J[i])
    <2>1. ScopeFits(L, I[i]) /\ IsScope(I[i]) /\ (I[i].behavior = "FallbackInProgress" => I[i].depth > 0)
        BY <1>5 DEF ScopeFits
    <2>2. Like(I[i], I[i]) /\ Leaves(L[Len(L)], LevelOf(L, I[i]))
        BY <1>2, <1>3, <1>4, <1>6 DEF Like, Leaves
    <2>3. ScopeFits(M, I[i])
        BY <1>5, <2>1, <2>2, ScopeStays
    <2> QED BY <1>9, <2>3
<1>14. Follows(M, J)
    <2>1. \A i \in 1..m : i = 1 \/ (i - 1 \in 1..m /\ J[i - 1] = I[i - 1])
        BY <1>9
    <2>2. \A i \in 1..m : LaneOf(J[i]) = IF i = 1 THEN 1 ELSE Reader(J[i - 1])
        BY <1>1, <1>5, <1>9, <2>1 DEF Follows
    <2>3. LaneOf(t) = IF m + 1 = 1 THEN 1 ELSE Reader(J[(m + 1) - 1])
        <3>1. m > 0 => m \in 1..m /\ J[m] = I[m] /\ (m + 1) - 1 = m
            BY <1>9
        <3> QED BY <1>5, <1>6, <3>1
    <2>4. Reader(t) = n
        BY <1>6 DEF Reader
    <2>5. \A i \in 1..(m + 1) : LaneOf(J[i]) = IF i = 1 THEN 1 ELSE Reader(J[i - 1])
        BY <1>10, <1>11, <2>2, <2>3
    <2>6. Len(M) = IF Len(J) = 0 THEN 1 ELSE Reader(J[Len(J)])
        BY <1>7, <1>10, <2>4
    <2> QED BY <1>10, <2>5, <2>6 DEF Follows
<1>15. InLine(J)
    <2>1. \A i \in 1..m : Before(I[i], t)
        <3>1. TAKE i \in 1..m
        <3>2. LaneOf(I[i]) \in 1..n /\ (LaneOf(I[i]) = n => ~Includes(I[i]) /\ StartOf(I[i]) < l.at)
            <4>1. StartOf(I[i]) < L[LaneOf(I[i])].at
                BY <1>5, ScopeFacts
            <4> QED BY <1>2, <1>3, <1>5, <4>1
        <3> QED BY <1>6, <3>2 DEF Before
    <2>2. \A i, j \in 1..m : i < j => Before(J[i], J[j])
        BY <1>1, <1>5, <1>9 DEF InLine
    <2>3. \A i, j \in 1..(m + 1) : i < j => i \in 1..m /\ (j \in 1..m \/ j = m + 1)
        OBVIOUS
    <2> QED BY <1>9, <1>10, <2>1, <2>2, <2>3 DEF InLine
<1>16. Explained(M, J)
    BY <1>1, <1>2, <1>5, <1>7, <1>9, <1>10 DEF Explained
<1>17. NoLoop(J)
    BY SMTT(30), <1>1, <1>5, <1>9, <1>10, <1>11 DEF NoLoop
<1>18. ASSUME NEW i \in 1..(m + 1) PROVE J[i].depth + Floor(M, J[i]) = Reached(M, J, i)
    <2>1. CASE i \in 1..m
        <3>1. Floor(M, I[i]) = Floor(L, I[i])
            BY <1>5, <2>1, FloorsStay
        <3>2. CASE i < m
            <4>1. i + 1 \in 1..m /\ J[i + 1] = I[i + 1]
                BY <1>9, <3>2
            <4>2. Reached(M, J, i) = LevelOf(M, I[i + 1]) /\ Reached(L, I, i) = LevelOf(L, I[i + 1])
                BY <1>1, <1>10, <3>2, <4>1 DEF Reached
            <4>3. LevelOf(M, I[i + 1]) = LevelOf(L, I[i + 1])
                BY <1>5, <1>7, <4>1
            <4> QED BY <1>5, <1>9, <2>1, <3>1, <4>2, <4>3
        <3>3. CASE i = m
            <4>1. Reached(M, J, i) = LevelOf(M, t) /\ Reached(L, I, i) = Depth(l)
                BY <1>1, <1>2, <1>3, <1>10, <3>3 DEF Reached
            <4> QED BY <1>5, <1>8, <1>9, <2>1, <3>1, <4>1
        <3> QED BY <2>1, <3>2, <3>3
    <2>2. CASE i = m + 1
        <3>1. Floor(M, t) = Depth(l) + 1 /\ Reached(M, J, i) = Depth(M[n])
            BY <1>7, <1>8, <1>10, <2>2 DEF Floor, Reached
        <3>2. 0 + (Depth(l) + 1) = Depth(l) + 1
            BY <1>6
        <3> QED BY <1>7, <1>10, <2>2, <3>1, <3>2
    <2> QED BY <1>11, <2>1, <2>2
<1>19. Measured(M, J)
    BY <1>10, <1>18 DEF Measured
<1>20. Covered(M, J)
    <2>1. Inherits(M, I, J)
        BY <1>1, <1>9, <1>10 DEF Inherits
    <2>2. CoversNew(L, J)
        <3>1. LaneOf(J[m + 1]) = Len(L) /\ StartOf(J[m + 1]) <= L[Len(L)].at
            BY <1>2, <1>3, <1>6, <1>10
        <3> QED BY <1>10, <3>1 DEF CoversNew
    <2> QED BY <1>5, <2>1, <2>2, CoverMoves
<1>21. \A i \in 1..Len(J) : ScopeFits(M, J[i])
    BY <1>10, <1>11, <1>12, <1>13
<1> QED BY <1>7, <1>14, <1>15, <1>16, <1>17, <1>19, <1>20, <1>21 DEF Chained, Lanes

(* A source that has read nothing stands at the top of its document. *)
LEMMA AtTheTop ==
    ASSUME NEW library, NEW x, LaneFits(library, x), x.at = 1, x.selector.selected = {}
    PROVE  Depth(x) = 0 /\ Bottom(x) = 0 /\ OpenIncludes(x) = {}
<1>1. Depth(x) = 0
    BY LevelStep DEF Depth
<1>2. Bottom(x) = 0
    BY <1>1 DEF Bottom
<1>3. StillOpen(x.events, x.at) = {}
    BY LaneFacts
<1> QED BY <1>1, <1>2, <1>3 DEF OpenIncludes

(* What the lanes, and the scopes but the innermost, keep while a resource is entered. *)
KeepsLanes(M, N) ==
    \A k \in 1..Len(M) : N[k] = M[k]

KeepsOuter(J, K) ==
    \A i \in 1..(Len(J) - 1) : K[i] = J[i]

(* No scope on the stack stands for what u includes. *)
Unread(J, u) ==
    \A i \in 1..Len(J) : ~(Includes(J[i]) /\ J[i].uri = u.uri /\ J[i].xpointer = u.xpointer)

(* The resource of the innermost scope is read. *)
LEMMA Entering ==
    ASSUME NEW library, NEW M, NEW J, Chained(library, M, J),
           Len(J) > 0, ~Includes(J[Len(J)]), J[Len(J)].depth = 0,
           M[Len(M)].at = StartOf(J[Len(J)]) + 1,
           NEW x, LaneFits(library, x), x.at = 1, x.selector.selected = {},
           NEW N, IsSequence(N), Len(N) = Len(M) + 1, N[Len(M) + 1] = x,
           KeepsLanes(M, N),
           NEW u, IsScope(u), u.element = J[Len(J)].element, u.depth = 0, Includes(u),
           u.uri = x.uri, u.xpointer = x.pointer,
           NEW K, IsSequence(K), Len(K) = Len(J), K[Len(J)] = u,
           KeepsOuter(J, K), Unread(J, u)
    PROVE  Chained(library, N, K)
<1>1. PICK q \in Nat \ {0} : q = Len(J) /\ q \in 1..q
    BY ChainFacts
<1>2. PICK n \in Nat \ {0} : n = Len(M) /\ n \in 1..n
    BY ChainFacts
<1>3. /\ Lanes(library, M) /\ IsSequence(J) /\ n = Reader(J[q])
      /\ \A i \in 1..q : ScopeFits(M, J[i]) /\ LaneOf(J[i]) \in 1..n /\ (Includes(J[i]) => LaneOf(J[i]) + 1 \in 1..n)
      /\ \A i \in 1..q : J[i].depth + Floor(M, J[i]) = Reached(M, J, i)
      /\ Follows(M, J) /\ InLine(J) /\ Explained(M, J) /\ NoLoop(J) /\ Covered(M, J)
    BY SMTT(30), <1>1, <1>2, ChainFacts
<1>4. /\ Len(N) = n + 1 /\ N[n + 1] = x /\ n + 1 \in 1..(n + 1)
      /\ \A k \in 1..n : N[k] = M[k] /\ k \in 1..(n + 1)
      /\ \A k \in 1..(n + 1) : k \in 1..n \/ k = n + 1
    BY <1>2 DEF KeepsLanes
<1>5. /\ Len(K) = q /\ K[q] = u /\ \A i \in 1..q : i < q => K[i] = J[i]
    BY <1>1 DEF KeepsOuter
<1>6. LaneOf(J[q]) = n /\ ~Includes(J[q])
    BY <1>1, <1>3 DEF Reader
<1>7. LaneOf(u) = LaneOf(J[q]) /\ StartOf(u) = StartOf(J[q])
    BY <1>1 DEF LaneOf, StartOf
<1>8. \A i \in 1..q : LaneOf(K[i]) = LaneOf(J[i]) /\ StartOf(K[i]) = StartOf(J[i])
    BY <1>5, <1>7
<1>9. Depth(x) = 0 /\ Bottom(x) = 0 /\ OpenIncludes(x) = {}
    BY AtTheTop
<1>10. Lanes(library, N)
    <2>1. \A k \in 1..n : LaneFits(library, M[k])
        BY <1>2, <1>3 DEF Lanes
    <2>2. \A k \in 1..(n + 1) : LaneFits(library, N[k])
        BY <1>4, <2>1
    <2>3. n + 1 >= 1
        BY <1>2
    <2> QED BY <1>4, <2>2, <2>3 DEF Lanes
<1>11. \A s : LaneOf(s) \in 1..n => LevelOf(N, s) = LevelOf(M, s)
    BY <1>4 DEF LevelOf
<1>12. ASSUME NEW i \in 1..q PROVE ScopeFits(N, K[i])
    <2>1. CASE i < q
        <3>1. ScopeFits(M, J[i]) /\ K[i] = J[i]
            BY <1>3, <1>5, <2>1
        <3>2. PICK s : s = J[i]
            OBVIOUS
        <3>3. LaneOf(s) \in 1..n /\ N[LaneOf(s)] = M[LaneOf(s)] /\ LaneOf(s) \in 1..Len(N)
            BY <1>3, <1>4, <3>2
        <3>4. LevelOf(N, s) = LevelOf(M, s)
            BY <1>11, <3>3
        <3>5. Includes(s) => N[LaneOf(s) + 1] = M[LaneOf(s) + 1] /\ LaneOf(s) + 1 \in 1..Len(N)
            BY <1>3, <1>4, <3>2
        <3>6. ScopeFits(N, s)
            BY <3>1, <3>2, <3>3, <3>4, <3>5 DEF ScopeFits
        <3> QED BY <3>1, <3>2, <3>6
    <2>2. CASE i = q
        <3>1. ScopeFits(M, J[q]) /\ LevelOf(N, u) = LevelOf(M, J[q])
            BY <1>1, <1>2, <1>3, <1>6, <1>7, <1>11 DEF LevelOf
        <3>2. LaneOf(u) = n /\ M[n] = N[n] /\ LaneOf(u) + 1 = n + 1 /\ LaneOf(u) \in 1..(n + 1)
            BY <1>2, <1>4, <1>6, <1>7
        <3>3. N[LaneOf(u)].at = StartOf(u) + 1
            BY <1>1, <1>2, <1>7, <3>2
        <3>4. u.behavior # "FallbackInProgress"
            BY DEF Includes
        <3>5. StartOf(u) \in OpenIncludes(N[LaneOf(u)])
            BY <1>6, <1>7, <3>1, <3>2 DEF ScopeFits
        <3>6. N[LaneOf(u)].pointer # <<>> => \E d \in 0..LevelOf(N, u) : N[LaneOf(u)].selector.selected = {d}
            BY <1>6, <3>1, <3>2 DEF ScopeFits
        <3> QED BY <1>4, <1>5, <2>2, <3>2, <3>3, <3>4, <3>5, <3>6 DEF ScopeFits
    <2> QED BY <1>1, <2>1, <2>2
<1>13. Follows(N, K)
    <2>1. \A i \in 1..q : i = 1 \/ (i - 1 \in 1..q /\ K[i - 1] = J[i - 1])
        BY <1>1, <1>5
    <2>2. \A i \in 1..q : LaneOf(K[i]) = IF i = 1 THEN 1 ELSE Reader(K[i - 1])
        BY <1>1, <1>3, <1>8, <2>1 DEF Follows
    <2>3. Reader(u) = n + 1
        BY <1>6, <1>7 DEF Reader
    <2> QED BY <1>4, <1>5, <2>2, <2>3 DEF Follows
<1>14. InLine(K)
    <2>1. \A i, j \in 1..q : i < j => Before(J[i], J[j])
        BY <1>1, <1>3 DEF InLine
    <2>2. \A i, j \in 1..q : i < j => K[i] = J[i]
        BY <1>5
    <2>3. \A i, j \in 1..q : i < j => Before(K[i], K[j])
        <3>1. TAKE i, j \in 1..q
        <3>2. HAVE i < j
        <3>3. Before(J[i], J[j]) /\ K[i] = J[i]
            BY <2>1, <2>2, <3>2
        <3>4. LaneOf(K[j]) = LaneOf(J[j]) /\ StartOf(K[j]) = StartOf(J[j])
            BY <1>8
        <3> QED BY <3>3, <3>4 DEF Before
    <2> QED BY <1>5, <2>3 DEF InLine
<1>15. Explained(N, K)
    <2>1. SUFFICES ASSUME NEW k \in 1..n PROVE \E i \in 1..q : Includes(K[i]) /\ LaneOf(K[i]) = k
        BY <1>2, <1>4, <1>5 DEF Explained
    <2>2. CASE k = n
        BY <1>1, <1>5, <1>6, <1>7, <2>2
    <2>3. CASE k # n
        <3>1. k \in 1..(n - 1)
            BY <2>3
        <3>2. PICK i \in 1..q : Includes(J[i]) /\ LaneOf(J[i]) = k
            BY <1>1, <1>2, <1>3, <3>1 DEF Explained
        <3>3. i < q
            BY <1>6, <3>2
        <3> QED BY <1>5, <3>2, <3>3
    <2> QED BY <2>2, <2>3
<1>16. NoLoop(K)
    <2>1. \A i \in 1..q : i = q \/ (i < q /\ K[i] = J[i])
        BY <1>5
    <2>2. \A i \in 1..q : ~(Includes(J[i]) /\ J[i].uri = u.uri /\ J[i].xpointer = u.xpointer)
        BY <1>1 DEF Unread
    <2>3. \A i, j \in 1..q : Includes(J[i]) /\ Includes(J[j]) /\ J[i].uri = J[j].uri /\ J[i].xpointer = J[j].xpointer => i = j
        BY <1>1, <1>3 DEF NoLoop
    <2>4. ASSUME NEW i \in 1..q, NEW j \in 1..q, Includes(K[i]), Includes(K[j]),
                 K[i].uri = K[j].uri, K[i].xpointer = K[j].xpointer
          PROVE  i = j
        <3>1. CASE i = q /\ j # q
            <4>1. K[j] = J[j] /\ K[i] = u
                BY <1>5, <2>1, <3>1
            <4> QED BY <2>2, <2>4, <4>1
        <3>2. CASE i # q /\ j = q
            <4>1. K[i] = J[i] /\ K[j] = u
                BY <1>5, <2>1, <3>2
            <4> QED BY <2>2, <2>4, <4>1
        <3>3. CASE i # q /\ j # q
            BY <2>1, <2>3, <2>4, <3>3
        <3> QED BY <3>1, <3>2, <3>3
    <2> QED BY <1>5, <2>4 DEF NoLoop
<1>17. ASSUME NEW i \in 1..q PROVE K[i].depth + Floor(N, K[i]) = Reached(N, K, i)
    <2>1. CASE i < q
        <3>1. K[i] = J[i] /\ Floor(N, J[i]) = Floor(M, J[i])
            BY <1>3, <1>4, <1>5, <1>11, <2>1 DEF Floor
        <3>2. i + 1 \in 1..q
            BY <2>1
        <3>3. Reached(N, K, i) = LevelOf(N, K[i + 1]) /\ Reached(M, J, i) = LevelOf(M, J[i + 1])
            BY <1>1, <1>5, <2>1 DEF Reached
        <3>4. LevelOf(N, K[i + 1]) = LevelOf(M, J[i + 1])
            BY <1>3, <1>8, <1>11, <3>2 DEF LevelOf
        <3> QED BY <1>3, <3>1, <3>3, <3>4
    <2>2. CASE i = q
        <3>1. Floor(N, u) = 0
            BY <1>4, <1>6, <1>7, <1>9 DEF Floor
        <3>2. Reached(N, K, i) = 0
            BY <1>4, <1>5, <1>9, <2>2 DEF Reached
        <3> QED BY <1>5, <2>2, <3>1, <3>2
    <2> QED BY <1>1, <2>1, <2>2
<1>18. Measured(N, K)
    BY <1>5, <1>17 DEF Measured
<1>19. Covered(N, K)
    <2>1. SUFFICES ASSUME NEW k \in 1..(n + 1), N[k].pointer = <<>>, NEW p \in OpenIncludes(N[k])
                   PROVE  \E i \in 1..q : LaneOf(K[i]) = k /\ StartOf(K[i]) <= p
        BY <1>4, <1>5 DEF Covered
    <2>2. k \in 1..n
        BY <1>4, <1>9, <2>1
    <2>3. PICK i \in 1..q : LaneOf(J[i]) = k /\ StartOf(J[i]) <= p
        BY <1>1, <1>2, <1>3, <1>4, <2>1, <2>2 DEF Covered
    <2> QED BY <1>8, <2>3
<1> QED BY <1>5, <1>10, <1>12, <1>13, <1>14, <1>15, <1>16, <1>18, <1>19 DEF Chained, Lanes

(* The end of an event's selection: what a scope counts goes down no       *)
(* further than its floor.                                                 *)
LEMMA EndsWithin ==
    ASSUME NEW library, NEW L, NEW I, Chained(library, L, I), Readable(L[Len(L)]), Len(I) > 0,
           Includes(I[Len(I)]), IsEnd(EventOf(L[Len(L)])), Chosen(L[Len(L)], EventOf(L[Len(L)]))
    PROVE  I[Len(I)].depth > 0
<1>1. PICK m \in Nat \ {0} : m = Len(I) /\ m \in 1..m
    BY ChainFacts
<1>2. PICK n \in Nat \ {0} : n = Len(L)
    BY ChainFacts
<1>3. PICK l : l = L[n] /\ LaneFits(library, l) /\ Readable(l)
    BY <1>2, ChainFacts
<1>4. ScopeFits(L, I[m]) /\ LaneOf(I[m]) + 1 = n /\ I[m].depth + Floor(L, I[m]) = Reached(L, I, m)
    <2>1. n = Reader(I[m])
        BY <1>1, <1>2, ChainFacts
    <2> QED BY <1>1, <2>1, ChainFacts DEF Reader
<1>5. I[m].depth \in Nat
    BY <1>4 DEF ScopeFits, IsScope
<1>6. I[m].depth + Bottom(l) = Depth(l)
    BY <1>1, <1>2, <1>3, <1>4 DEF Floor, Reached
<1>7. PICK x : x = Onward(l, EventOf(l))
    OBVIOUS
<1>8. LaneFits(library, x) /\ Depth(x) = Depth(l) + Change(EventOf(l))
    BY <1>3, <1>7, OnwardFits DEF Readable, EventOf
<1>9. Bottom(x) = Bottom(l)
    BY <1>2, <1>3, <1>7, Selection DEF Readable
<1>10. Change(EventOf(l)) = -1
    BY <1>2, <1>3 DEF Change, IsStart, IsEnd
<1>11. Depth(l) \in Nat /\ Depth(x) \in Nat /\ Bottom(x) \in Nat /\ Bottom(x) <= Depth(x)
    BY <1>3, <1>8, LaneFacts, BottomFacts
<1> QED BY <1>1, <1>5, <1>6, <1>8, <1>9, <1>10, <1>11

(* The source that is read last is done with. *)
LEMMA Leaving ==
    ASSUME NEW library, NEW L, NEW I, Chained(library, L, I),
           Len(L) > 1, Depth(L[Len(L)]) = 0,
           NEW M, IsSequence(M), Len(M) = Len(L) - 1, \A k \in 1..(Len(L) - 1) : M[k] = L[k],
           NEW J, IsSequence(J), Len(J) = Len(I), \A i \in 1..(Len(I) - 1) : J[i] = I[i],
           IsScope(J[Len(I)]), J[Len(I)].element = I[Len(I)].element, J[Len(I)].depth = I[Len(I)].depth,
           ~Includes(J[Len(I)]), J[Len(I)].behavior # "FallbackInProgress"
    PROVE  Chained(library, M, J)
<1>1. PICK m \in Nat \ {0} : m = Len(I) /\ m \in 1..m
    BY ChainFacts
<1>2. PICK n \in Nat \ {0} : n = Len(L) /\ n > 1
    BY ChainFacts
<1>3. PICK l : l = L[n] /\ LaneFits(library, l) /\ Depth(l) = 0
    BY <1>2, ChainFacts
<1>4. /\ Lanes(library, L) /\ IsSequence(I) /\ n = Reader(I[m])
      /\ \A i \in 1..m : ScopeFits(L, I[i]) /\ LaneOf(I[i]) \in 1..n /\ (Includes(I[i]) => LaneOf(I[i]) + 1 \in 1..n)
      /\ \A i \in 1..m : I[i].depth + Floor(L, I[i]) = Reached(L, I, i)
      /\ Follows(L, I) /\ InLine(I) /\ Explained(L, I) /\ NoLoop(I) /\ Covered(L, I)
    BY SMTT(30), <1>1, <1>2, ChainFacts
<1>5. I[m].depth \in Nat /\ I[m].depth + Floor(L, I[m]) = 0
    <2>1. I[m].depth \in Nat
        BY <1>1, <1>4 DEF ScopeFits, IsScope
    <2> QED BY <1>1, <1>2, <1>3, <1>4, <2>1 DEF Reached
<1>6. Includes(I[m]) /\ LaneOf(I[m]) = n - 1 /\ I[m].depth = 0
    <2>1. Includes(I[m])
        <3>1. SUFFICES ASSUME ~Includes(I[m]) PROVE FALSE
            OBVIOUS
        <3>2. LevelOf(L, I[m]) \in Nat
            BY <1>1, <1>4, ScopeFacts
        <3> QED BY <1>5, <3>1, <3>2 DEF Floor
    <2>2. LaneOf(I[m]) + 1 = n /\ LaneOf(I[m]) \in 1..n
        BY <1>1, <1>4, <2>1 DEF Reader
    <2>3. Floor(L, I[m]) \in Nat
        BY <1>3, <2>1, <2>2, BottomFacts DEF Floor
    <2>4. LaneOf(I[m]) = n - 1
        <3>1. PICK k \in Nat : k = LaneOf(I[m])
            BY <2>2
        <3> QED BY <2>2, <3>1
    <2>5. I[m].depth = 0
        <3>1. PICK d \in Nat : d = I[m].depth
            BY <1>5
        <3>2. PICK f \in Nat : f = Floor(L, I[m])
            BY <2>3
        <3>3. d + f = 0
            BY <1>5, <3>1, <3>2
        <3> QED BY <3>1, <3>3
    <2> QED BY <2>1, <2>4, <2>5
<1>7. /\ \A i \in 1..m : i < m => J[i] = I[i]
      /\ \A i \in 1..m : LaneOf(J[i]) = LaneOf(I[i]) /\ StartOf(J[i]) = StartOf(I[i])
      /\ Len(J) = m /\ Len(M) = n - 1 /\ n - 1 \in 1..(n - 1)
      /\ \A k \in 1..(n - 1) : M[k] = L[k] /\ k \in 1..n
    <2>1. \A i \in 1..m : i < m => J[i] = I[i]
        BY <1>1
    <2>2. J[m].element = I[m].element
        BY <1>1
    <2>3. \A i \in 1..m : i = m \/ i < m
        OBVIOUS
    <2> QED BY <1>1, <1>2, <2>1, <2>2, <2>3 DEF LaneOf, StartOf
<1>8. \A i \in 1..m : LaneOf(I[i]) \in 1..(n - 1)
    <2>1. TAKE i \in 1..m
    <2>2. CASE i = m
        BY <1>6, <1>7, <2>2
    <2>3. CASE i < m
        <3>1. LaneOf(I[i]) # n
            BY <1>1, <1>2, <1>6, <2>3, InLastLane
        <3> QED BY <1>4, <3>1
    <2> QED BY <2>2, <2>3
<1>9. \A i \in 1..m : i < m /\ Includes(I[i]) => LaneOf(I[i]) + 1 \in 1..(n - 1)
    <2>1. TAKE i \in 1..m
    <2>2. HAVE i < m /\ Includes(I[i])
    <2>3. Reader(I[i]) # n
        BY <1>1, <1>2, <1>6, <2>2, InLastLane
    <2> QED BY <1>4, <2>2, <2>3 DEF Reader
<1>10. \A s : LaneOf(s) \in 1..(n - 1) => LevelOf(M, s) = LevelOf(L, s)
    BY <1>7 DEF LevelOf
<1>11. Lanes(library, M)
    <2>1. \A k \in 1..n : LaneFits(library, L[k])
        BY <1>2, <1>4 DEF Lanes
    <2> QED BY <1>2, <1>7, <2>1 DEF Lanes
<1>12. ASSUME NEW i \in 1..m PROVE ScopeFits(M, J[i])
    <2>1. ScopeFits(L, I[i]) /\ LaneOf(I[i]) \in 1..(n - 1)
        BY <1>4, <1>8
    <2>2. M[LaneOf(I[i])] = L[LaneOf(I[i])] /\ LaneOf(I[i]) \in 1..Len(M)
        BY <1>7, <2>1
    <2>3. LevelOf(M, J[i]) = LevelOf(L, I[i])
        BY <1>7, <2>2 DEF LevelOf
    <2>4. CASE i < m
        <3>1. J[i] = I[i]
            BY <1>7, <2>4
        <3>2. Includes(I[i]) => M[LaneOf(I[i]) + 1] = L[LaneOf(I[i]) + 1] /\ LaneOf(I[i]) + 1 \in 1..Len(M)
            BY <1>7, <1>9, <2>4
        <3> QED BY <2>1, <2>2, <2>3, <3>1, <3>2 DEF ScopeFits
    <2>5. CASE i = m
        <3>1. IsScope(J[m]) /\ ~Includes(J[m]) /\ J[m].behavior # "FallbackInProgress"
            BY <1>1
        <3>2. LaneOf(J[m]) = LaneOf(I[m]) /\ StartOf(J[m]) = StartOf(I[m])
            BY <1>1, <1>7
        <3>3. ScopeFits(L, I[m]) /\ LaneOf(J[m]) \in 1..Len(M) /\ M[LaneOf(J[m])] = L[LaneOf(I[m])]
            BY <2>1, <2>2, <2>5, <3>2
        <3>4. StartOf(J[m]) \in OpenIncludes(M[LaneOf(J[m])])
            BY <3>2, <3>3 DEF ScopeFits
        <3>5. M[LaneOf(J[m])].pointer # <<>> =>
                  \E d \in 0..LevelOf(M, J[m]) : M[LaneOf(J[m])].selector.selected = {d}
            <4>1. LevelOf(M, J[m]) = LevelOf(L, I[m])
                BY <2>3, <2>5
            <4> QED BY <3>3, <4>1 DEF ScopeFits
        <3>6. ScopeFits(M, J[m])
            BY <3>1, <3>3, <3>4, <3>5 DEF ScopeFits
        <3> QED BY <2>5, <3>6
    <2> QED BY <2>4, <2>5
<1>13. Follows(M, J)
    <2>1. \A i \in 1..m : i = 1 \/ (i - 1 \in 1..m /\ J[i - 1] = I[i - 1])
        BY <1>7
    <2>2. \A i \in 1..m : LaneOf(J[i]) = IF i = 1 THEN 1 ELSE Reader(J[i - 1])
        BY <1>1, <1>4, <1>7, <2>1 DEF Follows
    <2>3. Reader(J[m]) = n - 1
        BY <1>1, <1>6, <1>7 DEF Reader
    <2> QED BY <1>7, <2>2, <2>3 DEF Follows
<1>14. InLine(J)
    <2>1. ASSUME NEW i \in 1..m, NEW j \in 1..m, i < j PROVE Before(J[i], J[j])
        <3>1. Before(I[i], I[j])
            BY <1>1, <1>4, <2>1 DEF InLine
        <3>2. J[i] = I[i]
            BY <1>7, <2>1
        <3>3. LaneOf(J[j]) = LaneOf(I[j]) /\ StartOf(J[j]) = StartOf(I[j])
            BY <1>7
        <3> QED BY <3>1, <3>2, <3>3 DEF Before
    <2> QED BY <1>7, <2>1 DEF InLine
<1>15. Explained(M, J)
    <2>1. SUFFICES ASSUME NEW k \in 1..((n - 1) - 1) PROVE \E i \in 1..m : Includes(J[i]) /\ LaneOf(J[i]) = k
        BY <1>7 DEF Explained
    <2>2. k \in 1..(n - 1) /\ k # n - 1
        OBVIOUS
    <2>3. PICK i \in 1..m : Includes(I[i]) /\ LaneOf(I[i]) = k
        BY <1>1, <1>2, <1>4, <2>2 DEF Explained
    <2>4. i < m
        BY <1>6, <2>2, <2>3
    <2> QED BY <1>7, <2>3, <2>4
<1>16. NoLoop(J)
    <2>1. \A i \in 1..m : Includes(J[i]) => J[i] = I[i]
        BY <1>1, <1>7
    <2> QED BY SMTT(30), <1>1, <1>4, <1>7, <2>1 DEF NoLoop
<1>17. ASSUME NEW i \in 1..m PROVE J[i].depth + Floor(M, J[i]) = Reached(M, J, i)
    <2>1. CASE i < m
        <3>1. J[i] = I[i] /\ LevelOf(M, I[i]) = LevelOf(L, I[i])
            BY <1>7, <1>8, <1>10, <2>1
        <3>2. Includes(I[i]) => M[LaneOf(I[i]) + 1] = L[LaneOf(I[i]) + 1]
            BY <1>7, <1>9, <2>1
        <3>3. Floor(M, J[i]) = Floor(L, I[i])
            BY <3>1, <3>2 DEF Floor
        <3>4. i + 1 \in 1..m
            BY <2>1
        <3>5. Reached(M, J, i) = LevelOf(M, J[i + 1]) /\ Reached(L, I, i) = LevelOf(L, I[i + 1])
            BY <1>1, <1>7, <2>1 DEF Reached
        <3>6. LevelOf(M, J[i + 1]) = LevelOf(L, I[i + 1])
            BY <1>7, <1>8, <3>4 DEF LevelOf
        <3> QED BY <1>4, <3>1, <3>3, <3>5, <3>6
    <2>2. CASE i = m
        <3>1. PICK k : k = L[n - 1]
            OBVIOUS
        <3>2. LaneFits(library, k) /\ M[n - 1] = k /\ LaneOf(J[m]) = n - 1
            BY <1>1, <1>2, <1>4, <1>6, <1>7, <3>1 DEF Lanes
        <3>3. k.at = StartOf(I[m]) + 1 /\ IsStart(k.events[StartOf(I[m])]) /\ StartOf(I[m]) \in Nat \ {0}
            <4>1. ScopeFits(L, I[m])
                BY <1>1, <1>4
            <4>2. IsStart(L[LaneOf(I[m])].events[StartOf(I[m])]) /\ StartOf(I[m]) \in Nat \ {0}
                BY <1>4, <4>1, ScopeFacts
            <4> QED BY <1>6, <3>1, <4>1, <4>2 DEF ScopeFits
        <3>4. Depth(k) = Level(k.events, StartOf(I[m])) + 1
            BY <3>3, LevelStep DEF Depth, Change
        <3>5. Floor(M, J[m]) = Level(k.events, StartOf(I[m])) + 1
            BY <1>1, <1>7, <3>2 DEF Floor, LevelOf
        <3>6. Reached(M, J, m) = Depth(k)
            BY <1>7, <3>2 DEF Reached
        <3>7. J[m].depth = 0 /\ Depth(k) \in Nat
            BY <1>1, <1>6, <3>2, LaneFacts
        <3> QED BY <2>2, <3>4, <3>5, <3>6, <3>7
    <2> QED BY <2>1, <2>2
<1>18. Measured(M, J)
    BY <1>7, <1>17 DEF Measured
<1>19. Covered(M, J)
    <2>1. SUFFICES ASSUME NEW k \in 1..(n - 1), M[k].pointer = <<>>, NEW p \in OpenIncludes(M[k])
                   PROVE  \E i \in 1..m : LaneOf(J[i]) = k /\ StartOf(J[i]) <= p
        BY ZenonT(40), SMTT(20), <1>7 DEF Covered
    <2>2. k \in 1..Len(L) /\ M[k] = L[k]
        BY <1>2, <1>7
    <2>3. PICK i \in 1..m : LaneOf(I[i]) = k /\ StartOf(I[i]) <= p
        BY <1>1, <1>4, <2>1, <2>2 DEF Covered
    <2> QED BY <1>7, <2>3
<1> QED BY <1>7, <1>11, <1>12, <1>13, <1>14, <1>15, <1>16, <1>18, <1>19 DEF Chained, Lanes

-----------------------------------------------------------------------------
(* The states.  A source begins at the top of its resource, and a chain    *)
(* with the source of the pipeline alone.                                  *)
LEMMA Beginning ==
    ASSUME IsLibrary(work.library), NEW uri \in DOMAIN work.library, NEW parse, NEW pointer
    PROVE  /\ LaneFits(work.library, Lane(uri, parse, pointer))
           /\ Lane(uri, parse, pointer).at = 1 /\ Lane(uri, parse, pointer).selector.selected = {}
           /\ Lane(uri, parse, pointer).uri = uri /\ Lane(uri, parse, pointer).pointer = pointer
           /\ Lane(uri, parse, pointer).parse = parse
           /\ parse # "text" => Lane(uri, parse, pointer).events = work.library[uri].xml
<1>1. PICK D : D = IF parse = "text" THEN work.library[uri].text ELSE work.library[uri].xml
    OBVIOUS
<1>2. Reported(D)
    BY <1>1 DEF IsLibrary
<1>3. /\ IsSequence(D) /\ Len(D) \in Nat /\ DOMAIN D = 1..Len(D) /\ Level(D, 1) = 0 /\ StillOpen(D, 1) = {}
    <2>1. IsSequence(D) /\ Len(D) \in Nat /\ DOMAIN D = 1..Len(D)
        BY <1>2, ReportedFacts
    <2>2. Level(D, 1) = 0
        BY LevelStep
    <2>3. StillOpen(D, 1) = {}
        BY <2>1 DEF StillOpen, Elements
    <2> QED BY <2>1, <2>2, <2>3
<1>4. PICK part : part = IF pointer = <<>> THEN [id |-> {}, steps |-> <<1>>] ELSE pointer[1]
    OBVIOUS
<1>5. PICK s : s = NewSelector(part)
    OBVIOUS
<1>6. /\ IsSelector(s) /\ s.selected = {} /\ IsSequence(s.counts) /\ Len(s.counts) = 1
    <2>1. IsSelector(s) /\ s.selected = {} /\ s.counts = <<0>>
        BY <1>5 DEF NewSelector, IsSelector
    <2>2. <<0>> \in Seq(Nat) /\ Len(<<0>>) = 1
        OBVIOUS
    <2>3. IsSequence(<<0>>)
        BY <2>2, ASequenceOf
    <2> QED BY <2>1, <2>2, <2>3
<1>7. PICK x : x = Lane(uri, parse, pointer)
    OBVIOUS
<1>8. /\ x.uri = uri /\ x.parse = parse /\ x.events = D /\ x.at = 1 /\ x.pointer = pointer /\ x.selector = s
    BY <1>1, <1>4, <1>5, <1>7 DEF Lane
<1>9. Depth(x) = 0 /\ Nests(x.events, x.at) /\ x.at \in 1..(Len(x.events) + 1)
    BY <1>3, <1>8 DEF Depth, Nests
<1>10. \E u \in DOMAIN work.library :
          x.events = IF x.parse = "text" THEN work.library[u].text ELSE work.library[u].xml
    BY <1>1, <1>8
<1>11. LaneFits(work.library, x)
    BY <1>2, <1>6, <1>8, <1>9, <1>10 DEF LaneFits
<1> QED BY <1>1, <1>6, <1>7, <1>8, <1>11

LEMMA BeginsChain ==
    ASSUME NEW library, NEW L, IsSequence(L), Len(L) = 1, LaneFits(library, L[1]), L[1].at = 1
    PROVE  Chained(library, L, <<>>)
<1>1. IsSequence(<<>>) /\ Len(<<>>) = 0
    <2>1. <<>> \in Seq(Nat)
        OBVIOUS
    <2> QED BY <2>1, ASequenceOf
<1>2. OpenIncludes(L[1]) = {}
    BY LaneFacts DEF OpenIncludes
<1>3. \A k \in 1..Len(L) : k = 1
    OBVIOUS
<1>4. Follows(L, <<>>) /\ InLine(<<>>) /\ NoLoop(<<>>) /\ Measured(L, <<>>) /\ Explained(L, <<>>)
    BY <1>1 DEF Follows, InLine, NoLoop, Measured, Explained
<1>5. Covered(L, <<>>)
    BY <1>2, <1>3 DEF Covered
<1> QED BY <1>1, <1>3, <1>4, <1>5 DEF Chained

(* The lane whose turn it is. *)
LEMMA Current ==
    ASSUME Counting
    PROVE  /\ Len(lanes) \in Nat \ {0} /\ lane = lanes[Len(lanes)] /\ Event = EventOf(lane)
           /\ Nested <=> Len(lanes) # 1
           /\ IsLibrary(work.library) /\ Main \in DOMAIN work.library
           /\ work.maxDepth \in Nat \union {NoLimit} /\ work.maxIncludes \in Nat \union {NoLimit}
           /\ work.answers \subseteq [flow : {"Continue", "Break", "Error"}, count : Nat]
<1>1. IsSequence(lanes) /\ Len(lanes) >= 1
    BY DEF Counting
<1>2. Len(lanes) \in Nat
    BY <1>1, SequenceHas
<1>3. lane = lanes[Len(lanes)]
    BY <1>1, Popped DEF lane
<1>4. /\ IsLibrary(work.library)
      /\ work.maxDepth \in Nat \union {NoLimit} /\ work.maxIncludes \in Nat \union {NoLimit}
      /\ work.answers \subseteq [flow : {"Continue", "Break", "Error"}, count : Nat]
    BY XIncludeAssumption DEF Counting
<1>5. Main \in DOMAIN work.library
    BY <1>4 DEF IsLibrary
<1>6. Event = EventOf(lane)
    BY DEF Event, EventOf
<1>7. Nested <=> Len(lanes) # 1
    <2>1. PICK n \in Nat : n = Len(lanes) /\ n >= 1
        BY <1>1, <1>2
    <2>2. n > 1 <=> n # 1
        BY <2>1
    <2> QED BY <2>1, <2>2 DEF Nested
<1> QED BY <1>1, <1>2, <1>3, <1>4, <1>5, <1>6, <1>7

(* What becomes of the lanes with a step, and of the first of them. *)
Steps ==
    \/ lanes' = lanes
    \/ lanes' = Read
    \/ Nested /\ lanes' = Front(lanes)
    \/ \E x : lanes' = Append(Read, x)

LEMMA Moved ==
    ASSUME Counting
    PROVE  /\ IsSequence(Read) /\ Len(Read) = Len(lanes)
           /\ Read[Len(lanes)] = Onward(lane, Event)
           /\ \A k \in 1..(Len(lanes) - 1) : Read[k] = lanes[k]
           /\ Moves(lanes, Read)
<1>1. IsSequence(lanes) /\ Len(lanes) >= 1
    BY DEF Counting
<1>2. Read = WithLast(lanes, Onward(lane, Event))
    BY DEF Read, WithLast
<1>3. /\ IsSequence(Read) /\ Len(Read) = Len(lanes)
      /\ Read[Len(lanes)] = Onward(lane, Event)
      /\ \A k \in 1..(Len(lanes) - 1) : Read[k] = lanes[k]
    BY <1>1, <1>2, Replaced
<1>4. Onward(lane, Event) = Onward(lanes[Len(lanes)], EventOf(lanes[Len(lanes)]))
    BY Current
<1> QED BY <1>3, <1>4 DEF Moves

LEMMA FirstLane ==
    ASSUME Counting, Steps
    PROVE  /\ IsSequence(lanes') /\ Len(lanes') >= 1
           /\ lanes'[1].events = lanes[1].events /\ lanes'[1].parse = lanes[1].parse
           /\ lanes'[1].pointer = lanes[1].pointer
           /\ lanes'[1].at \in Nat \ {0} /\ (lanes[1].at > 1 => lanes'[1].at > 1)
<1>1. PICK n \in Nat \ {0} : n = Len(lanes)
    BY Current
<1>2. IsSequence(lanes) /\ lanes[1].at \in Nat \ {0}
    BY DEF Counting
<1>3. /\ IsSequence(Read) /\ Len(Read) = n
      /\ Read[1].events = lanes[1].events /\ Read[1].parse = lanes[1].parse
      /\ Read[1].pointer = lanes[1].pointer
      /\ Read[1].at \in Nat \ {0} /\ (lanes[1].at > 1 => Read[1].at > 1)
    <2>1. n > 1 => Read[1] = lanes[1]
        BY <1>1, Moved
    <2>2. n = 1 => Read[1] = Onward(lanes[1], Event)
        BY <1>1, Moved, Current
    <2> QED BY <1>1, <1>2, <2>1, <2>2, Moved DEF Onward
<1>4. CASE lanes' = lanes
    BY <1>1, <1>2, <1>4
<1>5. CASE lanes' = Read
    BY <1>1, <1>3, <1>5
<1>6. CASE Nested /\ lanes' = Front(lanes)
    <2>1. n > 1
        BY <1>1, <1>6, Current
    <2>2. IsSequence(Front(lanes)) /\ Len(Front(lanes)) = n - 1 /\ Front(lanes)[1] = lanes[1]
        BY <1>1, <1>2, <2>1, Popped
    <2> QED BY <1>2, <1>6, <2>1, <2>2
<1>7. CASE \E x : lanes' = Append(Read, x)
    <2>1. PICK x : lanes' = Append(Read, x)
        BY <1>7
    <2>2. IsSequence(Append(Read, x)) /\ Len(Append(Read, x)) = n + 1 /\ Append(Read, x)[1] = Read[1]
        BY <1>1, <1>3, Pushed
    <2> QED BY <1>1, <1>3, <2>1, <2>2
<1> QED BY <1>4, <1>5, <1>6, <1>7 DEF Steps

(* Before the pipeline's StartDocument nothing else can be read. *)
LEMMA AtFirst ==
    ASSUME Counting, lanes[1].at = 1
    PROVE  /\ ~Nested /\ ~busy /\ lane = lanes[1] /\ lane.pointer = <<>> /\ lane.parse = "xml"
           /\ Event.kind \in {"StartDocument", "Malformed"}
<1>1. Len(lanes) = 1 /\ ~busy /\ lanes[1].events = work.library[Main].xml
      /\ lanes[1].parse = "xml" /\ lanes[1].pointer = <<>>
    BY DEF Counting
<1>2. lane = lanes[1] /\ ~Nested
    BY <1>1, Current
<1>3. work.library[Main].xml[1].kind \in {"StartDocument", "Malformed"}
    BY Current DEF IsLibrary
<1> QED BY <1>1, <1>2, <1>3 DEF Event

LEMMA StartsOnce ==
    ASSUME Counting, Reads, ~Nested, Event.kind = "StartDocument"
    PROVE  lanes[1].at = 1
<1>1. lane = lanes[1] /\ lanes[1].events = work.library[Main].xml
    BY Current DEF Counting
<1>2. Reported(work.library[Main].xml)
    BY Current DEF IsLibrary
<1>3. DOMAIN work.library[Main].xml = 1..Len(work.library[Main].xml)
    BY <1>2, ReportedFacts
<1>4. lane.at \in 1..Len(work.library[Main].xml)
    BY <1>1, <1>3 DEF Reads
<1> QED BY <1>1, <1>2, <1>4, ReportedFacts DEF Event

-----------------------------------------------------------------------------
(* The counters.  What a step does to them, and to what becomes of the run. *)
Errors == {"malformed", "invalid", "root", "resource", "limit", "uri", "loop"}

Effects ==
    \/ Drop
    \/ \E error \in Errors : Fail(error)
    \/ \E e : e.kind # "StartDocument" /\ Passthrough(e)

LEMMA PassesOn ==
    ASSUME Counting, outcome = "running", NEW e, Passthrough(e)
    PROVE  /\ UNCHANGED <<work, runs, counted>>
           /\ outcome' \notin {"Completed", "Stopped"}
           /\ {errorCount', reported'} \subseteq Nat
           /\ e.kind # "StartDocument" /\ reported = counted + errorCount => reported' = counted' + errorCount'
           /\ e.kind = "StartDocument" /\ reported = 0 /\ counted = 0 => reported' = counted' + errorCount'
<1>1. errorCount \in Nat /\ reported \in Nat /\ counted \in Nat
    BY DEF Counting
<1>2. CASE RootRefuses(e) /\ Fail("root")
    <2>1. e.kind # "StartDocument"
        BY <1>2 DEF RootRefuses, IsStart
    <2> QED BY <1>1, <1>2, <2>1 DEF Fail, history
<1>3. CASE ~(RootRefuses(e) /\ Fail("root"))
    <2>1. PICK answer \in work.answers :
            /\ outcome' = IF answer.flow = "Error" THEN "consumer" ELSE outcome
            /\ errorCount' = (IF e.kind = "StartDocument" THEN 0 ELSE errorCount) + answer.count
            /\ reported' = reported + answer.count
        BY <1>3 DEF Passthrough
    <2>2. UNCHANGED <<work, runs, counted>>
        BY <1>3 DEF Passthrough
    <2>3. PICK c \in Nat : c = answer.count
        BY Current
    <2>4. /\ errorCount' = (IF e.kind = "StartDocument" THEN 0 ELSE errorCount) + c
          /\ reported' = reported + c
        BY <2>1, <2>3
    <2>5. outcome' \notin {"Completed", "Stopped"}
        BY <2>1
    <2> QED BY <1>1, <2>2, <2>3, <2>4, <2>5
<1> QED BY <1>2, <1>3

LEMMA Counts ==
    ASSUME Counting, outcome = "running", lanes[1].at > 1, Steps, Effects, occurrence' \in Nat
    PROVE  Counting'
<1>1. /\ IsSequence(lanes') /\ Len(lanes') >= 1
      /\ lanes'[1].events = work.library[Main].xml /\ lanes'[1].parse = "xml"
      /\ lanes'[1].pointer = <<>> /\ lanes'[1].at \in Nat \ {0} /\ lanes'[1].at > 1
    BY FirstLane DEF Counting
<1>2. /\ work \in Works /\ runs \in Nat /\ {errorCount, reported, counted} \subseteq Nat
      /\ reported = counted + errorCount
    BY DEF Counting
<1>3. /\ UNCHANGED <<work, runs, counted>> /\ outcome' \notin {"Completed", "Stopped"}
      /\ {errorCount', reported'} \subseteq Nat /\ reported' = counted' + errorCount'
    <2>1. CASE Drop
        BY <1>2, <2>1 DEF Drop, history
    <2>2. CASE \E error \in Errors : Fail(error)
        BY <1>2, <2>2 DEF Fail, history, Errors
    <2>3. CASE \E e : e.kind # "StartDocument" /\ Passthrough(e)
        BY <1>2, <2>3, PassesOn
    <2> QED BY <2>1, <2>2, <2>3 DEF Effects
<1>4. lanes'[1].at # 1
    BY <1>1
<1> QED BY <1>1, <1>2, <1>3, <1>4 DEF Counting

LEMMA Fixed ==
    ASSUME Counting, UNCHANGED <<work, lanes, busy, runs, errorCount, reported, counted>>,
           occurrence' \in Nat,
           outcome' \in {"Completed", "Stopped"} => outcome' = outcome
    PROVE  Counting'
<1>1. LaneFits(work.library, lanes[1])' <=> LaneFits(work.library, lanes[1])
    BY DEF LaneFits, Reported, Depth, Nests, IsSelector, IsSequence
<1> QED BY <1>1 DEF Counting, IsSequence

(* What happens after the pipeline's StartDocument. *)
LEMMA Later ==
    ASSUME Counting,
           \/ Nested \/ busy \/ lane.pointer # <<>> \/ lane.parse = "text"
           \/ Event.kind \notin {"StartDocument", "Malformed"}
    PROVE  lanes[1].at > 1
<1>1. lanes[1].at # 1
    BY AtFirst
<1> QED BY <1>1 DEF Counting

LEMMA OutputKind ==
    ASSUME NEW e, NEW attributes
    PROVE  Output(e, attributes).kind = e.kind
BY DEF Output

(* An event of the content or of the frame reaches the transformer. *)
LEMMA Received ==
    ASSUME Counting, Receives, ~(~Nested /\ Event.kind = "StartDocument")
    PROVE  outcome = "running" /\ ~stopped /\ lanes[1].at > 1 /\ Event.kind # "Malformed"
<1>1. Reads /\ Event.kind # "Malformed"
    BY DEF Receives, Valid, ReadsXml
<1>2. lanes[1].at > 1
    <2>1. CASE Nested
        BY <2>1, Later
    <2>2. CASE ~Nested
        BY <1>1, <2>2, Later
    <2> QED BY <2>1, <2>2
<1> QED BY <1>1, <1>2 DEF Reads

LEMMA PassedOn ==
    ASSUME NEW e, e.kind # "StartDocument"
    PROVE  Passthrough(e) => Effects
BY DEF Effects

(* What the events of a scope do to lanes and counters. *)
LEMMA CountsInScope ==
    ASSUME Counting, Scoped
    PROVE  Counting'
<1>1. ASSUME NEW behaviors, InScope(behaviors)
      PROVE  /\ outcome = "running" /\ lanes[1].at > 1 /\ Steps /\ Event.kind # "StartDocument"
             /\ \A attributes : Output(Event, attributes).kind # "StartDocument"
    <2>1. Receives /\ Event.kind \notin Frame /\ lanes' = Read
        BY <1>1 DEF InScope, Consumed
    <2>2. Event.kind # "StartDocument"
        BY <2>1 DEF Frame
    <2> QED BY <2>1, <2>2, Received, OutputKind DEF Steps
<1>2. occurrence \in Nat
    BY DEF Counting
<1>3. CASE IncludedElement
    <2>1. Effects /\ occurrence' \in Nat
        BY <1>1, <1>2, <1>3, PassedOn DEF IncludedElement, PassthroughAsIs
    <2> QED BY <1>1, <1>3, <2>1, Counts DEF IncludedElement
<1>4. CASE IncludedContent
    <2>1. Effects /\ occurrence' \in Nat
        <3>1. Drop \/ Passthrough(Event)
            BY <1>4 DEF IncludedContent
        <3> QED BY <1>1, <1>2, <1>4, <3>1, PassedOn DEF IncludedContent, Effects
    <2> QED BY <1>1, <1>4, <2>1, Counts DEF IncludedContent
<1>5. CASE StartFallback
    <2>1. Effects /\ occurrence' \in Nat
        BY <1>2, <1>5 DEF StartFallback, Effects
    <2> QED BY <1>1, <1>5, <2>1, Counts DEF StartFallback
<1>6. CASE FallbackContent
    <2>1. Effects /\ occurrence' \in Nat
        BY <1>1, <1>2, <1>6, PassedOn DEF FallbackContent, PassthroughAsIs
    <2> QED BY <1>1, <1>6, <2>1, Counts DEF FallbackContent
<1>7. CASE EndFallback
    <2>1. Effects /\ occurrence' \in Nat
        BY <1>2, <1>7 DEF EndFallback, Effects
    <2> QED BY <1>1, <1>7, <2>1, Counts DEF EndFallback
<1>8. CASE Ignore
    <2>1. Effects /\ occurrence' \in Nat
        BY <1>2, <1>8 DEF Ignore, Effects
    <2> QED BY <1>1, <1>8, <2>1, Counts DEF Ignore
<1>9. CASE EndInclude
    <2>1. Effects /\ occurrence' \in Nat
        <3>1. Drop \/ Fail("resource")
            BY <1>9 DEF EndInclude
        <3>2. "resource" \in Errors
            BY DEF Errors
        <3> QED BY <1>2, <1>9, <3>1, <3>2 DEF EndInclude, Effects
    <2> QED BY <1>1, <1>9, <2>1, Counts DEF EndInclude
<1> QED BY <1>3, <1>4, <1>5, <1>6, <1>7, <1>8, <1>9 DEF Scoped

LEMMA CountsIncluding ==
    ASSUME Counting, Including
    PROVE  Counting'
<1>1. {"limit", "uri", "loop"} \subseteq Errors
    BY DEF Errors
<1>2. Counted => StartsInclude /\ occurrence' = occurrence + 1
    BY DEF Counted
<1>3. StartsInclude /\ (occurrence' = occurrence \/ occurrence' = occurrence + 1) /\ Effects
    <2>1. CASE TooDeep
        BY <1>1, <2>1 DEF TooDeep, Effects
    <2>2. CASE TooMany
        BY <1>1, <1>2, <2>2 DEF TooMany, Effects
    <2>3. CASE BadUri
        BY <1>1, <1>2, <2>3 DEF BadUri, Permitted, Effects
    <2>4. CASE FindLoop
        BY <1>1, <1>2, <2>4 DEF FindLoop, Permitted, Effects
    <2>5. CASE ResourceError
        BY <1>2, <2>5 DEF ResourceError, Permitted, Effects
    <2>6. CASE Open
        BY <1>2, <2>6 DEF Open, Permitted, Effects
    <2> QED BY <2>1, <2>2, <2>3, <2>4, <2>5, <2>6 DEF Including
<1>4. lanes' = Read \/ \E x : lanes' = Append(Read, x)
    BY DEF Including, TooDeep, TooMany, BadUri, FindLoop, ResourceError, Open
<1>5. Receives /\ Event.kind # "StartDocument"
    BY <1>3 DEF StartsInclude, IsInclude, IsStart
<1>6. occurrence \in Nat
    BY DEF Counting
<1>7. outcome = "running" /\ lanes[1].at > 1
    BY <1>5, Received
<1>8. occurrence' \in Nat
    BY <1>3, <1>6
<1>9. Steps
    BY <1>4 DEF Steps
<1> QED BY <1>3, <1>7, <1>8, <1>9, Counts

LEMMA CountsStartRun ==
    ASSUME Counting, StartRun
    PROVE  Counting'
<1>1. /\ Reads /\ ~Nested /\ Event.kind = "StartDocument" /\ lanes' = Read /\ occurrence' = 0
      /\ Passthrough(Event)
    BY DEF StartRun, Consumed, Receives, Valid, ReadsXml
<1>2. lanes[1].at = 1
    BY <1>1, StartsOnce
<1>3. /\ work \in Works /\ runs \in Nat /\ reported = 0 /\ counted = 0 /\ Len(lanes) = 1
    BY <1>2 DEF Counting
<1>4. /\ IsSequence(lanes') /\ Len(lanes') >= 1
      /\ lanes'[1].events = work.library[Main].xml /\ lanes'[1].parse = "xml"
      /\ lanes'[1].pointer = <<>>
    BY <1>1, FirstLane DEF Counting, Steps
<1>5. lanes'[1].at = 2
    <2>1. lanes'[1] = Onward(lanes[1], Event)
        BY <1>1, <1>3, Moved, Current
    <2> QED BY <1>2, <2>1 DEF Onward
<1>6. /\ UNCHANGED <<work, runs, counted>> /\ outcome' \notin {"Completed", "Stopped"}
      /\ {errorCount', reported'} \subseteq Nat /\ reported' = counted' + errorCount'
    <2>1. outcome = "running"
        BY <1>1 DEF Reads
    <2> QED BY <1>1, <1>3, <2>1, PassesOn
<1> QED BY <1>1, <1>3, <1>4, <1>5, <1>6 DEF Counting

LEMMA CountsNextDocument ==
    ASSUME Counting, NextDocument
    PROVE  Counting'
<1>1. PICK x : x = Lane(Main, "xml", <<>>)
    OBVIOUS
<1>2. /\ LaneFits(work.library, x) /\ x.at = 1 /\ x.pointer = <<>> /\ x.parse = "xml"
      /\ x.events = work.library[Main].xml
    BY <1>1, Current, Beginning
<1>3. /\ lanes' = <<x>> /\ ~busy' /\ outcome' = "running" /\ reported' = 0 /\ counted' = 0
      /\ runs' = runs + 1 /\ UNCHANGED <<work, errorCount, occurrence>>
    BY <1>1 DEF NextDocument
<1>4. IsSequence(lanes') /\ Len(lanes') = 1 /\ lanes'[1] = x
    <2>1. <<x>> \in Seq({x}) /\ Len(<<x>>) = 1 /\ <<x>>[1] = x
        OBVIOUS
    <2> QED BY <1>3, <2>1, ASequenceOf
<1>5. /\ work \in Works /\ {errorCount, occurrence} \subseteq Nat /\ runs \in Nat
    BY DEF Counting
<1> QED BY <1>2, <1>3, <1>4, <1>5 DEF Counting

LEMMA CountingStep ==
    ASSUME Counting, [Next]_vars
    PROVE  Counting'
<1>1. occurrence \in Nat
    BY DEF Counting
<1>2. {"malformed", "invalid"} \subseteq Errors
    BY DEF Errors
<1>3. CASE Malformed \/ Invalid
    BY <1>1, <1>3, Fixed DEF Malformed, Invalid, Fail, history
<1>4. CASE PassOver
    <2>1. Valid /\ lane.pointer # <<>> /\ lanes' = Read /\ occurrence' = occurrence
        BY <1>4 DEF PassOver, Selected
    <2>2. Drop
        BY <1>4 DEF PassOver, Drop
    <2>3. outcome = "running" /\ lanes[1].at > 1
        BY <2>1, Later DEF Valid, ReadsXml, Reads
    <2> QED BY <1>1, <2>1, <2>2, <2>3, Counts DEF Steps, Effects
<1>5. CASE PointerFails
    <2>1. Valid /\ lane.pointer # <<>> /\ lanes' = Front(lanes) /\ occurrence' = occurrence
        BY <1>5 DEF PointerFails, PointerError
    <2>2. Drop
        BY <1>5 DEF PointerFails, Drop
    <2>3. outcome = "running" /\ lanes[1].at > 1
        BY <2>1, Later DEF Valid, ReadsXml, Reads
    <2>4. Nested
        <3>1. lanes[1].pointer = <<>>
            BY DEF Counting
        <3> QED BY <2>1, <3>1, Current
    <2> QED BY <1>1, <2>1, <2>2, <2>3, <2>4, Counts DEF Steps, Effects
<1>6. CASE StartRun
    BY <1>6, CountsStartRun
<1>7. CASE Outside
    <2>1. Receives /\ Event.kind # "StartDocument" /\ lanes' = Read /\ occurrence' = occurrence
        BY <1>7 DEF Outside, Consumed
    <2>2. Effects
        BY <1>7, <2>1, PassedOn, OutputKind DEF Outside, PassthroughAsIs
    <2> QED BY <1>1, <2>1, <2>2, Received, Counts DEF Steps
<1>8. CASE LeaveOutFrame
    <2>1. Receives /\ Nested /\ Drop /\ lanes' = Read /\ occurrence' = occurrence
        BY <1>8 DEF LeaveOutFrame, Consumed
    <2> QED BY <1>1, <2>1, Received, Counts DEF Steps, Effects
<1>9. CASE Scoped
    BY <1>9, CountsInScope
<1>10. CASE Including
    BY <1>10, CountsIncluding
<1>11. CASE IncludeText
    <2>1. Reads /\ Event.kind = "Characters" /\ lanes' = Read /\ Passthrough(Event) /\ occurrence' = occurrence
        BY <1>11 DEF IncludeText
    <2>2. outcome = "running" /\ lanes[1].at > 1
        BY <2>1, Later DEF Reads
    <2> QED BY <1>1, <2>1, <2>2, PassedOn, Counts DEF Steps
<1>12. CASE Included
    <2>1. outcome = "running" /\ Nested /\ lanes' = Front(lanes) /\ occurrence' = occurrence
        BY <1>12 DEF Included
    <2>2. Drop
        BY <1>12 DEF Included, Drop
    <2> QED BY <1>1, <2>1, <2>2, Later, Counts DEF Steps, Effects
<1>13. CASE Return
    <2>1. /\ UNCHANGED <<work, lanes, occurrence, runs, reported>> /\ ~busy'
          /\ counted' = counted + errorCount /\ errorCount' = 0
        BY <1>13 DEF Return
    <2>2. lanes[1].at > 1
        BY <1>13, Later DEF Return
    <2>3. /\ work \in Works /\ runs \in Nat /\ {errorCount, reported, counted, occurrence} \subseteq Nat
          /\ reported = counted + errorCount
        BY <2>2 DEF Counting
    <2>4. reported' = counted' /\ {errorCount', reported', counted', occurrence'} \subseteq Nat
        BY <2>1, <2>3
    <2>5. /\ IsSequence(lanes') /\ Len(lanes') >= 1
          /\ lanes'[1].events = work.library[Main].xml /\ lanes'[1].parse = "xml"
          /\ lanes'[1].pointer = <<>> /\ lanes'[1].at \in Nat \ {0} /\ lanes'[1].at > 1 /\ lanes'[1].at # 1
        BY <2>1, <2>2 DEF Counting, IsSequence
    <2> QED BY <2>1, <2>3, <2>4, <2>5 DEF Counting
<1>14. CASE NextDocument
    BY <1>14, CountsNextDocument
<1>15. CASE Done \/ UNCHANGED vars
    BY <1>1, <1>15, Fixed DEF Done, vars, state, history
<1> QED BY <1>3, <1>4, <1>5, <1>6, <1>7, <1>8, <1>9, <1>10, <1>11, <1>12, <1>13, <1>14, <1>15 DEF Next

-----------------------------------------------------------------------------
(* The chain.  What a step of the transformer makes of a scope. *)
LEMMA ScopeChanges ==
    ASSUME NEW s, IsScope(s)
    PROVE  /\ \A b \in Behaviors :
                /\ IsScope(Turned(s, b)) /\ Turned(s, b).behavior = b
                /\ Turned(s, b).element = s.element /\ Turned(s, b).depth = s.depth
                /\ Turned(s, b).uri = s.uri /\ Turned(s, b).xpointer = s.xpointer
           /\ \A error : LET t == [s EXCEPT !.error = error] IN
                IsScope(t) /\ t.behavior = s.behavior /\ t.element = s.element /\ t.depth = s.depth
                /\ t.uri = s.uri /\ t.xpointer = s.xpointer
           /\ LET t == [s EXCEPT !.observed = TRUE] IN
                IsScope(t) /\ t.behavior = s.behavior /\ t.element = s.element /\ t.depth = s.depth
                /\ t.uri = s.uri /\ t.xpointer = s.xpointer
<1>1. ASSUME NEW b \in Behaviors
      PROVE  /\ IsScope(Turned(s, b)) /\ Turned(s, b).behavior = b
             /\ Turned(s, b).element = s.element /\ Turned(s, b).depth = s.depth
             /\ Turned(s, b).uri = s.uri /\ Turned(s, b).xpointer = s.xpointer
    BY DEF IsScope, Turned
<1>2. ASSUME NEW error
      PROVE  LET t == [s EXCEPT !.error = error] IN
             IsScope(t) /\ t.behavior = s.behavior /\ t.element = s.element /\ t.depth = s.depth
             /\ t.uri = s.uri /\ t.xpointer = s.xpointer
    BY DEF IsScope
<1>3. LET t == [s EXCEPT !.observed = TRUE] IN
      IsScope(t) /\ t.behavior = s.behavior /\ t.element = s.element /\ t.depth = s.depth
      /\ t.uri = s.uri /\ t.xpointer = s.xpointer
    BY DEF IsScope
<1> QED BY <1>1, <1>2, <1>3

LEMMA Deepened ==
    ASSUME NEW s, IsScope(s), NEW e, s.depth + Change(e) \in Nat
    PROVE  /\ IsScope(Deeper(s, e)) /\ Deeper(s, e).behavior = s.behavior
           /\ Deeper(s, e).element = s.element /\ Deeper(s, e).depth = s.depth + Change(e)
           /\ Deeper(s, e).uri = s.uri /\ Deeper(s, e).xpointer = s.xpointer
<1>1. PICK d \in Nat : d = s.depth + Change(e)
    OBVIOUS
<1>2. s.depth \in Nat
    BY DEF IsScope
<1>3. d = IF IsStart(e) THEN s.depth + 1 ELSE IF IsEnd(e) THEN s.depth - 1 ELSE s.depth
    BY <1>1, <1>2 DEF Change
<1>4. Deeper(s, e) = [s EXCEPT !.depth = d]
    BY <1>3 DEF Deeper
<1>5. PICK t : t = [s EXCEPT !.depth = d]
    OBVIOUS
<1>6. IsScope(t) /\ t.behavior = s.behavior /\ t.element = s.element /\ t.depth = d
      /\ t.uri = s.uri /\ t.xpointer = s.xpointer
    BY <1>5 DEF IsScope
<1> QED BY <1>1, <1>4, <1>5, <1>6

LEMMA Running ==
    ASSUME XIncludeIInv, outcome = "running", ~stopped, lanes[1].at > 1
    PROVE  /\ Chained(work.library, lanes, inclusions) /\ WithinLimits /\ Counting
           /\ IsSequence(inclusions) /\ Len(inclusions) \in Nat
           /\ inclusions # <<>> => Len(inclusions) > 0 /\ Scope = inclusions[Len(inclusions)] /\ IsScope(Scope)
           /\ LaneFits(work.library, lane) /\ lane = lanes[Len(lanes)]
<1>1. Chained(work.library, lanes, inclusions) /\ WithinLimits /\ Counting
    BY DEF XIncludeIInv, InRun, Chaining
<1>2. IsSequence(inclusions) /\ Len(inclusions) \in Nat /\ LaneFits(work.library, lanes[Len(lanes)])
    BY <1>1, ChainFacts
<1>3. ASSUME inclusions # <<>>
      PROVE  Len(inclusions) > 0 /\ Scope = inclusions[Len(inclusions)] /\ IsScope(Scope)
    <2>1. Len(inclusions) > 0 /\ Len(inclusions) >= 1
        BY <1>2, <1>3, SequenceHas
    <2>2. Scope = inclusions[Len(inclusions)]
        BY <1>2, <2>1, Popped DEF Scope
    <2>3. Len(inclusions) \in 1..Len(inclusions)
        BY <1>2, <2>1
    <2>4. IsScope(Scope)
        BY <1>1, <2>2, <2>3, ChainFacts DEF ScopeFits
    <2> QED BY <2>1, <2>2, <2>4
<1> QED BY <1>1, <1>2, <1>3, Current

LEMMA ReadableNow ==
    ASSUME XIncludeIInv, Reads, lanes[1].at > 1, Event.kind # "Malformed"
    PROVE  /\ Readable(lanes[Len(lanes)]) /\ EventOf(lanes[Len(lanes)]) = Event
           /\ Chosen(lanes[Len(lanes)], Event) <=> Selected
           /\ Moves(lanes, Read)
<1>1. outcome = "running" /\ ~stopped /\ lane.at \in DOMAIN lane.events
    BY DEF Reads
<1>2. Counting /\ lane = lanes[Len(lanes)] /\ LaneFits(work.library, lane)
    BY <1>1, Running
<1>3. lane.at <= Len(lane.events)
    BY <1>1, <1>2, LaneFacts
<1>4. Event = EventOf(lane)
    BY DEF Event, EventOf
<1> QED BY <1>2, <1>3, <1>4, Moved DEF Readable, Chosen, Selected

(* An event is read and every scope stays as it is. *)
LEMMA ReadsPast ==
    ASSUME XIncludeIInv, Reads, lanes[1].at > 1, Event.kind # "Malformed",
           lanes' = Read, UNCHANGED <<work, inclusions, occurrence>>,
           Selected => ~IsInclude(Event) /\ (inclusions # <<>> => ~IsStart(Event) /\ ~IsEnd(Event))
    PROVE  Chaining'
<1>1. /\ Chained(work.library, lanes, inclusions) /\ WithinLimits /\ Counting
      /\ IsSequence(inclusions) /\ Len(inclusions) \in Nat
      /\ inclusions # <<>> => Len(inclusions) > 0 /\ Scope = inclusions[Len(inclusions)] /\ IsScope(Scope)
    BY Running DEF Reads
<1>2. /\ Readable(lanes[Len(lanes)]) /\ EventOf(lanes[Len(lanes)]) = Event
      /\ Chosen(lanes[Len(lanes)], Event) <=> Selected
      /\ Moves(lanes, lanes')
    BY ReadableNow
<1>3. Len(inclusions) > 0 => Len(inclusions) \in 1..Len(inclusions) /\ inclusions # <<>>
    BY <1>1, SequenceHas
<1>4. ASSUME Len(inclusions) > 0
      PROVE  LET m == Len(inclusions) IN
             /\ IsScope(inclusions[m]) /\ Like(inclusions[m], inclusions[m])
             /\ inclusions[m].behavior = "FallbackInProgress" => inclusions[m].depth > 0
             /\ inclusions[m].depth = inclusions[m].depth
                  + IF Chosen(lanes[Len(lanes)], EventOf(lanes[Len(lanes)]))
                    THEN Change(EventOf(lanes[Len(lanes)])) ELSE 0
             /\ ~Includes(inclusions[m]) /\ IsEnd(EventOf(lanes[Len(lanes)])) => inclusions[m].depth > 0
    <2>1. PICK s : s = inclusions[Len(inclusions)] /\ ScopeFits(lanes, s) /\ IsScope(s)
        BY <1>1, <1>3, <1>4, ChainFacts DEF ScopeFits
    <2>2. s.depth \in Nat
        BY <2>1 DEF IsScope
    <2>3. Selected => Change(Event) = 0 /\ ~IsEnd(Event)
        BY <1>3, <1>4 DEF Change
    <2>4. ~Includes(s) => Selected
        <3>1. SUFFICES ASSUME ~Includes(s) PROVE Selected
            OBVIOUS
        <3>2. Lanes(work.library, lanes) /\ LaneOf(s) = Len(lanes)
            BY <1>1, <1>4, <2>1, <3>1, ChainFacts DEF Reader
        <3>3. Chosen(lanes[Len(lanes)], EventOf(lanes[Len(lanes)]))
            BY <1>2, <2>1, <3>2, ScopeIsChosen
        <3> QED BY <1>2, <3>3
    <2>5. Like(s, s)
        BY DEF Like
    <2>6. s.behavior = "FallbackInProgress" => s.depth > 0
        BY <2>1 DEF ScopeFits
    <2> QED BY <1>2, <2>1, <2>2, <2>3, <2>4, <2>5, <2>6
<1>5. lanes[Len(lanes)].pointer = <<>> => Selected
    BY <1>1, Current DEF Selected
<1>6. Chained(work.library, lanes', inclusions)
    BY <1>1, <1>2, <1>4, <1>5, Reading
<1> QED BY <1>1, <1>6 DEF Chaining, WithinLimits

(* An event is read and the innermost scope becomes s. *)
LEMMA ReadsInScope ==
    ASSUME XIncludeIInv, Receives, inclusions # <<>>, lanes[1].at > 1, lanes' = Read,
           UNCHANGED <<work, occurrence>>,
           NEW s, IsScope(s), Rescope(s), Like(Scope, s),
           s.behavior = "FallbackInProgress" => s.depth > 0,
           s.depth = Scope.depth + Change(Event),
           ~Includes(Scope) /\ IsEnd(Event) => Scope.depth > 0,
           IsInclude(Event) => ~Includes(Scope)
    PROVE  Chaining'
<1>1. Reads /\ Selected /\ Event.kind # "Malformed"
    BY DEF Receives, Valid, ReadsXml
<1>2. /\ Chained(work.library, lanes, inclusions) /\ WithinLimits /\ Counting
      /\ IsSequence(inclusions) /\ Len(inclusions) \in Nat
      /\ Len(inclusions) > 0 /\ Scope = inclusions[Len(inclusions)]
    BY <1>1, Running DEF Reads
<1>3. /\ Readable(lanes[Len(lanes)]) /\ EventOf(lanes[Len(lanes)]) = Event
      /\ Chosen(lanes[Len(lanes)], Event)
      /\ Moves(lanes, lanes')
    BY <1>1, ReadableNow
<1>4. /\ IsSequence(inclusions') /\ Len(inclusions') = Len(inclusions)
      /\ inclusions'[Len(inclusions)] = s
      /\ \A i \in 1..(Len(inclusions) - 1) : inclusions'[i] = inclusions[i]
    <2>1. inclusions' = WithLast(inclusions, s)
        BY DEF Rescope, WithLast
    <2> QED BY <1>2, <2>1, Replaced
<1>5. Chained(work.library, lanes', inclusions')
    BY <1>2, <1>3, <1>4, Reading
<1> QED BY <1>2, <1>4, <1>5 DEF Chaining, WithinLimits

(* The last source is done with, and its scope becomes s. *)
LEMMA Returns ==
    ASSUME XIncludeIInv, outcome = "running", ~stopped, Nested, Depth(lane) = 0,
           lanes' = Front(lanes), UNCHANGED <<work, occurrence>>,
           NEW s, Rescope(s), IsScope(Scope) =>
             /\ IsScope(s) /\ s.element = Scope.element /\ s.depth = Scope.depth
             /\ ~Includes(s) /\ s.behavior # "FallbackInProgress"
    PROVE  Chaining'
<1>1. Counting
    BY DEF XIncludeIInv
<1>2. lanes[1].at > 1
    BY <1>1, Later
<1>3. /\ Chained(work.library, lanes, inclusions) /\ WithinLimits
      /\ IsSequence(inclusions) /\ Len(inclusions) \in Nat
      /\ inclusions # <<>> => Len(inclusions) > 0 /\ Scope = inclusions[Len(inclusions)] /\ IsScope(Scope)
      /\ lane = lanes[Len(lanes)]
    BY <1>2, Running
<1>4. Len(lanes) \in Nat \ {0} /\ Len(lanes) > 1 /\ IsSequence(lanes)
    BY <1>1, Current DEF Nested, Counting
<1>5. Len(inclusions) # 0 /\ inclusions # <<>>
    <2>1. Len(inclusions) = 0 => Len(lanes) = 1
        BY <1>3, ChainFacts
    <2> QED BY <1>3, <1>4, <2>1, SequenceHas
<1>6. /\ IsSequence(lanes') /\ Len(lanes') = Len(lanes) - 1
      /\ \A k \in 1..(Len(lanes) - 1) : lanes'[k] = lanes[k]
    BY <1>4, Popped
<1>7. /\ IsSequence(inclusions') /\ Len(inclusions') = Len(inclusions)
      /\ inclusions'[Len(inclusions)] = s
      /\ \A i \in 1..(Len(inclusions) - 1) : inclusions'[i] = inclusions[i]
    <2>1. inclusions' = WithLast(inclusions, s)
        BY DEF Rescope, WithLast
    <2>2. Len(inclusions) >= 1
        BY <1>3, <1>5
    <2> QED BY <1>3, <2>1, <2>2, Replaced
<1>8. /\ IsScope(s) /\ s.element = inclusions[Len(inclusions)].element
      /\ s.depth = inclusions[Len(inclusions)].depth
      /\ ~Includes(s) /\ s.behavior # "FallbackInProgress"
    BY <1>3, <1>5
<1>9. Depth(lanes[Len(lanes)]) = 0
    BY <1>3
<1>10. Chained(work.library, lanes', inclusions')
    BY <1>3, <1>4, <1>6, <1>7, <1>8, <1>9, Leaving
<1> QED BY <1>3, <1>7, <1>10 DEF Chaining, WithinLimits

LEMMA ChainInScope ==
    ASSUME XIncludeIInv, Scoped, outcome' = "running"
    PROVE  Chaining'
<1>1. Counting
    BY DEF XIncludeIInv
<1>2. ASSUME NEW behaviors, InScope(behaviors)
      PROVE  /\ Receives /\ inclusions # <<>> /\ lanes[1].at > 1 /\ lanes' = Read
             /\ Scope.behavior \in behaviors /\ Scope = inclusions[Len(inclusions)]
             /\ IsScope(Scope) /\ Scope.depth \in Nat
             /\ Scope.behavior = "FallbackInProgress" => Scope.depth > 0
    <2>1. Receives /\ Event.kind \notin Frame /\ lanes' = Read /\ inclusions # <<>> /\ Scope.behavior \in behaviors
        BY <1>2 DEF InScope, Consumed
    <2>2. Event.kind # "StartDocument"
        BY <2>1 DEF Frame
    <2>3. outcome = "running" /\ ~stopped /\ lanes[1].at > 1
        BY <1>1, <2>1, <2>2, Received
    <2>4. /\ Chained(work.library, lanes, inclusions) /\ Len(inclusions) \in Nat /\ Len(inclusions) > 0
          /\ Scope = inclusions[Len(inclusions)] /\ IsScope(Scope)
        BY <2>1, <2>3, Running
    <2>5. Len(inclusions) \in 1..Len(inclusions)
        BY <2>4
    <2>6. ScopeFits(lanes, Scope)
        BY <2>4, <2>5, ChainFacts
    <2> QED BY <2>1, <2>3, <2>4, <2>6 DEF ScopeFits, IsScope
<1>3. /\ IsStart(Event) => Change(Event) = 1 /\ ~IsEnd(Event)
      /\ IsEnd(Event) => Change(Event) = -1 /\ ~IsStart(Event)
      /\ ~IsStart(Event) /\ ~IsEnd(Event) => Change(Event) = 0
      /\ IsInclude(Event) => IsStart(Event)
      /\ IsFallback(Event) => IsStart(Event) /\ ~IsInclude(Event)
    BY DEF Change, IsStart, IsEnd, IsInclude, IsFallback
<1>4. PICK b : b = Scope.behavior
    OBVIOUS
<1>5. CASE IncludedElement
    <2>1. InScope({"InclusionInProcessing"}) /\ IsStart(Event) /\ ~IsInclude(Event)
        BY <1>5 DEF IncludedElement
    <2>2. Scope.depth + Change(Event) \in Nat /\ IsScope(Scope) /\ Includes(Scope)
        BY <1>2, <1>3, <2>1 DEF Includes
    <2>3. PICK t : t = Deeper(Scope, Event)
        OBVIOUS
    <2>4. IsScope(t) /\ t.behavior = Scope.behavior /\ t.element = Scope.element
          /\ t.depth = Scope.depth + Change(Event) /\ t.uri = Scope.uri /\ t.xpointer = Scope.xpointer
        BY <2>2, <2>3, Deepened
    <2>5. PICK s : s = [t EXCEPT !.observed = TRUE]
        OBVIOUS
    <2>6. IsScope(s) /\ s.behavior = t.behavior /\ s.element = t.element
          /\ s.depth = t.depth /\ s.uri = t.uri /\ s.xpointer = t.xpointer
        BY <2>4, <2>5, ScopeChanges
    <2>7. Rescope(s)
        BY <1>5, <2>3, <2>5 DEF IncludedElement
    <2>8. Like(Scope, s) /\ s.behavior # "FallbackInProgress" /\ s.depth = Scope.depth + Change(Event)
        BY <2>2, <2>4, <2>6 DEF Like, Includes
    <2>9. UNCHANGED <<work, occurrence>>
        BY <1>5 DEF IncludedElement, PassthroughAsIs, Passthrough, Fail
    <2> QED BY <1>2, <2>1, <2>2, <2>6, <2>7, <2>8, <2>9, ReadsInScope
<1>6. CASE IncludedContent
    <2>1. InScope({"InclusionInProcessing"}) /\ ~IsStart(Event) /\ Rescope(Deeper(Scope, Event))
        BY <1>6 DEF IncludedContent
    <2>2. Includes(Scope) /\ IsScope(Scope) /\ Scope.behavior # "FallbackInProgress"
        BY <1>2, <2>1 DEF Includes
    <2>3. IsEnd(Event) => Scope.depth > 0
        <3>1. SUFFICES ASSUME IsEnd(Event) PROVE Scope.depth > 0
            OBVIOUS
        <3>2. Receives /\ lanes[1].at > 1 /\ inclusions # <<>> /\ Scope = inclusions[Len(inclusions)]
            BY <1>2, <2>1
        <3>3. Reads /\ Selected /\ Event.kind # "Malformed"
            BY <3>2 DEF Receives, Valid, ReadsXml
        <3>4. /\ Readable(lanes[Len(lanes)]) /\ EventOf(lanes[Len(lanes)]) = Event
              /\ Chosen(lanes[Len(lanes)], Event)
            BY <3>2, <3>3, ReadableNow
        <3>5. Chained(work.library, lanes, inclusions) /\ Len(inclusions) > 0
            BY <3>2, <3>3, Running DEF Reads
        <3> QED BY <2>2, <3>1, <3>2, <3>4, <3>5, EndsWithin
    <2>4. Scope.depth + Change(Event) \in Nat
        BY <1>2, <1>3, <2>1, <2>3
    <2>5. PICK s : s = Deeper(Scope, Event)
        OBVIOUS
    <2>6. IsScope(s) /\ s.behavior = Scope.behavior /\ s.element = Scope.element
          /\ s.depth = Scope.depth + Change(Event) /\ s.uri = Scope.uri /\ s.xpointer = Scope.xpointer
        BY <2>2, <2>4, <2>5, Deepened
    <2>7. Like(Scope, s) /\ s.behavior # "FallbackInProgress"
        BY <2>2, <2>6 DEF Like, Includes
    <2>8. UNCHANGED <<work, occurrence>>
        BY <1>6 DEF IncludedContent, Drop, Passthrough, Fail
    <2> QED BY <1>2, <1>3, <2>1, <2>2, <2>5, <2>6, <2>7, <2>8, ReadsInScope
<1>7. CASE StartFallback
    <2>1. InScope({"SeekingFallback"}) /\ IsFallback(Event) /\ Scope.depth = 0
        BY <1>7 DEF StartFallback
    <2>2. IsScope(Scope) /\ ~Includes(Scope) /\ Scope.depth + Change(Event) = 1 /\ IsStart(Event) /\ ~IsInclude(Event) /\ ~IsEnd(Event)
        BY <1>2, <1>3, <2>1 DEF Includes
    <2>3. PICK t : t = Deeper(Scope, Event)
        OBVIOUS
    <2>4. IsScope(t) /\ t.element = Scope.element
          /\ t.depth = Scope.depth + Change(Event) /\ t.uri = Scope.uri /\ t.xpointer = Scope.xpointer
        BY <2>2, <2>3, Deepened
    <2>5. PICK r : r = [t EXCEPT !.error = {}]
        OBVIOUS
    <2>6. IsScope(r) /\ r.element = t.element /\ r.depth = t.depth /\ r.uri = t.uri /\ r.xpointer = t.xpointer
        BY ZenonT(40), SMTT(20), <2>4, <2>5, ScopeChanges
    <2>7. PICK s : s = Turned(r, "FallbackInProgress")
        OBVIOUS
    <2>8. IsScope(s) /\ s.behavior = "FallbackInProgress" /\ s.element = r.element
          /\ s.depth = r.depth /\ s.uri = r.uri /\ s.xpointer = r.xpointer
        <3>1. "FallbackInProgress" \in Behaviors
            BY DEF Behaviors
        <3> QED BY <2>6, <2>7, <3>1, ScopeChanges
    <2>9. Rescope(s)
        BY <1>7, <2>3, <2>5, <2>7 DEF StartFallback
    <2>10. Like(Scope, s) /\ s.depth = Scope.depth + Change(Event) /\ s.depth > 0
        BY <2>2, <2>4, <2>6, <2>8 DEF Like, Includes
    <2>11. UNCHANGED <<work, occurrence>>
        BY <1>7 DEF StartFallback, Drop
    <2> QED BY <1>2, <2>1, <2>2, <2>8, <2>9, <2>10, <2>11, ReadsInScope
<1>8. CASE FallbackContent
    <2>1. /\ InScope({"FallbackInProgress"}) /\ ~IsInclude(Event) /\ ~(IsEnd(Event) /\ Scope.depth = 1)
          /\ Rescope(Deeper(Scope, Event))
        BY <1>8 DEF FallbackContent
    <2>2. IsScope(Scope) /\ ~Includes(Scope) /\ Scope.depth > 0 /\ Scope.depth \in Nat
        BY <1>2, <2>1 DEF Includes
    <2>3. Scope.depth + Change(Event) \in Nat /\ Scope.depth + Change(Event) > 0
        BY <1>3, <2>1, <2>2
    <2>4. PICK s : s = Deeper(Scope, Event)
        OBVIOUS
    <2>5. IsScope(s) /\ s.behavior = Scope.behavior /\ s.element = Scope.element
          /\ s.depth = Scope.depth + Change(Event) /\ s.uri = Scope.uri /\ s.xpointer = Scope.xpointer
        BY <2>2, <2>3, <2>4, Deepened
    <2>6. Like(Scope, s) /\ s.depth > 0
        BY <2>3, <2>5 DEF Like, Includes
    <2>7. UNCHANGED <<work, occurrence>>
        BY <1>8 DEF FallbackContent, PassthroughAsIs, Passthrough, Fail
    <2> QED BY <1>2, <2>1, <2>2, <2>4, <2>5, <2>6, <2>7, ReadsInScope
<1>9. CASE EndFallback
    <2>1. InScope({"FallbackInProgress"}) /\ IsEnd(Event) /\ Scope.depth = 1
          /\ Rescope(Turned(Deeper(Scope, Event), "IgnoreAll"))
        BY <1>9 DEF EndFallback
    <2>2. IsScope(Scope) /\ ~Includes(Scope) /\ Scope.depth + Change(Event) = 0 /\ ~IsInclude(Event)
        BY <1>2, <1>3, <2>1 DEF Includes
    <2>3. PICK t : t = Deeper(Scope, Event)
        OBVIOUS
    <2>4. IsScope(t) /\ t.element = Scope.element
          /\ t.depth = Scope.depth + Change(Event) /\ t.uri = Scope.uri /\ t.xpointer = Scope.xpointer
        BY <2>2, <2>3, Deepened
    <2>5. PICK s : s = Turned(t, "IgnoreAll")
        OBVIOUS
    <2>6. IsScope(s) /\ s.behavior = "IgnoreAll" /\ s.element = t.element
          /\ s.depth = t.depth /\ s.uri = t.uri /\ s.xpointer = t.xpointer
        <3>1. "IgnoreAll" \in Behaviors
            BY DEF Behaviors
        <3> QED BY <2>4, <2>5, <3>1, ScopeChanges
    <2>7. Like(Scope, s) /\ s.depth = Scope.depth + Change(Event) /\ s.behavior # "FallbackInProgress"
        BY <2>2, <2>4, <2>6 DEF Like, Includes
    <2>8. UNCHANGED <<work, occurrence>>
        BY <1>9 DEF EndFallback, Drop
    <2> QED BY <1>2, <2>1, <2>2, <2>3, <2>5, <2>6, <2>7, <2>8, ReadsInScope
<1>10. CASE Ignore
    <2>1. /\ InScope({"SeekingFallback", "IgnoreAll"}) /\ ~(IsEnd(Event) /\ Scope.depth = 0)
          /\ Rescope(Deeper(Scope, Event))
        BY <1>10 DEF Ignore
    <2>2. /\ IsScope(Scope) /\ ~Includes(Scope) /\ Scope.depth \in Nat
          /\ Scope.behavior # "FallbackInProgress" /\ (IsEnd(Event) => Scope.depth > 0)
        BY <1>2, <2>1 DEF Includes
    <2>3. Scope.depth + Change(Event) \in Nat
        BY <1>3, <2>2
    <2>4. PICK s : s = Deeper(Scope, Event)
        OBVIOUS
    <2>5. IsScope(s) /\ s.behavior = Scope.behavior /\ s.element = Scope.element
          /\ s.depth = Scope.depth + Change(Event) /\ s.uri = Scope.uri /\ s.xpointer = Scope.xpointer
        BY <2>2, <2>3, <2>4, Deepened
    <2>6. Like(Scope, s) /\ s.behavior # "FallbackInProgress"
        BY <2>2, <2>5 DEF Like, Includes
    <2>7. UNCHANGED <<work, occurrence>>
        BY <1>10 DEF Ignore, Drop
    <2> QED BY <1>2, <2>1, <2>2, <2>4, <2>5, <2>6, <2>7, ReadsInScope
<1>11. CASE EndInclude
    <2>1. /\ InScope({"SeekingFallback", "IgnoreAll"}) /\ IsEnd(Event) /\ Scope.depth = 0
          /\ inclusions' = Front(inclusions) /\ UNCHANGED occurrence
        BY <1>11 DEF EndInclude
    <2>2. Receives /\ lanes[1].at > 1 /\ inclusions # <<>> /\ lanes' = Read
          /\ Scope = inclusions[Len(inclusions)] /\ ~Includes(Scope)
        BY <1>2, <2>1 DEF Includes
    <2>3. Reads /\ Event.kind # "Malformed"
        BY <2>2 DEF Receives, Valid, ReadsXml
    <2>4. /\ Readable(lanes[Len(lanes)]) /\ EventOf(lanes[Len(lanes)]) = Event /\ Moves(lanes, lanes')
        BY <2>2, <2>3, ReadableNow
    <2>5. /\ Chained(work.library, lanes, inclusions) /\ WithinLimits /\ Counting
          /\ IsSequence(inclusions) /\ Len(inclusions) \in Nat /\ Len(inclusions) > 0
        BY <2>2, <2>3, Running DEF Reads
    <2>6. /\ IsSequence(inclusions') /\ Len(inclusions') = Len(inclusions) - 1
          /\ \A i \in 1..(Len(inclusions) - 1) : inclusions'[i] = inclusions[i]
        BY <2>1, <2>5, Popped
    <2>7. Chained(work.library, lanes', inclusions')
        BY <2>1, <2>2, <2>4, <2>5, <2>6, Closing
    <2>8. work' = work
        BY <1>11 DEF EndInclude, Drop, Fail
    <2>9. work.maxDepth # NoLimit => Len(inclusions') <= work.maxDepth
        BY <2>5, <2>6, Current DEF WithinLimits
    <2> QED BY <2>1, <2>5, <2>7, <2>8, <2>9 DEF Chaining, WithinLimits
<1> QED BY <1>5, <1>6, <1>7, <1>8, <1>9, <1>10, <1>11 DEF Scoped

LEMMA NewScopeFacts ==
    ASSUME Counting, Event.kind # "Malformed", lane.at \in Nat, NEW b \in Behaviors, NEW error
    PROVE  /\ IsScope(NewScope(b, error)) /\ NewScope(b, error).behavior = b
           /\ NewScope(b, error).depth = 0 /\ NewScope(b, error).element = <<Len(lanes), lane.at>>
           /\ NewScope(b, error).uri = Target /\ NewScope(b, error).xpointer = Event.xpointer
<1>1. Len(lanes) \in Nat
    BY Current
<1>2. <<Len(lanes), lane.at>> \in Nat \X Nat
    BY <1>1
<1> QED BY <1>2 DEF NewScope, IsScope

(* What an xi:include refers to that is not refused. *)
LEMMA TargetKnown ==
    ASSUME XIncludeIInv, ReadsXml, lanes[1].at > 1, IsInclude(Event),
           Event.href # {"not a URI"}, ~Unusable
    PROVE  Target \in DOMAIN work.library
<1>1. lane.at \in DOMAIN lane.events /\ lane.parse # "text" /\ outcome = "running" /\ ~stopped
    BY DEF ReadsXml, Reads
<1>2. LaneFits(work.library, lane) /\ IsLibrary(work.library)
    BY <1>1, Running, Current DEF XIncludeIInv
<1>3. PICK u \in DOMAIN work.library : lane.events = work.library[u].xml
    BY <1>1, <1>2 DEF LaneFits
<1>4. \E h \in DOMAIN work.library \union {"not a URI"} : Event.href \in {{}, {h}}
    BY <1>1, <1>2, <1>3 DEF IsLibrary, Event
<1>5. PICK h \in DOMAIN work.library : Event.href = {h}
    BY <1>4 DEF Unusable
<1>6. (CHOOSE x \in {h} : TRUE) = h
    OBVIOUS
<1> QED BY <1>5, <1>6 DEF Target

LEMMA ChainIncluding ==
    ASSUME XIncludeIInv, Including, outcome' = "running"
    PROVE  Chaining'
<1>1. ResourceError \/ Open
    BY DEF Including, TooDeep, TooMany, BadUri, FindLoop, Fail
<1>2. Permitted /\ Event.href # {"not a URI"}
    BY <1>1 DEF ResourceError, Open
<1>3. /\ StartsInclude /\ occurrence' = occurrence + 1
      /\ work.maxDepth # NoLimit => Len(inclusions) < work.maxDepth
      /\ work.maxIncludes # NoLimit => occurrence' <= work.maxIncludes
    BY <1>2 DEF Permitted, Counted
<1>4. /\ Receives /\ IsInclude(Event) /\ Counting
      /\ inclusions # <<>> => Scope.behavior \in {"InclusionInProcessing", "FallbackInProgress"}
    BY <1>3 DEF StartsInclude, XIncludeIInv
<1>5. ReadsXml /\ Reads /\ Selected /\ Event.kind # "Malformed" /\ Event.kind # "StartDocument"
    BY <1>4 DEF Receives, Valid, ReadsXml, IsInclude, IsStart
<1>6. lanes[1].at > 1 /\ outcome = "running" /\ ~stopped
    BY <1>4, <1>5, Received
<1>7. /\ Chained(work.library, lanes, inclusions) /\ IsSequence(inclusions) /\ Len(inclusions) \in Nat
      /\ LaneFits(work.library, lane) /\ lane = lanes[Len(lanes)]
    BY <1>6, Running
<1>8. /\ Readable(lanes[Len(lanes)]) /\ EventOf(lanes[Len(lanes)]) = Event
      /\ Chosen(lanes[Len(lanes)], Event) /\ Moves(lanes, Read)
    BY <1>5, <1>6, ReadableNow
<1>9. lane.at \in Nat
    BY <1>7, LaneFacts
<1>10. PICK error : ResourceError => inclusions' = Append(inclusions, NewScope("SeekingFallback", error))
    BY DEF ResourceError
<1>11. PICK t : t = NewScope("SeekingFallback", error)
    OBVIOUS
<1>12. /\ IsScope(t) /\ t.behavior = "SeekingFallback" /\ t.depth = 0
       /\ t.element = <<Len(lanes), lanes[Len(lanes)].at>> /\ ~Includes(t)
    <2>1. "SeekingFallback" \in Behaviors
        BY DEF Behaviors
    <2>2. IsScope(t) /\ t.behavior = "SeekingFallback" /\ t.depth = 0 /\ t.element = <<Len(lanes), lane.at>>
        BY <1>4, <1>5, <1>9, <1>11, <2>1, NewScopeFacts
    <2> QED BY <1>7, <2>2 DEF Includes
<1>13. PICK J : J = Append(inclusions, t)
    OBVIOUS
<1>14. /\ IsSequence(J) /\ Len(J) = Len(inclusions) + 1 /\ J[Len(inclusions) + 1] = t
       /\ \A i \in 1..Len(inclusions) : J[i] = inclusions[i]
    BY <1>7, <1>13, Pushed
<1>15. Chained(work.library, Read, J)
    <2>1. t.behavior # "FallbackInProgress" /\ IsInclude(EventOf(lanes[Len(lanes)]))
          /\ Chosen(lanes[Len(lanes)], EventOf(lanes[Len(lanes)]))
        BY <1>4, <1>8, <1>12
    <2> QED BY <1>7, <1>8, <1>12, <1>14, <2>1, Pushing
<1>16. UNCHANGED work
    BY <1>1 DEF ResourceError, Open, Drop
<1>17. ASSUME Len(inclusions') = Len(inclusions) + 1 PROVE WithinLimits'
    <2>1. work.maxDepth \in Nat \union {NoLimit}
        BY <1>4, Current
    <2>2. work.maxDepth # NoLimit => Len(inclusions') <= work.maxDepth
        BY <1>3, <1>7, <1>17, <2>1
    <2> QED BY <1>3, <1>16, <2>2 DEF WithinLimits
<1>18. CASE ResourceError
    <2>1. inclusions' = J /\ lanes' = Read
        BY <1>10, <1>11, <1>13, <1>18 DEF ResourceError
    <2> QED BY <1>14, <1>15, <1>16, <1>17, <2>1 DEF Chaining
<1>19. CASE Open
    <2>1. /\ ~Unusable /\ ~Loops
          /\ inclusions' = Append(inclusions, NewScope("InclusionInProcessing", {}))
          /\ lanes' = Append(Read, Lane(Target, Event.parse, Event.xpointer))
        BY <1>19 DEF Open
    <2>2. PICK x : x = Lane(Target, Event.parse, Event.xpointer)
        OBVIOUS
    <2>3. /\ LaneFits(work.library, x) /\ x.at = 1 /\ x.selector.selected = {}
          /\ x.uri = Target /\ x.pointer = Event.xpointer
        <3>1. Target \in DOMAIN work.library /\ IsLibrary(work.library)
            BY <1>2, <1>4, <1>5, <1>6, <2>1, TargetKnown, Current
        <3> QED BY <2>2, <3>1, Beginning
    <2>4. PICK u : u = NewScope("InclusionInProcessing", {})
        OBVIOUS
    <2>5. /\ IsScope(u) /\ u.behavior = "InclusionInProcessing" /\ u.depth = 0
          /\ u.element = <<Len(lanes), lane.at>> /\ u.uri = Target /\ u.xpointer = Event.xpointer
        <3>1. "InclusionInProcessing" \in Behaviors
            BY DEF Behaviors
        <3> QED BY <1>4, <1>5, <1>9, <2>4, <3>1, NewScopeFacts
    <2>6. /\ IsSequence(inclusions') /\ Len(inclusions') = Len(J) /\ inclusions'[Len(J)] = u
          /\ \A i \in 1..(Len(J) - 1) : inclusions'[i] = J[i]
        <3>1. /\ IsSequence(inclusions') /\ Len(inclusions') = Len(inclusions) + 1
              /\ inclusions'[Len(inclusions) + 1] = u
              /\ \A i \in 1..Len(inclusions) : inclusions'[i] = inclusions[i]
            BY <1>7, <2>1, <2>4, Pushed
        <3> QED BY <1>7, <1>14, <3>1
    <2>7. /\ IsSequence(lanes') /\ Len(lanes') = Len(Read) + 1 /\ lanes'[Len(Read) + 1] = x
          /\ \A k \in 1..Len(Read) : lanes'[k] = Read[k]
        BY <1>4, <2>1, <2>2, Moved, Pushed
    <2>8. Len(J) > 0 /\ J[Len(J)] = t /\ Len(Read) = Len(lanes)
        BY <1>4, <1>7, <1>14, Moved
    <2>9. Read[Len(Read)].at = StartOf(J[Len(J)]) + 1
        <3>1. Read[Len(lanes)] = Onward(lane, Event)
            BY <1>4, Moved
        <3> QED BY <1>7, <1>12, <2>8, <3>1 DEF Onward, StartOf
    <2>10. \A i \in 1..Len(J) : ~(Includes(J[i]) /\ J[i].uri = u.uri /\ J[i].xpointer = u.xpointer)
        <3>1. TAKE i \in 1..Len(J)
        <3>2. CASE i = Len(J)
            BY <1>12, <2>8, <3>2
        <3>3. CASE i # Len(J)
            <4>1. i \in 1..Len(inclusions) /\ J[i] = inclusions[i]
                BY <1>7, <1>14, <3>3
            <4>2. i \in DOMAIN inclusions
                BY <1>7, <4>1, SequenceHas
            <4> QED BY <2>1, <2>5, <4>1, <4>2 DEF Loops, Includes
        <3> QED BY <3>2, <3>3
    <2>11. /\ Includes(u) /\ u.element = J[Len(J)].element /\ u.uri = x.uri /\ u.xpointer = x.pointer
           /\ J[Len(J)].depth = 0 /\ ~Includes(J[Len(J)])
        BY <1>7, <1>12, <2>3, <2>5, <2>8 DEF Includes
    <2>12. Chained(work.library, lanes', inclusions')
        <3>1. PICK M, N, K : M = Read /\ N = lanes' /\ K = inclusions'
            OBVIOUS
        <3>2. /\ Chained(work.library, M, J) /\ Len(J) > 0 /\ ~Includes(J[Len(J)]) /\ J[Len(J)].depth = 0
              /\ M[Len(M)].at = StartOf(J[Len(J)]) + 1
            BY <1>15, <2>8, <2>9, <2>11, <3>1
        <3>3. /\ IsSequence(N) /\ Len(N) = Len(M) + 1 /\ N[Len(M) + 1] = x
              /\ \A k \in 1..Len(M) : N[k] = M[k]
            BY <2>7, <3>1
        <3>4. /\ IsScope(u) /\ u.element = J[Len(J)].element /\ u.depth = 0 /\ Includes(u)
              /\ u.uri = x.uri /\ u.xpointer = x.pointer
            BY <2>5, <2>11
        <3>5. /\ IsSequence(K) /\ Len(K) = Len(J) /\ K[Len(J)] = u
              /\ \A i \in 1..(Len(J) - 1) : K[i] = J[i]
            BY <2>6, <3>1
        <3>6. LaneFits(work.library, x) /\ x.at = 1 /\ x.selector.selected = {}
            BY <2>3
        <3>7. Chained(work.library, N, K)
            <4>1. KeepsLanes(M, N)
                BY <3>3 DEF KeepsLanes
            <4>2. KeepsOuter(J, K)
                BY <3>5 DEF KeepsOuter
            <4>3. Unread(J, u)
                BY <2>10 DEF Unread
            <4> QED BY <3>2, <3>3, <3>4, <3>5, <3>6, <4>1, <4>2, <4>3, Entering
        <3> QED BY <3>1, <3>7
    <2> QED BY <1>14, <1>16, <1>17, <2>6, <2>12 DEF Chaining
<1> QED BY <1>1, <1>18, <1>19

LEMMA ChainStartRun ==
    ASSUME XIncludeIInv, StartRun
    PROVE  Chaining'
<1>1. /\ Reads /\ ~Nested /\ Event.kind = "StartDocument" /\ Event.kind # "Malformed" /\ lanes' = Read
      /\ inclusions' = <<>> /\ occurrence' = 0 /\ Counting
    BY DEF StartRun, Consumed, Receives, Valid, ReadsXml, XIncludeIInv
<1>2. lanes[1].at = 1
    BY <1>1, StartsOnce
<1>3. LaneFits(work.library, lanes[1]) /\ IsSequence(lanes) /\ Len(lanes) = 1
    BY <1>1, <1>2 DEF Counting
<1>4. Chained(work.library, lanes, <<>>)
    BY <1>2, <1>3, BeginsChain
<1>5. /\ Readable(lanes[Len(lanes)]) /\ EventOf(lanes[Len(lanes)]) = Event /\ Moves(lanes, lanes')
    <2>1. lane = lanes[1] /\ Event = EventOf(lane)
        BY <1>1, <1>3, Current
    <2>2. lanes[1].at <= Len(lanes[1].events)
        BY <1>1, <1>3, <2>1, LaneFacts DEF Reads
    <2> QED BY <1>1, <1>3, <2>1, <2>2, Moved DEF Readable
<1>6. IsSequence(<<>>) /\ Len(<<>>) = 0
    <2>1. <<>> \in Seq(Nat)
        OBVIOUS
    <2> QED BY <2>1, ASequenceOf
<1>7. ~IsInclude(EventOf(lanes[Len(lanes)]))
    BY <1>1, <1>5 DEF IsInclude, IsStart
<1>8. Chained(work.library, lanes', <<>>)
    <2>1. \A i \in 1..(Len(<<>>) - 1) : <<>>[i] = <<>>[i]
        OBVIOUS
    <2> QED BY <1>4, <1>5, <1>6, <1>7, <2>1, Reading
<1>9. work' = work
    BY DEF StartRun, Passthrough, Fail
<1>10. WithinLimits'
    <2>1. work.maxDepth \in Nat \union {NoLimit} /\ work.maxIncludes \in Nat \union {NoLimit}
        BY <1>1, Current
    <2> QED BY <1>1, <1>6, <1>9, <2>1 DEF WithinLimits
<1> QED BY <1>1, <1>8, <1>9, <1>10 DEF Chaining

LEMMA ChainReturns ==
    ASSUME XIncludeIInv, PointerFails \/ (Included /\ ~stopped)
    PROVE  Chaining'
<1>1. Counting
    BY DEF XIncludeIInv
<1>2. CASE PointerFails
    <2>1. /\ Reads /\ lane.pointer # <<>> /\ Event.kind \in {"StartDocument", "EndDocument"}
          /\ lanes' = Front(lanes) /\ UNCHANGED <<work, occurrence>>
          /\ Rescope(Turned([Scope EXCEPT !.error = {"xpointer"}], "SeekingFallback"))
        BY <1>2 DEF PointerFails, PointerError, Valid, ReadsXml
    <2>2. lanes[1].at > 1 /\ outcome = "running" /\ ~stopped
        BY <1>1, <2>1, Later DEF Reads
    <2>3. Nested
        <3>1. lanes[1].pointer = <<>>
            BY <1>1 DEF Counting
        <3> QED BY <1>1, <2>1, <3>1, Current
    <2>4. Depth(lane) = 0
        <3>1. LaneFits(work.library, lane)
            BY <2>2, Running
        <3>2. Reported(lane.events) /\ lane.at \in 1..Len(lane.events)
            BY <2>1, <3>1, LaneFacts DEF LaneFits, Reads
        <3>3. lane.events[lane.at].kind \in Frame
            BY <2>1 DEF Event, Frame
        <3> QED BY <3>2, <3>3, ReportedFacts DEF Depth
    <2>5. PICK r : r = [Scope EXCEPT !.error = {"xpointer"}]
        OBVIOUS
    <2>6. PICK s : s = Turned(r, "SeekingFallback")
        OBVIOUS
    <2>7. ASSUME IsScope(Scope)
          PROVE  /\ IsScope(s) /\ s.element = Scope.element /\ s.depth = Scope.depth
                 /\ ~Includes(s) /\ s.behavior # "FallbackInProgress"
        <3>1. IsScope(r) /\ r.element = Scope.element /\ r.depth = Scope.depth
            BY <2>5, <2>7, ScopeChanges
        <3>2. "SeekingFallback" \in Behaviors
            BY DEF Behaviors
        <3> QED BY <2>6, <3>1, <3>2, ScopeChanges DEF Includes
    <2>8. Rescope(s)
        BY <2>1, <2>5, <2>6
    <2> QED BY <2>1, <2>2, <2>3, <2>4, <2>7, <2>8, Returns
<1>3. CASE Included /\ ~stopped
    <2>1. /\ outcome = "running" /\ ~stopped /\ Nested /\ lane.at \notin DOMAIN lane.events
          /\ lanes' = Front(lanes) /\ UNCHANGED <<work, occurrence>> /\ Rescope(Turned(Scope, "IgnoreAll"))
        BY <1>3 DEF Included
    <2>2. lanes[1].at > 1
        BY <1>1, <2>1, Later
    <2>3. Depth(lane) = 0
        <3>1. LaneFits(work.library, lane)
            BY <2>1, <2>2, Running
        <3>2. lane.at \in 1..(Len(lane.events) + 1) /\ lane.at \notin 1..Len(lane.events) /\ Len(lane.events) \in Nat
            BY <2>1, <3>1, LaneFacts DEF LaneFits
        <3>3. lane.at = Len(lane.events) + 1
            BY <3>2
        <3> QED BY <3>1, <3>3 DEF LaneFits
    <2>4. PICK s : s = Turned(Scope, "IgnoreAll")
        OBVIOUS
    <2>5. ASSUME IsScope(Scope)
          PROVE  /\ IsScope(s) /\ s.element = Scope.element /\ s.depth = Scope.depth
                 /\ ~Includes(s) /\ s.behavior # "FallbackInProgress"
        <3>1. "IgnoreAll" \in Behaviors
            BY DEF Behaviors
        <3> QED BY <2>4, <2>5, <3>1, ScopeChanges DEF Includes
    <2>6. Rescope(s)
        BY <2>1, <2>4
    <2> QED BY <2>1, <2>3, <2>5, <2>6, Returns
<1> QED BY <1>2, <1>3

LEMMA ChainStep ==
    ASSUME XIncludeIInv, [Next]_vars, InRun'
    PROVE  Chaining'
<1>1. Counting /\ outcome' = "running" /\ ~stopped' /\ lanes'[1].at > 1
    BY DEF XIncludeIInv, InRun
<1>2. CASE Malformed \/ Invalid
    BY <1>1, <1>2 DEF Malformed, Invalid, Fail
<1>3. CASE PassOver
    <2>1. Reads /\ Event.kind # "Malformed" /\ ~Selected /\ lane.pointer # <<>> /\ lanes' = Read
          /\ UNCHANGED <<work, inclusions, occurrence>>
        BY <1>3 DEF PassOver, Valid, ReadsXml, Selected
    <2> QED BY <1>1, <2>1, Later, ReadsPast
<1>4. CASE PointerFails
    BY <1>4, ChainReturns
<1>5. CASE StartRun
    BY <1>5, ChainStartRun
<1>6. CASE Outside
    <2>1. /\ Receives /\ inclusions = <<>> /\ ~IsInclude(Event) /\ Event.kind # "StartDocument"
          /\ lanes' = Read /\ UNCHANGED <<inclusions, occurrence>>
        BY <1>6 DEF Outside, Consumed
    <2>2. Reads /\ lanes[1].at > 1 /\ Event.kind # "Malformed"
        BY <1>1, <2>1, Received DEF Receives, Valid, ReadsXml
    <2>3. work' = work
        BY <1>6 DEF Outside, PassthroughAsIs, Passthrough, Fail
    <2> QED BY <2>1, <2>2, <2>3, ReadsPast
<1>7. CASE LeaveOutFrame
    <2>1. /\ Receives /\ Event.kind \in Frame /\ Nested
          /\ lanes' = Read /\ UNCHANGED <<work, inclusions, occurrence>>
        BY <1>7 DEF LeaveOutFrame, Consumed, Drop
    <2>2. Reads /\ lanes[1].at > 1 /\ Event.kind # "Malformed"
        BY <1>1, <2>1, Received DEF Receives, Valid, ReadsXml
    <2>3. ~IsInclude(Event) /\ ~IsStart(Event) /\ ~IsEnd(Event)
        BY <2>1 DEF IsInclude, IsStart, IsEnd, Frame
    <2> QED BY <2>1, <2>2, <2>3, ReadsPast
<1>8. CASE Scoped
    BY <1>1, <1>8, ChainInScope
<1>9. CASE Including
    BY <1>1, <1>9, ChainIncluding
<1>10. CASE IncludeText
    <2>1. /\ Reads /\ lane.parse = "text" /\ Event.kind = "Characters"
          /\ lanes' = Read /\ UNCHANGED <<inclusions, occurrence>>
        BY <1>10 DEF IncludeText
    <2>2. lanes[1].at > 1
        BY <1>1, <2>1, Later
    <2>3. ~IsInclude(Event) /\ ~IsStart(Event) /\ ~IsEnd(Event) /\ Event.kind # "Malformed"
        BY <2>1 DEF IsInclude, IsStart, IsEnd
    <2>4. work' = work
        BY <1>10 DEF IncludeText, Passthrough, Fail
    <2> QED BY <2>1, <2>2, <2>3, <2>4, ReadsPast
<1>11. CASE Included
    <2>1. ~stopped
        BY <1>1, <1>11 DEF Included
    <2> QED BY <1>11, <2>1, ChainReturns
<1>12. CASE Return
    <2>1. UNCHANGED <<work, lanes, inclusions, occurrence, stopped>> /\ outcome = "running"
        BY <1>12 DEF Return
    <2>2. Chaining
        BY <1>1, <2>1 DEF XIncludeIInv, InRun
    <2> QED BY <2>1, <2>2 DEF Chaining, WithinLimits
<1>13. CASE NextDocument
    <2>1. PICK x : x = Lane(Main, "xml", <<>>)
        OBVIOUS
    <2>2. lanes' = <<x>> /\ x.at = 1
        BY <1>13, <2>1 DEF NextDocument, Lane
    <2>3. lanes'[1].at = 1
        BY <2>2
    <2> QED BY <1>1, <2>3
<1>14. CASE Done \/ UNCHANGED vars
    <2>1. UNCHANGED <<work, lanes, inclusions, occurrence, stopped, outcome>>
        BY <1>14 DEF Done, vars, state
    <2>2. Chaining
        BY <1>1, <2>1 DEF XIncludeIInv, InRun
    <2> QED BY <2>1, <2>2 DEF Chaining, WithinLimits
<1> QED BY <1>2, <1>3, <1>4, <1>5, <1>6, <1>7, <1>8, <1>9, <1>10, <1>11, <1>12, <1>13, <1>14 DEF Next

-----------------------------------------------------------------------------
(* The theorems. *)

(* The invariant, which says of every state in which a run is under way    *)
(* that the scopes follow the sources at work, each at its depth, and of   *)
(* every state what the counters and the first source are.                 *)
THEOREM Invariant == Spec => []XIncludeIInv
<1>1. Init => XIncludeIInv
    <2>1. SUFFICES ASSUME Init PROVE XIncludeIInv
        OBVIOUS
    <2>2. PICK x : x = Lane(Main, "xml", <<>>)
        OBVIOUS
    <2>3. work \in Works /\ IsLibrary(work.library) /\ Main \in DOMAIN work.library
        BY <2>1, XIncludeAssumption DEF Init, IsLibrary
    <2>4. /\ LaneFits(work.library, x) /\ x.at = 1 /\ x.pointer = <<>> /\ x.parse = "xml"
          /\ x.events = work.library[Main].xml
        BY <2>2, <2>3, Beginning
    <2>5. IsSequence(lanes) /\ Len(lanes) = 1 /\ lanes[1] = x
        <3>1. <<x>> \in Seq({x}) /\ Len(<<x>>) = 1 /\ <<x>>[1] = x
            OBVIOUS
        <3> QED BY <2>1, <2>2, <3>1, ASequenceOf DEF Init
    <2>6. /\ errorCount = 0 /\ reported = 0 /\ counted = 0 /\ occurrence = 0 /\ runs = 1
          /\ ~busy /\ outcome = "running"
        BY <2>1 DEF Init
    <2>7. Counting
        BY <2>3, <2>4, <2>5, <2>6 DEF Counting
    <2>8. ~InRun
        BY <2>4, <2>5 DEF InRun
    <2> QED BY <2>7, <2>8 DEF XIncludeIInv
<1>2. XIncludeIInv /\ [Next]_vars => XIncludeIInv'
    <2>1. SUFFICES ASSUME XIncludeIInv, [Next]_vars PROVE XIncludeIInv'
        OBVIOUS
    <2>2. Counting'
        BY <2>1, CountingStep DEF XIncludeIInv
    <2>3. InRun' => Chaining'
        BY <2>1, ChainStep
    <2> QED BY <2>2, <2>3 DEF XIncludeIInv
<1> QED BY <1>1, <1>2, PTL DEF Spec

(* While a run is under way, the scopes that are being included are the    *)
(* nested sources at work, in order and without a repetition; every scope  *)
(* stands at an xi:include that is open, every open one has a scope or one *)
(* around it has, and the limits bound both (include of xinclude.rs).      *)
THEOREM Chain == Spec => []ChainIsWhatIsRead
<1>1. XIncludeIInv => ChainIsWhatIsRead
    <2>1. SUFFICES ASSUME XIncludeIInv, InRun PROVE ChainIsWhatIsRead
        BY DEF ChainIsWhatIsRead
    <2>2. Chained(work.library, lanes, inclusions) /\ WithinLimits
        BY <2>1 DEF XIncludeIInv, Chaining
    <2>3. /\ Len(inclusions) \in Nat /\ DOMAIN inclusions = 1..Len(inclusions)
          /\ Len(lanes) \in Nat \ {0} /\ DOMAIN lanes = 1..Len(lanes)
        BY <2>2, ChainFacts, SequenceHas DEF Lanes
    <2>4. /\ InLine(inclusions) /\ Explained(lanes, inclusions) /\ NoLoop(inclusions)
          /\ Covered(lanes, inclusions) /\ Lanes(work.library, lanes)
          /\ \A i \in 1..Len(inclusions) : ScopeFits(lanes, inclusions[i]) /\ LaneOf(inclusions[i]) \in 1..Len(lanes)
        BY <2>2, ChainFacts
    <2>5. \A i \in DOMAIN inclusions :
            /\ i \in Processing <=> Includes(inclusions[i])
            /\ LaneOf(inclusions[i]) = inclusions[i].element[1] /\ StartOf(inclusions[i]) = inclusions[i].element[2]
        BY DEF Processing, Includes, LaneOf, StartOf
    <2>6. Processing \subseteq 1..Len(inclusions)
        BY <2>3 DEF Processing
    <2>7. ASSUME NEW i \in Processing
          PROVE  LET k == inclusions[i].element[1] + 1 IN
                 /\ k \in DOMAIN lanes
                 /\ inclusions[i].uri = lanes[k].uri /\ inclusions[i].xpointer = lanes[k].pointer
        BY <2>3, <2>4, <2>5, <2>6 DEF ScopeFits
    <2>8. ASSUME NEW k \in 2..Len(lanes)
          PROVE  \E i \in Processing : inclusions[i].element[1] + 1 = k
        <3>1. k - 1 \in 1..(Len(lanes) - 1)
            BY <2>3
        <3>2. PICK i \in 1..Len(inclusions) : Includes(inclusions[i]) /\ LaneOf(inclusions[i]) = k - 1
            BY <2>4, <3>1 DEF Explained
        <3>3. i \in Processing /\ inclusions[i].element[1] = k - 1
            BY <2>3, <2>5, <3>2
        <3> QED BY <3>3
    <2>9. ASSUME NEW i \in Processing, NEW j \in Processing, i < j
          PROVE  inclusions[i].element[1] < inclusions[j].element[1]
        <3>1. Before(inclusions[i], inclusions[j]) /\ Includes(inclusions[i])
            BY <2>3, <2>4, <2>5, <2>6, <2>9 DEF InLine
        <3> QED BY <2>3, <2>5, <2>6, <3>1 DEF Before
    <2>10. ASSUME NEW i \in Processing, NEW j \in Processing,
                  <<inclusions[i].uri, inclusions[i].xpointer>> = <<inclusions[j].uri, inclusions[j].xpointer>>
           PROVE  i = j
        <3>1. inclusions[i].uri = inclusions[j].uri /\ inclusions[i].xpointer = inclusions[j].xpointer
            BY <2>10
        <3> QED BY <2>3, <2>4, <2>5, <2>6, <3>1 DEF NoLoop
    <2>11. ASSUME NEW i \in DOMAIN inclusions
           PROVE  LET k == inclusions[i].element[1]
                  IN k \in DOMAIN lanes /\ inclusions[i].element[2] \in OpenIncludes(lanes[k])
        BY <2>3, <2>4, <2>5 DEF ScopeFits
    <2>12. ASSUME NEW k \in DOMAIN lanes, lanes[k].pointer = <<>>, OpenIncludes(lanes[k]) # {}
           PROVE  \E i \in DOMAIN inclusions : inclusions[i].element = <<k, Min(OpenIncludes(lanes[k]))>>
        <3>1. LaneFits(work.library, lanes[k])
            BY <2>3, <2>4 DEF Lanes
        <3>2. OpenIncludes(lanes[k]) \in SUBSET Nat
            BY <3>1, LaneFacts DEF OpenIncludes
        <3>3. \E x \in OpenIncludes(lanes[k]) : \A y \in OpenIncludes(lanes[k]) : x <= y
            BY <2>12, <3>2, FirstPosition
        <3>4. PICK p : p = Min(OpenIncludes(lanes[k]))
            OBVIOUS
        <3>5. p \in OpenIncludes(lanes[k]) /\ \A y \in OpenIncludes(lanes[k]) : p <= y
            BY <3>3, <3>4 DEF Min
        <3>6. PICK i \in 1..Len(inclusions) : LaneOf(inclusions[i]) = k /\ StartOf(inclusions[i]) <= p
            BY <2>3, <2>4, <2>12, <3>5 DEF Covered
        <3>7. StartOf(inclusions[i]) \in OpenIncludes(lanes[k])
            BY <2>4, <3>6 DEF ScopeFits
        <3>8. StartOf(inclusions[i]) = p
            BY <3>2, <3>5, <3>6, <3>7
        <3>9. inclusions[i].element \in Nat \X Nat
            BY <2>4 DEF ScopeFits, IsScope
        <3>10. inclusions[i].element = <<k, p>>
            BY <3>6, <3>8, <3>9 DEF LaneOf, StartOf
        <3> QED BY <2>3, <3>4, <3>10
    <2> QED BY <2>2, <2>7, <2>8, <2>9, <2>10, <2>11, <2>12 DEF ChainIsWhatIsRead, WithinLimits
<1> QED BY <1>1, Invariant, PTL

(* Every validity error reported behind the transformer in a run that      *)
(* ended without an error was returned upstream, once.                     *)
THEOREM Upstream == Spec => []ErrorsReachUpstream
<1>1. XIncludeIInv => ErrorsReachUpstream
    <2>1. SUFFICES ASSUME XIncludeIInv PROVE ErrorsReachUpstream
        OBVIOUS
    <2>2. lanes[1].at = 1 \/ lanes[1].at > 1
        BY <2>1 DEF XIncludeIInv, Counting
    <2> QED BY <2>1, <2>2 DEF XIncludeIInv, Counting, ErrorsReachUpstream
<1> QED BY <1>1, Invariant, PTL

(* Consumers that have had enough are given nothing more, whichever of the *)
(* sources at work would go on (Dispatcher::is_stopped).                   *)
THEOREM Quiet == Spec => QuietOnceStopped
<1>1. XIncludeIInv /\ [Next]_vars => (stopped /\ runs' = runs => delivered' = delivered)
    <2>1. SUFFICES ASSUME XIncludeIInv, [Next]_vars, stopped, runs' = runs PROVE delivered' = delivered
        OBVIOUS
    <2>2. ~Reads
        BY <2>1 DEF Reads
    <2>3. ~ReadsXml /\ ~Valid /\ ~Receives /\ ~Consumed /\ \A behaviors : ~InScope(behaviors)
        BY <2>2 DEF ReadsXml, Valid, Receives, Consumed, InScope
    <2>4. ~Including
        BY <2>3 DEF Including, TooDeep, TooMany, BadUri, FindLoop, ResourceError, Open, Permitted,
                    Counted, StartsInclude
    <2>5. ~Scoped
        BY <2>3 DEF Scoped, IncludedElement, IncludedContent, StartFallback, FallbackContent,
                    EndFallback, Ignore, EndInclude
    <2>6. ~(Malformed \/ Invalid \/ PassOver \/ PointerFails \/ StartRun \/ Outside \/ LeaveOutFrame \/ IncludeText)
        BY <2>2, <2>3 DEF Malformed, Invalid, PassOver, PointerFails, StartRun, Outside, LeaveOutFrame, IncludeText
    <2>7. ~NextDocument
        <3>1. runs \in Nat
            BY <2>1 DEF XIncludeIInv, Counting
        <3>2. runs + 1 # runs
            BY <3>1
        <3> QED BY <2>1, <3>2 DEF NextDocument
    <2>8. Included \/ Return \/ Done \/ UNCHANGED vars
        BY <2>1, <2>4, <2>5, <2>6, <2>7 DEF Next
    <2> QED BY <2>8 DEF Included, Return, Done, vars, history
<1>2. [][XIncludeIInv /\ [Next]_vars => (stopped /\ runs' = runs => delivered' = delivered)]_vars
    BY <1>1, PTL
<1> QED BY <1>1, Invariant, PTL DEF Spec, QuietOnceStopped
=============================================================================
