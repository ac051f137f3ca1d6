--------------------------- MODULE SequenceLemmas ---------------------------
(***************************************************************************)
(* What the proofs of several components need of sequences, and of the     *)
(* folds their models are written with.                                    *)
(*                                                                         *)
(* A fold goes through the positions 1..k of a sequence from the last one  *)
(* down.  What holds of all of them is shown of the first k for which it   *)
(* would not hold.                                                         *)
(***************************************************************************)
EXTENDS Naturals, SequencesExt, SequenceTheorems, WellFoundedInduction, TLAPS

-----------------------------------------------------------------------------
(* A set of positions of a sequence has a first and a last one. *)
LEMMA FirstPosition ==
    ASSUME NEW I \in SUBSET Nat, I # {}
    PROVE  \E x \in I : \A y \in I : x <= y
<1>1. PICK x \in I : \A y \in I : ~(<<y, x>> \in OpToRel(<, Nat))
    BY NatLessThanWellFounded, WFMin
<1>2. \A y \in I : ~(y < x)
    BY <1>1 DEF OpToRel
<1> QED BY <1>2

LEMMA LastPosition ==
    ASSUME NEW n \in Nat, NEW I \in SUBSET (1..n), I # {}
    PROVE  \E x \in I : \A y \in I : x >= y
<1> DEFINE mirror == {n - i : i \in I}
<1>1. mirror \in SUBSET Nat /\ mirror # {}
    <2>1. \A i \in I : n - i \in Nat
        OBVIOUS
    <2>2. \E i \in I : n - i \in mirror
        OBVIOUS
    <2> QED BY <2>1, <2>2
<1>2. PICK m \in mirror : \A k \in mirror : m <= k
    BY <1>1, FirstPosition
<1>3. PICK x \in I : m = n - x
    OBVIOUS
<1>4. \A y \in I : n - x <= n - y
    BY <1>2, <1>3
<1>5. \A y \in I : x >= y
    BY <1>4
<1> QED BY <1>5

-----------------------------------------------------------------------------
(* Sequences that agree up to n have the same first n members. *)
LEMMA SamePrefix ==
    ASSUME NEW S, NEW s \in Seq(S), NEW t \in Seq(S),
           NEW n \in 0..Len(s), n \in 0..Len(t),
           \/ \A i \in 1..Len(s) : t[i] = s[i]
           \/ \A i \in 1..Len(t) : t[i] = s[i]
    PROVE  SubSeq(t, 1, n) = SubSeq(s, 1, n)
<1>1. Len(s) \in Nat /\ Len(t) \in Nat /\ \A i \in 1..n : i \in 1..Len(s) /\ i \in 1..Len(t)
    OBVIOUS
<1>2. \A i \in 1..n : s[i] \in S /\ t[i] \in S /\ t[i] = s[i]
    BY <1>1
<1>3. /\ SubSeq(s, 1, n) \in Seq(S) /\ Len(SubSeq(s, 1, n)) = n
      /\ \A i \in 1..n : SubSeq(s, 1, n)[i] = s[i]
    BY <1>1, <1>2, SubSeqProperties
<1>4. /\ SubSeq(t, 1, n) \in Seq(S) /\ Len(SubSeq(t, 1, n)) = n
      /\ \A i \in 1..n : SubSeq(t, 1, n)[i] = t[i]
    BY <1>1, <1>2, SubSeqProperties
<1> QED BY <1>2, <1>3, <1>4, SeqEqual

LEMMA ASequence ==
    ASSUME NEW S, NEW n \in Nat, NEW f, f = [i \in DOMAIN f |-> f[i]], DOMAIN f = 1..n,
           \A i \in 1..n : f[i] \in S
    PROVE  f \in Seq(S) /\ Len(f) = n
<1>1. f \in [1..n -> S]
    OBVIOUS
<1>2. f \in Seq(S)
    BY <1>1, SeqDef
<1> QED BY <1>2, LenProperties

(* A path that gained, or lost, its last member. *)
LEMMA GrownByOne ==
    ASSUME NEW S, NEW s \in Seq(S), NEW x \in S, NEW f,
           f = [i \in DOMAIN f |-> f[i]], DOMAIN f = 1..(Len(s) + 1),
           f[Len(s) + 1] = x, \A i \in 1..Len(s) : f[i] = s[i]
    PROVE  f = Append(s, x)
<1>1. Len(s) \in Nat /\ \A i \in 1..(Len(s) + 1) : f[i] \in S
    OBVIOUS
<1>2. f \in Seq(S) /\ Len(f) = Len(s) + 1
    <2>1. f \in [1..(Len(s) + 1) -> S]
        BY <1>1
    <2>2. f \in Seq(S)
        BY <1>1, <2>1, SeqDef
    <2> QED BY <1>1, <2>2, LenProperties
<1>3. /\ Append(s, x) \in Seq(S) /\ Len(Append(s, x)) = Len(s) + 1
      /\ \A i \in 1..Len(s) : Append(s, x)[i] = s[i]
      /\ Append(s, x)[Len(s) + 1] = x
    BY AppendProperties
<1>4. \A i \in 1..Len(f) : f[i] = Append(s, x)[i]
    BY <1>1, <1>2, <1>3
<1> QED BY <1>2, <1>3, <1>4, SeqEqual

LEMMA ShrunkByOne ==
    ASSUME NEW S, NEW s \in Seq(S), Len(s) > 0, NEW f,
           f = [i \in DOMAIN f |-> f[i]], DOMAIN f = 1..(Len(s) - 1),
           \A i \in 1..(Len(s) - 1) : f[i] = s[i]
    PROVE  f = SubSeq(s, 1, Len(s) - 1)
<1>1. Len(s) - 1 \in Nat /\ \A i \in 1..(Len(s) - 1) : f[i] \in S /\ s[i] \in S
    OBVIOUS
<1>2. f \in Seq(S) /\ Len(f) = Len(s) - 1
    <2>1. f \in [1..(Len(s) - 1) -> S]
        BY <1>1
    <2>2. f \in Seq(S)
        BY <1>1, <2>1, SeqDef
    <2> QED BY <1>1, <2>2, LenProperties
<1>3. /\ SubSeq(s, 1, Len(s) - 1) \in Seq(S) /\ Len(SubSeq(s, 1, Len(s) - 1)) = Len(s) - 1
      /\ \A i \in 1..(Len(s) - 1) : SubSeq(s, 1, Len(s) - 1)[i] = s[i]
    <2>1. PICK n \in Nat : n = Len(s) - 1
        BY <1>1
    <2>2. /\ SubSeq(s, 1, n) \in Seq(S) /\ Len(SubSeq(s, 1, n)) = n
          /\ \A i \in 1..n : SubSeq(s, 1, n)[i] = s[i]
        <3>1. \A i \in 1..n : s[i] \in S
            BY <1>1, <2>1
        <3> QED BY <3>1, SubSeqProperties
    <2> QED BY <2>1, <2>2
<1> QED BY <1>2, <1>3, SeqEqual

(* What is left of a sequence without its last member, and what is put in  *)
(* the place of that.                                                      *)
LEMMA LastSplit ==
    ASSUME NEW S, NEW s \in Seq(S), s # <<>>
    PROVE  /\ Front(s) \in Seq(S) /\ Last(s) \in S /\ Last(s) = s[Len(s)]
           /\ s = Append(Front(s), Last(s)) /\ Len(s) \in Nat /\ Len(s) >= 1
           /\ Len(Front(s)) = Len(s) - 1
           /\ \A i \in 1..(Len(s) - 1) : Front(s)[i] = s[i]
<1>1. PICK n \in Nat : n + 1 = Len(s)
    <2>1. Len(s) \in Nat /\ Len(s) # 0
        OBVIOUS
    <2> QED BY <2>1
<1>2. PICK f \in Seq(S) : f = SubSeq(s, 1, n) /\ Len(f) = n /\ \A i \in 1..n : f[i] = s[i]
    <2>1. \A i \in 1..n : s[i] \in S
        BY <1>1
    <2>2. SubSeq(s, 1, n) \in Seq(S) /\ Len(SubSeq(s, 1, n)) = n /\ \A i \in 1..n : SubSeq(s, 1, n)[i] = s[i]
        BY <2>1, SubSeqProperties
    <2> QED BY <2>2
<1>3. Front(s) = f /\ Last(s) = s[n + 1] /\ s[n + 1] \in S
    BY <1>1, <1>2 DEF Front, Last
<1>4. s = Append(f, s[n + 1])
    <2>1. /\ Append(f, s[n + 1]) \in Seq(S) /\ Len(Append(f, s[n + 1])) = n + 1
          /\ \A i \in 1..n : Append(f, s[n + 1])[i] = f[i]
          /\ Append(f, s[n + 1])[n + 1] = s[n + 1]
        BY <1>2, <1>3
    <2>2. \A i \in 1..(n + 1) : s[i] = Append(f, s[n + 1])[i]
        BY <1>2, <2>1
    <2> QED BY <1>1, <2>1, <2>2, SeqEqual
<1> QED BY <1>1, <1>2, <1>3, <1>4

WithLast(s, x) == [s EXCEPT ![Len(s)] = x]

LEMMA LastReplaced ==
    ASSUME NEW S, NEW s \in Seq(S), s # <<>>, NEW x \in S
    PROVE  /\ WithLast(s, x) \in Seq(S) /\ WithLast(s, x) = Append(Front(s), x)
           /\ Len(WithLast(s, x)) = Len(s) /\ WithLast(s, x)[Len(s)] = x
           /\ \A i \in 1..Len(s) : i # Len(s) => WithLast(s, x)[i] = s[i]
<1>0. PICK t : t = WithLast(s, x)
    OBVIOUS
<1>1. PICK n \in Nat : n + 1 = Len(s)
    <2>1. Len(s) \in Nat /\ Len(s) # 0
        OBVIOUS
    <2> QED BY <2>1
<1>2. t \in Seq(S) /\ Len(t) = n + 1 /\ t[n + 1] = x /\ \A i \in 1..n : t[i] = s[i]
    BY <1>0, <1>1 DEF WithLast
<1>3. PICK f \in Seq(S) : f = Front(s) /\ Len(f) = n /\ \A i \in 1..n : f[i] = s[i]
    BY <1>1, LastSplit
<1>4. t = Append(f, x)
    <2>1. /\ Append(f, x) \in Seq(S) /\ Len(Append(f, x)) = n + 1
          /\ \A i \in 1..n : Append(f, x)[i] = f[i]
          /\ Append(f, x)[n + 1] = x
        BY <1>3
    <2>2. \A i \in 1..(n + 1) : t[i] = Append(f, x)[i]
        BY <1>2, <1>3, <2>1
    <2> QED BY <1>2, <2>1, <2>2, SeqEqual
<1>5. t = Append(Front(s), x) /\ Len(t) = Len(s) /\ t[Len(s)] = x
    BY <1>1, <1>2, <1>3, <1>4, Zenon
<1>6. ASSUME NEW i \in 1..Len(s), i # Len(s)
      PROVE  t[i] = s[i]
    <2>1. i \in 1..n
        BY <1>1, <1>6
    <2> QED BY <1>2, <2>1, Zenon
<1> QED BY <1>0, <1>2, <1>5, <1>6, Zenon

LEMMA FrontOfAppend ==
    ASSUME NEW S, NEW s \in Seq(S), NEW x \in S
    PROVE  Front(Append(s, x)) = s /\ Last(Append(s, x)) = x
<1>1. PICK n \in Nat : n = Len(s)
    OBVIOUS
<1>2. PICK t \in Seq(S) : t = Append(s, x) /\ Len(t) = n + 1 /\ t[n + 1] = x /\ \A i \in 1..n : t[i] = s[i]
    <2>1. Append(s, x) \in Seq(S) /\ Len(Append(s, x)) = n + 1 /\ Append(s, x)[n + 1] = x
        BY <1>1
    <2>2. \A i \in 1..n : Append(s, x)[i] = s[i]
        BY <1>1
    <2> QED BY <2>1, <2>2
<1>3. Front(t) \in Seq(S) /\ Len(Front(t)) = n /\ Last(t) = x /\ \A i \in 1..n : Front(t)[i] = t[i]
    <2>1. t # <<>> /\ Len(t) - 1 = n
        BY <1>2
    <2> QED BY SMTT(20), ZenonT(30), <1>2, <2>1, LastSplit
<1>4. Front(t) = s
    BY <1>1, <1>2, <1>3, SeqEqual
<1> QED BY <1>2, <1>3, <1>4

LEMMA TailOfAppend ==
    ASSUME NEW S, NEW s \in Seq(S), s # <<>>, NEW x \in S
    PROVE  Tail(Append(s, x)) = Append(Tail(s), x) /\ Tail(s) \in Seq(S)
<1>1. PICK n \in Nat : n + 1 = Len(s)
    <2>1. Len(s) \in Nat /\ Len(s) # 0
        OBVIOUS
    <2> QED BY <2>1
<1>2. PICK r \in Seq(S) : r = Tail(s) /\ Len(r) = n /\ \A i \in 1..n : r[i] = s[i + 1]
    <2>1. PICK r : r = Tail(s)
        OBVIOUS
    <2>2. r \in Seq(S) /\ Len(r) = Len(s) - 1 /\ \A i \in 1..Len(r) : r[i] = s[i + 1]
        BY <2>1, HeadTailProperties
    <2>3. Len(r) = n
        BY <1>1, <2>2
    <2> QED BY <2>1, <2>2, <2>3, Zenon
<1>3. PICK t \in Seq(S) : t = Append(s, x) /\ Len(t) = n + 2 /\ t[n + 2] = x /\ \A i \in 1..(n + 1) : t[i] = s[i]
    <2>1. Append(s, x) \in Seq(S) /\ Len(Append(s, x)) = n + 2 /\ Append(s, x)[n + 2] = x
        BY <1>1
    <2>2. \A i \in 1..(n + 1) : Append(s, x)[i] = s[i]
        BY <1>1
    <2> QED BY <2>1, <2>2
<1>4. Tail(t) \in Seq(S) /\ Len(Tail(t)) = n + 1 /\ \A i \in 1..(n + 1) : Tail(t)[i] = t[i + 1]
    <2>1. t # <<>>
        BY <1>3
    <2> QED BY <1>3, <2>1, HeadTailProperties
<1>5. Append(r, x) \in Seq(S) /\ Len(Append(r, x)) = n + 1 /\ Append(r, x)[n + 1] = x /\ \A i \in 1..n : Append(r, x)[i] = r[i]
    BY <1>2
<1>6. ASSUME NEW i \in 1..(n + 1)
      PROVE  Tail(t)[i] = Append(r, x)[i]
    <2>1. CASE i = n + 1
        <3>1. i + 1 = n + 2
            BY <2>1
        <3>2. Tail(t)[i] = t[i + 1] /\ Append(r, x)[i] = x
            BY <1>4, <1>5, <2>1
        <3> QED BY <1>3, <3>1, <3>2
    <2>2. CASE i \in 1..n
        <3>1. Tail(t)[i] = t[i + 1] /\ i + 1 \in 1..(n + 1)
            BY <1>4, <2>2
        <3>2. t[i + 1] = s[i + 1]
            BY <1>3, <3>1
        <3>3. Append(r, x)[i] = r[i] /\ r[i] = s[i + 1]
            BY <1>2, <1>5, <2>2
        <3> QED BY <3>1, <3>2, <3>3, Zenon
    <2>3. i = n + 1 \/ i \in 1..n
        OBVIOUS
    <2> QED BY <2>1, <2>2, <2>3, Zenon
<1>7. Tail(t) = Append(r, x)
    BY <1>4, <1>5, <1>6, SeqEqual
<1> QED BY <1>2, <1>3, <1>7

-----------------------------------------------------------------------------
(* Folds. *)
LEMMA GreatestPosition ==
    ASSUME NEW n \in Nat, NEW t \in SUBSET (1..n), t # {}
    PROVE  Max(t) \in t /\ \A y \in t : Max(t) >= y
<1>1. \E x \in t : \A y \in t : x >= y
    BY LastPosition
<1> QED BY <1>1, Zenon DEF Max

LEMMA GreatestOfAll ==
    ASSUME NEW n \in Nat, NEW t \in SUBSET (1..n), n \in t
    PROVE  Max(t) = n
<1>1. Max(t) \in 1..n /\ Max(t) >= n
    BY GreatestPosition
<1> QED BY <1>1

(* it is what a fold of n members through step makes of each set. *)
Folds(it, n, base, step) ==
    it = [t \in SUBSET (1..n) |-> IF t = {} THEN base ELSE step[Max(t)][it[t \ {Max(t)}]]]

LEMMA FoldExists ==
    ASSUME NEW V, NEW base \in V, NEW n \in Nat, NEW step \in [1..n -> [V -> V]]
    PROVE  \E it \in [SUBSET (1..n) -> V] : Folds(it, n, base, step)
<1> DEFINE Fine(k) == \E it \in [SUBSET (1..k) -> V] : Folds(it, k, base, step)
           bad == {k \in 0..n : ~Fine(k)}
<1> HIDE DEF Fine
<1>1. SUFFICES ASSUME bad # {} PROVE FALSE
    <2>1. n \in 0..n
        OBVIOUS
    <2>2. bad = {} => Fine(n)
        BY <2>1
    <2> QED BY <2>2 DEF Fine
<1>2. PICK k \in bad : \A j \in bad : k <= j
    <2>1. bad \in SUBSET Nat
        OBVIOUS
    <2> QED BY <1>1, <2>1, FirstPosition
<1>3. CASE k = 0
    <2> DEFINE it == [t \in SUBSET (1..0) |-> base]
    <2>1. \A t \in SUBSET (1..0) : t = {}
        OBVIOUS
    <2>2. it \in [SUBSET (1..0) -> V] /\ Folds(it, 0, base, step)
        BY <2>1 DEF Folds
    <2>3. Fine(k)
        BY <1>3, <2>2 DEF Fine
    <2> QED BY <1>2, <2>3
<1>4. CASE k # 0
    <2>1. k \in 1..n /\ k - 1 \in 0..n
        BY <1>2, <1>4
    <2>2. PICK it \in [SUBSET (1..(k - 1)) -> V] : Folds(it, k - 1, base, step)
        <3>1. ~(k <= k - 1)
            BY <2>1
        <3>2. k - 1 \notin bad
            BY <1>2, <3>1
        <3> QED BY <2>1, <3>2 DEF Fine
    <2> DEFINE new == [t \in SUBSET (1..k) |-> IF k \in t THEN step[k][it[t \ {k}]] ELSE it[t]]
    <2>3. \A t \in SUBSET (1..k) : t \ {k} \in SUBSET (1..(k - 1)) /\ (k \notin t => t \in SUBSET (1..(k - 1)))
        BY <2>1
    <2>4. new \in [SUBSET (1..k) -> V]
        <3>1. ASSUME NEW t \in SUBSET (1..k)
              PROVE  (IF k \in t THEN step[k][it[t \ {k}]] ELSE it[t]) \in V
            BY <2>1, <2>2, <2>3
        <3> QED BY <3>1
    <2>5. ASSUME NEW t \in SUBSET (1..k)
          PROVE  new[t] = IF t = {} THEN base ELSE step[Max(t)][new[t \ {Max(t)}]]
        <3>1. CASE t = {}
            BY <2>2, <2>3, <3>1 DEF Folds
        <3>2. CASE k \in t
            <4>1. Max(t) = k
                BY <2>1, <3>2, GreatestOfAll
            <4>2. new[t \ {k}] = it[t \ {k}]
                BY <2>3
            <4> QED BY <3>2, <4>1, <4>2
        <3>3. CASE t # {} /\ k \notin t
            <4>1. t \in SUBSET (1..(k - 1)) /\ t \ {Max(t)} \in SUBSET (1..(k - 1))
                BY <2>3, <3>3
            <4>2. new[t] = it[t] /\ new[t \ {Max(t)}] = it[t \ {Max(t)}]
                BY <3>3
            <4>3. it[t] = step[Max(t)][it[t \ {Max(t)}]]
                BY <2>2, <3>3, <4>1 DEF Folds
            <4> QED BY <3>3, <4>2, <4>3
        <3> QED BY <3>1, <3>2, <3>3
    <2>6. Folds(new, k, base, step)
        BY <2>5 DEF Folds
    <2>7. Fine(k)
        BY <2>4, <2>6 DEF Fine
    <2> QED BY <1>2, <2>7
<1> QED BY <1>3, <1>4

LEMMA FoldTyped ==
    ASSUME NEW V, NEW n \in Nat, NEW it, it = [t \in SUBSET (1..n) |-> it[t]], it[{}] \in V,
           \A t \in SUBSET (1..n) : t # {} /\ it[t \ {Max(t)}] \in V => it[t] \in V
    PROVE  it \in [SUBSET (1..n) -> V]
<1> DEFINE Fine(k) == \A t \in SUBSET (1..k) : it[t] \in V
           bad == {k \in 0..n : ~Fine(k)}
<1> HIDE DEF Fine
<1>1. SUFFICES ASSUME bad # {} PROVE FALSE
    <2>1. n \in 0..n
        OBVIOUS
    <2>2. bad = {} => Fine(n)
        BY <2>1
    <2> QED BY <2>2 DEF Fine
<1>2. PICK k \in bad : \A j \in bad : k <= j
    <2>1. bad \in SUBSET Nat
        OBVIOUS
    <2> QED BY <1>1, <2>1, FirstPosition
<1>3. ASSUME NEW t \in SUBSET (1..k)
      PROVE  it[t] \in V
    <2>1. CASE t = {}
        BY <2>1
    <2>2. CASE t # {}
        <3>1. t \in SUBSET (1..n)
            BY <1>2
        <3>2. Max(t) \in t /\ \A y \in t : Max(t) >= y
            BY <2>2, <3>1, GreatestPosition
        <3>3. k \in 1..n /\ k - 1 \in 0..n /\ ~(k <= k - 1)
            BY <1>2, <3>2
        <3>4. Fine(k - 1)
            BY <1>2, <3>3
        <3>5. \A y \in t : y # Max(t) => y \in 1..(k - 1)
            BY <3>2, <3>3
        <3>6. t \ {Max(t)} \in SUBSET (1..(k - 1))
            BY <3>5
        <3>7. it[t \ {Max(t)}] \in V
            BY <3>4, <3>6 DEF Fine
        <3> QED BY <2>2, <3>1, <3>7
    <2> QED BY <2>1, <2>2
<1>4. Fine(k)
    BY <1>3 DEF Fine
<1> QED BY <1>2, <1>4

(* One member more is one step more. *)
LEMMA FoldStep ==
    ASSUME NEW n \in Nat, NEW base, NEW step, NEW it, Folds(it, n, base, step)
    PROVE  /\ it[1..0] = base
           /\ \A k \in 1..n : it[1..k] = step[k][it[1..(k - 1)]]
<1>1. 1..0 = {}
    OBVIOUS
<1>2. ASSUME NEW k \in 1..n
      PROVE  it[1..k] = step[k][it[1..(k - 1)]]
    <2>1. 1..k \in SUBSET (1..n) /\ 1..k # {} /\ k \in 1..k
        OBVIOUS
    <2>2. Max(1..k) = k
        BY <2>1, GreatestOfAll
    <2>3. (1..k) \ {k} = 1..(k - 1)
        OBVIOUS
    <2> QED BY <2>1, <2>2, <2>3 DEF Folds
<1> QED BY <1>1, <1>2 DEF Folds

LEMMA FoldAgrees ==
    ASSUME NEW n \in Nat, NEW m \in Nat, NEW base, NEW one, NEW other, NEW it, NEW too,
           Folds(it, n, base, one), Folds(too, m, base, other),
           NEW k \in 0..n, k \in 0..m, \A i \in 1..k : one[i] = other[i]
    PROVE  it[1..k] = too[1..k]
<1> DEFINE bad == {j \in 0..k : it[1..j] # too[1..j]}
<1>1. SUFFICES ASSUME bad # {} PROVE FALSE
    <2>1. k \in 0..k
        OBVIOUS
    <2> QED BY <2>1
<1>2. PICK j \in bad : \A i \in bad : j <= i
    <2>1. bad \in SUBSET Nat
        OBVIOUS
    <2> QED BY <1>1, <2>1, FirstPosition
<1>3. CASE j = 0
    BY <1>2, <1>3, FoldStep
<1>4. CASE j # 0
    <2>1. j \in 1..k /\ j \in 1..n /\ j \in 1..m /\ j - 1 \in 0..k /\ ~(j <= j - 1)
        BY <1>2, <1>4
    <2>2. it[1..(j - 1)] = too[1..(j - 1)]
        BY <1>2, <2>1
    <2>3. it[1..j] = one[j][it[1..(j - 1)]] /\ too[1..j] = other[j][too[1..(j - 1)]]
        BY <2>1, FoldStep
    <2> QED BY <1>2, <2>1, <2>2, <2>3
<1> QED BY <1>3, <1>4

LEMMA FoldGrows ==
    ASSUME NEW n \in Nat, NEW m \in Nat, m = n + 1, NEW base, NEW one, NEW other, NEW it, NEW too,
           Folds(it, n, base, one), Folds(too, m, base, other), \A i \in 1..n : one[i] = other[i]
    PROVE  too[1..m] = other[m][it[1..n]]
<1>1. n \in 0..n /\ n \in 0..m /\ m \in 1..m /\ m - 1 = n
    OBVIOUS
<1>2. it[1..n] = too[1..n]
    BY <1>1, FoldAgrees
<1>3. too[1..m] = other[m][too[1..(m - 1)]]
    BY <1>1, FoldStep
<1> QED BY <1>1, <1>2, <1>3

-----------------------------------------------------------------------------
(* A sum is a number, and grows by the member that is appended. *)
LEMMA FoldOfSum ==
    ASSUME NEW s \in Seq(Nat)
    PROVE  \E it \in [SUBSET (1..Len(s)) -> Nat] :
             /\ Folds(it, Len(s), 0, [i \in 1..Len(s) |-> [v \in Nat |-> v + s[i]]])
             /\ FoldLeft(LAMBDA sum, c : sum + c, 0, s) = it[1..Len(s)]
<1> DEFINE step == [i \in 1..Len(s) |-> [v \in Nat |-> v + s[i]]]
           Direct(it) == it = [t \in SUBSET DOMAIN s |->
                                 IF t = {} THEN 0 ELSE it[t \ {Max(t)}] + s[Max(t)]]
           chosen == CHOOSE x : Direct(x)
<1>1. FoldLeft(LAMBDA sum, c : sum + c, 0, s) = chosen[DOMAIN s]
    BY Zenon DEF FoldLeft, MapThenFoldSet
<1>2. DOMAIN s = 1..Len(s) /\ Len(s) \in Nat /\ \A i \in 1..Len(s) : s[i] \in Nat
    OBVIOUS
<1>3. 0 \in Nat /\ \A v \in Nat, x \in Nat : v + x \in Nat
    OBVIOUS
<1>4. step \in [1..Len(s) -> [Nat -> Nat]]
    BY <1>2, <1>3
<1>5. \A t \in SUBSET (1..Len(s)) : t # {} => Max(t) \in 1..Len(s)
    BY <1>2, GreatestPosition
<1>6. \E it : Direct(it)
    <2>1. PICK it \in [SUBSET (1..Len(s)) -> Nat] : Folds(it, Len(s), 0, step)
        <3> HIDE DEF step
        <3> QED BY <1>2, <1>3, <1>4, FoldExists
    <2>2. ASSUME NEW t \in SUBSET (1..Len(s)), t # {}
          PROVE  step[Max(t)][it[t \ {Max(t)}]] = it[t \ {Max(t)}] + s[Max(t)]
        <3>1. it[t \ {Max(t)}] \in Nat /\ Max(t) \in 1..Len(s)
            BY <1>5, <2>2
        <3> QED BY <3>1
    <2>3. it = [t \in SUBSET (1..Len(s)) |-> IF t = {} THEN 0 ELSE step[Max(t)][it[t \ {Max(t)}]]]
        BY <2>1 DEF Folds
    <2> HIDE DEF step
    <2>4. Direct(it)
        BY <1>2, <2>2, <2>3
    <2> QED BY <2>4
<1>7. Direct(chosen)
    BY <1>6
<1> HIDE DEF chosen
<1>8. chosen \in [SUBSET (1..Len(s)) -> Nat]
    <2>1. chosen = [t \in SUBSET (1..Len(s)) |-> chosen[t]] /\ chosen[{}] = 0
        BY <1>2, <1>7
    <2>2. \A t \in SUBSET (1..Len(s)) : t # {} /\ chosen[t \ {Max(t)}] \in Nat => chosen[t] \in Nat
        BY <1>2, <1>3, <1>5, <1>7
    <2> QED BY <1>2, <1>3, <2>1, <2>2, FoldTyped
<1>9. Folds(chosen, Len(s), 0, step)
    <2>1. ASSUME NEW t \in SUBSET (1..Len(s)), t # {}
          PROVE  chosen[t] = step[Max(t)][chosen[t \ {Max(t)}]]
        <3>1. chosen[t \ {Max(t)}] \in Nat /\ Max(t) \in 1..Len(s)
            BY <1>5, <1>8, <2>1
        <3>2. chosen[t] = chosen[t \ {Max(t)}] + s[Max(t)]
            BY <1>2, <1>7, <2>1
        <3> QED BY <3>1, <3>2
    <2>2. chosen[{}] = 0 /\ chosen = [t \in SUBSET (1..Len(s)) |-> chosen[t]]
        BY <1>2, <1>7
    <2> HIDE DEF step
    <2> QED BY <2>1, <2>2 DEF Folds
<1> QED BY <1>1, <1>2, <1>8, <1>9

LEMMA SumGrows ==
    ASSUME NEW s \in Seq(Nat), NEW x \in Nat
    PROVE  /\ FoldLeft(LAMBDA sum, c : sum + c, 0, s) \in Nat
           /\ FoldLeft(LAMBDA sum, c : sum + c, 0, Append(s, x))
                = FoldLeft(LAMBDA sum, c : sum + c, 0, s) + x
<1> DEFINE t == Append(s, x)
           step(u) == [i \in 1..Len(u) |-> [v \in Nat |-> v + u[i]]]
<1>1. /\ t \in Seq(Nat) /\ Len(t) = Len(s) + 1 /\ Len(s) \in Nat
      /\ \A i \in 1..Len(s) : t[i] = s[i]
      /\ t[Len(t)] = x /\ Len(t) \in 1..Len(t)
    OBVIOUS
<1>2. PICK it :
        /\ it \in [SUBSET (1..Len(s)) -> Nat]
        /\ Folds(it, Len(s), 0, step(s))
        /\ FoldLeft(LAMBDA sum, c : sum + c, 0, s) = it[1..Len(s)]
    BY FoldOfSum, Zenon
<1>3. PICK too :
        /\ Folds(too, Len(t), 0, step(t))
        /\ FoldLeft(LAMBDA sum, c : sum + c, 0, t) = too[1..Len(t)]
    <2> HIDE DEF t
    <2> QED BY <1>1, FoldOfSum, Zenon
<1> HIDE DEF t
<1>4. ASSUME NEW i \in 1..Len(s)
      PROVE  step(s)[i] = step(t)[i]
    <2>1. i \in 1..Len(t) /\ t[i] = s[i]
        BY <1>1
    <2> QED BY <2>1, Zenon
<1>5. PICK n \in Nat, m \in Nat : n = Len(s) /\ m = Len(t) /\ m = n + 1
    BY <1>1
<1> HIDE DEF step
<1>6. PICK one, other, none : one = step(s) /\ other = step(t) /\ none = 0
    OBVIOUS
<1>7. too[1..m] = step(t)[m][it[1..n]]
    <2>1. Folds(it, n, none, one) /\ Folds(too, m, none, other)
        BY <1>2, <1>3, <1>5, <1>6, Zenon
    <2>2. \A i \in 1..n : one[i] = other[i]
        BY <1>4, <1>5, <1>6, Zenon
    <2>3. m = n + 1
        BY <1>5
    <2>4. too[1..m] = other[m][it[1..n]]
        BY <2>1, <2>2, <2>3, FoldGrows
    <2> QED BY <1>6, <2>4, Zenon
<1>8. it[1..n] \in Nat
    <2>1. 1..n \in SUBSET (1..Len(s))
        BY <1>5
    <2>2. it \in [SUBSET (1..Len(s)) -> Nat]
        BY <1>2, Zenon
    <2> QED BY <2>1, <2>2
<1>9. step(t)[m][it[1..n]] = it[1..n] + x
    <2>1. m \in 1..Len(t) /\ t[m] = x
        BY <1>1, <1>5, Zenon
    <2> QED BY <1>8, <2>1, Zenon DEF step
<1>10. FoldLeft(LAMBDA sum, c : sum + c, 0, s) = it[1..n] /\ FoldLeft(LAMBDA sum, c : sum + c, 0, t) = too[1..m]
    BY <1>2, <1>3, <1>5, Zenon
<1> QED BY <1>7, <1>8, <1>9, <1>10, Zenon DEF t

LEMMA SumOfNone == FoldLeft(LAMBDA sum, c : sum + c, 0, <<>>) = 0
<1>1. PICK s \in Seq(Nat) : s = <<>> /\ Len(s) = 0
    BY EmptySeq
<1>2. PICK it \in [SUBSET (1..Len(s)) -> Nat] :
        /\ Folds(it, Len(s), 0, [i \in 1..Len(s) |-> [v \in Nat |-> v + s[i]]])
        /\ FoldLeft(LAMBDA sum, c : sum + c, 0, s) = it[1..Len(s)]
    BY FoldOfSum, Zenon
<1>3. Folds(it, Len(s), 0, [i \in 1..Len(s) |-> [v \in Nat |-> v + s[i]]])
    BY <1>2, Zenon
<1>4. \A step : Folds(it, 0, 0, step) => it[1..0] = 0
    BY FoldStep
<1>5. it[1..Len(s)] = 0
    BY <1>1, <1>3, <1>4, Zenon
<1> QED BY <1>1, <1>2, <1>5, Zenon

-----------------------------------------------------------------------------
(* Texts read from the innermost, which is the last, out. *)
LEMMA FoldOfStack ==
    ASSUME NEW S, NEW s \in Seq(Seq(S))
    PROVE  \E it \in [SUBSET (1..Len(s)) -> Seq(S)] :
             /\ Folds(it, Len(s), <<>>, [i \in 1..Len(s) |-> [v \in Seq(S) |-> s[i] \o v]])
             /\ FoldLeft(LAMBDA later, part : part \o later, <<>>, s) = it[1..Len(s)]
<1> DEFINE step == [i \in 1..Len(s) |-> [v \in Seq(S) |-> s[i] \o v]]
           Direct(it) == it = [t \in SUBSET DOMAIN s |->
                                 IF t = {} THEN <<>> ELSE s[Max(t)] \o it[t \ {Max(t)}]]
           chosen == CHOOSE x : Direct(x)
<1>1. FoldLeft(LAMBDA later, part : part \o later, <<>>, s) = chosen[DOMAIN s]
    BY Zenon DEF FoldLeft, MapThenFoldSet
<1>2. DOMAIN s = 1..Len(s) /\ Len(s) \in Nat /\ \A i \in 1..Len(s) : s[i] \in Seq(S)
    OBVIOUS
<1>3. <<>> \in Seq(S) /\ \A v \in Seq(S), x \in Seq(S) : x \o v \in Seq(S)
    OBVIOUS
<1>4. step \in [1..Len(s) -> [Seq(S) -> Seq(S)]]
    BY <1>2, <1>3
<1>5. \A t \in SUBSET (1..Len(s)) : t # {} => Max(t) \in 1..Len(s)
    BY <1>2, GreatestPosition
<1>6. \E it : Direct(it)
    <2>1. PICK it \in [SUBSET (1..Len(s)) -> Seq(S)] : Folds(it, Len(s), <<>>, step)
        <3> HIDE DEF step
        <3> QED BY <1>2, <1>3, <1>4, FoldExists
    <2>2. ASSUME NEW t \in SUBSET (1..Len(s)), t # {}
          PROVE  step[Max(t)][it[t \ {Max(t)}]] = s[Max(t)] \o it[t \ {Max(t)}]
        <3>1. it[t \ {Max(t)}] \in Seq(S) /\ Max(t) \in 1..Len(s)
            BY <1>5, <2>2
        <3> QED BY <3>1
    <2>3. it = [t \in SUBSET (1..Len(s)) |-> IF t = {} THEN <<>> ELSE step[Max(t)][it[t \ {Max(t)}]]]
        BY <2>1 DEF Folds
    <2> HIDE DEF step
    <2>4. Direct(it)
        BY <1>2, <2>2, <2>3
    <2> QED BY <2>4
<1>7. Direct(chosen)
    BY <1>6
<1> HIDE DEF chosen
<1>8. chosen \in [SUBSET (1..Len(s)) -> Seq(S)]
    <2>1. chosen = [t \in SUBSET (1..Len(s)) |-> chosen[t]] /\ chosen[{}] = <<>>
        BY <1>2, <1>7
    <2>2. \A t \in SUBSET (1..Len(s)) : t # {} /\ chosen[t \ {Max(t)}] \in Seq(S) => chosen[t] \in Seq(S)
        BY <1>2, <1>3, <1>5, <1>7
    <2> QED BY <1>2, <1>3, <2>1, <2>2, FoldTyped
<1>9. Folds(chosen, Len(s), <<>>, step)
    <2>1. ASSUME NEW t \in SUBSET (1..Len(s)), t # {}
          PROVE  chosen[t] = step[Max(t)][chosen[t \ {Max(t)}]]
        <3>1. chosen[t \ {Max(t)}] \in Seq(S) /\ Max(t) \in 1..Len(s)
            BY <1>5, <1>8, <2>1
        <3>2. chosen[t] = s[Max(t)] \o chosen[t \ {Max(t)}]
            BY <1>2, <1>7, <2>1
        <3> QED BY <3>1, <3>2
    <2>2. chosen[{}] = <<>> /\ chosen = [t \in SUBSET (1..Len(s)) |-> chosen[t]]
        BY <1>2, <1>7
    <2> HIDE DEF step
    <2> QED BY <2>1, <2>2 DEF Folds
<1> QED BY <1>1, <1>2, <1>8, <1>9

LEMMA StackGrows ==
    ASSUME NEW S, NEW s \in Seq(Seq(S)), NEW x \in Seq(S)
    PROVE  /\ FoldLeft(LAMBDA later, part : part \o later, <<>>, s) \in Seq(S)
           /\ FoldLeft(LAMBDA later, part : part \o later, <<>>, Append(s, x))
                = x \o FoldLeft(LAMBDA later, part : part \o later, <<>>, s)
<1> DEFINE t == Append(s, x)
           step(u) == [i \in 1..Len(u) |-> [v \in Seq(S) |-> u[i] \o v]]
<1>1. /\ t \in Seq(Seq(S)) /\ Len(t) = Len(s) + 1 /\ Len(s) \in Nat
      /\ \A i \in 1..Len(s) : t[i] = s[i]
      /\ t[Len(t)] = x /\ Len(t) \in 1..Len(t)
    OBVIOUS
<1>2. PICK it :
        /\ it \in [SUBSET (1..Len(s)) -> Seq(S)]
        /\ Folds(it, Len(s), <<>>, step(s))
        /\ FoldLeft(LAMBDA later, part : part \o later, <<>>, s) = it[1..Len(s)]
    BY FoldOfStack, Zenon
<1>3. PICK too :
        /\ Folds(too, Len(t), <<>>, step(t))
        /\ FoldLeft(LAMBDA later, part : part \o later, <<>>, t) = too[1..Len(t)]
    <2> HIDE DEF t
    <2> QED BY <1>1, FoldOfStack, Zenon
<1> HIDE DEF t
<1>4. ASSUME NEW i \in 1..Len(s)
      PROVE  step(s)[i] = step(t)[i]
    <2>1. i \in 1..Len(t) /\ t[i] = s[i]
        BY <1>1
    <2> QED BY <2>1, Zenon
<1>5. PICK n \in Nat, m \in Nat : n = Len(s) /\ m = Len(t) /\ m = n + 1
    BY <1>1
<1> HIDE DEF step
<1>6. PICK one, other, none : one = step(s) /\ other = step(t) /\ none = <<>>
    OBVIOUS
<1>7. too[1..m] = step(t)[m][it[1..n]]
    <2>1. Folds(it, n, none, one) /\ Folds(too, m, none, other)
        BY <1>2, <1>3, <1>5, <1>6, Zenon
    <2>2. \A i \in 1..n : one[i] = other[i]
        BY <1>4, <1>5, <1>6, Zenon
    <2>3. m = n + 1
        BY <1>5
    <2>4. too[1..m] = other[m][it[1..n]]
        BY <2>1, <2>2, <2>3, FoldGrows
    <2> QED BY <1>6, <2>4, Zenon
<1>8. it[1..n] \in Seq(S)
    <2>1. 1..n \in SUBSET (1..Len(s))
        BY <1>5
    <2>2. it \in [SUBSET (1..Len(s)) -> Seq(S)]
        BY <1>2, Zenon
    <2> QED BY <2>1, <2>2
<1>9. step(t)[m][it[1..n]] = x \o it[1..n]
    <2>1. m \in 1..Len(t) /\ t[m] = x
        BY <1>1, <1>5, Zenon
    <2> QED BY <1>8, <2>1, Zenon DEF step
<1>10. FoldLeft(LAMBDA later, part : part \o later, <<>>, s) = it[1..n] /\ FoldLeft(LAMBDA later, part : part \o later, <<>>, t) = too[1..m]
    BY <1>2, <1>3, <1>5, Zenon
<1> QED BY <1>7, <1>8, <1>9, <1>10, Zenon DEF t

LEMMA StackOfNone == 
    ASSUME NEW S
    PROVE  FoldLeft(LAMBDA later, part : part \o later, <<>>, <<>>) = <<>>
<1>1. PICK s \in Seq(Seq(S)) : s = <<>> /\ Len(s) = 0
    BY EmptySeq
<1>2. PICK it \in [SUBSET (1..Len(s)) -> Seq(S)] :
        /\ Folds(it, Len(s), <<>>, [i \in 1..Len(s) |-> [v \in Seq(S) |-> s[i] \o v]])
        /\ FoldLeft(LAMBDA later, part : part \o later, <<>>, s) = it[1..Len(s)]
    BY FoldOfStack, Zenon
<1>3. Folds(it, Len(s), <<>>, [i \in 1..Len(s) |-> [v \in Seq(S) |-> s[i] \o v]])
    BY <1>2, Zenon
<1>4. \A step : Folds(it, 0, <<>>, step) => it[1..0] = <<>>
    BY FoldStep
<1>5. it[1..Len(s)] = <<>>
    BY <1>1, <1>3, <1>4, Zenon
<1> QED BY <1>1, <1>2, <1>5, Zenon

-----------------------------------------------------------------------------
(* Texts one after the other. *)
LEMMA FoldOfWhole ==
    ASSUME NEW S, NEW s \in Seq(Seq(S))
    PROVE  \E it \in [SUBSET (1..Len(s)) -> Seq(S)] :
             /\ Folds(it, Len(s), <<>>, [i \in 1..Len(s) |-> [v \in Seq(S) |-> v \o s[i]]])
             /\ FoldLeft(LAMBDA whole, part : whole \o part, <<>>, s) = it[1..Len(s)]
<1> DEFINE step == [i \in 1..Len(s) |-> [v \in Seq(S) |-> v \o s[i]]]
           Direct(it) == it = [t \in SUBSET DOMAIN s |->
                                 IF t = {} THEN <<>> ELSE it[t \ {Max(t)}] \o s[Max(t)]]
           chosen == CHOOSE x : Direct(x)
<1>1. FoldLeft(LAMBDA whole, part : whole \o part, <<>>, s) = chosen[DOMAIN s]
    BY Zenon DEF FoldLeft, MapThenFoldSet
<1>2. DOMAIN s = 1..Len(s) /\ Len(s) \in Nat /\ \A i \in 1..Len(s) : s[i] \in Seq(S)
    OBVIOUS
<1>3. <<>> \in Seq(S) /\ \A v \in Seq(S), x \in Seq(S) : v \o x \in Seq(S)
    OBVIOUS
<1>4. step \in [1..Len(s) -> [Seq(S) -> Seq(S)]]
    BY <1>2, <1>3
<1>5. \A t \in SUBSET (1..Len(s)) : t # {} => Max(t) \in 1..Len(s)
    BY <1>2, GreatestPosition
<1>6. \E it : Direct(it)
    <2>1. PICK it \in [SUBSET (1..Len(s)) -> Seq(S)] : Folds(it, Len(s), <<>>, step)
        <3> HIDE DEF step
        <3> QED BY <1>2, <1>3, <1>4, FoldExists
    <2>2. ASSUME NEW t \in SUBSET (1..Len(s)), t # {}
          PROVE  step[Max(t)][it[t \ {Max(t)}]] = it[t \ {Max(t)}] \o s[Max(t)]
        <3>1. it[t \ {Max(t)}] \in Seq(S) /\ Max(t) \in 1..Len(s)
            BY <1>5, <2>2
        <3> QED BY <3>1
    <2>3. it = [t \in SUBSET (1..Len(s)) |-> IF t = {} THEN <<>> ELSE step[Max(t)][it[t \ {Max(t)}]]]
        BY <2>1 DEF Folds
    <2> HIDE DEF step
    <2>4. Direct(it)
        BY <1>2, <2>2, <2>3
    <2> QED BY <2>4
<1>7. Direct(chosen)
    BY <1>6
<1> HIDE DEF chosen
<1>8. chosen \in [SUBSET (1..Len(s)) -> Seq(S)]
    <2>1. chosen = [t \in SUBSET (1..Len(s)) |-> chosen[t]] /\ chosen[{}] = <<>>
        BY <1>2, <1>7
    <2>2. \A t \in SUBSET (1..Len(s)) : t # {} /\ chosen[t \ {Max(t)}] \in Seq(S) => chosen[t] \in Seq(S)
        BY <1>2, <1>3, <1>5, <1>7
    <2> QED BY <1>2, <1>3, <2>1, <2>2, FoldTyped
<1>9. Folds(chosen, Len(s), <<>>, step)
    <2>1. ASSUME NEW t \in SUBSET (1..Len(s)), t # {}
          PROVE  chosen[t] = step[Max(t)][chosen[t \ {Max(t)}]]
        <3>1. chosen[t \ {Max(t)}] \in Seq(S) /\ Max(t) \in 1..Len(s)
            BY <1>5, <1>8, <2>1
        <3>2. chosen[t] = chosen[t \ {Max(t)}] \o s[Max(t)]
            BY <1>2, <1>7, <2>1
        <3> QED BY <3>1, <3>2
    <2>2. chosen[{}] = <<>> /\ chosen = [t \in SUBSET (1..Len(s)) |-> chosen[t]]
        BY <1>2, <1>7
    <2> HIDE DEF step
    <2> QED BY <2>1, <2>2 DEF Folds
<1> QED BY <1>1, <1>2, <1>8, <1>9

LEMMA WholeGrows ==
    ASSUME NEW S, NEW s \in Seq(Seq(S)), NEW x \in Seq(S)
    PROVE  /\ FoldLeft(LAMBDA whole, part : whole \o part, <<>>, s) \in Seq(S)
           /\ FoldLeft(LAMBDA whole, part : whole \o part, <<>>, Append(s, x))
                = FoldLeft(LAMBDA whole, part : whole \o part, <<>>, s) \o x
<1> DEFINE t == Append(s, x)
           step(u) == [i \in 1..Len(u) |-> [v \in Seq(S) |-> v \o u[i]]]
<1>1. /\ t \in Seq(Seq(S)) /\ Len(t) = Len(s) + 1 /\ Len(s) \in Nat
      /\ \A i \in 1..Len(s) : t[i] = s[i]
      /\ t[Len(t)] = x /\ Len(t) \in 1..Len(t)
    OBVIOUS
<1>2. PICK it :
        /\ it \in [SUBSET (1..Len(s)) -> Seq(S)]
        /\ Folds(it, Len(s), <<>>, step(s))
        /\ FoldLeft(LAMBDA whole, part : whole \o part, <<>>, s) = it[1..Len(s)]
    BY FoldOfWhole, Zenon
<1>3. PICK too :
        /\ Folds(too, Len(t), <<>>, step(t))
        /\ FoldLeft(LAMBDA whole, part : whole \o part, <<>>, t) = too[1..Len(t)]
    <2> HIDE DEF t
    <2> QED BY <1>1, FoldOfWhole, Zenon
<1> HIDE DEF t
<1>4. ASSUME NEW i \in 1..Len(s)
      PROVE  step(s)[i] = step(t)[i]
    <2>1. i \in 1..Len(t) /\ t[i] = s[i]
        BY <1>1
    <2> QED BY <2>1, Zenon
<1>5. PICK n \in Nat, m \in Nat : n = Len(s) /\ m = Len(t) /\ m = n + 1
    BY <1>1
<1> HIDE DEF step
<1>6. PICK one, other, none : one = step(s) /\ other = step(t) /\ none = <<>>
    OBVIOUS
<1>7. too[1..m] = step(t)[m][it[1..n]]
    <2>1. Folds(it, n, none, one) /\ Folds(too, m, none, other)
        BY <1>2, <1>3, <1>5, <1>6, Zenon
    <2>2. \A i \in 1..n : one[i] = other[i]
        BY <1>4, <1>5, <1>6, Zenon
    <2>3. m = n + 1
        BY <1>5
    <2>4. too[1..m] = other[m][it[1..n]]
        BY <2>1, <2>2, <2>3, FoldGrows
    <2> QED BY <1>6, <2>4, Zenon
<1>8. it[1..n] \in Seq(S)
    <2>1. 1..n \in SUBSET (1..Len(s))
        BY <1>5
    <2>2. it \in [SUBSET (1..Len(s)) -> Seq(S)]
        BY <1>2, Zenon
    <2> QED BY <2>1, <2>2
<1>9. step(t)[m][it[1..n]] = it[1..n] \o x
    <2>1. m \in 1..Len(t) /\ t[m] = x
        BY <1>1, <1>5, Zenon
    <2> QED BY <1>8, <2>1, Zenon DEF step
<1>10. FoldLeft(LAMBDA whole, part : whole \o part, <<>>, s) = it[1..n] /\ FoldLeft(LAMBDA whole, part : whole \o part, <<>>, t) = too[1..m]
    BY <1>2, <1>3, <1>5, Zenon
<1> QED BY <1>7, <1>8, <1>9, <1>10, Zenon DEF t

LEMMA WholeOfNone == 
    ASSUME NEW S
    PROVE  FoldLeft(LAMBDA whole, part : whole \o part, <<>>, <<>>) = <<>>
<1>1. PICK s \in Seq(Seq(S)) : s = <<>> /\ Len(s) = 0
    BY EmptySeq
<1>2. PICK it \in [SUBSET (1..Len(s)) -> Seq(S)] :
        /\ Folds(it, Len(s), <<>>, [i \in 1..Len(s) |-> [v \in Seq(S) |-> v \o s[i]]])
        /\ FoldLeft(LAMBDA whole, part : whole \o part, <<>>, s) = it[1..Len(s)]
    BY FoldOfWhole, Zenon
<1>3. Folds(it, Len(s), <<>>, [i \in 1..Len(s) |-> [v \in Seq(S) |-> v \o s[i]]])
    BY <1>2, Zenon
<1>4. \A step : Folds(it, 0, <<>>, step) => it[1..0] = <<>>
    BY FoldStep
<1>5. it[1..Len(s)] = <<>>
    BY <1>1, <1>3, <1>4, Zenon
<1> QED BY <1>1, <1>2, <1>5, Zenon

-----------------------------------------------------------------------------
(* Sequences taken from the front. *)

LEMMA RestOf ==
    ASSUME NEW S, NEW s \in Seq(S), NEW k \in Nat
    PROVE  SubSeq(s, k + 1, Len(s)) \in Seq(S)
OBVIOUS

LEMMA RestOfAll ==
    ASSUME NEW S, NEW s \in Seq(S)
    PROVE  SubSeq(s, 0 + 1, Len(s)) = s
OBVIOUS

LEMMA RestOfRead ==
    ASSUME NEW S, NEW s \in Seq(S)
    PROVE  SubSeq(s, Len(s) + 1, Len(s)) = <<>>
OBVIOUS

LEMMA RestFromNext ==
    ASSUME NEW S, NEW s \in Seq(S), NEW k \in Nat, k < Len(s)
    PROVE  SubSeq(s, k + 1, Len(s)) = <<s[k + 1]>> \o SubSeq(s, (k + 1) + 1, Len(s))
OBVIOUS

LEMMA RestIsTail ==
    ASSUME NEW S, NEW s \in Seq(S), s # <<>>
    PROVE  Tail(s) = SubSeq(s, (0 + 1) + 1, Len(s)) /\ Tail(s) \in Seq(S)
OBVIOUS

LEMMA OneThenRest ==
    ASSUME NEW S, NEW s \in Seq(S), NEW x \in S
    PROVE  /\ <<x>> \o s \in Seq(S) /\ <<x>> \o s # <<>>
           /\ (<<x>> \o s)[1] = x /\ Tail(<<x>> \o s) = s
OBVIOUS

LEMMA Joining ==
    ASSUME NEW S, NEW s \in Seq(S), NEW t \in Seq(S), NEW u \in Seq(S)
    PROVE  (s \o t) \o u = s \o (t \o u) /\ s \o t \in Seq(S)
OBVIOUS

LEMMA JoiningNone ==
    ASSUME NEW S, NEW s \in Seq(S)
    PROVE  <<>> \o s = s
OBVIOUS
=============================================================================
