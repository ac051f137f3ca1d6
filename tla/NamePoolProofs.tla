--------------------------- MODULE NamePoolProofs ---------------------------
(***************************************************************************)
(* Proofs about NamePool for any strings, any number of pools and however  *)
(* they are forked: a handle means one string wherever it is valid, and is *)
(* valid in the pools it was inherited by, alone.                          *)
(***************************************************************************)
EXTENDS NamePool, SequenceLemmas

-----------------------------------------------------------------------------
(* The origin of an index: the oldest pool of the lineage that held it, or *)
(* else the pool itself.                                                   *)
IsOrigin(pool, i, id) ==
    \/ id = pool.id /\ \A k \in 1..Len(pool.lineage) : pool.lineage[k].end <= i
    \/ \E k \in 1..Len(pool.lineage) :
          /\ id = pool.lineage[k].pool /\ i < pool.lineage[k].end
          /\ \A l \in 1..Len(pool.lineage) : l < k => pool.lineage[l].end <= i

LEMMA LineageFacts ==
    ASSUME NEW pool, IsPool(pool)
    PROVE  /\ pool.lineage \in Seq([pool : Nat, end : Nat]) /\ pool.names \in Seq(Strings) /\ pool.id \in Nat
           /\ Len(pool.lineage) \in Nat /\ DOMAIN pool.lineage = 1..Len(pool.lineage)
           /\ \A k \in 1..Len(pool.lineage) : pool.lineage[k].pool \in Nat /\ pool.lineage[k].end \in Nat
           /\ Size(pool) \in Nat /\ DOMAIN pool.names = 1..Size(pool)
           /\ \A k \in 1..Size(pool) : pool.names[k] \in Strings
<1>1. PICK lineage, names, id : lineage = pool.lineage /\ names = pool.names /\ id = pool.id
    OBVIOUS
<1>2. lineage \in Seq([pool : Nat, end : Nat]) /\ names \in Seq(Strings) /\ id \in Nat
    BY <1>1 DEF IsPool
<1>3. Len(lineage) \in Nat /\ DOMAIN lineage = 1..Len(lineage) /\ \A k \in 1..Len(lineage) : lineage[k] \in [pool : Nat, end : Nat]
    <2>1. PICK E : E = [pool : Nat, end : Nat]
        OBVIOUS
    <2>2. lineage \in Seq(E)
        BY <1>2, <2>1
    <2>3. Len(lineage) \in Nat /\ DOMAIN lineage = 1..Len(lineage) /\ \A k \in 1..Len(lineage) : lineage[k] \in E
        BY <2>2
    <2> QED BY <2>1, <2>3
<1>4. Len(names) \in Nat /\ DOMAIN names = 1..Len(names) /\ \A k \in 1..Len(names) : names[k] \in Strings
    BY <1>2
<1> QED BY <1>1, <1>2, <1>3, <1>4 DEF Size

LEMMA OriginOf ==
    ASSUME NEW pool, IsPool(pool), NEW i \in Nat
    PROVE  IsOrigin(pool, i, origin(pool, i))
<1>1. PICK n, lineage : n \in Nat /\ n = Len(pool.lineage) /\ lineage = pool.lineage /\ DOMAIN lineage = 1..n
                        /\ \A k \in 1..n : lineage[k].end \in Nat
    BY LineageFacts
<1>2. PICK S : S = Inherited(pool, i) /\ S \in SUBSET Nat /\ S \subseteq 1..n
               /\ \A k \in 1..n : k \in S <=> i < lineage[k].end
    <2>1. Inherited(pool, i) = {k \in 1..n : i < lineage[k].end}
        BY <1>1 DEF Inherited
    <2>2. PICK T : T = {k \in 1..n : i < lineage[k].end}
        OBVIOUS
    <2>3. T \in SUBSET Nat /\ T \subseteq 1..n /\ \A k \in 1..n : k \in T <=> i < lineage[k].end
        BY <1>1, <2>2
    <2> QED BY <2>1, <2>2, <2>3
<1>3. CASE S = {}
    BY <1>1, <1>2, <1>3 DEF IsOrigin, origin
<1>4. CASE S # {}
    <2>1. \E x \in S : \A y \in S : x <= y
        BY <1>2, <1>4, FirstPosition
    <2>2. PICK m : m = Min(S) /\ m \in S /\ \A y \in S : m <= y
        BY <2>1 DEF Min
    <2>3. origin(pool, i) = lineage[m].pool
        BY <1>1, <1>2, <1>4, <2>2 DEF origin
    <2>4. i < lineage[m].end /\ m \in 1..n
        BY <1>1, <1>2, <2>2
    <2>5. \A l \in 1..n : l < m => lineage[l].end <= i
        BY <1>1, <1>2, <2>2, <2>4
    <2> QED BY <1>1, <2>3, <2>4, <2>5 DEF IsOrigin
<1> QED BY <1>3, <1>4

LEMMA OneOrigin ==
    ASSUME NEW pool, IsPool(pool), NEW i \in Nat, NEW a, NEW b, IsOrigin(pool, i, a), IsOrigin(pool, i, b)
    PROVE  a = b
<1>1. PICK n, lineage : n \in Nat /\ n = Len(pool.lineage) /\ lineage = pool.lineage
                        /\ \A k \in 1..n : lineage[k].end \in Nat
    BY LineageFacts
<1>2. CASE \A k \in 1..n : lineage[k].end <= i
    BY <1>1, <1>2 DEF IsOrigin
<1>3. CASE \E k \in 1..n : i < lineage[k].end
    <2>1. PICK k \in 1..n : a = lineage[k].pool /\ i < lineage[k].end /\ \A x \in 1..n : x < k => lineage[x].end <= i
        BY <1>1, <1>3 DEF IsOrigin
    <2>2. PICK l \in 1..n : b = lineage[l].pool /\ i < lineage[l].end /\ \A x \in 1..n : x < l => lineage[x].end <= i
        BY <1>1, <1>3 DEF IsOrigin
    <2>3. k = l
        BY <1>1, <2>1, <2>2
    <2> QED BY <2>1, <2>2, <2>3
<1> QED BY <1>1, <1>2, <1>3

(* The origin of a name depends on the identity and the lineage alone.     *)
LEMMA SameOrigin ==
    ASSUME NEW pool, NEW other, other.id = pool.id, other.lineage = pool.lineage, NEW i
    PROVE  origin(other, i) = origin(pool, i)
BY DEF origin, Inherited

-----------------------------------------------------------------------------
(* HandlesAgree says what PoolIInv says, of handles and strings as sets.       *)
LEMMA Agreeing == PoolIInv => HandlesAgree
<1> SUFFICES ASSUME PoolIInv, NEW p \in DOMAIN pools
             PROVE  /\ \A h \in DOMAIN meaning : resolve(pools[p], h) = IF p \in holders[h] THEN {meaning[h]} ELSE {}
                    /\ \A name \in Strings :
                         get(pools[p], name) = {h \in DOMAIN meaning : p \in holders[h] /\ meaning[h] = name}
    BY DEF HandlesAgree
<1>1. PICK pool : pool = pools[p] /\ IsPool(pool) /\ IndexFits(pool)
    BY DEF PoolIInv, PoolTypeOK
<1>2. /\ \A h \in DOMAIN meaning : h \in [pool : Nat, index : Nat]
      /\ \A h \in DOMAIN meaning : owns(pool, h) <=> p \in holders[h]
      /\ \A h \in DOMAIN meaning : owns(pool, h) => pool.names[h.index + 1] = meaning[h]
      /\ \A i \in Indices(pool) : Handle(origin(pool, i), i) \in DOMAIN meaning
    BY <1>1 DEF PoolIInv, PoolTypeOK, HandlesFit
<1>3. Size(pool) \in Nat
    BY <1>1, LineageFacts
<1>4. ASSUME NEW h \in DOMAIN meaning
      PROVE  resolve(pools[p], h) = IF p \in holders[h] THEN {meaning[h]} ELSE {}
    BY <1>1, <1>2 DEF resolve
<1>5. ASSUME NEW name \in Strings
      PROVE  get(pools[p], name) = {h \in DOMAIN meaning : p \in holders[h] /\ meaning[h] = name}
    <2>1. ASSUME NEW g \in DOMAIN meaning, p \in holders[g], meaning[g] = name
          PROVE  name \in DOMAIN pool.index /\ g = Handle(origin(pool, pool.index[name]), pool.index[name])
        <3>1. g \in [pool : Nat, index : Nat] /\ owns(pool, g) /\ pool.names[g.index + 1] = name
            BY <1>2, <2>1
        <3>2. g.index \in Indices(pool) /\ g.pool = origin(pool, g.index)
            BY <1>3, <3>1 DEF owns, Indices
        <3>3. name \in DOMAIN pool.index /\ pool.index[name] = g.index
            BY <1>1, <3>1, <3>2 DEF IndexFits
        <3>4. g = Handle(g.pool, g.index)
            BY <3>1 DEF Handle
        <3> QED BY <3>2, <3>3, <3>4
    <2>2. CASE name \notin DOMAIN pool.index
        BY <1>1, <2>1, <2>2 DEF get
    <2>3. CASE name \in DOMAIN pool.index
        <3>1. PICK i : i = pool.index[name] /\ i \in Indices(pool) /\ pool.names[i + 1] = name
            BY <1>1, <2>3 DEF IndexFits
        <3>2. PICK o : o = origin(pool, i)
            OBVIOUS
        <3>3. PICK h : h = Handle(o, i) /\ h \in DOMAIN meaning /\ h.index = i /\ h.pool = o
            <4>1. Handle(o, i) \in DOMAIN meaning
                BY <1>2, <3>1, <3>2
            <4>2. Handle(o, i).index = i /\ Handle(o, i).pool = o
                BY DEF Handle
            <4> QED BY <4>1, <4>2
        <3>4. owns(pool, h)
            BY <1>3, <3>1, <3>2, <3>3 DEF owns, Indices
        <3>5. p \in holders[h] /\ meaning[h] = name
            BY <1>2, <3>1, <3>3, <3>4
        <3>6. get(pools[p], name) = {h}
            BY <1>1, <2>3, <3>1, <3>2, <3>3 DEF get
        <3>7. \A g \in DOMAIN meaning : p \in holders[g] /\ meaning[g] = name => g = h
            BY <2>1, <3>1, <3>2, <3>3
        <3> QED BY <3>3, <3>5, <3>6, <3>7
    <2> QED BY <2>2, <2>3
<1> QED BY <1>4, <1>5

-----------------------------------------------------------------------------
(* PoolIInv is inductive. *)
LEMMA InitHolds == PoolInit => PoolIInv
<1> SUFFICES ASSUME PoolInit PROVE PoolIInv
    OBVIOUS
<1> DEFINE roots == {Handle(Root, i - 1) : i \in DOMAIN Reserved}
<1>1. pools = <<>> /\ DOMAIN pools = {} /\ Len(pools) = 0 /\ pools \in Seq(ToSet(pools))
    BY DEF PoolInit
<1>2. DOMAIN Reserved = 1..Len(Reserved) /\ \A i \in 1..Len(Reserved) : Reserved[i] \in Strings
    BY PoolAssumption
<1>3. DOMAIN meaning = roots /\ \A h \in roots : meaning[h] = Reserved[h.index + 1]
    BY DEF PoolInit
<1>4. ASSUME NEW h \in roots
      PROVE  h \in [pool : Nat, index : Nat] /\ h.pool = Root /\ h.index + 1 \in 1..Len(Reserved)
    <2>1. PICK i \in 1..Len(Reserved) : h = Handle(Root, i - 1)
        BY <1>2
    <2> QED BY <1>2, <2>1, PoolAssumption DEF Handle, Root
<1>5. \A i \in 1..Len(Reserved) : Handle(Root, i - 1) \in roots /\ Handle(Root, i - 1).index = i - 1
    BY <1>2 DEF Handle
<1> HIDE DEF roots
<1>6. holders \in [DOMAIN meaning -> SUBSET DOMAIN pools]
    BY DEF PoolInit
<1>7. meaning \in [DOMAIN meaning -> Strings]
    <2>1. meaning = [h \in DOMAIN meaning |-> meaning[h]]
        BY DEF PoolInit
    <2> QED BY <1>2, <1>3, <1>4, <2>1
<1>8. PoolTypeOK
    BY <1>1, <1>3, <1>4, <1>6, <1>7, PoolAssumption DEF PoolTypeOK
<1>9. HandlesGiven
    <2>1. \A i \in 1..Len(Reserved) : Reserved[i - 1 + 1] = Reserved[i]
        BY PoolAssumption
    <2> QED BY <1>3, <1>4, <1>5, <2>1 DEF HandlesGiven, Within
<1>10. OwnIdentities
    BY <1>1 DEF OwnIdentities, PoolInit
<1> QED BY <1>1, <1>8, <1>9, <1>10 DEF PoolIInv

(* A sequence is one over what it holds. *)
LEMMA OfItsOwn ==
    ASSUME NEW S, NEW s \in Seq(S)
    PROVE  s \in Seq(ToSet(s))
<1>1. Len(s) \in Nat /\ DOMAIN s = 1..Len(s) /\ s = [i \in DOMAIN s |-> s[i]]
    OBVIOUS
<1>2. \A i \in 1..Len(s) : s[i] \in ToSet(s)
    BY <1>1 DEF ToSet
<1> QED BY <1>1, <1>2, ASequence

(* What the state says of the pools there are. *)
LEMMA PoolFacts ==
    ASSUME PoolIInv
    PROVE  /\ Len(pools) \in Nat /\ DOMAIN pools = 1..Len(pools) /\ Len(pools) <= MaxPools
           /\ \A q \in 1..Len(pools) : /\ IsPool(pools[q]) /\ pools[q].id = q + 1 /\ Size(pools[q]) \in Nat
                                       /\ IndexFits(pools[q]) /\ LineageFits(pools[q]) /\ HandlesFit(q)
           /\ \A h \in DOMAIN meaning : /\ h \in [pool : Nat, index : Nat] /\ meaning[h] \in Strings
                                        /\ holders[h] \subseteq 1..Len(pools) /\ Within(h.pool, h.index + 1)
           /\ DOMAIN holders = DOMAIN meaning
<1>1. PICK S : S = ToSet(pools)
    OBVIOUS
<1>2. pools \in Seq(S)
    BY <1>1 DEF PoolIInv, PoolTypeOK
<1>3. Len(pools) \in Nat /\ DOMAIN pools = 1..Len(pools)
    BY <1>2
<1> QED BY <1>3, LineageFacts DEF PoolIInv, PoolTypeOK, OwnIdentities, HandlesGiven

(* What a pool holds is still held in pools that hold no less. *)
LEMMA StillWithin ==
    ASSUME PoolIInv, \A q \in 1..Len(pools) : q \in DOMAIN pools' /\ Size(pools[q]) <= Size(pools'[q]),
           \A q \in 1..Len(pools) : Size(pools'[q]) \in Nat,
           NEW id, NEW n \in Nat, Within(id, n)
    PROVE  Within(id, n)'
<1>1. DOMAIN pools = 1..Len(pools) /\ \A q \in 1..Len(pools) : Size(pools[q]) \in Nat
    BY PoolFacts
<1>2. CASE id = Root
    BY <1>2 DEF Within
<1>3. CASE id # Root
    <2>1. PICK q : q = id - 1 /\ q \in 1..Len(pools) /\ n <= Size(pools[q])
        BY <1>1, <1>3 DEF Within
    <2>2. q \in DOMAIN pools' /\ n <= Size(pools'[q])
        BY <1>1, <2>1
    <2> QED BY <1>3, <2>1, <2>2 DEF Within
<1> QED BY <1>2, <1>3

(* A pool is made, the names it has being known already.                   *)
LEMMA Making ==
    ASSUME PoolIInv, TakeIdentity, NEW new, IsPool(new), new.id = NextIdentity, IndexFits(new), LineageFits(new),
           pools' = Append(pools, new), meaning' = meaning,
           holders' = [h \in DOMAIN holders |->
                          IF owns(new, h) THEN holders[h] \union {Len(pools) + 1} ELSE holders[h]],
           \A h \in DOMAIN meaning : owns(new, h) => new.names[h.index + 1] = meaning[h],
           \A i \in Indices(new) : Handle(origin(new, i), i) \in DOMAIN meaning
    PROVE  PoolIInv'
<1> DEFINE n == Len(pools)
<1>1. n \in Nat /\ DOMAIN pools = 1..n /\ n < MaxPools /\ n + 1 \in Nat
    BY PoolFacts DEF TakeIdentity
<1> HIDE DEF n
<1>2. PICK S : S = ToSet(pools) /\ pools \in Seq(S)
    BY DEF PoolIInv, PoolTypeOK
<1>3. DOMAIN pools' = 1..(n + 1) /\ Len(pools') = n + 1 /\ pools'[n + 1] = new /\ \A q \in 1..n : pools'[q] = pools[q]
    BY <1>1, <1>2 DEF n
<1>4. pools' \in Seq(ToSet(pools'))
    <2>1. PICK T : T = S \union {new}
        OBVIOUS
    <2>2. pools \in Seq(T) /\ new \in T
        <3>1. \A q \in 1..Len(pools) : pools[q] \in T
            BY <1>2, <2>1
        <3>2. pools = [q \in 1..Len(pools) |-> pools[q]] /\ Len(pools) \in Nat
            BY <1>2
        <3> QED BY <2>1, <3>1, <3>2, ASequence
    <2>3. PICK made : made = pools' /\ made \in Seq(T)
        BY <2>2
    <2>6. made \in Seq(ToSet(made))
        BY <2>3, OfItsOwn
    <2> QED BY <2>3, <2>6
<1>5. new.id = n + 2 /\ (n + 1 < MaxPools => counter' = n + 3)
    <2>1. counter = n + 2
        BY <1>1 DEF PoolIInv, OwnIdentities, n
    <2>2. n + 1 < MaxPools => n + 3 < Identities
        BY <1>1, PoolAssumption
    <2>3. \A c, m \in Nat : c < m => c % m = c
        OBVIOUS
    <2>4. ASSUME n + 1 < MaxPools PROVE (counter + 1) % Identities = n + 3
        <3>1. PICK c : c = n + 3 /\ c \in Nat /\ counter + 1 = c
            BY <1>1, <2>1
        <3>2. PICK m : m = Identities /\ m \in Nat
            BY PoolAssumption
        <3>3. c < m
            BY <2>2, <2>4, <3>1, <3>2
        <3>4. c % m = c
            BY <2>3, <3>1, <3>2, <3>3
        <3> QED BY <3>1, <3>2, <3>4
    <2> QED BY <1>1, <2>1, <2>4 DEF NextIdentity, TakeIdentity
<1>6. /\ \A q \in 1..n : /\ IsPool(pools[q]) /\ pools[q].id = q + 1 /\ Size(pools[q]) \in Nat
                         /\ IndexFits(pools[q]) /\ LineageFits(pools[q]) /\ HandlesFit(q)
      /\ \A h \in DOMAIN meaning : /\ h \in [pool : Nat, index : Nat] /\ meaning[h] \in Strings
                                   /\ holders[h] \subseteq 1..n /\ Within(h.pool, h.index + 1)
      /\ DOMAIN holders = DOMAIN meaning
    BY PoolFacts DEF n
<1>7. PoolTypeOK'
    <2>1. holders' \in [DOMAIN meaning -> SUBSET (1..(n + 1))]
        BY <1>1, <1>6 DEF n
    <2>2. \A q \in 1..(n + 1) : IsPool(pools'[q])
        BY <1>1, <1>3, <1>6
    <2>3. DOMAIN meaning \subseteq [pool : Nat, index : Nat] /\ meaning \in [DOMAIN meaning -> Strings]
        BY DEF PoolIInv, PoolTypeOK
    <2>4. Len(pools') <= MaxPools
        BY <1>1, <1>3, PoolAssumption
    <2>5. \A q \in DOMAIN pools' : IsPool(pools[q])'
        BY <1>3, <2>2 DEF IsPool
    <2> QED BY <1>3, <1>4, <2>1, <2>3, <2>4, <2>5 DEF PoolTypeOK
<1>8. OwnIdentities'
    BY <1>1, <1>3, <1>5, <1>6 DEF OwnIdentities
<1>9. ASSUME NEW id, NEW m \in Nat, Within(id, m) PROVE Within(id, m)'
    BY <1>1, <1>3, <1>6, <1>9, StillWithin DEF n
<1>10. HandlesGiven'
    BY <1>6, <1>9 DEF HandlesGiven, PoolIInv
<1>11. ASSUME NEW pool, IsPool(pool), LineageFits(pool) PROVE LineageFits(pool)'
    BY <1>9, <1>11, LineageFacts DEF LineageFits
<1>12. ASSUME NEW q \in 1..(n + 1)
       PROVE  IndexFits(pools'[q]) /\ LineageFits(pools[q])' /\ HandlesFit(q)'
    <2>1. CASE q = n + 1
        <3>1. LineageFits(new)'
            BY <1>11
        <3>2. \A h \in DOMAIN meaning : owns(new, h) <=> q \in holders'[h]
            BY <1>1, <1>6, <2>1 DEF n
        <3>3. HandlesFit(q)'
            BY <1>3, <2>1, <3>2 DEF HandlesFit
        <3> QED BY <1>3, <2>1, <3>1, <3>3
    <2>2. CASE q \in 1..n
        <3>1. LineageFits(pools[q])'
            BY <1>3, <1>6, <1>11, <2>2 DEF LineageFits
        <3>2. \A h \in DOMAIN meaning : q \in holders[h] <=> q \in holders'[h]
            BY <1>1, <1>6, <2>2 DEF n
        <3>3. HandlesFit(q)'
            <4>1. PICK pool : pool = pools[q] /\ pool = pools'[q]
                BY <1>3, <2>2
            <4>2. /\ \A h \in DOMAIN meaning : owns(pool, h) <=> q \in holders[h]
                  /\ \A h \in DOMAIN meaning : owns(pool, h) => pool.names[h.index + 1] = meaning[h]
                  /\ \A i \in Indices(pool) : Handle(origin(pool, i), i) \in DOMAIN meaning
                BY <1>6, <2>2, <4>1 DEF HandlesFit
            <4>3. \A h \in DOMAIN meaning : owns(pool, h) <=> q \in holders'[h]
                BY <3>2, <4>2
            <4>4. /\ \A h \in DOMAIN meaning' : owns(pools'[q], h) <=> q \in holders'[h]
                  /\ \A h \in DOMAIN meaning' : owns(pools'[q], h) => pools'[q].names[h.index + 1] = meaning'[h]
                  /\ \A i \in Indices(pools'[q]) : Handle(origin(pools'[q], i), i) \in DOMAIN meaning'
                BY <4>1, <4>2, <4>3
            <4> QED BY <4>4 DEF HandlesFit
        <3> QED BY <1>3, <1>6, <2>2, <3>1, <3>3
    <2> QED BY <1>1, <2>1, <2>2
<1> QED BY <1>3, <1>7, <1>8, <1>10, <1>12 DEF PoolIInv

(* A pool made anew holds the reserved names, whose origin is the root.    *)
LEMMA NewKeeps ==
    ASSUME PoolIInv, New
    PROVE  PoolIInv'
<1> DEFINE indices == [n \in ToSet(Reserved) |-> (CHOOSE i \in DOMAIN Reserved : Reserved[i] = n) - 1]
<1>1. PICK n : n = Len(Reserved) /\ n \in Nat /\ n > 0 /\ DOMAIN Reserved = 1..n /\ Reserved \in Seq(Strings)
    BY PoolAssumption
<1>2. PICK l : l = <<[pool |-> Root, end |-> n]>>
    OBVIOUS
<1>3. l \in Seq([pool : Nat, end : Nat]) /\ Len(l) = 1 /\ l[1].pool = Root /\ l[1].end = n /\ l # <<>>
    <2>1. PICK entry : entry = [pool |-> Root, end |-> n]
        OBVIOUS
    <2>2. entry.pool = Root /\ entry.end = n
        BY <2>1
    <2>3. PICK E : E = [pool : Nat, end : Nat]
        OBVIOUS
    <2>4. l = <<entry>> /\ entry \in E
        <3>1. Root \in Nat
            BY DEF Root
        <3>2. entry \in [pool : Nat, end : Nat]
            BY <1>1, <2>1, <3>1
        <3> QED BY <1>2, <2>1, <2>3, <3>2
    <2>5. l \in Seq(E) /\ Len(l) = 1 /\ l[1] = entry /\ l # <<>>
        BY <2>4
    <2> QED BY <2>2, <2>3, <2>5
<1>4. PICK ix : ix = indices
    OBVIOUS
<1>5. PICK new : /\ new = [id |-> NextIdentity, names |-> Reserved, index |-> ix, lineage |-> l]
                 /\ pools' = Append(pools, new)
    BY <1>1, <1>2, <1>4 DEF New
<1>6. new.id = NextIdentity /\ new.names = Reserved /\ new.index = ix /\ new.lineage = l
    BY <1>5
<1>7. NextIdentity \in Nat
    <2>1. Len(pools) \in Nat /\ counter = Len(pools) + 2
        BY PoolFacts DEF PoolIInv, OwnIdentities, New, TakeIdentity
    <2> QED BY <2>1 DEF NextIdentity
<1>8. IsPool(new)
    BY <1>1, <1>3, <1>5, <1>7 DEF IsPool
<1>9. Size(new) = n
    BY <1>1, <1>6 DEF Size
<1>10. IndexFits(new)
    <2>1. ASSUME NEW i \in 1..n PROVE Reserved[i] \in DOMAIN ix /\ ix[Reserved[i]] = i - 1
        <3>1. Reserved[i] \in ToSet(Reserved)
            BY <1>1 DEF ToSet
        <3>2. PICK j : j = CHOOSE x \in DOMAIN Reserved : Reserved[x] = Reserved[i]
            OBVIOUS
        <3>3. j \in 1..n /\ Reserved[j] = Reserved[i]
            BY <1>1, <3>2
        <3>4. j = i
            BY <1>1, <3>3, PoolAssumption
        <3> QED BY <1>4, <3>1, <3>2, <3>4
    <2>2. ASSUME NEW name \in DOMAIN ix PROVE \E i \in 1..n : name = Reserved[i]
        BY <1>1, <1>4 DEF ToSet
    <2>3. ASSUME NEW name \in DOMAIN ix PROVE ix[name] \in 0..(n - 1) /\ Reserved[ix[name] + 1] = name
        <3>1. PICK i \in 1..n : name = Reserved[i]
            BY <2>2
        <3> QED BY <1>1, <2>1, <3>1
    <2>4. ASSUME NEW i \in 0..(n - 1) PROVE Reserved[i + 1] \in DOMAIN ix /\ ix[Reserved[i + 1]] = i
        <3>1. i + 1 \in 1..n /\ i + 1 - 1 = i
            BY <1>1
        <3> QED BY <2>1, <3>1
    <2> QED BY <1>6, <1>9, <2>3, <2>4 DEF IndexFits, Indices
<1>11. LineageFits(new)
    BY <1>1, <1>3, <1>6, <1>9 DEF LineageFits, Within
<1>12. ASSUME NEW i \in Nat, i < n PROVE origin(new, i) = Root
    <2>1. IsOrigin(new, i, Root)
        BY <1>3, <1>6, <1>12 DEF IsOrigin
    <2> QED BY <1>8, <2>1, OriginOf, OneOrigin
<1>13. ASSUME NEW h \in DOMAIN meaning
       PROVE  /\ owns(new, h) <=> h.pool = Root
              /\ owns(new, h) => Reserved[h.index + 1] = meaning[h]
    <2>1. h \in [pool : Nat, index : Nat] /\ Within(h.pool, h.index + 1)
        BY PoolFacts
    <2>2. h.pool = Root => h.index < n
        BY <1>1, <2>1 DEF Within
    <2>3. owns(new, h) <=> h.pool = Root
        BY <1>9, <1>12, <2>1, <2>2 DEF owns
    <2>4. ASSUME owns(new, h) PROVE Reserved[h.index + 1] = meaning[h]
        <3>1. PICK i : i = h.index + 1 /\ i \in 1..n
            BY <1>1, <1>9, <2>1, <2>4 DEF owns
        <3>2. h = Handle(Root, i - 1)
            BY <2>1, <2>3, <2>4, <3>1 DEF Handle
        <3>3. meaning[Handle(Root, i - 1)] = Reserved[i]
            BY <1>1, <3>1 DEF PoolIInv, HandlesGiven
        <3> QED BY <3>1, <3>2, <3>3
    <2> QED BY <2>3, <2>4
<1>14. ASSUME NEW i \in Indices(new) PROVE Handle(origin(new, i), i) \in DOMAIN meaning
    <2>1. i \in Nat /\ i < n /\ i + 1 \in 1..n /\ i + 1 - 1 = i
        BY <1>1, <1>9 DEF Indices
    <2>2. Handle(Root, i + 1 - 1) \in DOMAIN meaning
        BY <1>1, <2>1 DEF PoolIInv, HandlesGiven
    <2> QED BY <1>12, <2>1, <2>2
<1>15. holders' = [h \in DOMAIN holders |-> IF owns(new, h) THEN holders[h] \union {Len(pools) + 1} ELSE holders[h]]
    BY <1>13, PoolFacts DEF New
<1>16. TakeIdentity /\ meaning' = meaning
    BY DEF New
<1>17. \A h \in DOMAIN meaning : owns(new, h) => new.names[h.index + 1] = meaning[h]
    BY <1>6, <1>13
<1>18. \A i \in Indices(new) : Handle(origin(new, i), i) \in DOMAIN meaning
    BY <1>14
<1> QED BY <1>5, <1>6, <1>8, <1>10, <1>11, <1>15, <1>16, <1>17, <1>18, Making

(* A fork holds the names of its parent, of the same origin each.          *)
LEMMA ForkKeeps ==
    ASSUME PoolIInv, NEW p \in DOMAIN pools, Fork(p)
    PROVE  PoolIInv'
<1>1. PICK parent : parent = pools[p] /\ IsPool(parent) /\ Size(parent) \in Nat /\ parent.id = p + 1
                    /\ IndexFits(parent) /\ LineageFits(parent) /\ HandlesFit(p)
    BY PoolFacts
<1>2. p \in Nat /\ p >= 1
    BY PoolFacts
<1>3. PICK n, l, m, ln : /\ n = Size(parent) /\ n \in Nat /\ l = parent.lineage /\ m = Len(l) /\ m \in Nat /\ m > 0
                         /\ ln = Lineage(parent)
                         /\ \A k \in 1..m : l[k].pool \in Nat /\ l[k].end \in Nat /\ l[k].end <= n
                                            /\ Within(l[k].pool, l[k].end)
    <2>1. parent.lineage \in Seq([pool : Nat, end : Nat])
        BY <1>1, LineageFacts
    <2>2. PICK E : E = [pool : Nat, end : Nat]
        OBVIOUS
    <2>3. PICK x : x = parent.lineage /\ x \in Seq(E) /\ x # <<>>
        BY <1>1, <2>1, <2>2 DEF LineageFits
    <2>4. Len(x) \in Nat /\ Len(x) > 0
        BY <2>3
    <2> QED BY <1>1, <2>3, <2>4, LineageFacts DEF LineageFits
<1>4. PICK E : E = [pool : Nat, end : Nat] /\ l \in Seq(E)
    BY <1>1, <1>3, LineageFacts
<1>5. PICK entry : entry \in E /\ entry = [pool |-> parent.id, end |-> n] /\ entry.pool = parent.id /\ entry.end = n
    <2>1. PICK x : x = [pool |-> parent.id, end |-> n]
        OBVIOUS
    <2>2. parent.id \in Nat /\ n \in Nat
        BY <1>1, <1>2, <1>3
    <2>3. x \in [pool : Nat, end : Nat]
        BY <2>1, <2>2
    <2>4. x \in E
        BY <1>4, <2>3
    <2>5. x.pool = parent.id /\ x.end = n
        BY <2>1
    <2> QED BY <2>1, <2>4, <2>5
<1>6. \/ ln = l /\ l[m].end = n
      \/ ln = Append(l, entry)
    <2>1. Last(l) = l[m]
        BY <1>3 DEF Last
    <2>2. l[m].end <= n /\ l[m].end \in Nat
        BY <1>3
    <2>3. CASE l[m].end < n
        BY <1>1, <1>3, <1>5, <2>1, <2>3 DEF Lineage
    <2>4. CASE ~(l[m].end < n)
        BY <1>1, <1>3, <2>1, <2>2, <2>4 DEF Lineage
    <2> QED BY <2>3, <2>4
<1>7. PICK new : /\ new = [id |-> NextIdentity, lineage |-> ln, names |-> parent.names, index |-> parent.index]
                 /\ pools' = Append(pools, new)
    BY <1>1, <1>3 DEF Fork
<1>8. new.id = NextIdentity /\ new.names = parent.names /\ new.index = parent.index /\ new.lineage = ln
    BY <1>7
<1>9. NextIdentity \in Nat
    <2>1. Len(pools) \in Nat /\ counter = Len(pools) + 2
        BY PoolFacts DEF PoolIInv, OwnIdentities, Fork, TakeIdentity
    <2> QED BY <2>1 DEF NextIdentity
<1>10. /\ ln \in Seq(E) /\ Len(ln) \in Nat /\ ln # <<>>
       /\ \A k \in 1..m : k \in 1..Len(ln) /\ ln[k] = l[k]
       /\ \A k \in 1..Len(ln) : k \in 1..m \/ (k = m + 1 /\ ln[k] = entry)
    <2>1. CASE ln = l
        BY <1>3, <1>4, <2>1
    <2>2. CASE ln = Append(l, entry)
        <3>1. ln \in Seq(E) /\ Len(ln) = m + 1 /\ ln[m + 1] = entry /\ \A k \in 1..m : ln[k] = l[k]
            BY <1>3, <1>4, <1>5, <2>2
        <3>2. ln # <<>>
            BY <1>3, <3>1
        <3> QED BY <1>3, <3>1, <3>2
    <2> QED BY <1>6, <2>1, <2>2
<1>11. IsPool(new)
    <2>1. parent.names \in Seq(Strings)
        BY <1>1, LineageFacts
    <2>2. ln \in Seq([pool : Nat, end : Nat])
        BY <1>4, <1>10
    <2> QED BY <1>7, <1>9, <2>1, <2>2 DEF IsPool
<1>12. Size(new) = n
    BY <1>3, <1>8 DEF Size
<1>13. IndexFits(new)
    BY <1>1, <1>3, <1>8, <1>12 DEF IndexFits, Indices
<1>14. LineageFits(new)
    <2>1. DOMAIN ln = 1..Len(ln)
        BY <1>10
    <2>2. Within(entry.pool, entry.end)
        BY <1>1, <1>2, <1>3, <1>5 DEF Within, Root
    <2>3. ASSUME NEW k \in 1..Len(ln) PROVE ln[k].end <= n /\ Within(ln[k].pool, ln[k].end)
        <3>1. CASE k \in 1..m
            BY <1>3, <1>10, <3>1
        <3>2. CASE k = m + 1 /\ ln[k] = entry
            BY <1>3, <1>5, <2>2, <3>2
        <3> QED BY <1>10, <3>1, <3>2
    <2> QED BY <1>8, <1>10, <1>12, <2>1, <2>3 DEF LineageFits
<1>15. ASSUME NEW i \in Nat, i < n PROVE origin(new, i) = origin(parent, i)
    <2>1. PICK o : o = origin(parent, i) /\ IsOrigin(parent, i, o)
        BY <1>1, OriginOf
    <2>2. IsOrigin(new, i, o)
        <3>1. parent.lineage = l /\ Len(l) = m
            BY <1>3
        <3>2. \/ o = parent.id /\ \A k \in 1..m : l[k].end <= i
              \/ \E k \in 1..m : o = l[k].pool /\ i < l[k].end /\ \A j \in 1..m : j < k => l[j].end <= i
            BY <2>1, <3>1 DEF IsOrigin
        <3>3. ASSUME \E k \in 1..m : o = l[k].pool /\ i < l[k].end /\ \A j \in 1..m : j < k => l[j].end <= i
              PROVE  IsOrigin(new, i, o)
            <4>1. PICK k \in 1..m : o = l[k].pool /\ i < l[k].end /\ \A j \in 1..m : j < k => l[j].end <= i
                BY <3>3
            <4>2. k \in 1..Len(ln) /\ ln[k] = l[k]
                BY <1>10
            <4>3. \A j \in 1..Len(ln) : j < k => ln[j].end <= i
                BY <1>3, <1>10, <4>1
            <4> QED BY <1>8, <4>1, <4>2, <4>3 DEF IsOrigin
        <3>4. ASSUME o = parent.id, \A k \in 1..m : l[k].end <= i
              PROVE  IsOrigin(new, i, o)
            <4>1. ln = Append(l, entry)
                <5>1. m \in 1..m
                    BY <1>3
                <5> QED BY <1>3, <1>6, <1>15, <3>4, <5>1
            <4>2. m + 1 \in 1..Len(ln) /\ ln[m + 1] = entry
                BY <1>3, <1>4, <1>5, <4>1
            <4>3. \A j \in 1..Len(ln) : j < m + 1 => ln[j].end <= i
                BY <1>3, <1>10, <3>4
            <4> QED BY <1>5, <1>8, <1>15, <3>4, <4>2, <4>3 DEF IsOrigin
        <3> QED BY <3>2, <3>3, <3>4
    <2> QED BY <1>11, <2>1, <2>2, OriginOf, OneOrigin
<1>16. ASSUME NEW h \in DOMAIN meaning
       PROVE  /\ owns(new, h) <=> p \in holders[h]
              /\ owns(new, h) => new.names[h.index + 1] = meaning[h]
    <2>1. h \in [pool : Nat, index : Nat]
        BY PoolFacts
    <2>2. owns(new, h) <=> owns(parent, h)
        BY <1>3, <1>12, <1>15, <2>1 DEF owns
    <2>3. (owns(parent, h) <=> p \in holders[h]) /\ (owns(parent, h) => parent.names[h.index + 1] = meaning[h])
        BY <1>1 DEF HandlesFit
    <2> QED BY <1>8, <2>2, <2>3
<1>17. ASSUME NEW i \in Indices(new) PROVE Handle(origin(new, i), i) \in DOMAIN meaning
    <2>1. i \in Nat /\ i < n /\ i \in Indices(parent)
        BY <1>3, <1>12 DEF Indices
    <2>2. Handle(origin(parent, i), i) \in DOMAIN meaning
        BY <1>1, <2>1 DEF HandlesFit
    <2> QED BY <1>15, <2>1, <2>2
<1>18. holders' = [h \in DOMAIN holders |-> IF owns(new, h) THEN holders[h] \union {Len(pools) + 1} ELSE holders[h]]
    BY <1>16, PoolFacts DEF Fork
<1>19. TakeIdentity /\ meaning' = meaning
    BY DEF Fork
<1>20. \A h \in DOMAIN meaning : owns(new, h) => new.names[h.index + 1] = meaning[h]
    BY <1>16
<1>21. \A i \in Indices(new) : Handle(origin(new, i), i) \in DOMAIN meaning
    BY <1>17
<1> QED BY <1>7, <1>8, <1>11, <1>13, <1>14, <1>18, <1>19, <1>20, <1>21, Making

(* A name interned gets a handle no pool has, and no other pool owns.      *)
LEMMA InternKeeps ==
    ASSUME PoolIInv, NEW p \in DOMAIN pools, NEW name \in Strings, Intern(p, name)
    PROVE  PoolIInv'
<1> DEFINE top == Len(pools)
<1>1. top \in Nat /\ DOMAIN pools = 1..top /\ p \in 1..top /\ top <= MaxPools /\ top = Len(pools)
    BY PoolFacts
<1> HIDE DEF top
<1>2. PICK pool : pool = pools[p] /\ IsPool(pool) /\ pool.id = p + 1
                  /\ IndexFits(pool) /\ LineageFits(pool) /\ HandlesFit(p)
    BY PoolFacts
<1>3. PICK n, names : n = Size(pool) /\ n \in Nat /\ names = pool.names /\ names \in Seq(Strings) /\ n = Len(names)
    BY <1>2, LineageFacts DEF Size
<1>4. PICK h : h = Handle(pool.id, n)
    OBVIOUS
<1>5. h.pool = p + 1 /\ h.index = n /\ h \in [pool : Nat, index : Nat]
    BY <1>1, <1>2, <1>3, <1>4 DEF Handle
<1>6. PICK ix : ix = [x \in DOMAIN pool.index \union {name} |-> IF x = name THEN n ELSE pool.index[x]]
    OBVIOUS
<1>7. PICK new : /\ new = [id |-> pool.id, lineage |-> pool.lineage, names |-> Append(names, name), index |-> ix]
                 /\ pools' = [pools EXCEPT ![p] = new]
    BY <1>2, <1>3, <1>6 DEF Intern
<1>8. new.id = pool.id /\ new.lineage = pool.lineage /\ new.names = Append(names, name) /\ new.index = ix
    BY <1>7
<1>9. PICK S : S = ToSet(pools) /\ pools \in Seq(S)
    BY DEF PoolIInv, PoolTypeOK
<1>10. /\ Len(pools') = top /\ DOMAIN pools' = 1..top /\ pools'[p] = new
       /\ \A q \in 1..top : q # p => pools'[q] = pools[q]
       /\ pools' \in Seq(ToSet(pools'))
    <2>1. PICK T : T = S \union {new}
        OBVIOUS
    <2>2. pools = [q \in 1..top |-> pools[q]] /\ \A q \in 1..top : pools[q] \in T
        BY <1>1, <1>9, <2>1
    <2>3. PICK made : made = pools' /\ made = [q \in DOMAIN made |-> made[q]] /\ DOMAIN made = 1..top
                      /\ made[p] = new /\ \A q \in 1..top : q # p => made[q] = pools[q]
        BY <1>1, <1>7
    <2>4. \A q \in 1..top : made[q] \in T
        BY <1>1, <2>1, <2>2, <2>3
    <2>5. made \in Seq(T) /\ Len(made) = top
        BY <1>1, <2>3, <2>4, ASequence
    <2>6. made \in Seq(ToSet(made))
        BY <2>5, OfItsOwn
    <2> QED BY <2>3, <2>5, <2>6
<1>11. /\ \A g \in DOMAIN meaning : /\ g \in [pool : Nat, index : Nat] /\ meaning[g] \in Strings
                                    /\ holders[g] \subseteq 1..top /\ Within(g.pool, g.index + 1)
       /\ DOMAIN holders = DOMAIN meaning
    BY <1>1, PoolFacts
<1>12. ASSUME NEW m, Within(p + 1, m) PROVE m <= n
    <2>1. PICK c : c = p + 1 /\ c - 1 = p /\ c # Root
        BY <1>1 DEF Root
    <2>2. Within(c, m)
        BY <1>12, <2>1
    <2>3. m <= Size(pools[c - 1])
        BY <2>1, <2>2 DEF Within
    <2> QED BY <1>2, <1>3, <2>1, <2>3
<1>13. \A g \in DOMAIN meaning : g # h
    <2>1. SUFFICES ASSUME h \in DOMAIN meaning PROVE FALSE
        OBVIOUS
    <2>2. Within(p + 1, n + 1)
        BY <1>5, <1>11, <2>1
    <2>3. n + 1 <= n
        BY <1>12, <2>2
    <2> QED BY <1>3, <2>3
<1>14. /\ DOMAIN meaning' = DOMAIN meaning \union {h} /\ meaning'[h] = name
       /\ \A g \in DOMAIN meaning : meaning'[g] = meaning[g]
       /\ meaning' = [g \in DOMAIN meaning' |-> meaning'[g]]
    BY <1>2, <1>3, <1>4, <1>13 DEF Intern
<1>15. /\ DOMAIN holders' = DOMAIN meaning \union {h} /\ holders'[h] = {p}
       /\ \A g \in DOMAIN meaning : holders'[g] = holders[g]
       /\ holders' = [g \in DOMAIN holders' |-> holders'[g]]
    BY <1>2, <1>3, <1>4, <1>11, <1>13 DEF Intern
<1>16. Size(new) = n + 1 /\ \A i \in 1..n : new.names[i] = names[i]
    BY <1>3, <1>8 DEF Size
<1>17. new.names[n + 1] = name /\ new.names \in Seq(Strings)
    BY <1>3, <1>8
<1>18. IsPool(new)
    <2>1. pool.lineage \in Seq([pool : Nat, end : Nat]) /\ pool.id \in Nat
        BY <1>2, LineageFacts
    <2> QED BY <1>7, <1>8, <1>17, <2>1 DEF IsPool
<1>19. PoolTypeOK'
    <2>1. \A q \in DOMAIN pools' : IsPool(pools[q])'
        BY <1>10, <1>18, PoolFacts, <1>1 DEF IsPool
    <2>2. DOMAIN meaning' \subseteq [pool : Nat, index : Nat]
        BY <1>5, <1>11, <1>14
    <2>3. meaning' \in [DOMAIN meaning' -> Strings]
        BY <1>11, <1>14
    <2>4. holders' \in [DOMAIN meaning' -> SUBSET DOMAIN pools']
        <3>1. \A g \in DOMAIN meaning' : holders'[g] \in SUBSET (1..top)
            BY <1>1, <1>11, <1>14, <1>15
        <3> QED BY <1>10, <1>14, <1>15, <3>1
    <2> QED BY <1>1, <1>10, <2>1, <2>2, <2>3, <2>4 DEF PoolTypeOK
<1>20. OwnIdentities'
    BY <1>1, <1>2, <1>8, <1>10 DEF OwnIdentities, PoolIInv, Intern
<1>21. ASSUME NEW id, NEW m \in Nat, Within(id, m) PROVE Within(id, m)'
    <2>1. \A q \in 1..top : Size(pools[q]) \in Nat
        BY <1>1, PoolFacts
    <2>2. ASSUME NEW q \in 1..top
          PROVE  q \in DOMAIN pools' /\ Size(pools'[q]) \in Nat /\ Size(pools[q]) <= Size(pools'[q])
        <3>1. CASE q = p
            <4>1. pools'[q] = new /\ Size(new) = n + 1 /\ Size(pools[q]) = n
                BY <1>2, <1>3, <1>10, <1>16, <3>1
            <4> QED BY <1>3, <1>10, <4>1
        <3>2. CASE q # p
            <4>1. pools'[q] = pools[q] /\ Size(pools[q]) \in Nat
                BY <1>10, <2>1, <3>2
            <4>2. Size(pools'[q]) = Size(pools[q])
                BY <4>1
            <4> QED BY <1>10, <4>1, <4>2
        <3> QED BY <3>1, <3>2
    <2> QED BY <1>1, <1>21, <2>2, StillWithin
<1>22. ASSUME NEW m \in Nat, m <= n + 1 PROVE Within(p + 1, m)'
    <2>1. p + 1 - 1 = p /\ p + 1 # Root
        BY <1>1 DEF Root
    <2> QED BY <1>1, <1>10, <1>16, <1>22, <2>1 DEF Within
<1>23. HandlesGiven'
    <2>1. \A g \in DOMAIN meaning' : Within(g.pool, g.index + 1)'
        <3>1. ASSUME NEW g \in DOMAIN meaning PROVE Within(g.pool, g.index + 1)'
            <4>1. g.index + 1 \in Nat /\ Within(g.pool, g.index + 1)
                BY <1>11
            <4> QED BY <1>21, <4>1
        <3>2. Within(h.pool, h.index + 1)'
            BY <1>3, <1>5, <1>22
        <3> QED BY <1>14, <3>1, <3>2
    <2>2. \A i \in 1..Len(Reserved) : /\ Handle(Root, i - 1) \in DOMAIN meaning'
                                      /\ meaning'[Handle(Root, i - 1)] = Reserved[i]
        BY <1>14 DEF PoolIInv, HandlesGiven
    <2> QED BY <2>1, <2>2 DEF HandlesGiven
<1>24. IndexFits(new)
    <2>1. name \notin DOMAIN pool.index
        BY <1>2 DEF Intern
    <2>2. /\ \A x \in DOMAIN pool.index : pool.index[x] \in 0..(n - 1) /\ names[pool.index[x] + 1] = x
          /\ \A i \in 0..(n - 1) : names[i + 1] \in DOMAIN pool.index /\ pool.index[names[i + 1]] = i
        BY <1>2, <1>3 DEF IndexFits, Indices
    <2>3. /\ DOMAIN ix = DOMAIN pool.index \union {name} /\ ix[name] = n
          /\ \A x \in DOMAIN pool.index : ix[x] = pool.index[x]
        BY <1>6, <2>1
    <2>4. \A x \in DOMAIN ix : ix[x] \in 0..n /\ new.names[ix[x] + 1] = x
        <3>1. ASSUME NEW x \in DOMAIN pool.index PROVE ix[x] \in 0..n /\ new.names[ix[x] + 1] = x
            <4>1. PICK i : i = pool.index[x] /\ i \in 0..(n - 1) /\ names[i + 1] = x
                BY <2>2
            <4>2. i \in 0..n /\ i + 1 \in 1..n
                BY <1>3, <4>1
            <4> QED BY <1>16, <2>3, <4>1, <4>2
        <3>2. ix[name] \in 0..n /\ new.names[ix[name] + 1] = name
            BY <1>3, <1>17, <2>3
        <3> QED BY <2>3, <3>1, <3>2
    <2>5. \A i \in 0..n : new.names[i + 1] \in DOMAIN ix /\ ix[new.names[i + 1]] = i
        <3>1. ASSUME NEW i \in 0..(n - 1) PROVE new.names[i + 1] \in DOMAIN ix /\ ix[new.names[i + 1]] = i
            <4>1. i + 1 \in 1..n
                BY <1>3
            <4> QED BY <1>16, <2>2, <2>3, <4>1
        <3>2. new.names[n + 1] \in DOMAIN ix /\ ix[new.names[n + 1]] = n
            BY <1>17, <2>3
        <3> QED BY <1>3, <3>1, <3>2
    <2>6. Indices(new) = 0..n
        BY <1>3, <1>16 DEF Indices
    <2> QED BY <1>8, <2>4, <2>5, <2>6 DEF IndexFits
<1>25. ASSUME NEW x, IsPool(x), LineageFits(x), NEW y, y.lineage = x.lineage, Size(x) <= Size(y), Size(y) \in Nat
       PROVE  LineageFits(y)'
    <2>1. PICK m, held : m = Size(x) /\ m \in Nat /\ held = Size(y) /\ held \in Nat /\ m <= held
        BY <1>25, LineageFacts
    <2>2. \A k \in DOMAIN x.lineage : x.lineage[k].end \in Nat /\ x.lineage[k].end <= m
                                      /\ Within(x.lineage[k].pool, x.lineage[k].end)
        BY <1>25, <2>1, LineageFacts DEF LineageFits
    <2>3. \A k \in DOMAIN x.lineage : x.lineage[k].end <= held /\ Within(x.lineage[k].pool, x.lineage[k].end)'
        BY <1>21, <2>1, <2>2
    <2> QED BY <1>25, <2>1, <2>3 DEF LineageFits
<1>26. ASSUME NEW q \in 1..top, q # p
       PROVE  IndexFits(pools'[q]) /\ LineageFits(pools[q])' /\ HandlesFit(q)'
    <2>1. PICK other : other = pools[q] /\ other = pools'[q] /\ IsPool(other) /\ other.id = q + 1 /\ Size(other) \in Nat
                       /\ IndexFits(other) /\ LineageFits(other)
        BY <1>1, <1>10, <1>26, PoolFacts
    <2>2. /\ \A g \in DOMAIN meaning : owns(other, g) <=> q \in holders[g]
          /\ \A g \in DOMAIN meaning : owns(other, g) => other.names[g.index + 1] = meaning[g]
          /\ \A i \in Indices(other) : Handle(origin(other, i), i) \in DOMAIN meaning
        BY <1>1, <2>1, PoolFacts DEF HandlesFit
    <2>3. LineageFits(other)'
        BY <1>25, <2>1
    <2>4. ~owns(other, h)
        <3>1. SUFFICES ASSUME origin(other, n) = p + 1 PROVE FALSE
            BY <1>5 DEF owns
        <3>2. IsOrigin(other, n, p + 1)
            BY <1>3, <2>1, <3>1, OriginOf
        <3>3. p + 1 # q + 1
            BY <1>1, <1>26
        <3>4. PICK k \in 1..Len(other.lineage) : p + 1 = other.lineage[k].pool /\ n < other.lineage[k].end
            BY <2>1, <3>2, <3>3 DEF IsOrigin
        <3>5. PICK m : m = other.lineage[k].end /\ m \in Nat /\ n < m /\ Within(p + 1, m)
            BY <2>1, <3>4, LineageFacts DEF LineageFits
        <3>6. m <= n
            BY <1>12, <3>5
        <3> QED BY <1>3, <3>5, <3>6
    <2>5. HandlesFit(q)'
        <3>1. \A g \in DOMAIN meaning' : owns(other, g) <=> q \in holders'[g]
            BY <1>14, <1>15, <1>26, <2>2, <2>4
        <3>2. \A g \in DOMAIN meaning' : owns(other, g) => other.names[g.index + 1] = meaning'[g]
            BY <1>14, <2>2, <2>4
        <3>3. \A i \in Indices(other) : Handle(origin(other, i), i) \in DOMAIN meaning'
            BY <1>14, <2>2
        <3>4. /\ \A g \in DOMAIN meaning' : owns(pools'[q], g) <=> q \in holders'[g]
              /\ \A g \in DOMAIN meaning' : owns(pools'[q], g) => pools'[q].names[g.index + 1] = meaning'[g]
              /\ \A i \in Indices(pools'[q]) : Handle(origin(pools'[q], i), i) \in DOMAIN meaning'
            BY <2>1, <3>1, <3>2, <3>3
        <3> QED BY <3>4 DEF HandlesFit
    <2>6. LineageFits(pools[q])'
        BY <2>1, <2>3 DEF LineageFits
    <2> QED BY <2>1, <2>5, <2>6
<1>27. IndexFits(pools'[p]) /\ LineageFits(pools[p])' /\ HandlesFit(p)'
    <2>1. \A i : origin(new, i) = origin(pool, i)
        BY <1>8, SameOrigin
    <2>2. origin(pool, n) = p + 1
        <3>1. IsOrigin(pool, n, pool.id)
            BY <1>2, <1>3, LineageFacts DEF IsOrigin, LineageFits
        <3> QED BY <1>2, <1>3, <3>1, OriginOf, OneOrigin
    <2>3. /\ \A g \in DOMAIN meaning : owns(pool, g) <=> p \in holders[g]
          /\ \A g \in DOMAIN meaning : owns(pool, g) => names[g.index + 1] = meaning[g]
          /\ \A i \in Indices(pool) : Handle(origin(pool, i), i) \in DOMAIN meaning
        BY <1>2, <1>3 DEF HandlesFit
    <2>4. ASSUME NEW g \in DOMAIN meaning
          PROVE  /\ owns(new, g) <=> p \in holders'[g]
                 /\ owns(new, g) => new.names[g.index + 1] = meaning'[g]
        <3>1. PICK i : i = g.index /\ i \in Nat /\ g = Handle(g.pool, i)
            BY <1>11 DEF Handle
        <3>2. ~(i = n /\ g.pool = p + 1)
            BY <1>2, <1>4, <1>13, <3>1
        <3>3. owns(new, g) <=> i < n + 1 /\ g.pool = origin(pool, i)
            BY <1>16, <2>1, <3>1 DEF owns
        <3>4. owns(pool, g) <=> i < n /\ g.pool = origin(pool, i)
            BY <1>3, <3>1 DEF owns
        <3>5. owns(new, g) <=> owns(pool, g)
            BY <1>3, <2>2, <3>1, <3>2, <3>3, <3>4
        <3>6. ASSUME owns(new, g) PROVE new.names[g.index + 1] = meaning'[g]
            <4>1. i + 1 \in 1..n
                BY <1>3, <3>1, <3>4, <3>5, <3>6
            <4> QED BY <1>14, <1>16, <2>3, <3>1, <3>5, <3>6, <4>1
        <3> QED BY <1>15, <2>3, <3>5, <3>6
    <2>5. owns(new, h) /\ p \in holders'[h] /\ new.names[h.index + 1] = meaning'[h]
        BY <1>3, <1>5, <1>14, <1>15, <1>16, <1>17, <2>1, <2>2 DEF owns
    <2>6. ASSUME NEW i \in Indices(new) PROVE Handle(origin(new, i), i) \in DOMAIN meaning'
        <3>1. i \in 0..(n - 1) \/ i = n
            BY <1>3, <1>16, <2>6 DEF Indices
        <3>2. ASSUME i \in 0..(n - 1) PROVE Handle(origin(new, i), i) \in DOMAIN meaning'
            BY <1>3, <1>14, <2>1, <2>3, <3>2 DEF Indices
        <3>3. ASSUME i = n PROVE Handle(origin(new, i), i) \in DOMAIN meaning'
            BY <1>2, <1>4, <1>14, <2>1, <2>2, <3>3
        <3> QED BY <3>1, <3>2, <3>3
    <2>7. LineageFits(new)'
        <3>1. Size(pool) <= Size(new) /\ Size(new) \in Nat
            BY <1>3, <1>16
        <3> QED BY <1>2, <1>8, <1>25, <3>1
    <2>8. LineageFits(pools[p])'
        BY <1>10, <2>7 DEF LineageFits
    <2>9. /\ \A g \in DOMAIN meaning' : owns(pools'[p], g) <=> p \in holders'[g]
          /\ \A g \in DOMAIN meaning' : owns(pools'[p], g) => pools'[p].names[g.index + 1] = meaning'[g]
          /\ \A i \in Indices(pools'[p]) : Handle(origin(pools'[p], i), i) \in DOMAIN meaning'
        BY <1>10, <1>14, <2>4, <2>5, <2>6
    <2>10. HandlesFit(p)'
        BY <2>9 DEF HandlesFit
    <2> QED BY <1>10, <1>24, <2>8, <2>10
<1> QED BY <1>10, <1>19, <1>20, <1>23, <1>26, <1>27 DEF PoolIInv

LEMMA StepHolds == PoolIInv /\ [PoolNext]_poolVars => PoolIInv'
<1> SUFFICES ASSUME PoolIInv, [PoolNext]_poolVars PROVE PoolIInv'
    OBVIOUS
<1>1. CASE New
    BY <1>1, NewKeeps
<1>2. ASSUME NEW p \in DOMAIN pools, Fork(p) PROVE PoolIInv'
    BY <1>2, ForkKeeps
<1>3. ASSUME NEW p \in DOMAIN pools, NEW name \in Strings, Intern(p, name) PROVE PoolIInv'
    BY <1>3, InternKeeps
<1>4. CASE UNCHANGED poolVars
    BY <1>4 DEF poolVars, PoolIInv, PoolTypeOK, IsPool, OwnIdentities, IndexFits, Within, LineageFits, HandlesGiven, HandlesFit
<1> QED BY <1>1, <1>2, <1>3, <1>4 DEF PoolNext

(* Identities are never shared, the index of a pool says where its names   *)
(* are, a lineage speaks of names that are held, and the handles that were *)
(* given out are those the pools own (intern, fork and next_pool_id in     *)
(* name.rs).                                                               *)
THEOREM Invariant == PoolSpec => []PoolIInv
<1>1. PoolInit => PoolIInv
    BY InitHolds
<1>2. PoolIInv /\ [PoolNext]_poolVars => PoolIInv'
    BY StepHolds
<1> QED BY <1>1, <1>2, PTL DEF PoolSpec

(* However pools are made, forked and added to, a handle means one string  *)
(* wherever it is valid, and is valid in the pools it was inherited by,    *)
(* alone; a string has one handle in a pool (NameId, owns and resolve in   *)
(* name.rs).                                                               *)
THEOREM Agreement == PoolSpec => []HandlesAgree
BY Invariant, Agreeing, PTL
=============================================================================
