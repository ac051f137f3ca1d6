------------------------------ MODULE NamePool ------------------------------
(***************************************************************************)
(* The pools of name.rs, in which strings are interned, and the handles    *)
(* (NameId) they give out for them.  A fork inherits the names its parent  *)
(* holds, with their handles; from then on each grows by itself, so that   *)
(* one index means different names in different pools.  A pool does not    *)
(* ask anyone which handles are its own: it tells by its lineage.          *)
(***************************************************************************)
EXTENDS Naturals, Sequences, FiniteSetsExt, SequencesExt

CONSTANTS
    Strings,    \* what may be interned
    Reserved,   \* RESERVED_NAMES
    MaxNames,   \* how many names a pool holds at most, u32::MAX - 1
    Identities, \* how many identities there are before they wrap, 2^32
    MaxPools    \* bound of the model: pools made in the process

ASSUME PoolAssumption ==
    /\ Reserved \in Seq(Strings)
    /\ \A i, j \in 1..Len(Reserved) : Reserved[i] = Reserved[j] => i = j
    /\ MaxNames \in Nat /\ 0 < Len(Reserved) /\ Len(Reserved) <= MaxNames
    /\ MaxPools \in Nat /\ Identities \in Nat /\ MaxPools + 2 <= Identities

VARIABLES
    pools,    \* the pools of the process, in the order they were made
    counter,  \* NEXT, the identity the next one takes
    meaning,  \* history: what each handle was given out for
    holders   \* history: the pools each handle is valid in

poolVars == <<pools, counter, meaning, holders>>

(* The pool every pool descends from. *)
Root == 1

(* Lineage is a sequence of [pool, end], index a function from the strings *)
(* that were interned.                                                     *)
Handle(pool, index) == [pool |-> pool, index |-> index]

-----------------------------------------------------------------------------
(* The oldest pool of the lineage that held the name at index. *)
Inherited(pool, index) == {k \in DOMAIN pool.lineage : index < pool.lineage[k].end}

origin(pool, index) ==
    IF Inherited(pool, index) = {} THEN pool.id
    ELSE pool.lineage[Min(Inherited(pool, index))].pool

Size(pool) == Len(pool.names)

owns(pool, h) == h.index < Size(pool) /\ h.pool = origin(pool, h.index)

(* What a handle means in a pool, if anything; names count from 0. *)
resolve(pool, h) == IF owns(pool, h) THEN {pool.names[h.index + 1]} ELSE {}

(* The handle of a string, if the pool knows it. *)
get(pool, name) ==
    IF name \in DOMAIN pool.index THEN {Handle(origin(pool, pool.index[name]), pool.index[name])} ELSE {}

-----------------------------------------------------------------------------
(* next_pool_id: the counter wraps, and passes over what is no identity. *)
NextIdentity == IF counter < 2 THEN 2 ELSE counter
TakeIdentity == Len(pools) < MaxPools /\ counter' = (counter + 1) % Identities

(* new: the reserved names are interned first, as names of the root. *)
New ==
    /\ TakeIdentity
    /\ LET indices == [n \in ToSet(Reserved) |-> (CHOOSE i \in DOMAIN Reserved : Reserved[i] = n) - 1]
       IN pools' = Append(pools, [id |-> NextIdentity, names |-> Reserved, index |-> indices,
                                  lineage |-> <<[pool |-> Root, end |-> Len(Reserved)]>>])
    /\ holders' = [h \in DOMAIN holders |->
                      IF h.pool = Root THEN holders[h] \union {Len(pools) + 1} ELSE holders[h]]
    /\ UNCHANGED meaning

(* A faulty form: a pool that inherited names is never named itself. *)
LineageOfRoot(pool) ==
    IF Len(pool.lineage) = 1 THEN Append(pool.lineage, [pool |-> pool.id, end |-> Size(pool)])
    ELSE pool.lineage

(* A pool that holds no names of its own is left out of the lineage. *)
Lineage(pool) ==
    IF Last(pool.lineage).end < Size(pool)
    THEN Append(pool.lineage, [pool |-> pool.id, end |-> Size(pool)])
    ELSE pool.lineage

Fork(p) ==
    /\ TakeIdentity
    /\ LET parent == pools[p]
       IN pools' = Append(pools, [id |-> NextIdentity, lineage |-> Lineage(parent),
                                  names |-> parent.names, index |-> parent.index])
    /\ holders' = [h \in DOMAIN holders |->
                      IF p \in holders[h] THEN holders[h] \union {Len(pools) + 1} ELSE holders[h]]
    /\ UNCHANGED meaning

(* intern, of a string that is new to the pool; one it knows changes       *)
(* nothing, as does one it has no room for.                                *)
Intern(p, name) ==
    LET pool == pools[p]
        h == Handle(pool.id, Size(pool))
    IN /\ name \notin DOMAIN pool.index
       /\ Size(pool) < MaxNames
       /\ pools' = [pools EXCEPT ![p] =
                       [id |-> pool.id, lineage |-> pool.lineage, names |-> Append(pool.names, name),
                        index |-> [n \in DOMAIN pool.index \union {name} |->
                                      IF n = name THEN Size(pool) ELSE pool.index[n]]]]
       /\ meaning' = [g \in DOMAIN meaning \union {h} |-> IF g = h THEN name ELSE meaning[g]]
       /\ holders' = [g \in DOMAIN holders \union {h} |-> IF g = h THEN {p} ELSE holders[g]]
       /\ UNCHANGED counter

(* The reserved handles are constants, there before any pool. *)
PoolInit ==
    /\ pools = <<>>
    /\ counter = 2
    /\ meaning = [h \in {Handle(Root, i - 1) : i \in DOMAIN Reserved} |-> Reserved[h.index + 1]]
    /\ holders = [h \in DOMAIN meaning |-> {}]

PoolNext ==
    \/ New
    \/ \E p \in DOMAIN pools : Fork(p) \/ \E name \in Strings : Intern(p, name)

PoolSpec == PoolInit /\ [][PoolNext]_poolVars

-----------------------------------------------------------------------------
(* A handle is valid in the pool that gave it out and in those forked from *)
(* one where it was valid, from then on, and nowhere else; there it means  *)
(* what it was given out for, and that string has no other handle; a pool  *)
(* gives out no others (NameId, fork and owns in name.rs).                 *)
HandlesAgree ==
    \A p \in DOMAIN pools :
        /\ \A h \in DOMAIN meaning : resolve(pools[p], h) = IF p \in holders[h] THEN {meaning[h]} ELSE {}
        /\ \A name \in Strings :
              get(pools[p], name) = {h \in DOMAIN meaning : p \in holders[h] /\ meaning[h] = name}

-----------------------------------------------------------------------------
(* What HandlesAgree rests on. *)
Indices(pool) == 0..(Size(pool) - 1)

IsPool(pool) ==
    pool \in [id : Nat, names : Seq(Strings), lineage : Seq([pool : Nat, end : Nat]), index : {pool.index}]

PoolTypeOK ==
    /\ pools \in Seq(ToSet(pools)) /\ Len(pools) <= MaxPools
    /\ \A p \in DOMAIN pools : IsPool(pools[p])
    /\ DOMAIN meaning \subseteq [pool : Nat, index : Nat]
    /\ meaning \in [DOMAIN meaning -> Strings]
    /\ holders \in [DOMAIN meaning -> SUBSET DOMAIN pools]

(* No two pools have the same identity. *)
OwnIdentities ==
    /\ Len(pools) < MaxPools => counter = Len(pools) + 2
    /\ \A p \in DOMAIN pools : pools[p].id = p + 1

(* The index says where a name is. *)
IndexFits(pool) ==
    /\ \A name \in DOMAIN pool.index :
          pool.index[name] \in Indices(pool) /\ pool.names[pool.index[name] + 1] = name
    /\ \A i \in Indices(pool) : pool.names[i + 1] \in DOMAIN pool.index /\ pool.index[pool.names[i + 1]] = i

(* What the pool with an identity holds, and the root. *)
Within(id, n) == IF id = Root THEN n <= Len(Reserved) ELSE id - 1 \in DOMAIN pools /\ n <= Size(pools[id - 1])

(* A lineage speaks of names this pool and that one hold. *)
LineageFits(pool) ==
    /\ pool.lineage # <<>>
    /\ \A k \in DOMAIN pool.lineage :
          pool.lineage[k].end <= Size(pool) /\ Within(pool.lineage[k].pool, pool.lineage[k].end)

(* Handles are given out for names that are held, and all of the root's.   *)
HandlesGiven ==
    /\ \A h \in DOMAIN meaning : Within(h.pool, h.index + 1)
    /\ \A i \in 1..Len(Reserved) :
          Handle(Root, i - 1) \in DOMAIN meaning /\ meaning[Handle(Root, i - 1)] = Reserved[i]

HandlesFit(p) ==
    /\ \A h \in DOMAIN meaning :
          /\ owns(pools[p], h) <=> p \in holders[h]
          /\ owns(pools[p], h) => pools[p].names[h.index + 1] = meaning[h]
    /\ \A i \in Indices(pools[p]) : Handle(origin(pools[p], i), i) \in DOMAIN meaning

PoolIInv ==
    /\ PoolTypeOK /\ OwnIdentities /\ HandlesGiven
    /\ \A p \in DOMAIN pools : IndexFits(pools[p]) /\ LineageFits(pools[p]) /\ HandlesFit(p)
=============================================================================
