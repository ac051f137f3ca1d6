------------------------ MODULE XPointerFilterProofs ------------------------
(***************************************************************************)
(* Proofs about XPointerFilter for any documents, pointers and limit: what *)
(* is held back is within the limit, is held by the last part alone, and   *)
(* is given up for good once something went out.                           *)
(***************************************************************************)
EXTENDS XPointerFilter, SequenceLemmas, FiniteSetTheorems

-----------------------------------------------------------------------------
(* Documents and events. *)
LEMMA DocumentFacts ==
    ASSUME NEW D \in Documents \union Later
    PROVE  /\ D \in Seq(FilterEvents) /\ Len(D) \in Nat /\ Len(D) >= 1
           /\ D[1].kind = "StartDocument" /\ D[Len(D)].kind = "EndDocument"
<1>1. D \in Seq(FilterEvents) /\ IsDocument(D)
    BY FilterAssumption
<1>2. D # <<>>
    <2>1. SUFFICES ASSUME D = <<>> PROVE FALSE
        OBVIOUS
    <2>2. {i \in Elements(D) : Level(D, i) = 0} = {}
        BY <2>1 DEF Elements
    <2>3. Cardinality({i \in Elements(D) : Level(D, i) = 0}) = 1
        BY <1>1, Zenon DEF IsDocument
    <2>4. Cardinality({i \in Elements(D) : Level(D, i) = 0}) = 0
        BY <2>2, FS_EmptySet, Zenon
    <2> QED BY <2>3, <2>4
<1> QED BY <1>1, <1>2 DEF IsDocument

LEMMA EventFacts ==
    ASSUME FilterTypeOK
    PROVE  /\ Event \in FilterEvents
           /\ Event.kind \notin Frame => Event \in Contents /\ Event.chars \in Nat
           /\ Event.kind # "EndDocument" => at + 1 \in 1..Len(document)
           /\ Len(document) \in Nat
<1>1. /\ document \in Seq(FilterEvents) /\ Len(document) \in Nat
      /\ document[Len(document)].kind = "EndDocument" /\ at \in 1..Len(document)
    BY DocumentFacts DEF FilterTypeOK
<1>2. Event \in FilterEvents
    BY <1>1 DEF Event
<1> QED BY <1>1, <1>2, FilterAssumption DEF Event, Contents

(* What is held can be counted one event at a time. *)
LEMMA CharsGrow ==
    ASSUME NEW p \in Seq(Contents), NEW e \in Contents
    PROVE  CharsOf(p) \in Nat /\ CharsOf(Append(p, e)) = CharsOf(p) + e.chars
<1> DEFINE n == Len(p)
           q == Append(p, e)
           counts == [j \in DOMAIN p |-> p[j].chars]
           more == [j \in DOMAIN q |-> q[j].chars]
<1>1. \A x \in Contents : x.chars \in Nat
    BY FilterAssumption DEF Contents
<1>2. n \in Nat /\ DOMAIN p = 1..n /\ DOMAIN q = 1..(n + 1) /\ q[n + 1] = e /\ \A i \in 1..n : q[i] = p[i] /\ p[i] \in Contents
    OBVIOUS
<1> HIDE DEF n, q
<1>3. counts \in Seq(Nat) /\ Len(counts) = n
    <2>1. counts = [j \in DOMAIN counts |-> counts[j]] /\ DOMAIN counts = 1..n /\ \A i \in 1..n : counts[i] \in Nat
        BY <1>1, <1>2
    <2> HIDE DEF counts
    <2> QED BY <1>2, <2>1, ASequence
<1>4. more = Append(counts, e.chars)
    <2>1. /\ more = [j \in DOMAIN more |-> more[j]] /\ DOMAIN more = 1..(Len(counts) + 1)
          /\ more[Len(counts) + 1] = e.chars /\ \A i \in 1..Len(counts) : more[i] = counts[i]
        BY <1>2, <1>3
    <2> HIDE DEF counts, more
    <2> QED BY <1>1, <1>3, <2>1, GrownByOne
<1>5. Total(counts) \in Nat /\ Total(Append(counts, e.chars)) = Total(counts) + e.chars
    <2>1. e.chars \in Nat
        BY <1>1
    <2> HIDE DEF counts
    <2> QED BY <1>3, <2>1, SumGrows, Zenon DEF Total
<1>6. CharsOf(p) = Total(counts) /\ CharsOf(q) = Total(more)
    BY Zenon DEF CharsOf
<1> QED BY <1>4, <1>5, <1>6, Zenon DEF q

LEMMA CharsOfNone == CharsOf(<<>>) = 0
<1>1. [j \in DOMAIN <<>> |-> <<>>[j].chars] = <<>>
    OBVIOUS
<1>2. Total(<<>>) = 0
    BY SumOfNone, Zenon DEF Total
<1> QED BY <1>1, <1>2, Zenon DEF CharsOf

-----------------------------------------------------------------------------
(* A pointer's candidates are new ones. *)
Fresh == {Candidate(part) : part \in Parts}

LEMMA CandidatesAreFresh ==
    ASSUME NEW parts \in Seq(Parts)
    PROVE  Candidates(parts) \in Seq(Fresh)
<1> DEFINE Next1(all, part) == IF part.ok THEN Append(all, Candidate(part)) ELSE all
           step == [i \in 1..Len(parts) |-> [v \in Seq(Fresh) |-> Next1(v, parts[i])]]
           Direct(it) == it = [t \in SUBSET DOMAIN parts |->
                                 IF t = {} THEN <<>> ELSE Next1(it[t \ {Max(t)}], parts[Max(t)])]
           chosen == CHOOSE x : Direct(x)
<1>1. Candidates(parts) = chosen[DOMAIN parts]
    BY Zenon DEF Candidates, FoldLeft, MapThenFoldSet
<1>2. DOMAIN parts = 1..Len(parts) /\ Len(parts) \in Nat /\ \A i \in 1..Len(parts) : parts[i] \in Parts
    OBVIOUS
<1>3. <<>> \in Seq(Fresh) /\ \A v \in Seq(Fresh), part \in Parts : Next1(v, part) \in Seq(Fresh)
    <2>1. \A part \in Parts : Candidate(part) \in Fresh
        BY DEF Fresh
    <2> QED BY <2>1
<1> HIDE DEF Next1
<1>4. step \in [1..Len(parts) -> [Seq(Fresh) -> Seq(Fresh)]]
    BY <1>2, <1>3
<1>5. \A t \in SUBSET (1..Len(parts)) : t # {} => Max(t) \in 1..Len(parts)
    BY <1>2, GreatestPosition
<1>6. \E it : Direct(it)
    <2>1. PICK it \in [SUBSET (1..Len(parts)) -> Seq(Fresh)] : Folds(it, Len(parts), <<>>, step)
        <3> HIDE DEF step
        <3> QED BY <1>2, <1>3, <1>4, FoldExists
    <2>2. ASSUME NEW t \in SUBSET (1..Len(parts)), t # {}
          PROVE  step[Max(t)][it[t \ {Max(t)}]] = Next1(it[t \ {Max(t)}], parts[Max(t)])
        <3>1. it[t \ {Max(t)}] \in Seq(Fresh) /\ Max(t) \in 1..Len(parts)
            BY <1>5, <2>2
        <3> QED BY <3>1
    <2>3. it = [t \in SUBSET (1..Len(parts)) |-> IF t = {} THEN <<>> ELSE step[Max(t)][it[t \ {Max(t)}]]]
        BY <2>1 DEF Folds
    <2> HIDE DEF step
    <2>4. Direct(it)
        BY <1>2, <2>2, <2>3
    <2> QED BY <2>4
<1>7. Direct(chosen)
    BY <1>6
<1> HIDE DEF chosen
<1>8. chosen \in [SUBSET (1..Len(parts)) -> Seq(Fresh)]
    <2>1. chosen = [t \in SUBSET (1..Len(parts)) |-> chosen[t]] /\ chosen[{}] = <<>>
        BY <1>2, <1>7
    <2>2. \A t \in SUBSET (1..Len(parts)) : t # {} /\ chosen[t \ {Max(t)}] \in Seq(Fresh) => chosen[t] \in Seq(Fresh)
        BY <1>2, <1>3, <1>5, <1>7
    <2> QED BY <1>2, <1>3, <2>1, <2>2, FoldTyped
<1> QED BY <1>1, <1>2, <1>8

-----------------------------------------------------------------------------
(* What each step does to the candidates. *)
Good(c) == IsCandidate(c) /\ c.chars = CharsOf(c.pending) /\ (MaxPending # NoLimit => c.chars <= MaxPending)
Idle(c) == c.pending = <<>>

(* All of cs is good, and only the last holds anything, unless it is the   *)
(* first.                                                                  *)
Sound(cs) ==
    /\ cs \in Seq(ToSet(cs))
    /\ \A i \in 1..Len(cs) : Good(cs[i]) /\ (Idle(cs[i]) \/ (i = Len(cs) /\ i > 1))

LEMMA SoundNow ==
    ASSUME FilterIInv
    PROVE  Sound(candidates) /\ Len(candidates) \in Nat /\ DOMAIN candidates = 1..Len(candidates)
<1>1. candidates \in Seq(ToSet(candidates))
    BY DEF FilterIInv, FilterTypeOK
<1>2. Len(candidates) \in Nat /\ DOMAIN candidates = 1..Len(candidates)
    BY <1>1
<1> QED BY <1>1, <1>2 DEF FilterIInv, FilterTypeOK, Sound, Good, Idle

LEMMA FreshIsGood ==
    ASSUME NEW c \in Fresh
    PROVE  Good(c) /\ Idle(c)
<1>1. PICK part \in Parts : c = Candidate(part)
    BY DEF Fresh
<1>2. c.pending = <<>> /\ c.chars = 0 /\ c.selector = NewSelector(part) /\ IsCandidate(c)
    BY <1>1, EmptySeq DEF Candidate, IsCandidate
<1>3. MaxPending # NoLimit => 0 <= MaxPending
    BY FilterAssumption
<1> QED BY <1>2, <1>3, CharsOfNone DEF Good, Idle

LEMMA FreshIsSound ==
    ASSUME NEW parts \in Seq(Parts)
    PROVE  Sound(Candidates(parts))
<1>1. PICK cs \in Seq(Fresh) : cs = Candidates(parts)
    BY CandidatesAreFresh
<1>2. \A i \in 1..Len(cs) : cs[i] \in Fresh
    OBVIOUS
<1>3. cs \in Seq(ToSet(cs))
    BY DEF ToSet
<1> QED BY <1>1, <1>2, <1>3, FreshIsGood DEF Sound

LEMMA SelectorChanged ==
    ASSUME NEW c, Good(c), NEW s
    PROVE  /\ Good([c EXCEPT !.selector = s])
           /\ [c EXCEPT !.selector = s].pending = c.pending
           /\ [c EXCEPT !.selector = s].chars = c.chars
<1>1. c \in [selector : {c.selector}, pending : Seq(Contents), chars : Nat]
    BY DEF Good, IsCandidate
<1>2. PICK d : d = [c EXCEPT !.selector = s]
    OBVIOUS
<1>3. d.selector = s /\ d.pending = c.pending /\ d.chars = c.chars /\ d \in [selector : {s}, pending : Seq(Contents), chars : Nat]
    BY <1>1, <1>2
<1>4. IsCandidate(d)
    BY <1>3 DEF IsCandidate
<1> QED BY <1>2, <1>3, <1>4 DEF Good

LEMMA SeenIsSound ==
    ASSUME FilterIInv
    PROVE  /\ Sound(Seen) /\ Len(Seen) = Len(candidates)
           /\ \A i \in 1..Len(candidates) :
                Good(Seen[i]) /\ Seen[i].pending = candidates[i].pending /\ Seen[i].chars = candidates[i].chars
<1> DEFINE n == Len(candidates)
<1>1. n \in Nat /\ DOMAIN candidates = 1..n /\ \A i \in 1..n : Good(candidates[i]) /\ (Idle(candidates[i]) \/ (i = n /\ i > 1))
    BY SoundNow DEF Sound
<1> HIDE DEF n
<1>2. PICK seen : seen = Seen
    OBVIOUS
<1>3. DOMAIN seen = 1..n /\ seen = [i \in DOMAIN seen |-> seen[i]]
    BY <1>1, <1>2 DEF Seen
<1>4. ASSUME NEW i \in 1..n
      PROVE  Good(seen[i]) /\ seen[i].pending = candidates[i].pending /\ seen[i].chars = candidates[i].chars
    <2>1. PICK c, s : c = candidates[i] /\ s = Filtered(c.selector, Event)
        OBVIOUS
    <2>2. seen[i] = [c EXCEPT !.selector = s]
        BY <1>1, <1>2, <2>1 DEF Seen
    <2>3. Good(c)
        BY <1>1, <2>1
    <2>4. Good([c EXCEPT !.selector = s]) /\ [c EXCEPT !.selector = s].pending = c.pending
          /\ [c EXCEPT !.selector = s].chars = c.chars
        BY <2>3, SelectorChanged
    <2> QED BY <2>1, <2>2, <2>4
<1>5. seen \in Seq(ToSet(seen)) /\ Len(seen) = n
    <2>1. \A i \in 1..n : seen[i] \in ToSet(seen)
        BY <1>3 DEF ToSet
    <2> QED BY <1>1, <1>3, <2>1, ASequence
<1>6. Sound(seen)
    BY <1>1, <1>4, <1>5 DEF Sound, Idle
<1> QED BY <1>2, <1>4, <1>5, <1>6 DEF n

LEMMA FirstIsSound ==
    ASSUME NEW cs, Sound(cs), Len(cs) \in Nat, 1 \in DOMAIN cs
    PROVE  Sound(SubSeq(cs, 1, 1)) /\ Len(SubSeq(cs, 1, 1)) = 1
<1>1. PICK S : S = ToSet(cs)
    OBVIOUS
<1>2. cs \in Seq(S) /\ Len(cs) >= 1 /\ Good(cs[1]) /\ Idle(cs[1])
    <2>1. cs \in Seq(S)
        BY <1>1 DEF Sound
    <2>2. Len(cs) >= 1
        BY <2>1
    <2> QED BY <2>1, <2>2 DEF Sound
<1>3. PICK one : one = SubSeq(cs, 1, 1)
    OBVIOUS
<1>4. one \in Seq(S) /\ Len(one) = 1 /\ one[1] = cs[1]
    BY <1>2, <1>3
<1>5. one \in Seq(ToSet(one))
    <2>1. DOMAIN one = 1..1 /\ one = [i \in DOMAIN one |-> one[i]]
        BY <1>4
    <2>2. \A i \in 1..1 : one[i] \in ToSet(one)
        BY <2>1 DEF ToSet
    <2> QED BY <2>1, <2>2, ASequence
<1> QED BY <1>2, <1>3, <1>4, <1>5 DEF Sound

LEMMA SelectingFacts ==
    ASSUME FilterIInv, Selecting # {}
    PROVE  /\ Min(Selecting) \in Selecting /\ Min(Selecting) \in 1..Len(candidates)
           /\ Min(Selecting) = 1 => 1 \in Selecting
<1>1. Len(candidates) \in Nat /\ Selecting \subseteq 1..Len(candidates)
    BY SoundNow DEF Selecting
<1>2. PICK T \in SUBSET Nat : T = Selecting
    BY <1>1
<1>3. \E x \in T : \A y \in T : x <= y
    BY <1>2, FirstPosition
<1>4. Min(T) \in T
    BY <1>3 DEF Min
<1> QED BY <1>1, <1>2, <1>4

(* Holding an event adds it to one candidate and its characters to that.   *)
LEMMA HoldingIsSound ==
    ASSUME FilterIInv, Selecting # {}, 1 \notin Selecting, Event.kind \notin Frame,
           MaxPending = NoLimit \/ Holding[Min(Selecting)].chars <= MaxPending
    PROVE  Sound(SubSeq(Holding, 1, Min(Selecting)))
<1>1. PICK k \in Nat : k = Min(Selecting) /\ k > 1 /\ k <= Len(candidates) /\ Len(candidates) \in Nat
    BY SelectingFacts, SoundNow
<1>2. PICK seen, n : seen = Seen /\ n = Len(candidates)
    OBVIOUS
<1>3. /\ n \in Nat /\ seen \in Seq(ToSet(seen)) /\ Len(seen) = n /\ DOMAIN seen = 1..n /\ k \in 1..n
      /\ \A i \in 1..n : Good(seen[i])
      /\ \A i \in 1..n : Idle(seen[i]) \/ (i = n /\ i > 1)
    BY <1>1, <1>2, SeenIsSound DEF Sound
<1>4. PICK e \in Contents : e = Event /\ e.chars \in Nat
    BY EventFacts DEF FilterIInv
<1>5. PICK c : c = seen[k]
    OBVIOUS
<1>6. PICK h : h = [[c EXCEPT !.pending = Append(@, e)] EXCEPT !.chars = @ + e.chars]
    OBVIOUS
<1>7. c \in [selector : {c.selector}, pending : Seq(Contents), chars : Nat] /\ c.chars = CharsOf(c.pending)
    BY <1>3, <1>5 DEF Good, IsCandidate
<1>8. /\ h.selector = c.selector /\ h.pending = Append(c.pending, e) /\ h.chars = c.chars + e.chars
      /\ h \in [selector : {c.selector}, pending : Seq(Contents), chars : Nat]
    <2>1. PICK p : p = Append(c.pending, e)
        OBVIOUS
    <2>2. p \in Seq(Contents)
        BY <1>4, <1>7, <2>1
    <2>3. PICK d : d = [c EXCEPT !.pending = p]
        OBVIOUS
    <2>4. d.selector = c.selector /\ d.pending = p /\ d.chars = c.chars
          /\ d \in [selector : {c.selector}, pending : Seq(Contents), chars : Nat]
        BY <1>7, <2>2, <2>3
    <2>5. h = [d EXCEPT !.chars = c.chars + e.chars]
        <3>1. d = [c EXCEPT !.pending = Append(@, e)]
            BY <1>7, <2>1, <2>3
        <3> QED BY <1>6, <2>4, <3>1
    <2>6. c.chars + e.chars \in Nat
        BY <1>4, <1>7
    <2> QED BY <2>1, <2>4, <2>5, <2>6
<1>9. h.chars = CharsOf(h.pending)
    BY <1>4, <1>7, <1>8, CharsGrow
<1>10. PICK holding : holding = Holding
    OBVIOUS
<1>11. holding = [seen EXCEPT ![k] = h]
    <2>1. holding = [seen EXCEPT ![k].pending = Append(@, e), ![k].chars = @ + e.chars]
        BY <1>1, <1>2, <1>4, <1>10, Zenon DEF Holding
    <2>2. holding = [[seen EXCEPT ![k].pending = Append(@, e)] EXCEPT ![k].chars = @ + e.chars]
        BY <2>1
    <2> QED BY <1>3, <1>5, <1>6, <2>2
<1>12. DOMAIN holding = 1..n /\ holding[k] = h /\ \A i \in 1..n : i # k => holding[i] = seen[i]
    BY <1>3, <1>11
<1>13. PICK kept : kept = SubSeq(holding, 1, k)
    OBVIOUS
<1>14. DOMAIN kept = 1..k /\ kept = [i \in DOMAIN kept |-> kept[i]] /\ \A i \in 1..k : kept[i] = holding[i]
    BY <1>1, <1>3, <1>12, <1>13
<1>15. kept \in Seq(ToSet(kept)) /\ Len(kept) = k
    <2>1. \A i \in 1..k : kept[i] \in ToSet(kept)
        BY <1>14 DEF ToSet
    <2> QED BY <1>1, <1>14, <2>1, ASequence
<1>16. Good(h)
    BY <1>1, <1>8, <1>9, <1>10, <1>12 DEF Good, IsCandidate
<1>17. \A i \in 1..k : Good(kept[i]) /\ (Idle(kept[i]) \/ i = k)
    BY <1>1, <1>3, <1>12, <1>14, <1>16
<1>18. Sound(kept)
    BY <1>1, <1>15, <1>17 DEF Sound
<1> QED BY <1>1, <1>10, <1>13, <1>18

-----------------------------------------------------------------------------
(* FilterIInv is inductive. *)
FoundOne == found /\ outcome = "running" /\ Event.kind \notin {"StartDocument", "EndDocument"} => Len(candidates) = 1

LEMMA InitHolds == FilterInit => FilterIInv
<1> SUFFICES ASSUME FilterInit PROVE FilterIInv
    OBVIOUS
<1>1. Len(document) \in Nat /\ Len(document) >= 1
    BY DocumentFacts DEF FilterInit
<1>2. candidates \in Seq(ToSet(candidates)) /\ Len(candidates) = 0
    BY DEF FilterInit
<1>3. FilterTypeOK
    <2>1. at \in 1..Len(document) /\ document \in Documents \union Later /\ pointer \in Pointers
        BY <1>1 DEF FilterInit
    <2>2. found \in BOOLEAN /\ stopped \in BOOLEAN
        BY DEF FilterInit
    <2>3. \A i \in 1..Len(candidates) : IsCandidate(candidates[i])
        BY <1>2
    <2> QED BY <1>2, <2>1, <2>2, <2>3 DEF FilterTypeOK
<1> QED BY <1>2, <1>3 DEF FilterIInv, FilterInit

LEMMA Assembled ==
    ASSUME Sound(candidates'), pointer' \in Pointers, document' \in Documents \union Later,
           at' \in 1..Len(document'), found' \in BOOLEAN, stopped' \in BOOLEAN, FoundOne'
    PROVE  FilterIInv'
<1>1. FilterTypeOK'
    BY DEF FilterTypeOK, Sound, Good
<1>2. \A i \in 1..Len(candidates') : LET c == candidates'[i] IN
          /\ c.chars = CharsOf(c.pending)
          /\ MaxPending # NoLimit => c.chars <= MaxPending
          /\ c.pending # <<>> => i = Len(candidates') /\ i > 1
    BY DEF Sound, Good, Idle
<1> QED BY <1>1, <1>2 DEF FilterIInv, FoundOne

LEMMA Proceeding ==
    ASSUME FilterTypeOK, NEW flow, Proceed(flow), Event.kind # "EndDocument"
    PROVE  /\ pointer' \in Pointers /\ document' \in Documents \union Later
           /\ at' \in 1..Len(document') /\ stopped' \in BOOLEAN
<1>1. at + 1 \in 1..Len(document) /\ at \in 1..Len(document)
    BY EventFacts DEF FilterTypeOK
<1>2. pointer' = pointer /\ document' = document /\ (at' = at + 1 \/ at' = at)
    BY DEF Proceed
<1>3. stopped' \in BOOLEAN
    BY Zenon DEF Proceed
<1> QED BY <1>1, <1>2, <1>3 DEF FilterTypeOK

(* A step that leaves the candidates and the source where they were.       *)
LEMMA Staying ==
    ASSUME FilterIInv, UNCHANGED <<pointer, source, candidates>>, found' \in BOOLEAN, stopped' \in BOOLEAN,
           FoundOne'
    PROVE  FilterIInv'
<1>1. Sound(candidates')
    BY SoundNow
<1>2. pointer' \in Pointers /\ document' \in Documents \union Later /\ at' \in 1..Len(document')
    BY DEF FilterIInv, FilterTypeOK, source
<1> QED BY <1>1, <1>2, Assembled

LEMMA StepHolds == FilterIInv /\ [FilterNext]_filterVars => FilterIInv'
<1> SUFFICES ASSUME FilterIInv, [FilterNext]_filterVars PROVE FilterIInv'
    OBVIOUS
<1>0. FilterTypeOK /\ FoundOne /\ found \in BOOLEAN /\ stopped \in BOOLEAN /\ Len(candidates) \in Nat
    BY SoundNow DEF FilterIInv, FoundOne, FilterTypeOK
<1>1. ASSUME NEW flow \in Flows, BeginDocument(flow) PROVE FilterIInv'
    <2>1. Sound(candidates')
        BY <1>0, <1>1, FreshIsSound, FilterAssumption DEF BeginDocument, FilterTypeOK
    <2>2. found' = FALSE /\ Proceed(flow) /\ Event.kind = "StartDocument"
        BY <1>1 DEF BeginDocument, Forward
    <2> QED BY <1>0, <2>1, <2>2, Proceeding, Assembled DEF FoundOne
<1>2. ASSUME Selecting = {} \/ Event.kind = "Doctype", candidates' = Seen, found' = found, Reading,
             Event.kind \notin {"StartDocument", "EndDocument"}, NEW flow, Proceed(flow)
      PROVE  FilterIInv'
    <2>1. Sound(candidates') /\ Len(candidates') = Len(candidates)
        BY <1>2, SeenIsSound
    <2>2. FoundOne'
        BY <1>0, <1>2, <2>1 DEF FoundOne, Reading
    <2> QED BY <1>0, <1>2, <2>1, <2>2, Proceeding, Assembled
<1>3. ASSUME NEW flow \in Flows, PassDoctype(flow) PROVE FilterIInv'
    <2>1. PICK f : Proceed(f)
        BY <1>3 DEF PassDoctype, Forward
    <2> QED BY <1>2, <1>3, <2>1 DEF PassDoctype
<1>4. ASSUME Skip PROVE FilterIInv'
    BY <1>2, <1>4 DEF Skip, Frame
<1>5. ASSUME NEW flow \in Flows, Pass(flow) PROVE FilterIInv'
    <2>1. Sound(Seen) /\ Len(Seen) = Len(candidates) /\ 1 \in DOMAIN candidates
        BY <1>5, SeenIsSound DEF Pass, Selecting
    <2>2. Len(Seen) \in Nat /\ 1 \in DOMAIN Seen
        BY <1>0, <2>1, SoundNow DEF Sound
    <2>3. Sound(candidates') /\ Len(candidates') = 1
        BY <1>5, <2>1, <2>2, FirstIsSound DEF Pass
    <2>4. found' = TRUE /\ Proceed(flow) /\ Event.kind # "EndDocument"
        BY <1>5 DEF Pass, Forward, Frame
    <2> QED BY <1>0, <2>3, <2>4, Proceeding, Assembled DEF FoundOne
<1>6. ASSUME Hold PROVE FilterIInv'
    <2>1. Sound(candidates')
        BY <1>6, HoldingIsSound DEF Hold
    <2>2. ~found
        <3>1. Min(Selecting) # 1 /\ Min(Selecting) \in 1..Len(candidates)
            BY <1>6, SelectingFacts DEF Hold
        <3>2. Len(candidates) # 1
            <4>1. PICK m, n : m = Min(Selecting) /\ n = Len(candidates)
                OBVIOUS
            <4>2. m \in 1..n /\ m # 1
                BY <3>1, <4>1
            <4>3. n # 1
                BY <4>2
            <4> QED BY <4>1, <4>3
        <3> QED BY <1>0, <1>6, <3>2 DEF Hold, Reading, Frame, FoundOne
    <2>3. found' = FALSE /\ Proceed("Continue") /\ Event.kind # "EndDocument"
        BY <1>0, <1>6, <2>2 DEF Hold, Frame
    <2> QED BY <1>0, <2>1, <2>3, Proceeding, Assembled DEF FoundOne
<1>7. ASSUME UNCHANGED <<pointer, source, candidates, found>>, stopped' \in BOOLEAN,
             outcome' = "running" => outcome = "running"
      PROVE  FilterIInv'
    <2>1. FoundOne'
        BY <1>0, <1>7 DEF FoundOne, Event, source
    <2> QED BY <1>0, <1>7, <2>1, Staying
<1>8. ASSUME Unusable \/ TooLong PROVE FilterIInv'
    BY <1>0, <1>7, <1>8 DEF Unusable, TooLong, Fail, filter
<1>9. ASSUME NEW flow \in Flows, FinishDocument(flow) PROVE FilterIInv'
    <2>1. UNCHANGED <<pointer, source, candidates, found, stopped>> /\ outcome' # "running"
        BY <1>9 DEF FinishDocument, Fail, filter
    <2> QED BY <1>0, <1>7, <2>1
<1>10. ASSUME BeginRelay PROVE FilterIInv'
    <2>1. FoundOne'
        BY <1>10 DEF BeginRelay, FoundOne, Event, source
    <2> QED BY <1>0, <1>10, <2>1, Staying DEF BeginRelay
<1>11. ASSUME NEW flow \in Flows, Relay(flow) PROVE FilterIInv'
    <2>1. stopped' \in BOOLEAN
        BY <1>11, Zenon DEF Relay
    <2> QED BY <1>7, <1>11, <2>1 DEF Relay
<1>12. ASSUME NEW D \in Later, NextDocument(D) PROVE FilterIInv'
    <2>1. Len(D) \in Nat /\ Len(D) >= 1 /\ D[1].kind = "StartDocument"
        BY DocumentFacts
    <2>2. UNCHANGED <<pointer, candidates, found>> /\ document' = D /\ at' = 1 /\ stopped' = FALSE
        BY <1>12 DEF NextDocument, filter
    <2>3. Sound(candidates') /\ pointer' \in Pointers /\ found' \in BOOLEAN
        BY <1>0, <2>2, SoundNow DEF FilterTypeOK
    <2>4. FoundOne'
        BY <2>1, <2>2 DEF FoundOne, Event
    <2>5. document' \in Documents \union Later /\ at' \in 1..Len(document') /\ stopped' \in BOOLEAN
        <3>1. 1 \in 1..Len(D)
            BY <2>1
        <3> QED BY <2>2, <3>1
    <2> QED BY <2>3, <2>4, <2>5, Assembled
<1>13. ASSUME UNCHANGED filterVars PROVE FilterIInv'
    BY <1>0, <1>7, <1>13 DEF filterVars, filter
<1> QED
    BY <1>1, <1>3, <1>4, <1>5, <1>6, <1>8, <1>9, <1>10, <1>11, <1>12, <1>13 DEF FilterNext, Read

(* In any document, for any pointer and limit, what the filter remembers   *)
(* of the events held back is what it holds, the last part alone holds     *)
(* any, and one part is left once something went out (Candidate and        *)
(* consume in xpointer.rs).                                                *)
THEOREM Invariant == FilterSpec => []FilterIInv
<1>1. FilterInit => FilterIInv
    BY InitHolds
<1>2. FilterIInv /\ [FilterNext]_filterVars => FilterIInv'
    BY StepHolds
<1> QED BY <1>1, <1>2, PTL DEF FilterSpec

(* What a pointer holds back is bounded by with_max_pending_chars, summed  *)
(* over all of it; the first part never holds anything, since what it      *)
(* selects goes out at once, and after that nothing is held.               *)
THEOREM Pending == FilterSpec => []PendingBounded
<1>1. ASSUME FilterIInv PROVE PendingBounded
    <2>1. /\ DOMAIN candidates = 1..Len(candidates)
          /\ \A i \in 1..Len(candidates) : LET c == candidates[i] IN
                /\ c.chars = CharsOf(c.pending)
                /\ MaxPending # NoLimit => c.chars <= MaxPending
                /\ c.pending # <<>> => i = Len(candidates) /\ i > 1
        BY <1>1, SoundNow DEF FilterIInv
    <2>2. ASSUME found, Reading, Event.kind \notin Frame PROVE Held = {}
        <3>1. Len(candidates) = 1
            BY <1>1, <2>2 DEF FilterIInv, Reading, Frame
        <3> QED BY <2>1, <3>1 DEF Held
    <2> QED BY <2>1, <2>2 DEF PendingBounded
<1>2. FilterSpec => []FilterIInv
    BY Invariant
<1> QED BY <1>1, <1>2, PTL
=============================================================================
