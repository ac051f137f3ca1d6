---------------------------- MODULE OrderedForest ----------------------------
(* What a document's tree promises: nodes in ordered trees, of which the   *)
(* one under node 1, the document, holds at most one element and one       *)
(* document type and no character data.  Nodes are made detached and never *)
(* go; a node moves with what is below it, and never below itself.         *)
EXTENDS Naturals, Sequences

VARIABLES kind,  \* [1 .. n -> kind of the node]
          kids   \* [1 .. n -> its children, first to last]

fvars == <<kind, kids>>

Containers == {"document", "fragment", "element"}

IsIn(n, s) == \E i \in DOMAIN s : s[i] = n
Without(k, gone) == [p \in DOMAIN k |-> SelectSeq(k[p], LAMBDA n : ~IsIn(n, gone))]
SpliceAt(s, i, middle) == SubSeq(s, 1, i - 1) \o middle \o SubSeq(s, i, Len(s))

(* The nodes at or below a node. *)
Below(k, n) ==
    LET reach[i \in 0 .. Len(k)] ==
            IF i = 0 THEN {n}
            ELSE LET r == reach[i - 1] IN r \union UNION {{k[m][j] : j \in DOMAIN k[m]} : m \in r}
    IN reach[Len(k)]

HoldsADocument(kd, document) ==
    /\ \A i \in DOMAIN document : kd[document[i]] \notin {"text", "cdata"}
    /\ \A i, j \in DOMAIN document :
          kd[document[i]] = kd[document[j]] /\ kd[document[i]] \in {"element", "doctype"} => i = j

(* A node, or a fragment's children in its stead, put at a place under a   *)
(* parent, in the stead of a child of the parent when one is `replaced`.   *)
Insert ==
    /\ UNCHANGED kind
    /\ LET k == kids
           after == kids'
           kd == kind
           Moved(n) == IF kd[n] = "fragment" THEN k[n] ELSE <<n>>
       IN \E parent \in {p \in DOMAIN k : kd[p] \in Containers /\ after[p] # k[p]} :
             \E n \in {m \in DOMAIN k : kd[m] \notin {"document", "attribute"}},
                replaced \in {<<>>} \union {<<k[parent][i]>> : i \in DOMAIN k[parent]} :
                /\ parent \notin Below(k, n)
                /\ LET rest == Without(k, Moved(n) \o replaced)
                   IN \E i \in 1 .. Len(rest[parent]) + 1 :
                         after = [rest EXCEPT ![parent] = SpliceAt(@, i, Moved(n))]
                /\ kd[parent] = "document" => HoldsADocument(kd, after[parent])

Remove ==
    /\ UNCHANGED kind
    /\ LET k == kids
       IN \E parent \in DOMAIN k : \E i \in DOMAIN k[parent] : kids' = Without(k, <<k[parent][i]>>)

(* Nodes are made, in trees of their own, the others as they were but for  *)
(* one of the new nodes at the end of a parent's children.                 *)
Make ==
    LET k == kids
        after == kids'
        kd == kind'
        new == DOMAIN after \ DOMAIN k
    IN /\ new # {}
       /\ \A n \in DOMAIN k : kd[n] = kind[n]
       /\ \/ \A p \in DOMAIN k : after[p] = k[p]
          \/ \E p \in {q \in DOMAIN k : kd[q] \in Containers}, n \in new :
                /\ \A q \in DOMAIN k : after[q] = IF q = p THEN Append(k[p], n) ELSE k[q]
                /\ kd[p] = "document" => HoldsADocument(kd, after[p])
       /\ \A p \in new : \A i \in DOMAIN after[p] : after[p][i] > p

(* A builder starts over with a document of its own. *)
Restart == kind' = <<"document">> /\ kids' = <<<<>>>>

Init == kind = <<"document">> /\ kids = <<<<>>>>

Next == fvars' # fvars /\ (Insert \/ Remove \/ Make \/ Restart)

Spec == Init /\ [][Next]_fvars
=============================================================================
