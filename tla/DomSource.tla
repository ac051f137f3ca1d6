------------------------------ MODULE DomSource ------------------------------
(***************************************************************************)
(* The two ends of a Document: the consumer that builds one from events    *)
(* (dom/build.rs), and the cursor that walks a document, or what is below  *)
(* a node of it, and hands out its events to consumers that may finish or  *)
(* fail at any of them (dom/source.rs).                                    *)
(*                                                                         *)
(* An event the builder reads is [type, name, attrs, base, text, system,   *)
(* ids]: an attribute is [name, value]; base is an element's base URI and  *)
(* system the identifier of the event's entity; ids are the attributes a   *)
(* doctype declares to be of type ID, as <<element, attribute>> names in   *)
(* the form written.                                                       *)
(***************************************************************************)
EXTENDS DomTree

CONSTANT XmlId  \* whether xml:id attributes are marked

VARIABLES feed,     \* the events still to come
          built,    \* those consumed since the document was begun
          open,     \* the open nodes, the document first
          base,     \* the document's base URI, "" when there is none
          baseSet,  \* whether it was recorded
          ids,      \* what the DTD declares to be IDs
          fresh,    \* nothing was consumed since the builder was made or reset
          failure   \* the error that ended the run, "ok" while there is none

builderVars == <<feed, built, open, base, baseSet, ids, fresh, failure>>

Innermost == open[Len(open)]
Written(name) == <<name.prefix, name.local>>
AllSpace(e) == \A i \in DOMAIN e.text : e.text[i] = " "

IsXmlId(name) == name.ns = XmlNs /\ name.local = "id"

MarkIdAttributes(t, element, e) ==
    LET Marked(name) == \/ XmlId /\ IsXmlId(name)
                        \/ <<Written(e.name), Written(name)>> \in ids
        Mark(u, a) == IF Marked(a.name) THEN SetIdAttribute(u, element, a.name, TRUE).nodes ELSE u
    IN FoldLeft(Mark, t, e.attrs)

BuildElement(t, e) ==
    Then(CreateElementNs(t, e.name.ns, e.name), LAMBDA u, element :
         LET Put(done, a) ==
                 Then(done, LAMBDA v, id :
                      IF a.name.ns # "" THEN SetAttributeNs(v, element, a.name.ns, a.name, a.value)
                      ELSE SetAttribute(v, element, a.name, a.value))
         IN Then(FoldLeft(Put, Ok(u, element), e.attrs), LAMBDA v, id :
                 Ok(MarkIdAttributes([v EXCEPT ![element].base = e.base], element, e), element)))

(* What an event does to the slots: the error it ends in, and the node.    *)
Effect(e) ==
    LET Appended(done) == Then(done, LAMBDA t, n : Then(AppendChild(t, Innermost, n), LAMBDA u, id : Ok(u, n)))
    IN CASE e.type = "start" -> Appended(BuildElement(nodes, e))
         [] e.type = "end" ->
              IF Len(open) > 1 /\ Written(nodes[Innermost].name) = Written(e.name) THEN Ok(nodes, None)
              ELSE Fail(nodes, "NOT_WELL_FORMED")
         [] e.type = "characters" ->
              IF Len(open) = 1 /\ AllSpace(e) THEN Ok(nodes, None)
              ELSE AppendText(nodes, Innermost, e.text)
         [] e.type \in {"cdata", "comment"} -> Appended(CreateData(nodes, e.type, e.text))
         [] e.type = "pi" -> Appended(CreateNamed(nodes, "pi", e.name, e.text))
         [] e.type = "doctype" ->
              IF e.name = NoName THEN Ok(nodes, None)
              ELSE Appended(CreateNamed(nodes, "doctype", e.name, <<>>))
         [] OTHER -> Ok(nodes, None)

StartDocument ==
    /\ feed # <<>> /\ feed[1].type = "startDocument" /\ failure = "ok"
    /\ feed' = Tail(feed)
    /\ built' = <<feed[1]>>
    /\ IF fresh THEN UNCHANGED <<nodes, open, base, baseSet, ids, fresh>>
       ELSE /\ nodes' = EmptyDocument /\ open' = <<DocNode>>
            /\ base' = "" /\ baseSet' = FALSE /\ ids' = {} /\ fresh' = TRUE
    /\ UNCHANGED <<failure, ret, left>>

Consume ==
    /\ feed # <<>> /\ feed[1].type # "startDocument" /\ failure = "ok"
    /\ LET e == feed[1]
           done == Effect(e)
           recordsBase == e.type \in {"start", "doctype"} /\ ~baseSet
       IN /\ nodes' = done.nodes
          /\ failure' = done.err
          /\ open' = CASE done.err # "ok" -> open
                       [] e.type = "start" /\ done.err = "ok" -> Append(open, done.id)
                       [] e.type = "end" /\ done.err = "ok" -> Front(open)
                       [] OTHER -> open
          /\ base' = IF recordsBase THEN e.system ELSE base
          /\ baseSet' = (baseSet \/ recordsBase)
          /\ ids' = IF e.type = "doctype" THEN e.ids ELSE ids
          /\ built' = IF done.err = "ok" THEN Append(built, e) ELSE built
    /\ feed' = Tail(feed)
    /\ fresh' = FALSE
    /\ UNCHANGED <<ret, left>>

BuilderNext == StartDocument \/ Consume

-----------------------------------------------------------------------------
CONSTANTS WithDoctype,  \* whether the source was given a DTD to report a doctype with
          Disturbances  \* what a consumer answers: a subset of {"continue", "break", "error"}

VARIABLES step,     \* "idle", "before", "walking", "ended", "stopped", "done"
          start,    \* the node the source is over
          visit,    \* what the walk reports next, <<>> once it is over
          emitted,  \* the events dispatched
          outcome   \* how the consumers were told the run ended, "none" before

sourceVars == <<step, start, visit, emitted, outcome>>

Reportable(v) ==
    LET kind == nodes[v[2]].kind
    IN IF v[1] = "leave" THEN kind = "element"
       ELSE kind \notin {"document", "fragment", "attribute"} /\ (kind = "doctype" => WithDoctype)

(* Where the walk stops next: the first visit that has an event.           *)
NextReportable(at) ==
    LET seen[i \in 1 .. 2 * Len(nodes) + 1] ==
            IF i = 1 THEN at
            ELSE LET v == seen[i - 1] IN IF v = <<>> \/ Reportable(v) THEN v ELSE NextVisit(nodes, start, v)
    IN seen[2 * Len(nodes) + 1]

AttributeRef(a) == [name |-> nodes[a].name, value |-> nodes[a].text]

EventOf(v) ==
    LET slot == nodes[v[2]]
    IN CASE v[1] = "leave" -> [type |-> "end", name |-> slot.name]
         [] v[1] = "enter" /\ slot.kind = "element" ->
              [type |-> "start", name |-> slot.name,
               attrs |-> [i \in DOMAIN slot.attrs |-> AttributeRef(slot.attrs[i])],
               base |-> BaseUri(nodes, v[2], base)]
         [] slot.kind = "text" -> [type |-> "characters", text |-> slot.text]
         [] slot.kind \in {"cdata", "comment"} -> [type |-> slot.kind, text |-> slot.text]
         [] slot.kind = "pi" -> [type |-> "pi", name |-> slot.name, text |-> slot.text]
         [] OTHER -> [type |-> "doctype", name |-> slot.name]

(* The dispatcher's answer to an event: go on in `next`, stop, or fail.    *)
Dispatch(e, next) ==
    \E answer \in Disturbances :
        /\ emitted' = Append(emitted, e)
        /\ step' = CASE answer = "continue" -> next
                     [] answer = "break" -> IF next = "ended" THEN "ended" ELSE "stopped"
                     [] answer = "error" -> "done"
        /\ outcome' = IF answer = "error" THEN "failed" ELSE outcome

UnchangedTree == UNCHANGED <<nodes, ret, left, builderVars>>

(* A source is made over a node; the document cannot change until it ends. *)
Open ==
    /\ step = "idle" /\ left.read
    /\ feed = <<>> \/ failure # "ok"
    /\ start' \in NodesOf(nodes)
    /\ step' = "before"
    /\ UnchangedTree /\ UNCHANGED <<visit, emitted, outcome>>

Begin ==
    /\ step = "before"
    /\ visit' = <<"enter", start>>
    /\ Dispatch([type |-> "startDocument"], "walking")
    /\ UnchangedTree /\ UNCHANGED start

Advance ==
    /\ step = "walking"
    /\ LET v == NextReportable(visit)
       IN IF v = <<>> THEN visit' = <<>> /\ Dispatch([type |-> "endDocument"], "ended")
          ELSE visit' = NextVisit(nodes, start, v) /\ Dispatch(EventOf(v), "walking")
    /\ UnchangedTree /\ UNCHANGED start

Finish ==
    /\ step \in {"ended", "stopped"}
    /\ step' = "done"
    /\ outcome' = IF step = "ended" THEN "completed" ELSE "stopped"
    /\ UnchangedTree /\ UNCHANGED <<start, visit, emitted>>

SourceNext == Open \/ Begin \/ Advance \/ Finish

-----------------------------------------------------------------------------
(* The life of a document: built from events, changed, read out as events. *)
CONSTANT Scenarios  \* [left: ..., feed: ...]

Init ==
    /\ nodes = EmptyDocument
    /\ ret = [op |-> "none", err |-> "ok", of |-> None, copy |-> None]
    /\ \E s \in Scenarios : left = s.left /\ feed = s.feed
    /\ built = <<>> /\ open = <<DocNode>> /\ base = "" /\ baseSet = FALSE
    /\ ids = {} /\ fresh = TRUE /\ failure = "ok"
    /\ step = "idle" /\ start = DocNode /\ visit = <<>> /\ emitted = <<>> /\ outcome = "none"

Change ==
    /\ step = "idle"
    /\ feed = <<>> \/ failure # "ok"
    /\ TreeNext
    /\ UNCHANGED <<builderVars, sourceVars>>

Build == BuilderNext /\ UNCHANGED sourceVars

Next == Build \/ Change \/ SourceNext

vars == <<treeVars, builderVars, sourceVars>>
Spec == Init /\ [][Next]_vars

-----------------------------------------------------------------------------
(* A subtree written down as events, from the order of the children.       *)
RECURSIVE Serial(_)
Serial(n) ==
    LET kids == ChildSeq(nodes, n)
        inner == FoldLeft(LAMBDA done, kid : done \o Serial(kid), <<>>, kids)
        enter == IF Reportable(<<"enter", n>>) THEN <<EventOf(<<"enter", n>>)>> ELSE <<>>
        leave == IF Reportable(<<"leave", n>>) THEN <<EventOf(<<"leave", n>>)>> ELSE <<>>
    IN enter \o inner \o leave

Whole(n) == <<[type |-> "startDocument"]>> \o Serial(n) \o <<[type |-> "endDocument"]>>

(* Whatever is read of a tree, by a walk, by name, as text or as events,   *)
(* is what stands in it in document order.  What a source has handed out   *)
(* is what the tree holds, up to where the walk is: all of it when the run *)
(* is reported complete, and no more than the subtree in any case,         *)
(* whatever the node it was made over.  A copy reads as what it was made   *)
(* of (Shape).                                                             *)
ReadsTheTree ==
    /\ ReadsInOrder
    /\ CopiesAreWhole
    /\ IsPrefix(emitted, Whole(start))
    /\ outcome = "completed" => emitted = Whole(start)

(* The events of a document, as the tree is to give them back: character   *)
(* data outside the root left out, and what is adjacent joined.            *)
Normal(events) ==
    LET Depth(done) == Cardinality({i \in DOMAIN done : done[i].type = "start"})
                         - Cardinality({i \in DOMAIN done : done[i].type = "end"})
        Seen(e) == IF e.type = "start" THEN [type |-> "start", name |-> e.name, attrs |-> e.attrs, base |-> e.base]
                   ELSE IF e.type = "end" THEN [type |-> "end", name |-> e.name]
                   ELSE IF e.type = "pi" THEN [type |-> "pi", name |-> e.name, text |-> e.text]
                   ELSE [type |-> e.type, text |-> e.text]
        Take(done, e) ==
            IF e.type \in {"startDocument", "endDocument"} THEN done
            ELSE IF e.type = "doctype"
            THEN IF WithDoctype /\ e.name # NoName THEN Append(done, [type |-> "doctype", name |-> e.name]) ELSE done
            ELSE IF e.type = "characters" /\ Depth(done) = 0 THEN done
            ELSE IF e.type = "characters" /\ Last(done).type = "characters"
            THEN Append(Front(done), [type |-> "characters", text |-> Last(done).text \o e.text])
            ELSE Append(done, Seen(e))
    IN FoldLeft(Take, <<>>, events)

(* While a document is built, its tree is the events it was built from,    *)
(* with the elements still open closed where they stand, and an element    *)
(* is found by the value of its ID, whether xml:id or declared in the DTD. *)
TreeOfEvents ==
    ret.op = "none" /\ built # <<>> =>
        LET closing == [i \in 1 .. Len(open) - 1 |-> [type |-> "end", name |-> nodes[open[Len(open) + 1 - i]].name]]
            Declared(i, a) == \E j \in 1 .. i - 1 :
                /\ built[j].type = "doctype"
                /\ <<Written(built[i].name), Written(a.name)>> \in built[j].ids
        IN /\ Serial(DocNode) = Normal(built) \o closing
           /\ \A i \in DOMAIN built : built[i].type = "start" =>
                 \A k \in DOMAIN built[i].attrs :
                    LET a == built[i].attrs[k]
                    IN Declared(i, a) \/ (XmlId /\ IsXmlId(a.name))
                       => ElementById(nodes, a.value) # None
=============================================================================
