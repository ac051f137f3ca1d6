----------------------------- MODULE Inclusion ------------------------------
(***************************************************************************)
(* What reading a document means, with no buffers, streams or stacks: the  *)
(* replacement text of an entity stands where the reference stood (XML 1.0 *)
(* 4.4.2), adjacent character data is one run of text, and tags match.     *)
(* EntityReader reads the same document in chunks, from several sources,   *)
(* with text and markup held back, and is shown to implement this.         *)
(***************************************************************************)
EXTENDS Naturals, Sequences

CONSTANTS Doc, Nothing

VARIABLES
    input,   \* the document and its entities; it never changes
    todo,    \* the tokens still to be read, entities included as they are met
    run,     \* character data met and not yet reported
    open,    \* the tags of the open elements
    event,   \* the event last reported, or Nothing
    status   \* "reading", "complete" or "given up"

vars == <<input, todo, run, open, event, status>>

Head1 == todo[1]
Front1(s) == SubSeq(s, 1, Len(s) - 1)
IsData(t) == t.kind \in {"text", "space"}
Plain(kind) == kind \in {"misc", "cdata", "doctype"}
EndOf(tag) == [kind |-> "end", tag |-> tag]

(* The text an external entity stands for is what follows its text         *)
(* declaration.                                                            *)
Replacement(n) ==
    LET body == input.body[n]
    IN IF input.sort[n] = "external" /\ body # <<>> /\ body[1].kind = "decl" THEN Tail(body) ELSE body

Init ==
    /\ todo = input.body[Doc]
    /\ run = <<>>
    /\ open = <<>>
    /\ event = Nothing
    /\ status = "reading"

Reading == status = "reading" /\ UNCHANGED <<input, status>>

Include ==
    /\ Reading
    /\ todo # <<>> /\ Head1.kind = "ref"
    /\ todo' = Replacement(Head1.name) \o Tail(todo)
    /\ UNCHANGED <<run, open, event>>

Gather ==
    /\ Reading
    /\ todo # <<>> /\ IsData(Head1)
    /\ run' = Append(run, Head1)
    /\ todo' = Tail(todo)
    /\ UNCHANGED <<open, event>>

(* A run may be reported in pieces, and none of it stays behind the markup *)
(* that ends it.                                                           *)
ReportRun ==
    /\ Reading
    /\ run # <<>>
    /\ event' = [kind |-> "run", text |-> run]
    /\ run' = <<>>
    /\ UNCHANGED <<todo, open>>

(* The run whose last piece is just being met. *)
GatherAndReport ==
    /\ Reading
    /\ todo # <<>> /\ IsData(Head1)
    /\ event' = [kind |-> "run", text |-> Append(run, Head1)]
    /\ run' = <<>>
    /\ todo' = Tail(todo)
    /\ UNCHANGED open

ReportMarkup ==
    /\ Reading
    /\ todo # <<>> /\ run = <<>>
    /\ event' = Head1
    /\ \/ Plain(Head1.kind) /\ todo' = Tail(todo) /\ UNCHANGED open
       \/ /\ Head1.kind = "start"
          /\ open' = Append(open, Head1.tag)
          /\ todo' = (IF Head1.empty THEN <<EndOf(Head1.tag)>> ELSE <<>>) \o Tail(todo)
       \/ /\ Head1.kind = "end"
          /\ open # <<>> /\ open[Len(open)] = Head1.tag
          /\ open' = Front1(open)
          /\ todo' = Tail(todo)
    /\ UNCHANGED run

(* The caller asks for the next event. *)
Ask ==
    /\ Reading
    /\ event' = Nothing
    /\ UNCHANGED <<todo, run, open>>

Complete ==
    /\ status = "reading"
    /\ todo = <<>> /\ run = <<>> /\ open = <<>>
    /\ status' = "complete"
    /\ UNCHANGED <<input, todo, run, open, event>>

(* The document is refused, or its input lost; what is left of it does not *)
(* matter then.                                                            *)
GiveUp ==
    /\ status = "reading"
    /\ status' = "given up"
    /\ UNCHANGED <<input, event>>

Next ==
    \/ Include \/ Gather \/ ReportRun \/ GatherAndReport \/ ReportMarkup
    \/ Ask \/ Complete \/ GiveUp

Spec == Init /\ [][Next]_vars
=============================================================================
