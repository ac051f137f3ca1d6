--------------------------- MODULE XPointerFilter ---------------------------
(***************************************************************************)
(* The filter of xpointer.rs: of the events of a document it forwards      *)
(* those of the element that the first usable part of a pointer            *)
(* identifies.  What a later part selects is held back, because an earlier *)
(* one may still select something: the held events go out at EndDocument.  *)
(* One filter serves one document after another.                           *)
(***************************************************************************)
EXTENDS ElementPointer

CONSTANTS
    Documents,    \* the documents the first source may report
    Later,        \* those that sources after it may report
    Pointers,     \* sequences of parts: [ok, id, steps], ~ok where the scheme refused its data
    WithDoctype,  \* with_doctype
    MaxPending,   \* with_max_pending_chars: a limit, or NoLimit
    NoLimit,
    Runs          \* bound of the model: documents read with one filter

Parts == UNION {ToSet(p) : p \in Pointers}
FilterEvents == UNION {ToSet(D) : D \in Documents \union Later}

ASSUME FilterAssumption ==
    /\ WithDoctype \in BOOLEAN
    /\ NoLimit \notin Nat
    /\ MaxPending \in Nat \union {NoLimit}
    /\ Runs \in Nat \ {0}
    /\ Pointers \subseteq Seq(Parts)
    /\ \A D \in Documents \union Later : IsDocument(D) /\ D \in Seq(FilterEvents)
    /\ \A e \in FilterEvents : e.kind \notin Frame => e.chars \in Nat

VARIABLES
    pointer,     \* what the filter was created with
    document,    \* the document being read
    at,          \* the next event of it
    candidates,  \* per usable part: its selector, its held events and their characters
    found,       \* something was sent downstream
    relaying,    \* the held events that EndDocument is sending on
    stopped,     \* the consumers behind the filter had enough before the end
    outcome,     \* how the run ended, or "running"
    runs,        \* documents begun
    delivered    \* history: what the consumers behind the filter were given in this run

source == <<document, at, runs>>
filter == <<candidates, found, relaying>>
filterVars == <<pointer, source, filter, stopped, outcome, delivered>>

Flows == {"Continue", "Break", "Error"}

Candidate(part) == [selector |-> NewSelector(part), pending |-> <<>>, chars |-> 0]

Candidates(parts) ==
    FoldLeft(LAMBDA all, part : IF part.ok THEN Append(all, Candidate(part)) ELSE all, <<>>, parts)

FilterInit ==
    /\ pointer \in Pointers
    /\ document \in Documents
    /\ at = 1
    /\ candidates = <<>>
    /\ found = FALSE
    /\ relaying = <<>>
    /\ stopped = FALSE
    /\ outcome = "running"
    /\ runs = 1
    /\ delivered = <<>>

-----------------------------------------------------------------------------
Event == document[at]

Reading == outcome = "running" /\ relaying = <<>>

(* An event is over: the source goes on unless the consumers have stopped. *)
Proceed(flow) ==
    /\ stopped' = (stopped \/ flow = "Break")
    /\ outcome' = CASE flow = "Error" -> "Failed"
                    [] flow # "Error" /\ stopped' -> "Stopped"
                    [] flow = "Continue" /\ ~stopped -> "running"
    /\ at' = IF outcome' = "running" THEN at + 1 ELSE at
    /\ UNCHANGED <<pointer, document, runs>>

(* An event is passed on, and the consumers answer with a flow. *)
Forward(flow) == delivered' = Append(delivered, Event) /\ Proceed(flow)

Fail(reason) ==
    /\ outcome' = reason
    /\ UNCHANGED <<pointer, source, stopped, delivered>>

(* Each document begins with new selectors, if any part can be used. *)
BeginDocument(flow) ==
    /\ Reading /\ Event.kind = "StartDocument"
    /\ candidates' = Candidates(pointer)
    /\ found' = FALSE
    /\ UNCHANGED relaying
    /\ candidates' # <<>> /\ Forward(flow)

Unusable ==
    /\ Reading /\ Event.kind = "StartDocument"
    /\ Candidates(pointer) = <<>>
    /\ UNCHANGED filter
    /\ Fail("Unusable")

(* The parts that select the event, and all of them having seen it. *)
Selecting == {i \in DOMAIN candidates : Picks(candidates[i].selector, Event)}

Seen == [i \in DOMAIN candidates |->
            [candidates[i] EXCEPT !.selector = Filtered(@, Event)]]

PassDoctype(flow) ==
    /\ Reading /\ Event.kind = "Doctype"
    /\ candidates' = Seen
    /\ UNCHANGED <<found, relaying>>
    /\ IF WithDoctype THEN Forward(flow) ELSE Proceed("Continue") /\ UNCHANGED delivered

Skip ==
    /\ Reading /\ Event.kind \notin Frame
    /\ Selecting = {}
    /\ candidates' = Seen
    /\ UNCHANGED <<found, relaying, delivered>>
    /\ Proceed("Continue")

(* The first part selects the event: it goes out, the others are dropped. *)
Pass(flow) ==
    /\ Reading /\ Event.kind \notin Frame
    /\ 1 \in Selecting
    /\ candidates' = SubSeq(Seen, 1, 1)
    /\ found' = TRUE
    /\ UNCHANGED relaying
    /\ Forward(flow)

(* The first part that selects the event keeps it; later parts are done.   *)
Holding ==
    LET first == Min(Selecting)
    IN [Seen EXCEPT ![first].pending = Append(@, Event), ![first].chars = @ + Event.chars]

(* A faulty form: each event is measured by itself. *)
HoldMeasuringOne ==
    /\ Reading /\ Event.kind \notin Frame
    /\ Selecting # {} /\ 1 \notin Selecting
    /\ UNCHANGED <<found, relaying>>
    /\ MaxPending = NoLimit \/ Event.chars <= MaxPending
    /\ candidates' = SubSeq(Holding, 1, Min(Selecting))
    /\ UNCHANGED delivered
    /\ Proceed("Continue")

Hold ==
    /\ Reading /\ Event.kind \notin Frame
    /\ Selecting # {} /\ 1 \notin Selecting
    /\ UNCHANGED <<found, relaying>>
    /\ MaxPending = NoLimit \/ Holding[Min(Selecting)].chars <= MaxPending
    /\ candidates' = SubSeq(Holding, 1, Min(Selecting))
    /\ UNCHANGED delivered
    /\ Proceed("Continue")

TooLong ==
    /\ Reading /\ Event.kind \notin Frame
    /\ Selecting # {} /\ 1 \notin Selecting
    /\ MaxPending # NoLimit /\ Holding[Min(Selecting)].chars > MaxPending
    /\ UNCHANGED filter
    /\ Fail("TooLong")

(* At the end of the document the first part that held something wins;  *)
(* the source does not ask who has stopped once it has come that far.    *)
Held == {i \in DOMAIN candidates : candidates[i].pending # <<>>}

FinishDocument(flow) ==
    /\ Reading /\ Event.kind = "EndDocument"
    /\ Held = {} \/ found
    /\ IF found
       THEN /\ delivered' = IF stopped THEN delivered ELSE Append(delivered, Event)
            /\ outcome' = IF flow = "Error" /\ ~stopped THEN "Failed" ELSE "Completed"
            /\ UNCHANGED <<pointer, source, filter, stopped>>
       ELSE UNCHANGED filter /\ Fail("NotFound")

BeginRelay ==
    /\ Reading /\ Event.kind = "EndDocument"
    /\ Held # {} /\ ~found
    /\ relaying' = candidates[Min(Held)].pending
    /\ found' = TRUE
    /\ UNCHANGED <<pointer, source, candidates, stopped, outcome, delivered>>

(* One held event after another, until a consumer has had enough. *)
Relay(flow) ==
    /\ outcome = "running" /\ relaying # <<>>
    /\ delivered' = Append(delivered, Head(relaying))
    /\ stopped' = (flow = "Break")
    /\ relaying' = IF flow = "Continue" THEN Tail(relaying) ELSE <<>>
    /\ outcome' = IF flow = "Error" THEN "Failed" ELSE outcome
    /\ UNCHANGED <<pointer, source, candidates, found>>

(* The same filter is driven by another source. *)
NextDocument(D) ==
    /\ outcome # "running" /\ runs < Runs
    /\ runs' = runs + 1
    /\ document' = D
    /\ at' = 1
    /\ stopped' = FALSE
    /\ outcome' = "running"
    /\ delivered' = <<>>
    /\ UNCHANGED <<pointer, filter>>

Read ==
    \/ \E flow \in Flows :
         BeginDocument(flow) \/ PassDoctype(flow) \/ Pass(flow) \/ Relay(flow) \/ FinishDocument(flow)
    \/ Unusable \/ Skip \/ Hold \/ TooLong \/ BeginRelay

FilterNext == Read \/ \E D \in Later : NextDocument(D)

FilterSpec == FilterInit /\ [][FilterNext]_filterVars

-----------------------------------------------------------------------------
(* The parts that identify an element of the document. *)
Identifying == {i \in DOMAIN pointer : pointer[i].ok /\ Identified(document, pointer[i]) # {}}

(* The events of the element that the first of them identifies. *)
Selection ==
    LET i == Min(Identified(document, pointer[Min(Identifying)]))
    IN SubSeq(document, i, EndOf(document, i))

Content == SelectSeq(delivered, LAMBDA e : e.kind \notin Frame)

(* The consumers behind the filter get the events of the element that the  *)
(* first identifying part names, in order and without a gap, and all of    *)
(* them when the run completes; a pointer that names nothing is an error   *)
(* exactly then (xpointer.rs, Errors and Limitations).                     *)
ForwardsTheSelection ==
    /\ Content # <<>> => Identifying # {} /\ IsPrefix(Content, Selection)
    /\ outcome = "Completed" /\ ~stopped => Content = Selection
    /\ outcome = "NotFound" => Identifying = {}

(* Only the last part under consideration holds events back, never the     *)
(* first one, and none once something went out (Candidate's comment); what *)
(* it holds is within the limit, summed over all of it.                    *)
Total(counts) == FoldLeft(LAMBDA sum, c : sum + c, 0, counts)
CharsOf(events) == Total([j \in DOMAIN events |-> events[j].chars])

PendingBounded ==
    /\ \A i \in DOMAIN candidates :
        /\ candidates[i].pending # <<>> => i = Len(candidates) /\ i > 1
        /\ MaxPending # NoLimit => CharsOf(candidates[i].pending) <= MaxPending
    /\ found /\ Reading /\ Event.kind \notin Frame => Held = {}

-----------------------------------------------------------------------------
(* What PendingBounded rests on.  What a selector remembers is left open.  *)
Contents == {e \in FilterEvents : e.kind \notin Frame}
IsCandidate(c) == c \in [selector : {c.selector}, pending : Seq(Contents), chars : Nat]

FilterTypeOK ==
    /\ pointer \in Pointers
    /\ document \in Documents \union Later /\ at \in 1..Len(document)
    /\ candidates \in Seq(ToSet(candidates))
    /\ \A i \in 1..Len(candidates) : IsCandidate(candidates[i])
    /\ found \in BOOLEAN /\ stopped \in BOOLEAN

(* The characters are counted as they are held, by the last part alone;    *)
(* the first part, once something of it went out, is the only one left.    *)
FilterIInv ==
    /\ FilterTypeOK
    /\ \A i \in 1..Len(candidates) : LET c == candidates[i] IN
          /\ c.chars = CharsOf(c.pending)
          /\ MaxPending # NoLimit => c.chars <= MaxPending
          /\ c.pending # <<>> => i = Len(candidates) /\ i > 1
    /\ found /\ outcome = "running" /\ Event.kind \notin {"StartDocument", "EndDocument"} => Len(candidates) = 1
=============================================================================
