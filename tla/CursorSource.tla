---------------------------- MODULE CursorSource ----------------------------
(***************************************************************************)
(* The pull side of io/read.rs (and of every EventCursor): next() moves a  *)
(* source through StartDocument, the events of the document and            *)
(* EndDocument, hands each to the Dispatcher, and tells the members how    *)
(* the run ended.  A source reads one document; Attach is the next source  *)
(* given the same Dispatcher as its consumer, which is how consumers are   *)
(* used for several documents.                                             *)
(***************************************************************************)
EXTENDS Dispatcher

CONSTANT MaxEvents  \* bound: events in a document, StartDocument and EndDocument included

ASSUME CursorAssumption == MaxEvents \in Nat

VARIABLES
    step,     \* StreamSource.step, or "Gone" when there is no source
    closed,   \* history: EndDocument was reported in this run
    verdict   \* history: what next() last told the caller of this run

Steps == {"Before", "Reading", "Ended", "Stopped", "Done", "Gone"}
Verdicts == {"open", "event", "none", "error", "abandoned"}

vars == <<running, finished, total, event, at, found, error,
          begun, heard, broke, reported, told, step, closed, verdict>>

Init ==
    /\ DispatcherInit
    /\ step = "Before"
    /\ closed = FALSE
    /\ verdict = "open"

-----------------------------------------------------------------------------
(* next(): each call is one of these, followed by the members' answers and *)
(* by Return when it reported an event.                                    *)

Open ==
    /\ step = "Before"
    /\ BeginRun
    /\ step' = "Reading"
    /\ closed' = FALSE
    /\ verdict' = "open"

ReadEvent ==
    /\ step = "Reading"
    /\ begun + 1 < MaxEvents
    /\ Begin("Item")
    /\ UNCHANGED <<step, closed, verdict>>

ReadEnd ==
    /\ step = "Reading"
    /\ Begin("EndDocument")
    /\ step' = "Ended"
    /\ closed' = TRUE
    /\ UNCHANGED verdict

(* A faulty form: the error is returned without telling the members. *)
ReadFailsSilently ==
    /\ step = "Reading"
    /\ event = "none"
    /\ step' = "Done"
    /\ verdict' = "error"
    /\ UNCHANGED <<state, call, history, closed>>

(* The input cannot be read or is not well-formed. *)
ReadFails ==
    /\ step = "Reading"
    /\ event = "none"
    /\ Finish("Failed")
    /\ step' = "Done"
    /\ verdict' = "error"
    /\ UNCHANGED <<call, closed>>

(* A faulty form: a run that stopped early is left open. *)
ConcludeCompletedOnly ==
    /\ event = "none"
    /\ step \in {"Ended", "Stopped"}
    /\ IF step = "Ended" THEN Finish("Completed") ELSE UNCHANGED <<state, history>>
    /\ step' = "Done"
    /\ verdict' = "none"
    /\ UNCHANGED <<call, closed>>

(* A run whose members accepted EndDocument, or wanted no more, is         *)
(* concluded by the call after it.                                         *)
Conclude ==
    /\ event = "none"
    /\ step \in {"Ended", "Stopped"}
    /\ Finish(IF step = "Ended" THEN "Completed" ELSE "Stopped")
    /\ step' = "Done"
    /\ verdict' = "none"
    /\ UNCHANGED <<call, closed>>

(* The dispatcher accepted the event and next() hands it to the caller;    *)
(* a Break in answer to EndDocument changes nothing.                       *)
ReturnEvent ==
    /\ Answered
    /\ Result # "Err"
    /\ LeaveCall
    /\ step' = IF Result = "Break" /\ event # "EndDocument" THEN "Stopped" ELSE step
    /\ verdict' = "event"
    /\ UNCHANGED <<state, history, closed>>

ReturnError ==
    /\ Answered
    /\ Result = "Err"
    /\ LeaveCall
    /\ Finish("Failed")
    /\ step' = "Done"
    /\ verdict' = "error"
    /\ UNCHANGED closed

-----------------------------------------------------------------------------
Answer ==
    /\ \/ Skip
       \/ \E flow \in Flows, count \in Counts : Hear(flow, count)
       \/ Refuse
    /\ UNCHANGED <<step, closed, verdict>>

MemberPanics ==
    /\ Panic
    /\ step' = "Gone"
    /\ verdict' = "abandoned"
    /\ UNCHANGED closed

(* The source is dropped between two calls. *)
DropSource ==
    /\ event = "none"
    /\ step # "Gone"
    /\ Finish("Abandoned")
    /\ step' = "Gone"
    /\ verdict' = IF running THEN "abandoned" ELSE verdict
    /\ UNCHANGED <<call, closed>>

Attach ==
    /\ step = "Gone"
    /\ step' = "Before"
    /\ UNCHANGED <<state, call, history, closed, verdict>>

NextCall == Open \/ ReadEvent \/ ReadEnd \/ ReadFails \/ Conclude
Progress == NextCall \/ ReturnEvent \/ ReturnError \/ Answer

Next == Progress \/ MemberPanics \/ DropSource \/ Attach

Spec == Init /\ [][Next]_vars

(* emit() calls next() until it returns None or an error, and a member     *)
(* that is called answers.                                                 *)
FairSpec == Spec /\ WF_vars(Progress)

-----------------------------------------------------------------------------
(* Every variable stays in its range: in particular the two error counters *)
(* saturate and never wrap (event.rs, the saturating_add of consume).      *)
TypeOK ==
    /\ DispatcherTypeOK
    /\ step \in Steps
    /\ closed \in BOOLEAN
    /\ verdict \in Verdicts

(* The source and its dispatcher keep the promises of EventRun: each       *)
(* member hears the events in order, without a gap or a repetition, until  *)
(* it has had enough; nothing is read once nobody wants more; nothing is   *)
(* heard after a refusal; one outcome ends the run, told once to all.      *)
Contract == INSTANCE EventRun WITH events <- begun, left <- broke, refused <- error

KeepsContract == Contract!Spec

(* No member is called once the errors reported in the run exceed the      *)
(* limit, wherever in the chain they were found.  A limit of usize::MAX is *)
(* no limit, since the counter saturates there.                            *)
LimitHolds ==
    [][\A m \in Members :
          /\ heard'[m] > heard[m]
          /\ MaxErrors # NoLimit /\ MaxErrors < UsizeMax
          => reported <= MaxErrors]_vars

(* What the members are told agrees with what the caller saw: an error     *)
(* from next() is Failed, None is Completed or Stopped, and only a source  *)
(* given up on the way is Abandoned.                                       *)
AgreesWithCaller ==
    \A m \in Members :
        /\ verdict = "error" => told[m] = <<"Failed">>
        /\ verdict = "none" => told[m] = IF closed THEN <<"Completed">> ELSE <<"Stopped">>
        /\ verdict = "abandoned" => told[m] = <<"Abandoned">>
        /\ verdict \in {"open", "event"} => told[m] = <<>>

(* A run that was opened ends: every member is told, so what it holds for  *)
(* the document can be released.                                           *)
RunEnds == running ~> \A m \in Members : told[m] # <<>>

(* What the documentation says further, and the code does not keep.        *)

(* "No notification is sent to consumers that never received a             *)
(* StartDocument event" (event.rs, EventConsumer::finish).  When a member  *)
(* refuses StartDocument, those after it are told of a run they never      *)
(* heard of.                                                               *)
NoNoticeWithoutStart ==
    \A m \in Members : told[m] # <<>> => heard[m] > 0

(* "Completed is passed if all consumers have accepted EndDocument"        *)
(* (event.rs, EventConsumer::finish and Outcome::Completed).  A consumer   *)
(* that had enough is passed over, and one other that reads on to the end  *)
(* completes the run.                                                      *)
CompletedMeansAccepted ==
    \A m \in Consumers : told[m] = <<"Completed">> => heard[m] = begun

-----------------------------------------------------------------------------
(* The parts of the inductive invariant the proofs rest on. *)

(* Where the source stands says whether a run is open and which call of    *)
(* consume can be in progress.                                             *)
Phases ==
    /\ running <=> step \in {"Reading", "Ended", "Stopped"}
    /\ event \in {"StartDocument", "Item"} => step = "Reading"
    /\ event = "EndDocument" => step = "Ended"
    /\ running => (closed <=> step = "Ended")
    /\ running => begun > 0
    /\ running /\ event = "none" => ~error
    /\ verdict \in {"error", "none", "abandoned"} <=> ~running /\ begun > 0

(* How far each member is: those whose turn is past have heard the event   *)
(* being reported, the others the one before.                              *)
InOrder ==
    \A m \in Members :
        running /\ ~error /\ m \notin broke
        => heard[m] = IF event # "none" /\ m >= at THEN begun - 1 ELSE begun

(* The dispatcher's note of who has had enough is what the members said,   *)
(* and the source reads on exactly while a consumer wants more.            *)
EnoughNoted ==
    /\ finished = broke
    /\ step = "Stopped" => IsStopped
    /\ step = "Reading" /\ event = "none" => ~IsStopped

(* The dispatcher's total is the sum of the reports as far as it can count. *)
TotalCounts ==
    /\ total = IF reported > UsizeMax THEN UsizeMax ELSE reported
    /\ running /\ ~error => ~OverLimit(total)

IInv ==
    /\ TypeOK
    /\ Phases
    /\ InOrder
    /\ EnoughNoted
    /\ TotalCounts
    /\ AgreesWithCaller
=============================================================================
