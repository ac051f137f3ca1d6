------------------------------ MODULE EventRun ------------------------------
(***************************************************************************)
(* What event.rs promises the members of a pipeline, whatever drives it:   *)
(* the documentation of EventConsumer, Outcome and EventCursor as a        *)
(* specification.  A run reports a sequence of events.  Every member hears *)
(* each of them once and in order, after the members before it, until it   *)
(* answers that it has had enough; nobody hears anything once the run was  *)
(* refused; and the run ends with one outcome, told to everybody.          *)
(***************************************************************************)
EXTENDS Naturals, Sequences

CONSTANTS N, Validators

Members == 1..N
Consumers == Members \ Validators

VARIABLES
    events,   \* how many events the run has reported
    closed,   \* the last of them is EndDocument
    heard,    \* heard[m]: how many of them m has heard
    left,     \* the members that have had enough
    refused,  \* a member, or the error limit, refused the document
    told      \* told[m]: the outcomes m was told

vars == <<events, closed, heard, left, refused, told>>

Outcomes == {"Completed", "Stopped", "Failed", "Abandoned"}

Untold == \A m \in Members : told[m] = <<>>
AllHeard == \A m \in Members : m \in left \/ heard[m] = events
EnoughForAll == Consumers # {} /\ Consumers \subseteq left

Init ==
    /\ events = 0
    /\ closed = FALSE
    /\ heard = [m \in Members |-> 0]
    /\ left = {}
    /\ refused = FALSE
    /\ told = [m \in Members |-> <<>>]

(* A run opens with StartDocument once the one before it is over. *)
Open ==
    /\ events = 0 \/ \A m \in Members : told[m] # <<>>
    /\ events' = 1
    /\ closed' = FALSE
    /\ heard' = [m \in Members |-> 0]
    /\ left' = {}
    /\ refused' = FALSE
    /\ told' = [m \in Members |-> <<>>]

(* A further event follows only when everyone has heard the one before and *)
(* a consumer still wants it; none follows EndDocument or a refusal.       *)
Report ==
    /\ events > 0 /\ ~closed /\ ~refused
    /\ Untold /\ AllHeard /\ ~EnoughForAll
    /\ events' = events + 1
    /\ closed' \in BOOLEAN
    /\ UNCHANGED <<heard, left, refused, told>>

(* m hears the next event after every member before it has. *)
Hear(m) ==
    /\ Untold /\ ~refused /\ m \notin left
    /\ heard[m] + 1 = events
    /\ \A i \in 1..(m - 1) : i \in left \/ heard[i] = events
    /\ heard' = [heard EXCEPT ![m] = @ + 1]
    /\ left' \in {left, left \union {m}}
    /\ refused' \in BOOLEAN
    /\ UNCHANGED <<events, closed, told>>

(* The run ends and everyone is told the same outcome. *)
End(outcome) ==
    /\ events > 0 /\ Untold
    /\ outcome = "Completed" => closed /\ AllHeard /\ ~refused
    /\ outcome = "Stopped" => EnoughForAll /\ AllHeard /\ ~refused
    /\ refused => outcome \in {"Failed", "Abandoned"}
    /\ told' = [m \in Members |-> <<outcome>>]
    /\ UNCHANGED <<events, closed, heard, left, refused>>

(* A member that panics has heard the event, and the run is abandoned. *)
Panic(m) ==
    /\ Untold /\ ~refused /\ m \notin left
    /\ heard[m] + 1 = events
    /\ heard' = [heard EXCEPT ![m] = @ + 1]
    /\ told' = [i \in Members |-> <<"Abandoned">>]
    /\ UNCHANGED <<events, closed, left, refused>>

Next ==
    \/ Open
    \/ Report
    \/ \E m \in Members : Hear(m) \/ Panic(m)
    \/ \E outcome \in Outcomes : End(outcome)

Spec == Init /\ [][Next]_vars
=============================================================================
