----------------------------- MODULE Dispatcher -----------------------------
(***************************************************************************)
(* The fan-out of event.rs: a Dispatcher forwards each event to its        *)
(* members in the order they were added, counts the validity errors they   *)
(* report, stops when every consumer has had enough, and tells every       *)
(* member once how the run ended.                                          *)
(*                                                                         *)
(* A call of consume is several steps: Begin enters it, the members answer *)
(* one at a time, LeaveCall leaves it.  What lies between is what a member *)
(* or a panic can observe.  When these operations are called is up to the  *)
(* driver that owns the dispatcher: CursorSource composes them.            *)
(***************************************************************************)
EXTENDS Naturals, Sequences

CONSTANTS
    N,           \* how many members were added
    Validators,  \* those added with add_validator
    MaxErrors,   \* with_max_errors: a limit, or NoLimit
    NoLimit,
    UsizeMax,    \* where the counters saturate
    Counts       \* the error counts a member may return for one event

Members == 1..N
Consumers == Members \ Validators

ASSUME DispatcherAssumption ==
    /\ N \in Nat
    /\ Validators \subseteq Members
    /\ UsizeMax \in Nat
    /\ Counts \subseteq 0..UsizeMax
    /\ NoLimit \notin Nat
    /\ MaxErrors \in (0..UsizeMax) \union {NoLimit}

Events == {"StartDocument", "Item", "EndDocument"}
Flows == {"Continue", "Break"}
Outcomes == {"Completed", "Stopped", "Failed", "Abandoned"}

VARIABLES
    running,   \* a run has begun and its members have not been told of its end
    finished,  \* the members that returned Break in the current run
    total,     \* validity_error_count
    event,     \* the event of the consume call in progress, or "none"
    at,        \* whose turn it is in that call
    found,     \* event_validity_error_count
    error      \* the call is returning an error

VARIABLES      \* history: what the members themselves saw in this run
    begun,     \* how many events the driver has reported
    heard,     \* heard[m]: how many of them m was called with
    broke,     \* the members that have answered Break
    reported,  \* the sum of the counts the members returned
    told       \* told[m]: the outcomes finish gave m

state == <<running, finished, total>>
call == <<event, at, found, error>>
history == <<begun, heard, broke, reported, told>>

(* A faulty form: the addition does not saturate. *)
PlainAdd(a, b) == a + b

Saturating(a, b) == IF a + b > UsizeMax THEN UsizeMax ELSE a + b

(* A faulty form: one error past the limit is let through. *)
LateLimit(count) == MaxErrors # NoLimit /\ count > MaxErrors + 1

OverLimit(count) == MaxErrors # NoLimit /\ count > MaxErrors

IsStopped == Consumers # {} /\ Consumers \subseteq finished

DispatcherTypeOK ==
    /\ running \in BOOLEAN
    /\ finished \subseteq Members
    /\ total \in 0..UsizeMax
    /\ event \in Events \union {"none"}
    /\ at \in 1..(N + 1)
    /\ found \in 0..UsizeMax
    /\ error \in BOOLEAN
    /\ begun \in Nat
    /\ heard \in [Members -> Nat]
    /\ broke \subseteq Members
    /\ reported \in Nat
    /\ told \in [Members -> Seq(Outcomes)]

-----------------------------------------------------------------------------
DispatcherInit ==
    /\ running = FALSE
    /\ finished = {}
    /\ total = 0
    /\ event = "none"
    /\ at = 1
    /\ found = 0
    /\ error = FALSE
    /\ begun = 0
    /\ heard = [m \in Members |-> 0]
    /\ broke = {}
    /\ reported = 0
    /\ told = [m \in Members |-> <<>>]

(* consume is entered with e: nobody has been called yet. *)
Enter(e) ==
    /\ event = "none"
    /\ event' = e
    /\ at' = 1
    /\ found' = 0
    /\ error' = FALSE

(* StartDocument opens a new run, in which every member takes part again. *)
BeginRun ==
    /\ Enter("StartDocument")
    /\ running' = TRUE
    /\ finished' = {}
    /\ total' = 0
    /\ begun' = 1
    /\ heard' = [m \in Members |-> 0]
    /\ broke' = {}
    /\ reported' = 0
    /\ told' = [m \in Members |-> <<>>]

(* Any other event belongs to the run that is open. *)
Begin(e) ==
    /\ Enter(e)
    /\ begun' = begun + 1
    /\ UNCHANGED <<running, finished, total, heard, broke, reported, told>>

InCall == event # "none" /\ ~error /\ at \in Members

(* A member that has had enough is passed over. *)
Skip ==
    /\ InCall
    /\ at \in finished
    /\ at' = at + 1
    /\ UNCHANGED <<state, event, found, error, history>>

(* The member whose turn it is hears the event and answers Continue or     *)
(* Break with the number of errors it found.  A run over its limit is      *)
(* refused before the next member is called.                               *)
Hear(flow, count) ==
    /\ InCall
    /\ at \notin finished
    /\ finished' = IF flow = "Break" THEN finished \union {at} ELSE finished
    /\ found' = Saturating(found, count)
    /\ total' = Saturating(total, count)
    /\ at' = at + 1
    /\ error' = OverLimit(total')
    /\ heard' = [heard EXCEPT ![at] = @ + 1]
    /\ broke' = IF flow = "Break" THEN broke \union {at} ELSE broke
    /\ reported' = reported + count
    /\ UNCHANGED <<running, event, begun, told>>

(* The member refuses the event: `?` leaves the loop at once. *)
Refuse ==
    /\ InCall
    /\ at \notin finished
    /\ error' = TRUE
    /\ heard' = [heard EXCEPT ![at] = @ + 1]
    /\ UNCHANGED <<state, event, at, found, begun, broke, reported, told>>

(* consume is about to return Result to its driver. *)
Answered == event # "none" /\ (error \/ at = N + 1)

Result == IF error THEN "Err" ELSE IF IsStopped THEN "Break" ELSE "Continue"

LeaveCall ==
    /\ event' = "none"
    /\ UNCHANGED <<at, found, error>>

(* A faulty form: the members that stopped early are not told. *)
FinishTheRest(outcome) ==
    /\ running' = FALSE
    /\ told' = [m \in Members |-> IF running /\ m \notin finished
                                 THEN Append(told[m], outcome) ELSE told[m]]
    /\ UNCHANGED <<finished, total, begun, heard, broke, reported>>

(* finish: every member is told, the ones that stopped early too; a second *)
(* call in the same run is ignored.                                        *)
Finish(outcome) ==
    /\ running' = FALSE
    /\ told' = IF running THEN [m \in Members |-> Append(told[m], outcome)] ELSE told
    /\ UNCHANGED <<finished, total, begun, heard, broke, reported>>

(* The member whose turn it is panics: unwinding leaves the call and drops *)
(* the producer, which abandons the run.                                   *)
Panic ==
    /\ InCall
    /\ at \notin finished
    /\ LeaveCall
    /\ running' = FALSE
    /\ told' = IF running THEN [m \in Members |-> Append(told[m], "Abandoned")] ELSE told
    /\ heard' = [heard EXCEPT ![at] = @ + 1]
    /\ UNCHANGED <<finished, total, begun, broke, reported>>
=============================================================================
