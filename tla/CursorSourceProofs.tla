------------------------- MODULE CursorSourceProofs -------------------------
(***************************************************************************)
(* Proofs about CursorSource for any number of members, any set of         *)
(* validators, any limit and any document length.                          *)
(***************************************************************************)
EXTENDS CursorSource, SequenceTheorems, TLAPS

USE DispatcherAssumption, CursorAssumption

(* A count added with saturation is still a usize. *)
LEMMA SaturatingRange ==
    ASSUME NEW a \in 0..UsizeMax, NEW b \in 0..UsizeMax
    PROVE  Saturating(a, b) \in 0..UsizeMax
BY DEF Saturating

(* Clearing the notices and adding one to each leave sequences of outcomes. *)
LEMMA NoticesCleared == [m \in Members |-> <<>>] \in [Members -> Seq(Outcomes)]
<1>1. <<>> \in Seq(Outcomes)
    OBVIOUS
<1> QED BY <1>1

LEMMA NoticeAdded ==
    ASSUME NEW outcome \in Outcomes, told \in [Members -> Seq(Outcomes)]
    PROVE  [m \in Members |-> Append(told[m], outcome)] \in [Members -> Seq(Outcomes)]
<1>1. ASSUME NEW m \in Members
      PROVE  Append(told[m], outcome) \in Seq(Outcomes)
    <2>1. told[m] \in Seq(Outcomes)
        OBVIOUS
    <2> QED BY <2>1, AppendProperties
<1> QED BY <1>1

-----------------------------------------------------------------------------
LEMMA InitInvariant == Init => IInv
<1> SUFFICES ASSUME Init PROVE IInv
    OBVIOUS
<1> USE DEF Init, DispatcherInit
<1>1. TypeOK
    <2>1. at \in 1..(N + 1) /\ total \in 0..UsizeMax /\ found \in 0..UsizeMax
        OBVIOUS
    <2>2. told \in [Members -> Seq(Outcomes)]
        BY NoticesCleared
    <2>3. heard \in [Members -> Nat]
        OBVIOUS
    <2> QED BY <2>1, <2>2, <2>3 DEF TypeOK, DispatcherTypeOK, Events, Steps, Verdicts
<1>2. Phases
    BY DEF Phases
<1>3. InOrder /\ EnoughNoted
    BY DEF InOrder, EnoughNoted
<1>4. TotalCounts
    BY DEF TotalCounts
<1>5. AgreesWithCaller
    BY DEF AgreesWithCaller
<1> QED BY <1>1, <1>2, <1>3, <1>4, <1>5 DEF IInv

LEMMA TypeStep == TypeOK /\ [Next]_vars => TypeOK'
<1> SUFFICES ASSUME TypeOK, [Next]_vars PROVE TypeOK'
    OBVIOUS
<1> USE DEF TypeOK, DispatcherTypeOK, Steps, Verdicts, Events
<1>1. ASSUME NEW e \in Events, Enter(e)
      PROVE  /\ event' \in Events \cup {"none"}
             /\ at' \in 1..(N + 1) /\ found' \in 0..UsizeMax
    BY <1>1 DEF Enter
<1>2. CASE Open
    BY <1>1, <1>2, NoticesCleared DEF Open, BeginRun, Enter
<1>3. CASE ReadEvent
    <2>1. begun' \in Nat
        BY <1>3 DEF ReadEvent, Begin
    <2>2. running' \in BOOLEAN /\ error' \in BOOLEAN /\ closed' \in BOOLEAN
        BY <1>3 DEF ReadEvent, Begin, Enter
    <2> QED BY <1>1, <1>3, <2>1, <2>2 DEF ReadEvent, Begin
<1>4. CASE ReadEnd
    <2>1. begun' \in Nat
        BY <1>4 DEF ReadEnd, Begin
    <2>2. running' \in BOOLEAN /\ error' \in BOOLEAN /\ closed' \in BOOLEAN
        BY <1>4 DEF ReadEnd, Begin, Enter
    <2> QED BY <1>1, <1>4, <2>1, <2>2 DEF ReadEnd, Begin
<1>5. ASSUME NEW outcome \in Outcomes, Finish(outcome)
      PROVE  (running' \in BOOLEAN /\ told' \in [Members -> Seq(Outcomes)])
    BY <1>5, NoticeAdded DEF Finish
<1>6. CASE ReadFails
    BY <1>5, <1>6 DEF ReadFails, call, Finish, Outcomes
<1>7. CASE Conclude
    BY <1>5, <1>7 DEF Conclude, call, Finish, Outcomes
<1>8. CASE ReturnEvent
    BY <1>8 DEF ReturnEvent, LeaveCall, state, history
<1>9. CASE ReturnError
    BY <1>5, <1>9 DEF ReturnError, LeaveCall, Finish, Outcomes
<1>10. CASE Answer
    <2>1. ASSUME NEW flow \in Flows, NEW count \in Counts, Hear(flow, count)
          PROVE  DispatcherTypeOK'
        <3>1. count \in 0..UsizeMax /\ count \in Nat
            OBVIOUS
        <3>2. total' \in 0..UsizeMax /\ found' \in 0..UsizeMax
            BY <2>1, <3>1, SaturatingRange DEF Hear
        <3>3. reported' \in Nat
            BY <2>1, <3>1 DEF Hear
        <3>4. error' \in BOOLEAN
            BY <2>1 DEF Hear, OverLimit
        <3> QED BY <2>1, <3>2, <3>3, <3>4 DEF Hear, InCall, Members
    <2>2. CASE Skip
        BY <1>10, <2>2 DEF Answer, Skip, InCall, state, history, Members
    <2>3. CASE Refuse
        BY <1>10, <2>3 DEF Answer, Refuse, InCall, state
    <2> QED BY <1>10, <2>1, <2>2, <2>3 DEF Answer
<1>11. CASE MemberPanics
    <2>1. told' \in [Members -> Seq(Outcomes)]
        BY <1>11, NoticeAdded DEF MemberPanics, Panic, Outcomes
    <2>2. heard' \in [Members -> Nat]
        BY <1>11 DEF MemberPanics, Panic, InCall
    <2> QED BY <1>11, <2>1, <2>2 DEF MemberPanics, Panic, LeaveCall
<1>12. CASE DropSource
    BY <1>5, <1>12 DEF DropSource, call, Finish, Outcomes
<1>13. CASE Attach
    BY <1>13 DEF Attach, state, call, history
<1>14. CASE UNCHANGED vars
    BY <1>14 DEF vars
<1> QED BY <1>2, <1>3, <1>4, <1>6, <1>7, <1>8, <1>9, <1>10, <1>11, <1>12, <1>13, <1>14
        DEF Next, Progress, NextCall

(* The variables of a pipeline keep their types, its counters their width. *)
THEOREM TypeCorrect == Spec => []TypeOK
<1>1. Init => TypeOK
    BY InitInvariant DEF IInv
<1>2. TypeOK /\ [Next]_vars => TypeOK'
    BY TypeStep
<1> QED BY <1>1, <1>2, PTL DEF Spec

-----------------------------------------------------------------------------
(* One lemma for each part of the invariant: every step preserves it. *)

LEMMA PhasesStep == IInv /\ [Next]_vars => Phases'
<1> SUFFICES ASSUME IInv, [Next]_vars PROVE Phases'
    OBVIOUS
<1> USE DEF IInv, Phases
<1>0. event \in Events \union {"none"} /\ begun \in Nat /\ step \in Steps
    BY DEF TypeOK, DispatcherTypeOK
<1>1. CASE Open
    BY <1>1 DEF Open, BeginRun, Enter
<1>2. CASE ReadEvent
    BY <1>0, <1>2 DEF ReadEvent, Begin, Enter
<1>3. CASE ReadEnd
    BY <1>0, <1>3 DEF ReadEnd, Begin, Enter
<1>4. CASE ReadFails
    BY <1>4 DEF ReadFails, Finish, call
<1>5. CASE Conclude
    BY <1>5 DEF Conclude, Finish, call
<1>6. CASE ReturnEvent
    BY <1>0, <1>6 DEF ReturnEvent, Answered, Result, LeaveCall, state, history, Events
<1>7. CASE ReturnError
    BY <1>0, <1>7 DEF ReturnError, Answered, LeaveCall, Finish, Events
<1>8. CASE Answer
    BY <1>0, <1>8 DEF Answer, Skip, Hear, Refuse, InCall, state, history
<1>9. CASE MemberPanics
    BY <1>0, <1>9 DEF MemberPanics, Panic, InCall, LeaveCall, Events
<1>10. CASE DropSource
    BY <1>10 DEF DropSource, Finish, call
<1>11. CASE Attach
    BY <1>11 DEF Attach, state, call, history
<1>12. CASE UNCHANGED vars
    BY <1>12 DEF vars
<1> QED BY <1>1, <1>2, <1>3, <1>4, <1>5, <1>6, <1>7, <1>8, <1>9, <1>10, <1>11, <1>12
        DEF Next, Progress, NextCall

LEMMA InOrderStep == IInv /\ [Next]_vars => InOrder'
<1> SUFFICES ASSUME IInv, [Next]_vars,
                    NEW m \in Members, running', ~error', m \notin broke'
             PROVE  heard'[m] = IF event' # "none" /\ m >= at' THEN begun' - 1 ELSE begun'
    BY DEF InOrder
<1> USE DEF IInv
<1>0. /\ m \in 1..N /\ at \in 1..(N + 1) /\ begun \in Nat /\ heard \in [Members -> Nat]
      /\ event \in Events \union {"none"}
    BY DEF TypeOK, DispatcherTypeOK, Members
<1>1. running /\ ~error /\ m \notin broke
      => heard[m] = IF event # "none" /\ m >= at THEN begun - 1 ELSE begun
    BY DEF InOrder
<1>2. CASE Open
    BY <1>0, <1>2 DEF Open, BeginRun, Enter
<1>3. CASE ReadEvent \/ ReadEnd
    <2>1. running /\ ~error /\ m \notin broke /\ event = "none"
        BY <1>3 DEF ReadEvent, ReadEnd, Begin, Enter, Phases
    <2>2. heard' = heard /\ begun' = begun + 1 /\ at' = 1 /\ event' # "none"
        BY <1>3 DEF ReadEvent, ReadEnd, Begin, Enter
    <2> QED BY <1>0, <1>1, <2>1, <2>2
<1>4. CASE ReadFails \/ Conclude \/ ReturnError \/ MemberPanics \/ DropSource
    BY <1>4 DEF ReadFails, Conclude, ReturnError, MemberPanics, DropSource, Finish, Panic
<1>5. CASE ReturnEvent
    <2>1. running /\ ~error /\ m \notin broke /\ at = N + 1
        BY <1>5 DEF ReturnEvent, Answered, Result, LeaveCall, state, history
    <2>2. heard' = heard /\ begun' = begun /\ event' = "none"
        BY <1>5 DEF ReturnEvent, LeaveCall, history
    <2> QED BY <1>0, <1>1, <2>1, <2>2
<1>6. CASE Skip /\ UNCHANGED <<step, closed, verdict>>
    <2>1. m # at /\ running /\ ~error /\ m \notin broke
        BY <1>6 DEF Skip, state, history, EnoughNoted
    <2>2. heard' = heard /\ begun' = begun /\ event' = event /\ at' = at + 1
        BY <1>6 DEF Skip, history
    <2> QED BY <1>0, <1>1, <2>1, <2>2
<1>7. ASSUME NEW flow \in Flows, NEW count \in Counts, Hear(flow, count)
      PROVE  heard'[m] = IF event' # "none" /\ m >= at' THEN begun' - 1 ELSE begun'
    <2>1. running /\ ~error /\ m \notin broke /\ at \in Members /\ event # "none"
        BY <1>7 DEF Hear, InCall
    <2>2. begun' = begun /\ event' = event /\ at' = at + 1
        BY <1>7 DEF Hear
    <2>3. heard'[m] = IF m = at THEN heard[m] + 1 ELSE heard[m]
        BY <1>0, <1>7 DEF Hear
    <2> QED BY <1>0, <1>1, <2>1, <2>2, <2>3
<1>8. CASE Refuse
    BY <1>8 DEF Refuse
<1>9. CASE Attach
    BY <1>1, <1>9 DEF Attach, state, call, history
<1>10. CASE UNCHANGED vars
    BY <1>1, <1>10 DEF vars
<1> QED BY <1>2, <1>3, <1>4, <1>5, <1>6, <1>7, <1>8, <1>9, <1>10
        DEF Next, Progress, NextCall, Answer

LEMMA EnoughStep == IInv /\ [Next]_vars => EnoughNoted'
<1> SUFFICES ASSUME IInv, [Next]_vars PROVE EnoughNoted'
    OBVIOUS
<1> USE DEF IInv, EnoughNoted
<1>1. CASE Open
    BY <1>1 DEF Open, BeginRun, Enter
<1>2. CASE ReadEvent \/ ReadEnd
    BY <1>2 DEF ReadEvent, ReadEnd, Begin, Enter
<1>3. CASE ReadFails \/ Conclude \/ DropSource
    BY <1>3 DEF ReadFails, Conclude, DropSource, Finish
<1>4. CASE ReturnEvent
    <2>1. event # "none" /\ step \in {"Reading", "Ended"}
          /\ (step = "Reading" => event # "EndDocument")
        BY <1>4 DEF ReturnEvent, Answered, Phases, TypeOK, DispatcherTypeOK, Events
    <2> QED BY <1>4, <2>1 DEF ReturnEvent, Result, LeaveCall, state, history, IsStopped
<1>5. CASE ReturnError
    BY <1>5 DEF ReturnError, Finish
<1>6. CASE Answer
    <2>1. event' = event /\ event # "none" /\ step' = step
        BY <1>6 DEF Answer, Skip, Hear, Refuse, InCall
    <2>2. step # "Stopped"
        BY <2>1 DEF Phases, TypeOK, DispatcherTypeOK, Events
    <2>3. finished' = broke'
        BY <1>6 DEF Answer, Skip, Hear, Refuse, state, history
    <2> QED BY <2>1, <2>2, <2>3
<1>7. CASE MemberPanics
    BY <1>7 DEF MemberPanics, Panic
<1>8. CASE Attach
    BY <1>8 DEF Attach, state, history
<1>9. CASE UNCHANGED vars
    BY <1>9 DEF vars, IsStopped
<1> QED BY <1>1, <1>2, <1>3, <1>4, <1>5, <1>6, <1>7, <1>8, <1>9
        DEF Next, Progress, NextCall

LEMMA TotalStep == IInv /\ [Next]_vars => TotalCounts'
<1> SUFFICES ASSUME IInv, [Next]_vars PROVE TotalCounts'
    OBVIOUS
<1> USE DEF IInv, TotalCounts
<1>0. UsizeMax \in Nat /\ reported \in Nat /\ total \in Nat
    BY DEF TypeOK, DispatcherTypeOK
<1>1. CASE Open
    <2>1. total' = 0 /\ reported' = 0
        BY <1>1 DEF Open, BeginRun
    <2>2. ~OverLimit(0)
        BY DEF OverLimit
    <2> QED BY <1>0, <2>1, <2>2 DEF OverLimit
<1>2. CASE ReadEvent \/ ReadEnd
    BY <1>2 DEF ReadEvent, ReadEnd, Begin, Enter, Phases, OverLimit
<1>3. CASE ReadFails \/ Conclude \/ DropSource \/ ReturnError
    BY <1>3 DEF ReadFails, Conclude, DropSource, ReturnError, Finish
<1>4. CASE ReturnEvent
    BY <1>4 DEF ReturnEvent, LeaveCall, state, history, OverLimit
<1>5. CASE Skip
    BY <1>5 DEF Skip, state, history, OverLimit
<1>6. ASSUME NEW flow \in Flows, NEW count \in Counts, Hear(flow, count)
      PROVE  TotalCounts'
    <2>1. count \in Nat
        OBVIOUS
    <2>2. total' = Saturating(total, count) /\ reported' = reported + count
        BY <1>6 DEF Hear
    <2>3. total' = IF reported' > UsizeMax THEN UsizeMax ELSE reported'
        BY <1>0, <2>1, <2>2 DEF Saturating
    <2>4. ~error' => ~OverLimit(total')
        BY <1>6 DEF Hear
    <2> QED BY <2>3, <2>4 DEF OverLimit
<1>7. CASE Refuse
    BY <1>7 DEF Refuse, state
<1>8. CASE MemberPanics
    BY <1>8 DEF MemberPanics, Panic
<1>9. CASE Attach
    BY <1>9 DEF Attach, state, call, history, OverLimit
<1>10. CASE UNCHANGED vars
    BY <1>10 DEF vars, OverLimit
<1> QED BY <1>1, <1>2, <1>3, <1>4, <1>5, <1>6, <1>7, <1>8, <1>9, <1>10
        DEF Next, Progress, NextCall, Answer

(* In an open run nobody has been told, so the first notice is the only    *)
(* one.                                                                    *)
LEMMA FirstNotice ==
    ASSUME TypeOK, Phases, AgreesWithCaller, running, NEW outcome \in Outcomes,
           NEW m \in Members
    PROVE  told[m] = <<>> /\ Append(told[m], outcome) = <<outcome>>
<1>1. verdict \in {"open", "event"}
    BY DEF Phases, TypeOK, Verdicts
<1>2. told[m] = <<>>
    BY <1>1 DEF AgreesWithCaller
<1> QED BY <1>2

LEMMA AgreeStep == IInv /\ [Next]_vars => AgreesWithCaller'
<1> SUFFICES ASSUME IInv, [Next]_vars PROVE AgreesWithCaller'
    OBVIOUS
<1> USE DEF IInv
<1>1. ASSUME NEW outcome \in Outcomes, running, Finish(outcome), NEW m \in Members
      PROVE  told'[m] = <<outcome>>
    <2>1. Append(told[m], outcome) = <<outcome>>
        BY <1>1, FirstNotice
    <2> QED BY <1>1, <2>1 DEF Finish
<1>2. CASE Open
    BY <1>2 DEF Open, BeginRun, AgreesWithCaller
<1>3. CASE ReadEvent \/ ReadEnd
    BY <1>3 DEF ReadEvent, ReadEnd, Begin, Enter, AgreesWithCaller, Phases
<1>4. CASE ReadFails \/ ReturnError
    <2>1. running
        BY <1>4 DEF ReadFails, ReturnError, Answered, Phases, TypeOK, DispatcherTypeOK, Events
    <2> QED BY <1>1, <1>4, <2>1 DEF ReadFails, ReturnError, AgreesWithCaller, Outcomes
<1>5. CASE Conclude
    <2>1. running /\ closed' = closed /\ (closed <=> step = "Ended")
        BY <1>5 DEF Conclude, Phases
    <2>2. verdict' = "none"
        BY <1>5 DEF Conclude
    <2>3. CASE step = "Ended"
        BY <1>1, <1>5, <2>1, <2>2, <2>3 DEF Conclude, AgreesWithCaller, Outcomes
    <2>4. CASE step # "Ended"
        BY <1>1, <1>5, <2>1, <2>2, <2>4 DEF Conclude, AgreesWithCaller, Outcomes
    <2> QED BY <2>3, <2>4
<1>6. CASE ReturnEvent
    <2>1. running /\ verdict' = "event" /\ told' = told
        BY <1>6 DEF ReturnEvent, Answered, Phases, TypeOK, DispatcherTypeOK, Events, history
    <2> QED BY <2>1, FirstNotice DEF AgreesWithCaller, Outcomes
<1>7. CASE Answer
    BY <1>7 DEF Answer, Skip, Hear, Refuse, history, AgreesWithCaller
<1>8. CASE MemberPanics
    <2>1. running
        BY <1>8 DEF MemberPanics, Panic, InCall, Phases, TypeOK, DispatcherTypeOK, Events
    <2>2. ASSUME NEW m \in Members PROVE told'[m] = <<"Abandoned">>
        BY <1>8, <2>1, FirstNotice DEF MemberPanics, Panic, Outcomes
    <2> QED BY <1>8, <2>2 DEF MemberPanics, AgreesWithCaller
<1>9. CASE DropSource
    <2>1. CASE running
        BY <1>1, <1>9, <2>1 DEF DropSource, AgreesWithCaller, Outcomes
    <2>2. CASE ~running
        BY <1>9, <2>2 DEF DropSource, Finish, AgreesWithCaller
    <2> QED BY <2>1, <2>2
<1>10. CASE Attach
    BY <1>10 DEF Attach, history, AgreesWithCaller
<1>11. CASE UNCHANGED vars
    BY <1>11 DEF vars, AgreesWithCaller
<1> QED BY <1>2, <1>3, <1>4, <1>5, <1>6, <1>7, <1>8, <1>9, <1>10, <1>11
        DEF Next, Progress, NextCall

(* The invariant is inductive. *)
THEOREM Invariant == Spec => []IInv
<1>1. Init => IInv
    BY InitInvariant
<1>2. IInv /\ [Next]_vars => IInv'
    BY TypeStep, PhasesStep, InOrderStep, EnoughStep, TotalStep, AgreeStep DEF IInv
<1> QED BY <1>1, <1>2, PTL DEF Spec

-----------------------------------------------------------------------------
(* The members and the caller are told the same end of every run. *)
THEOREM Agreement == Spec => []AgreesWithCaller
<1>1. IInv => AgreesWithCaller
    BY DEF IInv
<1> QED BY <1>1, Invariant, PTL

(* No member is called in a run whose errors exceed the limit. *)
THEOREM Limit == Spec => LimitHolds
<1>1. IInv /\ [Next]_vars
      => [\A m \in Members :
             /\ heard'[m] > heard[m]
             /\ MaxErrors # NoLimit /\ MaxErrors < UsizeMax
             => reported <= MaxErrors]_vars
    <2> SUFFICES ASSUME IInv, Next, NEW m \in Members,
                        heard'[m] > heard[m],
                        MaxErrors # NoLimit, MaxErrors < UsizeMax
                 PROVE  reported <= MaxErrors
        BY DEF LimitHolds
    <2> USE DEF IInv
    <2>1. heard \in [Members -> Nat] /\ reported \in Nat /\ UsizeMax \in Nat /\ MaxErrors \in Nat
        BY DEF TypeOK, DispatcherTypeOK
    <2>2. CASE InCall
        <3>1. running /\ ~error
            BY <2>2 DEF InCall, Phases, TypeOK, DispatcherTypeOK, Events
        <3>2. ~(total > MaxErrors)
            BY <3>1 DEF TotalCounts, OverLimit
        <3> QED BY <2>1, <3>2 DEF TotalCounts
    <2>3. CASE ~InCall
        <3>1. heard' = heard \/ heard' = [i \in Members |-> 0]
            BY <2>3 DEF Next, Progress, NextCall, Open, BeginRun, ReadEvent, ReadEnd, Begin,
               ReadFails, Conclude, Finish, ReturnEvent, ReturnError, Answer, Skip, Hear,
               Refuse, MemberPanics, Panic, DropSource, Attach, history
        <3> QED BY <2>1, <3>1
    <2> QED BY <2>2, <2>3
<1> QED BY <1>1, Invariant, PTL DEF Spec, LimitHolds

-----------------------------------------------------------------------------
(* The refinement: every step of the pipeline is a step of EventRun, or    *)
(* leaves everything EventRun talks about alone.                           *)

LEMMA OpenRunIsUntold ==
    ASSUME IInv, running
    PROVE  Contract!Untold /\ begun > 0
<1>1. ASSUME NEW m \in Members PROVE told[m] = <<>>
    BY FirstNotice DEF IInv, Outcomes
<1> QED BY <1>1 DEF Contract!Untold, Contract!Members, Members, IInv, Phases

LEMMA BetweenCallsAllHeard ==
    ASSUME IInv, running, event = "none"
    PROVE  Contract!AllHeard /\ ~error
BY DEF IInv, Phases, InOrder, Contract!AllHeard, Contract!Members, Members

LEMMA EndStep ==
    ASSUME IInv, running, NEW outcome \in Outcomes, Finish(outcome),
           UNCHANGED <<closed, error>>,
           outcome = "Completed" => closed /\ event = "none",
           outcome = "Stopped" => IsStopped /\ event = "none",
           error => outcome \in {"Failed", "Abandoned"}
    PROVE  Contract!End(outcome)
<1>1. told' = [m \in Members |-> <<outcome>>]
    <2>1. ASSUME NEW m \in Members PROVE Append(told[m], outcome) = <<outcome>>
        BY FirstNotice DEF IInv
    <2> QED BY <2>1 DEF Finish
<1>2. Contract!Untold /\ begun > 0
    BY OpenRunIsUntold
<1>3. event = "none" => Contract!AllHeard /\ ~error
    BY BetweenCallsAllHeard
<1>4. IsStopped => Contract!EnoughForAll
    BY DEF IInv, EnoughNoted, IsStopped, Contract!EnoughForAll, Contract!Consumers,
       Contract!Members, Consumers, Members
<1> QED BY <1>1, <1>2, <1>3, <1>4 DEF Contract!End, Contract!Members, Members, Finish

LEMMA InCallFacts ==
    ASSUME IInv, InCall, at \notin finished
    PROVE  /\ running /\ ~error /\ at \in Contract!Members /\ at \notin broke
           /\ Contract!Untold
           /\ heard[at] + 1 = begun
           /\ \A i \in 1..(at - 1) : i \in broke \/ heard[i] = begun
<1> USE DEF IInv
<1>1. running /\ ~error /\ at \in Members /\ event # "none" /\ at \notin broke
    BY DEF InCall, Phases, TypeOK, DispatcherTypeOK, Events, EnoughNoted
<1>2. at \in 1..N /\ begun \in Nat /\ heard \in [Members -> Nat]
    BY <1>1 DEF TypeOK, DispatcherTypeOK, Members
<1>3. heard[at] = begun - 1
    BY <1>1, <1>2 DEF InOrder
<1>4. ASSUME NEW i \in 1..(at - 1) PROVE i \in broke \/ heard[i] = begun
    <2>1. i \in Members /\ ~(i >= at)
        BY <1>2 DEF Members
    <2> QED BY <1>1, <2>1 DEF InOrder
<1> QED BY <1>1, <1>2, <1>3, <1>4, OpenRunIsUntold DEF Contract!Members, Members

LEMMA StepRefines == IInv /\ [Next]_vars => [Contract!Next]_Contract!vars
<1> SUFFICES ASSUME IInv, [Next]_vars PROVE [Contract!Next]_Contract!vars
    OBVIOUS
<1>0. TypeOK /\ Phases
    BY DEF IInv
<1>1. CASE Open
    <2>1. ~running /\ event = "none"
        BY <1>0, <1>1 DEF Open, BeginRun, Enter, Phases
    <2>2. begun = 0 \/ \A m \in Contract!Members : told[m] # <<>>
        <3>1. CASE begun > 0
            <4>1. verdict \in {"error", "none", "abandoned"}
                BY <1>0, <2>1, <3>1 DEF Phases
            <4>2. ASSUME NEW m \in Members PROVE told[m] # <<>>
                BY <4>1 DEF IInv, AgreesWithCaller
            <4> QED BY <4>2 DEF Contract!Members, Members
        <3> QED BY <1>0, <3>1 DEF TypeOK, DispatcherTypeOK
    <2>3. Contract!Open
        BY <1>1, <2>2 DEF Open, BeginRun, Enter, Contract!Open, Contract!Members, Members
    <2> QED BY <2>3 DEF Contract!Next
<1>2. CASE ReadEvent \/ ReadEnd
    <2>1. running /\ event = "none" /\ step = "Reading"
        BY <1>0, <1>2 DEF ReadEvent, ReadEnd, Begin, Enter, Phases
    <2>2. Contract!Untold /\ begun > 0 /\ Contract!AllHeard /\ ~error
        BY <2>1, OpenRunIsUntold, BetweenCallsAllHeard
    <2>3. ~closed
        BY <1>0, <2>1 DEF Phases
    <2>4. ~Contract!EnoughForAll
        BY <2>1 DEF IInv, EnoughNoted, IsStopped, Contract!EnoughForAll, Contract!Consumers,
           Contract!Members, Consumers, Members
    <2>5. closed' \in BOOLEAN /\ begun' = begun + 1
        BY <1>0, <1>2 DEF ReadEvent, ReadEnd, Begin, TypeOK
    <2>6. UNCHANGED <<heard, broke, told>> /\ error' = FALSE
        BY <1>2 DEF ReadEvent, ReadEnd, Begin, Enter
    <2>7. error' = error
        BY <1>0, <2>2, <2>6 DEF TypeOK, DispatcherTypeOK
    <2> QED BY <2>2, <2>3, <2>4, <2>5, <2>6, <2>7 DEF Contract!Report, Contract!Next
<1>3. CASE ReadFails
    <2>1. running /\ Finish("Failed") /\ UNCHANGED <<closed, error>>
        BY <1>0, <1>3 DEF ReadFails, Phases, call
    <2> QED BY <2>1, EndStep DEF Outcomes, Contract!Next, Contract!Outcomes
<1>4. CASE Conclude
    <2>1. running /\ UNCHANGED <<closed, error>> /\ event = "none" /\ ~error
        BY <1>0, <1>4 DEF Conclude, Phases, call
    <2>2. CASE step = "Ended"
        <3>1. Finish("Completed") /\ closed
            BY <1>0, <1>4, <2>1, <2>2 DEF Conclude, Phases
        <3> QED BY <2>1, <3>1, EndStep DEF Outcomes, Contract!Next, Contract!Outcomes
    <2>3. CASE step = "Stopped"
        <3>1. Finish("Stopped") /\ IsStopped
            BY <1>4, <2>3 DEF Conclude, IInv, EnoughNoted
        <3> QED BY <2>1, <3>1, EndStep DEF Outcomes, Contract!Next, Contract!Outcomes
    <2> QED BY <1>4, <2>2, <2>3 DEF Conclude
<1>5. CASE ReturnError
    <2>1. running /\ Finish("Failed") /\ UNCHANGED <<closed, error>>
        BY <1>0, <1>5 DEF ReturnError, Answered, LeaveCall, Phases, TypeOK, DispatcherTypeOK, Events
    <2> QED BY <2>1, EndStep DEF Outcomes, Contract!Next, Contract!Outcomes
<1>6. CASE DropSource
    <2>1. CASE running
        <3>1. Finish("Abandoned") /\ UNCHANGED <<closed, error>>
            BY <1>6 DEF DropSource, call
        <3> QED BY <2>1, <3>1, EndStep DEF Outcomes, Contract!Next, Contract!Outcomes
    <2>2. CASE ~running
        BY <1>6, <2>2 DEF DropSource, Finish, call, Contract!vars
    <2> QED BY <2>1, <2>2
<1>7. ASSUME NEW flow \in Flows, NEW count \in Counts, Hear(flow, count), UNCHANGED closed
      PROVE  Contract!Next
    <2>1. InCall /\ at \notin finished
        BY <1>7 DEF Hear
    <2>2. error' \in BOOLEAN
        BY <1>7 DEF Hear, OverLimit
    <2>3. broke' \in {broke, broke \union {at}}
        BY <1>7 DEF Hear
    <2>4. heard' = [heard EXCEPT ![at] = @ + 1] /\ UNCHANGED <<begun, told>>
        BY <1>7 DEF Hear
    <2>5. Contract!Hear(at) /\ at \in Contract!Members
        BY <1>7, <2>1, <2>2, <2>3, <2>4, InCallFacts DEF Contract!Hear
    <2> QED BY <2>5 DEF Contract!Next
<1>8. CASE Refuse /\ UNCHANGED closed
    <2>1. InCall /\ at \notin finished
        BY <1>8 DEF Refuse
    <2>2. Contract!Hear(at) /\ at \in Contract!Members
        BY <1>8, <2>1, InCallFacts DEF Refuse, Contract!Hear
    <2> QED BY <2>2 DEF Contract!Next
<1>9. CASE MemberPanics
    <2>1. InCall /\ at \notin finished /\ running
        BY <1>9, InCallFacts DEF MemberPanics, Panic
    <2>2. told' = [i \in Members |-> <<"Abandoned">>]
        <3>1. ASSUME NEW m \in Members PROVE Append(told[m], "Abandoned") = <<"Abandoned">>
            BY <2>1, FirstNotice DEF IInv, Outcomes
        <3> QED BY <1>9, <2>1, <3>1 DEF MemberPanics, Panic
    <2>3. Contract!Panic(at) /\ at \in Contract!Members
        BY <1>9, <2>1, <2>2, InCallFacts
           DEF MemberPanics, Panic, LeaveCall, Contract!Panic, Contract!Members, Members
    <2> QED BY <2>3 DEF Contract!Next
<1>10. CASE Skip /\ UNCHANGED closed
    BY <1>10 DEF Skip, history, Contract!vars
<1>11. CASE ReturnEvent
    BY <1>11 DEF ReturnEvent, LeaveCall, history, Contract!vars
<1>12. CASE Attach
    BY <1>12 DEF Attach, history, call, Contract!vars
<1>13. CASE UNCHANGED vars
    BY <1>13 DEF vars, Contract!vars
<1> QED BY <1>1, <1>2, <1>3, <1>4, <1>5, <1>6, <1>7, <1>8, <1>9, <1>10, <1>11, <1>12, <1>13
        DEF Next, Progress, NextCall, Answer

(* A StreamSource with its Dispatcher keeps every promise of EventRun, for *)
(* any members in any order.                                               *)
THEOREM Refinement == Spec => KeepsContract
<1>1. Init => Contract!Init
    BY DEF Init, DispatcherInit, Contract!Init, Contract!Members, Members
<1>2. IInv /\ [Next]_vars => [Contract!Next]_Contract!vars
    BY StepRefines
<1> QED BY <1>1, <1>2, Invariant, PTL DEF Spec, KeepsContract, Contract!Spec
=============================================================================
