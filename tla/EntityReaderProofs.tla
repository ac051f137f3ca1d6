------------------------- MODULE EntityReaderProofs -------------------------
(***************************************************************************)
(* Proofs about EntityReader for any documents, limits, chunks and answers *)
(* of the resolver: what is held back and what is open fit together, input *)
(* goes to the entity it belongs to, and what is expanded is counted.      *)
(***************************************************************************)
EXTENDS EntityReader, SequenceLemmas

-----------------------------------------------------------------------------
(* Inputs and tokens. *)
LEMMA InputFacts ==
    ASSUME input \in Inputs
    PROVE  /\ \A e \in Entities : Body(e) \in Seq(Tokens)
           /\ \A n \in Names : n \in Entities /\ n # Doc /\ n # Nothing
           /\ Doc \in Entities /\ Doc # Nothing
           /\ input.pes \in Nat
           /\ input.limits \in [depth : Limits, expansions : Limits, chars : Limits, elementDepth : Limits]
BY ReaderAssumption, InputsAssumption DEF Entities, Body

LEMMA TokenFacts ==
    ASSUME NEW t \in Tokens
    PROVE  /\ t # Nothing
           /\ IsData(t) => t \in Data
           /\ t.kind = "start" => t \in Starts
           /\ t.kind = "end" => t.tag \in Tags /\ t = End(t.tag)
           /\ t.kind = "ref" => t.name \in Names /\ t = Ref(t.name)
           /\ t.kind = "doctype" => t = Doctype
           /\ t.kind = "decl" => t = Decl
           /\ t.kind \in {"misc", "cdata", "doctype", "decl", "bad", "text", "space", "ref", "start", "end"}
<1>1. t # Nothing
    BY InputsAssumption
<1>2. CASE t \in Data \union {Misc, CData, Doctype, Decl, Bad}
    BY <1>1, <1>2 DEF Data, Text, Space, Misc, CData, Doctype, Decl, Bad, IsData
<1>3. CASE t \in Refs
    BY <1>1, <1>3 DEF Refs, Ref, IsData
<1>4. CASE t \in Starts
    BY <1>1, <1>4 DEF Starts, IsData
<1>5. CASE t \in {End(x) : x \in Tags}
    BY <1>1, <1>5 DEF End, IsData
<1> QED BY <1>2, <1>3, <1>4, <1>5 DEF Tokens

LEMMA StartFacts ==
    ASSUME NEW t \in Starts
    PROVE  /\ t \in Tokens /\ t.tag \in Tags /\ t.empty \in BOOLEAN /\ t.kind = "start"
           /\ t.value \in Seq(Tokens)
<1>1. Data \union Refs \union {Bad} \subseteq Tokens
    BY DEF Tokens
<1>2. t.value \in Seq(Data \union Refs \union {Bad})
    BY DEF Starts
<1>3. t.value \in Seq(Tokens)
    BY <1>1, <1>2
<1> QED BY <1>3 DEF Starts, Tokens

LEMMA KnownTokens ==
    /\ Text \in Tokens /\ Space \in Tokens /\ Doctype \in Tokens /\ Data \subseteq Tokens
    /\ \A x \in Tags : End(x) \in Tokens
    /\ \A n \in Names : Ref(n) \in Tokens
BY DEF Tokens, Data, Refs

-----------------------------------------------------------------------------
(* The entities that are open. *)
LEMMA TopFacts ==
    ASSUME TypeOK, FramesFit
    PROVE  /\ Len(stack) \in Nat /\ Len(stack) >= 1 /\ Top = stack[Len(stack)]
           /\ stack = Append(Front(stack), Top) /\ Front(stack) \in Seq(Frames)
           /\ Top \in Frames /\ Body(Top.ent) \in Seq(Tokens)
           /\ 2 * Top.read <= Top.got /\ Top.got <= Units(Body(Top.ent))
           /\ Top.ended => Top.got = Units(Body(Top.ent))
           /\ Arrived(Top) \in Nat
           /\ Arrived(Top) > 0 => Top.read + 1 \in 1..Len(Body(Top.ent)) /\ NextToken(Top) \in Tokens
<1>1. stack \in Seq(Frames) /\ stack # <<>> /\ input \in Inputs
    BY DEF TypeOK, FramesFit
<1>2. /\ Len(stack) \in Nat /\ Len(stack) >= 1 /\ Top = stack[Len(stack)] /\ Top \in Frames
      /\ stack = Append(Front(stack), Top) /\ Front(stack) \in Seq(Frames)
    BY <1>1, LastSplit DEF Top
<1>3. Len(stack) \in 1..Len(stack)
    BY <1>2
<1>4. 2 * Top.read <= Top.got /\ Top.got <= Units(Body(Top.ent)) /\ (Top.ended => Top.got = Units(Body(Top.ent)))
    BY <1>2, <1>3 DEF FramesFit
<1>5. Top.ent \in Entities /\ Top.read \in Nat /\ Top.got \in Nat
    BY <1>2 DEF Frames
<1>6. Body(Top.ent) \in Seq(Tokens)
    BY <1>1, <1>5, InputFacts
<1>7. Arrived(Top) \in Nat
    BY <1>4, <1>5 DEF Arrived
<1>8. ASSUME Arrived(Top) > 0
      PROVE  Top.read + 1 \in 1..Len(Body(Top.ent)) /\ NextToken(Top) \in Tokens
    <2>1. Len(Body(Top.ent)) \in Nat
        BY <1>6
    <2>2. Top.read + 1 \in 1..Len(Body(Top.ent))
        BY <1>4, <1>5, <1>8, <2>1 DEF Arrived, Units
    <2> QED BY <1>6, <2>2 DEF NextToken
<1> QED BY <1>2, <1>4, <1>6, <1>7, <1>8

ReadOn(f) == [f EXCEPT !.read = @ + 1]

LEMMA ConsumedFacts ==
    ASSUME TypeOK, FramesFit
    PROVE  /\ ReadOn(Top) \in Frames
           /\ Consumed = WithLast(stack, ReadOn(Top))
           /\ Consumed \in Seq(Frames) /\ Len(Consumed) = Len(stack)
           /\ Consumed = Append(Front(stack), ReadOn(Top))
           /\ Consumed[Len(stack)] = ReadOn(Top)
           /\ \A i \in 1..Len(stack) : i # Len(stack) => Consumed[i] = stack[i]
<1>1. /\ Len(stack) \in Nat /\ Len(stack) >= 1 /\ Top = stack[Len(stack)] /\ Top \in Frames
      /\ stack \in Seq(Frames) /\ stack # <<>>
    BY TopFacts DEF TypeOK, FramesFit
<1>2. ReadOn(Top) \in Frames
    BY SMTT(20), ZenonT(30), <1>1 DEF Frames, ReadOn
<1>3. Consumed = WithLast(stack, ReadOn(Top))
    BY <1>1 DEF Consumed, ReadOn, WithLast
<1> QED BY SMTT(20), ZenonT(30), <1>1, <1>2, <1>3, LastReplaced

-----------------------------------------------------------------------------
(* Types. *)
LEMMA InterpretType ==
    ASSUME TypeOK, NEW t \in Tokens, Interpret(t)
    PROVE  /\ open' \in Seq(OpenElements)
           /\ phase' \in {"Prolog", "Content", "Epilog"} /\ endPending' \in BOOLEAN
           /\ starting' \in Starts \union {Nothing}
           /\ values' \in Seq(OpenValues)
           /\ dtd' \in {"none", "subset", "reading", "complete"}
           /\ subsetRead' \in BOOLEAN /\ pes' \in Nat
           /\ event' \in Events
           /\ progress' \in Outcomes
<1>1. CASE MiscToken(t)
    BY <1>1 DEF MiscToken, TypeOK, streams, tree, texts, asking, values_, dtds, driver, outcome, Events, Stop, Refuse, Report, GoOn, Outcomes
<1>2. CASE DoctypeToken(t)
    BY <1>2 DEF DoctypeToken, TypeOK, streams, tree, texts, asking, values_, dtds, driver, outcome, Events, Stop, Refuse, Report, GoOn, Outcomes
<1>3. CASE StartToken(t)
    <2>1. t \in Starts /\ t.value \in Seq(Tokens)
        BY <1>3, TokenFacts, StartFacts DEF StartToken
    <2>2. <<[name |-> Nothing, rest |-> t.value]>> \in Seq(OpenValues)
        BY <2>1 DEF OpenValues
    <2> QED BY <1>3, <2>1, <2>2 DEF StartToken, TypeOK, streams, tree, texts, asking, values_, dtds, driver, outcome, Events, Stop, Refuse, Report, GoOn, Outcomes
<1>4. CASE EndToken(t)
    <2>1. open # <<>> /\ open \in Seq(OpenElements)
        BY <1>4 DEF EndToken, Matches, TypeOK
    <2>2. open' \in Seq(OpenElements)
        BY <1>4, <2>1, LastSplit DEF EndToken, CloseElement
    <2> QED BY <1>4, <2>2 DEF EndToken, CloseElement, TypeOK, streams, tree, texts, asking, values_, dtds, driver, outcome, Events, Stop, Refuse, Report, GoOn, Outcomes
<1>5. CASE RefuseToken(t)
    BY <1>5 DEF RefuseToken, TypeOK, streams, tree, texts, asking, values_, dtds, driver, outcome, Events, Stop, Refuse, Report, GoOn, Outcomes
<1> QED BY <1>1, <1>2, <1>3, <1>4, <1>5 DEF Interpret

LEMMA FlushType ==
    ASSUME TypeOK, NEW p \in Seq(Data), FlushText(p)
    PROVE  /\ pending' \in Seq(Data)
           /\ event' \in Events
           /\ progress' \in Outcomes
<1>1. <<>> \in Seq(Data)
    BY EmptySeq
<1>2. [kind |-> "run", text |-> p] \in Events
    BY DEF Events
<1> QED BY <1>1, <1>2 DEF FlushText, TypeOK, Outcomes, Report, Refuse, Stop

ReadValue(v) == [v EXCEPT !.rest = Tail(@)]

LEMMA ValueFacts ==
    ASSUME IInv, starting # Nothing
    PROVE  /\ values # <<>> /\ Len(values) \in Nat /\ Len(values) >= 1
           /\ values = Append(Front(values), Last(values))
           /\ Front(values) \in Seq(OpenValues)
           /\ Last(values) \in OpenValues
           /\ Rest \in Seq(Tokens)
           /\ Rest # <<>> =>
                 /\ Head(Rest) \in Tokens /\ Tail(Rest) \in Seq(Tokens)
                 /\ Len(Rest) = Len(Tail(Rest)) + 1
                 /\ RestRead = Append(Front(values), ReadValue(Last(values)))
                 /\ ReadValue(Last(values)) \in OpenValues
                 /\ RestRead \in Seq(OpenValues)
                 /\ Len(RestRead) = Len(values)
<1>1. values # <<>> /\ values \in Seq(OpenValues)
    BY DEF IInv, TypeOK
<1>2. /\ Len(values) \in Nat /\ Len(values) >= 1 /\ values = Append(Front(values), Last(values))
      /\ Front(values) \in Seq(OpenValues) /\ Last(values) \in OpenValues /\ Last(values) = values[Len(values)]
    BY <1>1, LastSplit
<1>3. Rest \in Seq(Tokens)
    BY <1>2 DEF Rest, OpenValues
<1>4. ASSUME Rest # <<>>
      PROVE  /\ Head(Rest) \in Tokens /\ Tail(Rest) \in Seq(Tokens)
             /\ Len(Rest) = Len(Tail(Rest)) + 1
             /\ RestRead = Append(Front(values), ReadValue(Last(values)))
             /\ ReadValue(Last(values)) \in OpenValues
             /\ RestRead \in Seq(OpenValues)
             /\ Len(RestRead) = Len(values)
    <2>1. Head(Rest) \in Tokens /\ Tail(Rest) \in Seq(Tokens) /\ Len(Rest) = Len(Tail(Rest)) + 1
        BY <1>3, <1>4
    <2>2. ReadValue(Last(values)) \in OpenValues
        BY <1>2, <2>1 DEF OpenValues, ReadValue, Rest
    <2>3. RestRead = WithLast(values, ReadValue(Last(values)))
        BY <1>2 DEF RestRead, ReadValue, WithLast
    <2>4. RestRead = Append(Front(values), ReadValue(Last(values))) /\ RestRead \in Seq(OpenValues) /\ Len(RestRead) = Len(values)
        BY <1>1, <2>2, <2>3, LastReplaced
    <2> QED BY <2>1, <2>2, <2>4
<1> QED BY <1>1, <1>2, <1>3, <1>4

Extended(f, n) == [f EXCEPT !.got = @ + n]
Filled(f, n) == [f EXCEPT !.got = @ + n, !.ended = IsLast(n)]
Taken(r, n) == [r EXCEPT !.sent = @ + n]

LEMMA FilledType ==
    ASSUME NEW f \in Frames, NEW n \in Nat
    PROVE  Filled(f, n) \in Frames
<1>1. PICK last \in BOOLEAN : last = IsLast(n)
    BY DEF IsLast
<1>2. Extended(f, n) \in Frames
    BY DEF Frames, Extended
<1>3. Filled(f, n) = [Extended(f, n) EXCEPT !.ended = last]
    BY <1>1 DEF Extended, Filled
<1> QED BY <1>1, <1>2, <1>3 DEF Frames

LEMMA FilledFacts ==
    ASSUME TypeOK, FramesFit, NEW n \in Nat
    PROVE  LET filled == [stack EXCEPT ![Len(stack)].got = @ + n, ![Len(stack)].ended = IsLast(n)]
           IN /\ Filled(Top, n) \in Frames
              /\ filled = Append(Front(stack), Filled(Top, n))
              /\ filled \in Seq(Frames) /\ Len(filled) = Len(stack)
              /\ filled[Len(stack)] = Filled(Top, n)
              /\ \A i \in 1..Len(stack) : i # Len(stack) => filled[i] = stack[i]
<1> DEFINE filled == [stack EXCEPT ![Len(stack)].got = @ + n, ![Len(stack)].ended = IsLast(n)]
<1>1. /\ Len(stack) \in Nat /\ Len(stack) >= 1 /\ Top = stack[Len(stack)] /\ Top \in Frames
      /\ stack \in Seq(Frames) /\ stack # <<>>
    BY TopFacts DEF TypeOK, FramesFit
<1>2. Filled(Top, n) \in Frames
    BY <1>1, FilledType
<1>3. filled = WithLast(stack, Filled(Top, n))
    BY <1>1 DEF Filled, WithLast
<1> HIDE DEF filled
<1>4. /\ filled = Append(Front(stack), Filled(Top, n))
      /\ filled \in Seq(Frames) /\ Len(filled) = Len(stack)
      /\ filled[Len(stack)] = Filled(Top, n)
      /\ \A i \in 1..Len(stack) : i # Len(stack) => filled[i] = stack[i]
    BY SMTT(20), ZenonT(30), <1>1, <1>2, <1>3, LastReplaced
<1> QED BY <1>2, <1>4, Zenon DEF filled

LEMMA SourcesFacts ==
    ASSUME TypeOK, FramesFit, NEW n \in Nat
    PROVE  LET taken == [sources EXCEPT ![Len(sources)].sent = @ + n]
           IN /\ Taken(Last(sources), n) \in Sources /\ Last(sources) \in Sources
              /\ sources = Append(Front(sources), Last(sources))
              /\ Front(sources) \in Seq(Sources) /\ Len(Front(sources)) = Len(sources) - 1
              /\ Len(sources) \in Nat /\ Len(sources) >= 1
              /\ taken = Append(Front(sources), Taken(Last(sources), n)) /\ taken \in Seq(Sources)
<1> DEFINE taken == [sources EXCEPT ![Len(sources)].sent = @ + n]
<1>1. sources \in Seq(Sources) /\ sources # <<>>
    BY DEF TypeOK, FramesFit, Sources
<1>2. /\ Last(sources) \in Sources /\ Last(sources) = sources[Len(sources)]
      /\ sources = Append(Front(sources), Last(sources))
      /\ Front(sources) \in Seq(Sources) /\ Len(Front(sources)) = Len(sources) - 1
      /\ Len(sources) \in Nat /\ Len(sources) >= 1
    BY <1>1, LastSplit
<1>3. Taken(Last(sources), n) \in Sources
    BY SMTT(20), ZenonT(30), <1>2 DEF Sources, Taken
<1>4. taken = WithLast(sources, Taken(Last(sources), n))
    BY <1>2 DEF WithLast, Taken
<1> HIDE DEF taken
<1>5. taken = Append(Front(sources), Taken(Last(sources), n)) /\ taken \in Seq(Sources)
    BY <1>1, <1>3, <1>4, LastReplaced
<1> QED BY <1>2, <1>3, <1>5, Zenon DEF taken

(* Every step keeps the types. *)
LEMMA TypeStep == IInv /\ [Next]_vars => TypeOK'
<1> SUFFICES ASSUME IInv, [Next]_vars PROVE TypeOK'
    OBVIOUS
<1> USE DEF IInv
<1>1. CASE UNCHANGED vars
    BY <1>1 DEF vars, TypeOK, streams, tree, texts, asking, values_, dtds, driver, outcome, Events, Stop, Refuse, Report, GoOn, Outcomes
<1>2. CASE Advance
    BY <1>2 DEF Advance, TypeOK, streams, tree, texts, asking, values_, dtds, driver, outcome, Events, Stop, Refuse, Report, GoOn, Outcomes
<1>3. CASE EmptyEnd
    <2>1. open # <<>> /\ open \in Seq(OpenElements)
        BY <1>3 DEF EmptyEnd, Running, OneAtATime, GivenUp, TypeOK
    <2>2. open' \in Seq(OpenElements) /\ Last(open) \in OpenElements
        BY <1>3, <2>1, LastSplit DEF EmptyEnd, CloseElement
    <2>3. End(Last(open).tag) \in Tokens
        BY <2>2, KnownTokens DEF OpenElements
    <2> QED BY <1>3, <2>2, <2>3 DEF EmptyEnd, CloseElement, TypeOK, streams, tree, texts, asking, values_, dtds, driver, outcome, Events, Stop, Refuse, Report, GoOn, Outcomes
<1>4. CASE InterpretHeld
    <2>1. held \in Tokens
        BY <1>4 DEF InterpretHeld, TypeOK
    <2> QED BY <1>4, <2>1, InterpretType DEF InterpretHeld, TypeOK, streams, tree, texts, asking, values_, dtds, driver, outcome, Events, Stop, Refuse, Report, GoOn, Outcomes
<1>5. CASE DriveDtd
    BY <1>5, KnownTokens DEF DriveDtd, Requests, TypeOK, streams, tree, texts, asking, values_, dtds, driver, outcome, Events, Stop, Refuse, Report, GoOn, Outcomes
<1>6. CASE TextDeclaration
    <2>1. stack' \in Seq(Frames) /\ declPending' \in BOOLEAN /\ event' \in Events /\ progress' \in Outcomes
        BY <1>6, ConsumedFacts DEF TextDeclaration, TypeOK, Stop, GoOn, outcome, Outcomes
    <2> QED BY <1>6, <2>1 DEF TextDeclaration, TypeOK, streams, tree, texts, asking, values_, dtds, driver, outcome, Events, Stop, Refuse, Report, GoOn, Outcomes
<1>7. CASE ScanText
    <2>1. NextToken(Top) \in Data
        BY <1>7, TopFacts, TokenFacts DEF ScanText, AtToken
    <2>2. Append(pending, NextToken(Top)) \in Seq(Data)
        BY <2>1 DEF TypeOK
    <2>3. /\ pending' \in Seq(Data) /\ event' \in Events /\ progress' \in Outcomes
        <3>1. CASE FlushText(Append(pending, NextToken(Top)))
            BY <2>2, <3>1, FlushType
        <3>2. CASE ~FlushText(Append(pending, NextToken(Top)))
            BY <1>7, <2>2, <3>2 DEF ScanText, AddText, GoOn, outcome, TypeOK
        <3> QED BY <3>1, <3>2
    <2> QED BY <1>7, <2>3, ConsumedFacts DEF ScanText, TypeOK, streams, tree, texts, asking, values_, dtds, driver, outcome, Events, Stop, Refuse, Report, GoOn, Outcomes
<1>8. CASE ScanMarkup
    <2>1. NextToken(Top) \in Tokens /\ pending \in Seq(Data)
        BY <1>8, TopFacts DEF ScanMarkup, AtToken, TypeOK
    <2>2. CASE Interpret(NextToken(Top)) /\ UNCHANGED texts
        BY <1>8, <2>1, <2>2, InterpretType, ConsumedFacts DEF ScanMarkup, TypeOK, streams, tree, texts, asking, values_, dtds, driver, outcome, Events, Stop, Refuse, Report, GoOn, Outcomes
    <2>3. CASE held' = NextToken(Top) /\ FlushText(pending) /\ UNCHANGED <<tree, values_, dtds>>
        BY <1>8, <2>1, <2>3, FlushType, ConsumedFacts DEF ScanMarkup, TypeOK, streams, tree, texts, asking, values_, dtds, driver, outcome, Events, Stop, Refuse, Report, GoOn, Outcomes
    <2> QED BY <1>8, <2>2, <2>3 DEF ScanMarkup
<1>9. CASE NeedMoreInput
    BY <1>9 DEF NeedMoreInput, TypeOK, streams, tree, texts, asking, values_, dtds, driver, outcome, Events, Stop, Refuse, Report, GoOn, Outcomes
<1>10. CASE LeaveEntity
    BY <1>10, TopFacts DEF LeaveEntity, TypeOK, streams, tree, texts, asking, values_, dtds, driver, outcome, Events, Stop, Refuse, Report, GoOn, Outcomes
<1>11. CASE Finish
    <2>1. pending \in Seq(Data)
        BY DEF TypeOK
    <2>2. CASE FlushText(pending)
        BY <1>11, <2>1, <2>2, FlushType DEF Finish, TypeOK, streams, tree, texts, asking, values_, dtds, driver, outcome, Events, Stop, Refuse, Report, GoOn, Outcomes
    <2>3. CASE ~FlushText(pending)
        BY <1>11, <2>3 DEF Finish, TypeOK, streams, tree, texts, asking, values_, dtds, driver, outcome, Events, Stop, Refuse, Report, GoOn, Outcomes
    <2> QED BY <2>2, <2>3
<1>12. CASE ExpandData
    BY <1>12, ValueFacts DEF ExpandData, Expanding, TypeOK, streams, tree, texts, asking, values_, dtds, driver, outcome, Events, Stop, Refuse, Report, GoOn, Outcomes
<1>13. CASE RefuseValue
    BY <1>13 DEF RefuseValue, TypeOK, streams, tree, texts, asking, values_, dtds, driver, outcome, Events, Stop, Refuse, Report, GoOn, Outcomes
<1>14. CASE EndReplacement
    BY <1>14, ValueFacts DEF EndReplacement, Expanding, TypeOK, streams, tree, texts, asking, values_, dtds, driver, outcome, Events, Stop, Refuse, Report, GoOn, Outcomes
<1>15. CASE OpenElement
    <2>1. starting \in Starts /\ starting \in Tokens /\ starting.tag \in Tags /\ starting.empty \in BOOLEAN
        BY <1>15, StartFacts DEF OpenElement, Expanding, TypeOK
    <2>2. Top.nth \in Nat /\ Len(stack) \in Nat
        BY TopFacts DEF Frames
    <2>3. [tag |-> starting.tag, depth |-> Len(stack), nth |-> Top.nth] \in OpenElements
        BY <2>1, <2>2 DEF OpenElements
    <2>4. open' \in Seq(OpenElements) /\ values' \in Seq(OpenValues)
        BY <1>15, <2>3 DEF OpenElement, TypeOK
    <2> QED BY <1>15, <2>1, <2>4 DEF OpenElement, TypeOK, streams, tree, texts, asking, values_, dtds, driver, outcome, Events, Stop, Refuse, Report, GoOn, Outcomes
<1>16. ASSUME NEW n \in Names, ExpandReference(n)
       PROVE  TypeOK'
    <2>1. Units(Body(n)) \in Nat /\ Body(n) \in Seq(Tokens)
        BY InputFacts DEF Units, TypeOK
    <2>2. CASE UNCHANGED <<expansions, chars, values>>
        BY <1>16, <2>2 DEF ExpandReference, TypeOK, streams, tree, texts, asking, values_, dtds, driver, outcome, Events, Stop, Refuse, Report, GoOn, Outcomes
    <2>3. CASE Count(Units(Body(n))) /\ values' = Append(RestRead, [name |-> n, rest |-> Body(n)])
        <3>1. RestRead \in Seq(OpenValues)
            BY <1>16, ValueFacts DEF ExpandReference, AtReference, Expanding
        <3>2. [name |-> n, rest |-> Body(n)] \in OpenValues
            BY <2>1 DEF OpenValues
        <3>3. values' \in Seq(OpenValues)
            BY <2>3, <3>1, <3>2
        <3>4. expansions' \in Nat /\ chars' \in Nat
            BY <2>1, <2>3 DEF Count, TypeOK
        <3> QED BY <1>16, <3>3, <3>4 DEF ExpandReference, TypeOK, streams, tree, texts, asking, values_, dtds, driver, outcome, Events, Stop, Refuse, Report, GoOn, Outcomes
    <2> QED BY <1>16, <2>2, <2>3 DEF ExpandReference
<1>17. ASSUME NEW n \in Names, RefuseReference(n)
       PROVE  TypeOK'
    BY <1>17 DEF RefuseReference, ScanReference, TypeOK, streams, tree, texts, asking, values_, dtds, driver, outcome, Events, Stop, Refuse, Report, GoOn, Outcomes
<1>18. ASSUME NEW n \in Names, IncludeInternal(n)
       PROVE  TypeOK'
    <2>1. Units(Body(n)) \in Nat /\ Body(n) \in Seq(Tokens) /\ n \in Entities
        BY InputFacts DEF Units, TypeOK
    <2>2. CASE UNCHANGED streams
        BY <1>18, <2>2 DEF IncludeInternal, ScanReference, TypeOK, streams, tree, texts, asking, values_, dtds, driver, outcome, Events, Stop, Refuse, Report, GoOn, Outcomes
    <2>3. CASE Count(Units(Body(n))) /\ stack' = Append(Consumed, Whole(n, expansions'))
        <3>1. expansions' \in Nat /\ chars' \in Nat
            BY <2>1, <2>3 DEF Count, TypeOK
        <3>2. Whole(n, expansions') \in Frames
            BY <2>1, <3>1 DEF Whole, Frames
        <3>3. stack' \in Seq(Frames)
            BY <2>3, <3>2, ConsumedFacts
        <3> QED BY <1>18, <3>1, <3>3 DEF IncludeInternal, ScanReference, TypeOK, streams, tree, texts, asking, values_, dtds, driver, outcome, Events, Stop, Refuse, Report, GoOn, Outcomes
    <2> QED BY <1>18, <2>2, <2>3 DEF IncludeInternal
<1>19. ASSUME NEW n \in Names, RequestExternal(n)
       PROVE  TypeOK'
    BY <1>19, ConsumedFacts DEF RequestExternal, ScanReference, Requests, TypeOK, streams, tree, texts, asking, values_, dtds, driver, outcome, Events, Stop, Refuse, Report, GoOn, Outcomes
<1>20. CASE BeginEntity
    <2>1. request \in Requests /\ request.kind = "general"
        BY <1>20, InputsAssumption DEF BeginEntity, OneAtATime, GivenUp, TypeOK
    <2>2. request.name \in Names /\ request.name \in Entities
        BY <2>1, InputFacts DEF Requests, TypeOK
    <2>3. CASE UNCHANGED <<streams, declPending, sources>>
        BY <1>20, <2>3 DEF BeginEntity, TypeOK, streams, tree, texts, asking, values_, dtds, driver, outcome, Events, Stop, Refuse, Report, GoOn, Outcomes
    <2>4. CASE Count(0) /\ stack' = Append(stack, Streamed(request.name, expansions'))
               /\ sources' = Append(sources, [ent |-> request.name, sent |-> 0])
        <3>1. expansions' \in Nat /\ chars' \in Nat
            BY <2>4 DEF Count, TypeOK
        <3>2. Streamed(request.name, expansions') \in Frames
            BY <2>2, <3>1 DEF Streamed, Frames
        <3>3. stack' \in Seq(Frames)
            BY <2>4, <3>2 DEF TypeOK
        <3>4. sources' \in Seq(Sources)
            <4>1. [ent |-> request.name, sent |-> 0] \in Sources
                BY <2>2 DEF Sources
            <4> QED BY <2>4, <4>1 DEF TypeOK
        <3> QED BY SMTT(20), ZenonT(30), <1>20, <3>1, <3>3, <3>4 DEF BeginEntity, TypeOK, streams, tree, texts, asking, values_, dtds, driver, outcome, Events, Stop, Refuse, Report, GoOn, Outcomes
    <2> QED BY <1>20, <2>3, <2>4 DEF BeginEntity
<1>21. CASE ProvideEntity
    <2>1. subsetRead' \in BOOLEAN /\ pes' \in Nat
        <3>1. subsetRead' = TRUE \/ UNCHANGED subsetRead
            BY <1>21, Zenon DEF ProvideEntity
        <3>2. pes' = pes + 1 \/ UNCHANGED pes
            BY <1>21, Zenon DEF ProvideEntity
        <3>3. subsetRead' \in BOOLEAN
            BY <3>1 DEF TypeOK
        <3> QED BY <3>2, <3>3 DEF TypeOK
    <2>2. request' = Nothing /\ progress' \in Outcomes /\ UNCHANGED <<input, streams, tree, texts, declPending, values_, dtd, driver, event>>
        BY <1>21 DEF ProvideEntity, Outcomes
    <2> QED BY <2>1, <2>2 DEF TypeOK, streams, tree, texts, values_, driver
<1>22. CASE DeclineEntity
    BY <1>22 DEF DeclineEntity, TypeOK, streams, tree, texts, asking, values_, dtds, driver, outcome, Events, Stop, Refuse, Report, GoOn, Outcomes
<1>23. CASE InputFails
    BY <1>23 DEF InputFails, TypeOK, streams, tree, texts, asking, values_, dtds, driver, outcome, Events, Stop, Refuse, Report, GoOn, Outcomes
<1>24. CASE Fill
    <2>1. PICK n \in 0..ReadBuffer :
            /\ stack' = [stack EXCEPT ![Len(stack)].got = @ + n, ![Len(stack)].ended = IsLast(n)]
            /\ chars' = IF Top.ent = Doc THEN chars ELSE chars + n
            /\ sources' = IF IsLast(n) /\ ~InDocument THEN Front(sources)
                          ELSE [sources EXCEPT ![Len(sources)].sent = @ + n]
            /\ finished' = IF InDocument THEN IsLast(n) ELSE finished
        BY <1>24 DEF Fill
    <2>2. n \in Nat /\ IsLast(n) \in BOOLEAN
        BY <2>1, ReaderAssumption DEF IsLast
    <2>3. stack' \in Seq(Frames)
        BY <2>1, <2>2, FilledFacts
    <2>4. sources' \in Seq(Sources)
        <3>1. Front(sources) \in Seq(Sources) /\ [sources EXCEPT ![Len(sources)].sent = @ + n] \in Seq(Sources)
            BY <2>2, SourcesFacts, Zenon
        <3> QED BY <2>1, <3>1
    <2>5. chars' \in Nat /\ finished' \in BOOLEAN
        BY <2>1, <2>2 DEF TypeOK
    <2>6. progress' \in Outcomes
        BY <1>24 DEF Fill, Outcomes
    <2>7. UNCHANGED <<input, expansions, tree, texts, asking, values_, dtds, event>>
        BY <1>24 DEF Fill
    <2> QED BY <2>3, <2>4, <2>5, <2>6, <2>7 DEF TypeOK, tree, texts, asking, values_, dtds
<1> QED BY <1>1, <1>2, <1>3, <1>4, <1>5, <1>6, <1>7, <1>8, <1>9, <1>10, <1>11, <1>12, <1>13, <1>14, <1>15,
           <1>16, <1>17, <1>18, <1>19, <1>20, <1>21, <1>22, <1>23, <1>24 DEF Next, Parse, Drive, ExpandValue

-----------------------------------------------------------------------------
(* What a step does to the open entities and to their readers. *)
Settled == UNCHANGED <<stack, driver, declPending>>

ReadsOne ==
    /\ stack' = Consumed /\ Arrived(Top) >= 2
    /\ declPending' = FALSE
    /\ UNCHANGED driver

PassesDeclaration ==
    /\ Top.ended \/ Arrived(Top) > 0
    /\ Arrived(Top) > 0 => NextToken(Top) # Decl
    /\ declPending' = FALSE
    /\ UNCHANGED <<stack, driver>>

Pushes(n) ==
    /\ input.sort[n] = "internal" /\ Arrived(Top) >= 2
    /\ CanPush(n, Units(Body(n))) /\ Count(Units(Body(n)))
    /\ stack' = Append(Consumed, Whole(n, expansions'))
    /\ ~declPending /\ UNCHANGED <<driver, declPending, values>>

Leaves ==
    /\ Len(stack) > 1 /\ Arrived(Top) = 0 /\ Top.ended
    /\ stack' = Front(stack)
    /\ ~declPending /\ UNCHANGED <<driver, declPending>>

Streams(n) ==
    /\ input.sort[n] = "external"
    /\ CanPush(n, 0) /\ Count(0)
    /\ stack' = Append(stack, Streamed(n, expansions'))
    /\ ~declPending /\ declPending' = TRUE
    /\ sources' = Append(sources, [ent |-> n, sent |-> 0]) /\ UNCHANGED <<finished, values>>

LEMMA BeginStep ==
    ASSUME IInv, BeginEntity
    PROVE  UNCHANGED <<streams, declPending, sources>> \/ \E n \in Names : Streams(n)
<1>1. request \in Requests /\ request.kind = "general" /\ request # Nothing /\ ~GivenUp
    BY InputsAssumption DEF BeginEntity, OneAtATime, GivenUp, TypeOK, IInv
<1>2. request.name \in Names
    BY <1>1 DEF Requests
<1>3. input.sort[request.name] = "external" /\ ~declPending
    BY <1>1, <1>2 DEF OneAtATime, FeedsWhatIsRead, IInv, TypeOK
<1>4. UNCHANGED <<streams, declPending, sources>> \/ Streams(request.name)
    BY <1>3 DEF BeginEntity, Streams, values_
<1> QED BY <1>2, <1>4

LEMMA StackStep ==
    ASSUME IInv, [Next]_vars
    PROVE  /\ input' = input
           /\ \/ Settled \/ ReadsOne \/ PassesDeclaration \/ Leaves \/ Fill
              \/ \E n \in Names : Pushes(n) \/ Streams(n)
<1>1. CASE UNCHANGED vars
    BY <1>1 DEF vars, streams, asking, driver, Settled
<1>2. CASE Advance \/ EmptyEnd \/ InterpretHeld \/ DriveDtd \/ NeedMoreInput \/ Finish
    BY <1>2 DEF Advance, EmptyEnd, InterpretHeld, DriveDtd, NeedMoreInput, Finish, streams, asking, driver, Settled
<1>3. CASE ExpandValue
    BY <1>3 DEF ExpandValue, ExpandData, RefuseValue, EndReplacement, OpenElement, ExpandReference, streams, asking, driver, Settled
<1>4. CASE ProvideEntity \/ DeclineEntity \/ InputFails
    BY <1>4 DEF ProvideEntity, DeclineEntity, InputFails, streams, asking, driver, Settled
<1>5. CASE TextDeclaration
    BY <1>5 DEF TextDeclaration, driver, Settled, ReadsOne, PassesDeclaration
<1>6. CASE ScanText \/ ScanMarkup
    BY <1>6 DEF ScanText, ScanMarkup, AtToken, Scanning, asking, driver, ReadsOne, TypeOK, IInv
<1>7. CASE LeaveEntity
    BY <1>7 DEF LeaveEntity, Drained, Scanning, asking, driver, Leaves
<1>8. ASSUME NEW n \in Names, RefuseReference(n)
      PROVE  input' = input /\ Settled
    BY <1>8 DEF RefuseReference, ScanReference, streams, asking, driver, Settled
<1>9. ASSUME NEW n \in Names, IncludeInternal(n)
      PROVE  input' = input /\ (Settled \/ Pushes(n))
    BY <1>9 DEF IncludeInternal, ScanReference, AtToken, Scanning, streams, values_, asking, driver, Settled, Pushes
<1>10. ASSUME NEW n \in Names, RequestExternal(n)
       PROVE  input' = input /\ ReadsOne
    BY <1>10 DEF RequestExternal, ScanReference, AtToken, Scanning, driver, ReadsOne, TypeOK, IInv
<1>11. CASE BeginEntity
    BY <1>11, BeginStep DEF BeginEntity, Settled, streams, driver
<1>12. CASE Fill
    BY <1>12 DEF Fill
<1> QED BY <1>1, <1>2, <1>3, <1>4, <1>5, <1>6, <1>7, <1>8, <1>9, <1>10, <1>11, <1>12 DEF Next, Parse, Drive

-----------------------------------------------------------------------------
(* The readers that are still used, from the outermost in. *)
Live(f) == IF f.ended THEN <<>> ELSE <<Reader(f)>>
LiveOf(s) == Joined([i \in DOMAIN s |-> Live(s[i])])

LEMMA LiveIsLive == LiveReaders = LiveOf(stack)
BY Zenon DEF LiveReaders, LiveOf, Live

LEMMA LiveType ==
    ASSUME NEW f \in Frames
    PROVE  Live(f) \in Seq(Sources)
<1>1. f.ent \in Entities /\ f.got \in Nat
    BY DEF Frames
<1>2. Reader(f) \in Sources
    BY <1>1 DEF Reader, Sources
<1> QED BY <1>2 DEF Live

LEMMA LiveGrows ==
    ASSUME NEW s \in Seq(Frames), NEW f \in Frames
    PROVE  LiveOf(s) \in Seq(Sources) /\ LiveOf(Append(s, f)) = LiveOf(s) \o Live(f)
<1>1. PICK t : t = Append(s, f)
    OBVIOUS
<1>2. PICK n \in Nat : n = Len(s) /\ DOMAIN s = 1..n /\ DOMAIN t = 1..(n + 1) /\ t[n + 1] = f /\ \A i \in 1..n : t[i] = s[i]
    BY <1>1
<1>3. PICK parts \in Seq(Seq(Sources)) :
         parts = [i \in DOMAIN s |-> Live(s[i])] /\ Len(parts) = n /\ \A i \in 1..n : parts[i] = Live(s[i])
    <2>1. \A i \in 1..n : Live(s[i]) \in Seq(Sources)
        BY <1>2, LiveType
    <2>2. PICK parts : parts = [i \in DOMAIN s |-> Live(s[i])]
        OBVIOUS
    <2>3. parts = [i \in DOMAIN parts |-> parts[i]] /\ DOMAIN parts = 1..n /\ \A i \in 1..n : parts[i] = Live(s[i])
        BY <1>2, <2>2
    <2>4. parts \in Seq(Seq(Sources)) /\ Len(parts) = n
        BY <2>1, <2>3, ASequence
    <2> QED BY <2>2, <2>3, <2>4
<1>4. PICK more : more = [i \in DOMAIN t |-> Live(t[i])]
    OBVIOUS
<1>5. more = Append(parts, Live(f))
    <2>1. more = [i \in DOMAIN more |-> more[i]] /\ DOMAIN more = 1..(Len(parts) + 1) /\ more[Len(parts) + 1] = Live(f)
        BY <1>2, <1>3, <1>4
    <2>2. \A i \in 1..Len(parts) : more[i] = parts[i]
        BY <1>2, <1>3, <1>4
    <2>3. Live(f) \in Seq(Sources)
        BY LiveType
    <2> QED BY <2>1, <2>2, <2>3, GrownByOne
<1>6. Joined(parts) \in Seq(Sources) /\ Joined(Append(parts, Live(f))) = Joined(parts) \o Live(f)
    BY LiveType, WholeGrows, Zenon DEF Joined
<1>7. LiveOf(s) = Joined(parts) /\ LiveOf(t) = Joined(more)
    BY <1>3, <1>4, Zenon DEF LiveOf
<1> QED BY <1>1, <1>5, <1>6, <1>7, Zenon

LEMMA LiveOfNone == LiveOf(<<>>) = <<>>
<1>1. [i \in DOMAIN <<>> |-> Live(<<>>[i])] = <<>>
    OBVIOUS
<1>2. Joined(<<>>) = <<>>
    BY WholeOfNone, Zenon DEF Joined
<1> QED BY <1>1, <1>2, Zenon DEF LiveOf

(* The reader of what is read is the last one. *)
LEMMA LastReader ==
    ASSUME IInv, progress = "input"
    PROVE  /\ ~Top.ended
           /\ Last(sources) = Reader(Top)
           /\ LiveOf(Front(stack)) \in Seq(Sources)
           /\ ~finished => Front(sources) = LiveOf(Front(stack))
           /\ finished => Front(sources) # <<>> /\ Tail(Front(sources)) = LiveOf(Front(stack))
<1>1. /\ Top \in Frames /\ Front(stack) \in Seq(Frames) /\ stack = Append(Front(stack), Top)
      /\ ~Top.ended /\ (LiveReaders = IF finished THEN Tail(sources) ELSE sources)
    BY TopFacts DEF IInv, FeedsWhatIsRead, GivenUp
<1>3. Reader(Top) \in Sources
    BY <1>1 DEF Reader, Sources, Frames
<1>2. PICK L \in Seq(Sources) : L = LiveOf(Front(stack)) /\ LiveReaders = Append(L, Reader(Top))
    <2>1. LiveOf(Front(stack)) \in Seq(Sources) /\ LiveOf(stack) = LiveOf(Front(stack)) \o Live(Top)
        BY <1>1, LiveGrows
    <2>2. Live(Top) = <<Reader(Top)>>
        BY <1>1 DEF Live
    <2>3. LiveOf(Front(stack)) \o <<Reader(Top)>> = Append(LiveOf(Front(stack)), Reader(Top))
        BY <1>3, <2>1
    <2> QED BY <2>1, <2>2, <2>3, LiveIsLive
<1>4. Front(Append(L, Reader(Top))) = L /\ Last(Append(L, Reader(Top))) = Reader(Top)
    BY <1>3, FrontOfAppend
<1>5. CASE ~finished
    BY <1>1, <1>2, <1>4, <1>5
<1>6. CASE finished
    <2>1. sources \in Seq(Sources) /\ sources # <<>>
        BY DEF IInv, TypeOK, FramesFit
    <2>2. /\ Front(sources) \in Seq(Sources) /\ Last(sources) \in Sources /\ sources = Append(Front(sources), Last(sources))
          /\ Len(Front(sources)) = Len(sources) - 1
        BY <2>1, LastSplit
    <2>3. Tail(sources) = Append(L, Reader(Top))
        BY <1>1, <1>2, <1>6
    <2>4. Front(sources) # <<>>
        BY <1>3, <2>1, <2>2, <2>3
    <2>5. Tail(sources) = Append(Tail(Front(sources)), Last(sources)) /\ Tail(Front(sources)) \in Seq(Sources)
        BY <2>2, <2>4, TailOfAppend
    <2>6. Tail(Front(sources)) = L /\ Last(sources) = Reader(Top)
        BY <1>3, <1>4, <2>2, <2>3, <2>5, FrontOfAppend
    <2> QED BY <1>1, <1>2, <1>6, <2>4, <2>6
<1> QED BY <1>5, <1>6
-----------------------------------------------------------------------------
(* No entity is read past what arrived of it. *)
Fits(f) == 2 * f.read <= f.got /\ f.got <= Units(Body(f.ent)) /\ (f.ended => f.got = Units(Body(f.ent)))
Past(f) == IsExternal(f.ent) /\ f.read = 0 => Undeclared(f.ent)
Sorted(f) == f.ent \in Names /\ input.sort[f.ent] \in {"internal", "external"}

LEMMA FramesNow ==
    ASSUME FramesFit
    PROVE  /\ stack # <<>> /\ stack[1].ent = Doc /\ sources # <<>>
           /\ \A i \in 2..Len(stack) : Sorted(stack[i])
           /\ \A i \in 1..Len(stack) : Fits(stack[i]) /\ ((declPending /\ i = Len(stack)) \/ Past(stack[i]))
BY DEF FramesFit, Fits, Past, Sorted

LEMMA FramesThen ==
    ASSUME input' = input, stack' # <<>>, stack'[1].ent = Doc, sources' # <<>>,
           \A i \in 2..Len(stack') : Sorted(stack'[i]),
           \A i \in 1..Len(stack') : Fits(stack'[i]) /\ ((declPending' /\ i = Len(stack')) \/ Past(stack'[i]))
    PROVE  FramesFit'
<1>1. PICK now : now = stack' /\ input' = input
    OBVIOUS
<1>2. ASSUME NEW i \in 1..Len(now), NEW f, f = now[i]
      PROVE  /\ 2 * f.read <= f.got /\ f.got <= 2 * Len(input'.body[f.ent])
             /\ f.ended => f.got = 2 * Len(input'.body[f.ent])
             /\ f.ent \in Names /\ input'.sort[f.ent] = "external" /\ f.read = 0 =>
                  (declPending' /\ i = Len(now)) \/ (input'.body[f.ent] # <<>> => input'.body[f.ent][1] # Decl)
    BY <1>1, <1>2 DEF Fits, Past, Body, IsExternal, Undeclared, Units
<1>3. \A i \in 2..Len(now) : now[i].ent \in Names /\ input'.sort[now[i].ent] \in {"internal", "external"}
    BY <1>1 DEF Sorted
<1> QED BY <1>1, <1>2, <1>3, Zenon DEF FramesFit, Units, Body, IsExternal, Undeclared

(* The frames below the last stay as they are. *)
LEMMA LastFrame ==
    ASSUME IInv, NEW f \in Frames, f.ent = Top.ent, input' = input, stack' = Append(Front(stack), f), sources' # <<>>,
           Fits(f), declPending' \/ Past(f)
    PROVE  FramesFit'
<1>1. PICK n \in Nat : n + 1 = Len(stack)
    BY TopFacts DEF IInv
<1>2. /\ Front(stack) \in Seq(Frames) /\ Len(Front(stack)) = n
      /\ \A i \in 1..n : Front(stack)[i] = stack[i]
    <2>1. stack \in Seq(Frames) /\ stack # <<>>
        BY DEF IInv, TypeOK, FramesFit
    <2> QED BY <1>1, <2>1, LastSplit
<1>3. Len(stack') = n + 1 /\ stack'[n + 1] = f /\ \A i \in 1..n : stack'[i] = stack[i]
    <2>1. PICK g \in Seq(Frames) : g = Front(stack)
        BY <1>2
    <2>2. Len(Append(g, f)) = n + 1 /\ Append(g, f)[n + 1] = f /\ \A i \in 1..n : Append(g, f)[i] = g[i]
        BY <1>2, <2>1
    <2> QED BY <1>2, <2>1, <2>2
<1>4. stack[n + 1] = Top
    BY <1>1, TopFacts DEF IInv
<1>5. /\ stack[1].ent = Doc
      /\ \A i \in 2..(n + 1) : Sorted(stack[i])
      /\ \A i \in 1..(n + 1) : Fits(stack[i]) /\ ((declPending /\ i = n + 1) \/ Past(stack[i]))
    BY <1>1, FramesNow DEF IInv
<1>6. stack' # <<>> /\ stack'[1].ent = Doc
    BY <1>2, <1>3, <1>4, <1>5
<1>7. \A i \in 2..(n + 1) : Sorted(stack'[i])
    BY <1>3, <1>4, <1>5 DEF Sorted
<1>8. \A i \in 1..(n + 1) : Fits(stack'[i]) /\ ((declPending' /\ i = n + 1) \/ Past(stack'[i]))
    <2>1. \A i \in 1..(n + 1) : i = n + 1 \/ i \in 1..n
        OBVIOUS
    <2>2. \A i \in 1..n : ~(i = n + 1) /\ i \in 1..(n + 1)
        OBVIOUS
    <2> QED BY <1>3, <1>5, <2>1, <2>2, Zenon
<1> QED BY <1>3, <1>6, <1>7, <1>8, FramesThen

LEMMA NewFrame ==
    ASSUME IInv, NEW s \in Seq(Frames), NEW f \in Frames, input' = input, stack' = Append(s, f), sources' # <<>>,
           Len(s) = Len(stack), \A i \in 1..Len(s) : i # Len(s) => s[i] = stack[i],
           s[Len(s)].ent = Top.ent, Fits(s[Len(s)]), Past(s[Len(s)]),
           Sorted(f), Fits(f), declPending' \/ Past(f)
    PROVE  FramesFit'
<1>1. PICK n \in Nat : n + 1 = Len(stack)
    BY TopFacts DEF IInv
<1>2. Len(stack') = n + 2 /\ stack'[n + 2] = f /\ \A i \in 1..(n + 1) : stack'[i] = s[i]
    <2>1. Len(Append(s, f)) = n + 2 /\ Append(s, f)[n + 2] = f /\ \A i \in 1..(n + 1) : Append(s, f)[i] = s[i]
        BY <1>1
    <2> QED BY <2>1
<1>3. stack[n + 1] = Top
    BY <1>1, TopFacts DEF IInv
<1>4. /\ stack[1].ent = Doc
      /\ \A i \in 2..(n + 1) : Sorted(stack[i])
      /\ \A i \in 1..(n + 1) : Fits(stack[i]) /\ ((declPending /\ i = n + 1) \/ Past(stack[i]))
    BY <1>1, FramesNow DEF IInv
<1>5. \A i \in 1..n : i \in 1..(n + 1) /\ ~(i = n + 1) /\ s[i] = stack[i]
    BY <1>1
<1>6. \A i \in 1..(n + 2) : i = n + 2 \/ i = n + 1 \/ i \in 1..n
    OBVIOUS
<1>7. n + 1 \in 1..(n + 1) /\ n + 2 # n + 1 /\ n + 1 = Len(s)
    BY <1>1
<1>8. stack' # <<>> /\ stack'[1].ent = Doc
    <2>1. CASE n = 0
        BY <1>1, <1>2, <1>3, <1>4, <1>7, <2>1
    <2>2. CASE n # 0
        BY <1>2, <1>4, <1>5, <2>2
    <2> QED BY <2>1, <2>2
<1>9. \A i \in 2..(n + 2) : Sorted(stack'[i])
    <2>1. ASSUME NEW i \in 2..(n + 1)
          PROVE  Sorted(s[i])
        <3>1. CASE i = n + 1
            BY <1>3, <1>4, <1>7, <3>1 DEF Sorted
        <3>2. CASE i # n + 1
            BY <1>4, <1>5, <3>2
        <3> QED BY <3>1, <3>2
    <2>2. \A i \in 2..(n + 2) : i = n + 2 \/ (i \in 2..(n + 1) /\ i \in 1..(n + 1))
        OBVIOUS
    <2> QED BY <1>2, <2>1, <2>2, Zenon
<1>10. \A i \in 1..(n + 2) : Fits(stack'[i]) /\ ((declPending' /\ i = n + 2) \/ Past(stack'[i]))
    BY <1>2, <1>4, <1>5, <1>6, <1>7, Zenon
<1> QED BY <1>2, <1>8, <1>9, <1>10, FramesThen
-----------------------------------------------------------------------------
(* A step of fill. *)
LEMMA FilledFields ==
    ASSUME NEW f \in Frames, NEW n \in Nat
    PROVE  /\ Filled(f, n).ent = f.ent /\ Filled(f, n).read = f.read /\ Filled(f, n).nth = f.nth
           /\ Filled(f, n).got = f.got + n /\ (Filled(f, n).ended <=> n = 0)
<1>1. Extended(f, n) \in Frames /\ Extended(f, n).ent = f.ent /\ Extended(f, n).read = f.read
      /\ Extended(f, n).nth = f.nth /\ Extended(f, n).got = f.got + n
    BY DEF Frames, Extended
<1>2. PICK last \in BOOLEAN : last = IsLast(n) /\ (last <=> n = 0)
    BY DEF IsLast
<1>3. Filled(f, n) = [Extended(f, n) EXCEPT !.ended = last]
    BY <1>2 DEF Extended, Filled
<1>4. PICK g \in Frames : g = Extended(f, n)
    BY <1>1
<1>5. /\ Filled(f, n).ent = g.ent /\ Filled(f, n).read = g.read /\ Filled(f, n).nth = g.nth
      /\ Filled(f, n).got = g.got /\ Filled(f, n).ended = last
    BY <1>3, <1>4 DEF Frames
<1> QED BY <1>1, <1>2, <1>4, <1>5

LEMMA FillFacts ==
    ASSUME IInv, Fill
    PROVE  /\ progress = "input"
           /\ InDocument => ~finished
           /\ \E n \in Nat :
                /\ Filled(Top, n) \in Frames /\ stack' = Append(Front(stack), Filled(Top, n))
                /\ chars' = IF Top.ent = Doc THEN chars ELSE chars + n
                /\ sources' = IF n = 0 /\ ~InDocument THEN Front(sources)
                              ELSE Append(Front(sources), Reader(Filled(Top, n)))
                /\ finished' = IF InDocument THEN n = 0 ELSE finished
                /\ Top.got + n <= Units(Body(Top.ent)) /\ (n = 0 => Top.got = Units(Body(Top.ent)))
           /\ UNCHANGED declPending /\ progress' \in {"running", "limit"}
           /\ progress' = "running" => AtMost(chars', input.limits.chars)
<1>1. progress = "input" /\ (InDocument => ~finished) /\ UNCHANGED declPending
    BY DEF Fill, asking
<1>2. progress' \in {"running", "limit"} /\ (progress' = "running" => AtMost(chars', input.limits.chars))
    BY Zenon DEF Fill
<1>3. PICK n \in 0..ReadBuffer :
        /\ n <= Unsent /\ (n = 0 <=> Unsent = 0)
        /\ stack' = [stack EXCEPT ![Len(stack)].got = @ + n, ![Len(stack)].ended = IsLast(n)]
        /\ chars' = IF Top.ent = Doc THEN chars ELSE chars + n
        /\ sources' = IF IsLast(n) /\ ~InDocument THEN Front(sources)
                      ELSE [sources EXCEPT ![Len(sources)].sent = @ + n]
        /\ finished' = IF InDocument THEN IsLast(n) ELSE finished
    BY DEF Fill
<1>4. n \in Nat
    BY <1>3, ReaderAssumption
<1>5. Top \in Frames /\ Last(sources) = Reader(Top) /\ Body(Top.ent) \in Seq(Tokens)
    BY <1>1, LastReader, TopFacts DEF IInv
<1>6. /\ Filled(Top, n) \in Frames
      /\ [stack EXCEPT ![Len(stack)].got = @ + n, ![Len(stack)].ended = IsLast(n)] = Append(Front(stack), Filled(Top, n))
    BY <1>4, FilledFacts, Zenon DEF IInv
<1>7. [sources EXCEPT ![Len(sources)].sent = @ + n] = Append(Front(sources), Taken(Reader(Top), n))
    BY <1>4, <1>5, SourcesFacts, Zenon DEF IInv
<1>8. Taken(Reader(Top), n) = Reader(Filled(Top, n))
    BY <1>4, <1>5, FilledFields DEF Taken, Reader
<1>9. Unsent = Units(Body(Top.ent)) - Top.got /\ Units(Body(Top.ent)) \in Nat /\ Top.got \in Nat
    BY <1>5 DEF Unsent, Reader, Units, Frames
<1>10. Top.got + n <= Units(Body(Top.ent)) /\ (n = 0 => Top.got = Units(Body(Top.ent)))
    BY <1>3, <1>4, <1>9
<1>11. sources' = IF n = 0 /\ ~InDocument THEN Front(sources) ELSE Append(Front(sources), Reader(Filled(Top, n)))
    BY <1>3, <1>7, <1>8, Zenon DEF IsLast
<1>12. finished' = IF InDocument THEN n = 0 ELSE finished
    BY <1>3, Zenon DEF IsLast
<1>13. stack' = Append(Front(stack), Filled(Top, n)) /\ chars' = IF Top.ent = Doc THEN chars ELSE chars + n
    BY <1>3, <1>6, Zenon
<1> QED BY <1>1, <1>2, <1>4, <1>6, <1>10, <1>11, <1>12, <1>13, Zenon

LEMMA FramesStep ==
    ASSUME IInv, [Next]_vars
    PROVE  FramesFit'
<1>1. /\ input' = input
      /\ \/ Settled \/ ReadsOne \/ PassesDeclaration \/ Leaves \/ Fill
         \/ \E n \in Names : Pushes(n) \/ Streams(n)
    BY StackStep
<1>2. /\ Top \in Frames /\ stack # <<>> /\ sources # <<>> /\ Fits(Top) /\ (declPending \/ Past(Top))
      /\ Len(stack) \in Nat /\ Len(stack) >= 1 /\ stack[Len(stack)] = Top /\ stack = Append(Front(stack), Top)
      /\ stack \in Seq(Frames) /\ Body(Top.ent) \in Seq(Tokens)
    <2>1. Len(stack) \in 1..Len(stack) /\ stack[Len(stack)] = Top
        BY TopFacts DEF IInv
    <2> QED BY <2>1, FramesNow, TopFacts DEF IInv, TypeOK
<1>3. CASE Settled
    BY <1>1, <1>2, <1>3, LastFrame DEF Settled, driver
<1>4. CASE ReadsOne
    <2>1. ReadOn(Top) \in Frames /\ Consumed = Append(Front(stack), ReadOn(Top))
        BY ConsumedFacts DEF IInv
    <2>2. ReadOn(Top).ent = Top.ent /\ ReadOn(Top).read = Top.read + 1 /\ ReadOn(Top).got = Top.got /\ ReadOn(Top).ended = Top.ended
          /\ Top.read \in Nat /\ Top.got \in Nat
        BY <1>2 DEF Frames, ReadOn
    <2>3. Fits(ReadOn(Top)) /\ Past(ReadOn(Top))
        BY <1>2, <1>4, <2>2 DEF ReadsOne, Arrived, Fits, Past
    <2> QED BY <1>1, <1>2, <1>4, <2>1, <2>2, <2>3, LastFrame DEF ReadsOne, driver
<1>5. CASE PassesDeclaration
    <2>1. Past(Top)
        <3>1. SUFFICES ASSUME Top.read = 0, Body(Top.ent) # <<>> PROVE Body(Top.ent)[1] # Decl
            BY DEF Past, Undeclared
        <3>2. Units(Body(Top.ent)) > 0 /\ Top.got \in Nat
            BY <1>2, <3>1 DEF Units, Frames
        <3>3. Arrived(Top) > 0
            BY <1>2, <1>5, <3>1, <3>2 DEF PassesDeclaration, Arrived, Fits
        <3> QED BY <1>5, <3>1, <3>3 DEF PassesDeclaration, NextToken
    <2> QED BY <1>1, <1>2, <1>5, <2>1, LastFrame DEF PassesDeclaration, driver
<1>6. CASE Leaves
    <2>1. PICK n \in Nat : n + 1 = Len(stack) /\ n >= 1
        BY <1>2, <1>6 DEF Leaves
    <2>2. Front(stack) \in Seq(Frames) /\ Len(Front(stack)) = n /\ \A i \in 1..n : Front(stack)[i] = stack[i]
        BY <1>2, <2>1, LastSplit
    <2>3. PICK s \in Seq(Frames) : s = Front(stack) /\ Len(s) = n /\ \A i \in 1..n : s[i] = stack[i]
        BY <2>2
    <2>4. /\ stack[1].ent = Doc
          /\ \A i \in 2..(n + 1) : Sorted(stack[i])
          /\ \A i \in 1..(n + 1) : Fits(stack[i]) /\ ((declPending /\ i = n + 1) \/ Past(stack[i]))
        BY <2>1, FramesNow DEF IInv
    <2>5. /\ \A i \in 2..n : Sorted(s[i])
          /\ \A i \in 1..n : Fits(s[i]) /\ Past(s[i])
          /\ s # <<>> /\ s[1].ent = Doc
        BY <2>1, <2>3, <2>4
    <2>6. stack' = s /\ sources' = sources /\ input' = input
        BY <1>1, <1>6, <2>3 DEF Leaves, driver
    <2> QED BY <1>2, <2>3, <2>5, <2>6, FramesThen
<1>7. CASE Fill
    <2>1. PICK n \in Nat :
            /\ Filled(Top, n) \in Frames /\ stack' = Append(Front(stack), Filled(Top, n))
            /\ sources' = IF n = 0 /\ ~InDocument THEN Front(sources)
                          ELSE Append(Front(sources), Reader(Filled(Top, n)))
            /\ Top.got + n <= Units(Body(Top.ent)) /\ (n = 0 => Top.got = Units(Body(Top.ent)))
        BY <1>7, FillFacts
    <2>2. Filled(Top, n).ent = Top.ent /\ Filled(Top, n).read = Top.read /\ Filled(Top, n).got = Top.got + n
          /\ (Filled(Top, n).ended <=> n = 0) /\ Top.read \in Nat /\ Top.got \in Nat
        BY <1>2, FilledFields DEF Frames
    <2>3. Fits(Filled(Top, n)) /\ (Past(Top) => Past(Filled(Top, n))) /\ declPending' = declPending
        <3>1. declPending' = declPending
            BY <1>7, FillFacts
        <3>2. PICK units \in Nat : units = Units(Body(Top.ent))
            BY <1>2 DEF Units
        <3>3. PICK f : f = Filled(Top, n)
            OBVIOUS
        <3>4. 2 * f.read <= f.got /\ f.got <= units /\ (f.ended => f.got = units)
            <4>1. 2 * Top.read <= Top.got
                BY <1>2 DEF Fits
            <4>2. f.read = Top.read /\ f.got = Top.got + n /\ (f.ended <=> n = 0)
                BY <2>2, <3>3
            <4>3. Top.got + n <= units /\ (n = 0 => Top.got = units)
                BY <2>1, <3>2
            <4> QED BY <2>2, <4>1, <4>2, <4>3
        <3>5. Fits(f)
            BY <2>2, <3>2, <3>3, <3>4 DEF Fits
        <3>6. Past(Top) => Past(f)
            BY <2>2, <3>3 DEF Past
        <3> QED BY <3>1, <3>3, <3>5, <3>6
    <2>4. sources' # <<>>
        <3>1. sources \in Seq(Sources) /\ Front(sources) \in Seq(Sources) /\ Len(Front(sources)) = Len(sources) - 1
              /\ Len(sources) \in Nat /\ Len(sources) >= 1
            BY <1>2, LastSplit DEF IInv, TypeOK
        <3>2. CASE n = 0 /\ ~InDocument
            BY <2>1, <3>1, <3>2 DEF InDocument
        <3>3. CASE ~(n = 0 /\ ~InDocument)
            <4>1. Reader(Filled(Top, n)) \in Sources
                BY <2>1 DEF Reader, Sources, Frames
            <4> QED BY <2>1, <3>1, <3>3, <4>1
        <3> QED BY <3>2, <3>3
    <2> QED BY <1>1, <1>2, <2>1, <2>2, <2>3, <2>4, LastFrame
<1>8. ASSUME NEW n \in Names, Pushes(n)
      PROVE  FramesFit'
    <2>1. /\ Consumed \in Seq(Frames) /\ Len(Consumed) = Len(stack) /\ Consumed[Len(stack)] = ReadOn(Top)
          /\ \A i \in 1..Len(stack) : i # Len(stack) => Consumed[i] = stack[i]
        BY ConsumedFacts DEF IInv
    <2>2. ReadOn(Top).ent = Top.ent /\ ReadOn(Top).read = Top.read + 1 /\ ReadOn(Top).got = Top.got /\ ReadOn(Top).ended = Top.ended
          /\ Top.read \in Nat /\ Top.got \in Nat
        BY <1>2 DEF Frames, ReadOn
    <2>3. Fits(ReadOn(Top)) /\ Past(ReadOn(Top))
        BY <1>2, <1>8, <2>2 DEF Pushes, Arrived, Fits, Past
    <2>4. Body(n) \in Seq(Tokens) /\ n \in Entities /\ expansions' \in Nat
        BY <1>8, InputFacts DEF Pushes, Count, IInv, TypeOK
    <2>5. Units(Body(n)) \in Nat
        BY <2>4 DEF Units
    <2>6. PICK f \in Frames : f = Whole(n, expansions')
        BY <2>4, <2>5 DEF Whole, Frames
    <2>7. f.ent = n /\ f.read = 0 /\ f.got = Units(Body(n)) /\ f.ended = TRUE
        BY <2>6 DEF Whole
    <2>8. Sorted(f) /\ Fits(f) /\ Past(f)
        BY <1>8, <2>5, <2>7 DEF Pushes, Sorted, Fits, Past, IsExternal
    <2>9. stack' = Append(Consumed, f) /\ sources' # <<>>
        BY <1>2, <1>8, <2>6 DEF Pushes, driver
    <2> QED BY <1>1, <2>1, <2>2, <2>3, <2>8, <2>9, NewFrame
<1>9. ASSUME NEW n \in Names, Streams(n)
      PROVE  FramesFit'
    <2>1. n \in Entities /\ expansions' \in Nat /\ Body(n) \in Seq(Tokens)
        BY <1>9, InputFacts DEF Streams, Count, IInv, TypeOK
    <2>2. PICK f \in Frames : f = Streamed(n, expansions')
        BY <2>1 DEF Streamed, Frames
    <2>3. f.ent = n /\ f.read = 0 /\ f.got = 0 /\ f.ended = FALSE
        BY <2>2 DEF Streamed
    <2>4. Sorted(f) /\ Fits(f) /\ declPending' /\ Past(Top)
        BY <1>2, <1>9, <2>1, <2>3 DEF Streams, Sorted, Fits, Units
    <2>5. stack' = Append(stack, f)
        BY <1>9, <2>2 DEF Streams
    <2>6. sources' # <<>>
        <3>1. [ent |-> n, sent |-> 0] \in Sources /\ sources \in Seq(Sources)
            BY <2>1 DEF Sources, IInv, TypeOK
        <3> QED BY <1>9, <3>1 DEF Streams
    <2> QED BY <1>1, <1>2, <2>4, <2>5, <2>6, NewFrame
<1> QED BY <1>1, <1>3, <1>4, <1>5, <1>6, <1>7, <1>8, <1>9
-----------------------------------------------------------------------------
(* At most one thing is held back. *)
LEMMA Going ==
    ASSUME Next
    PROVE  progress \in {"running", "token", "entity", "input"}
<1>1. CASE Parse
    BY <1>1, Zenon DEF Parse, Advance, EmptyEnd, InterpretHeld, DriveDtd, TextDeclaration, ScanText, ScanMarkup, NeedMoreInput,
        LeaveEntity, Finish, ExpandValue, ExpandData, RefuseValue, EndReplacement, OpenElement, ExpandReference, AtReference,
        RefuseReference, IncludeInternal, RequestExternal, ScanReference, AtToken, Drained, Scanning, Running, Expanding
<1>2. CASE Drive
    BY <1>2, Zenon DEF Drive, BeginEntity, ProvideEntity, DeclineEntity, InputFails, Fill
<1> QED BY <1>1, <1>2 DEF Next

AsOne == OneAtATime /\ (starting # Nothing <=> values # <<>>)

LEMMA OneStep ==
    ASSUME IInv, [Next]_vars
    PROVE  AsOne'
<1>1. /\ AsOne /\ TypeOK /\ input' = input
      /\ ~GivenUp => (request # Nothing => progress = "entity")
                    /\ (declPending => request = Nothing /\ held = Nothing /\ starting = Nothing)
    BY StackStep DEF IInv, AsOne, FeedsWhatIsRead
<1>2. CASE UNCHANGED vars
    BY <1>1, <1>2 DEF vars, AsOne, OneAtATime, GivenUp, DtdActive, Expanding, Running, streams, tree, texts, asking, values_, dtds, driver, outcome, Stop, Refuse, Report, GoOn
<1>3. CASE Advance
    BY <1>1, <1>3 DEF AsOne, Advance, OneAtATime, GivenUp, DtdActive, Expanding, Running, streams, tree, texts, asking, values_, dtds, driver, outcome, Stop, Refuse, Report, GoOn
<1>4. CASE EmptyEnd
    BY <1>1, <1>4 DEF AsOne, EmptyEnd, CloseElement, OneAtATime, GivenUp, DtdActive, Expanding, Running, streams, tree, texts, asking, values_, dtds, driver, outcome, Stop, Refuse, Report, GoOn
<1>5. CASE InterpretHeld
    <2>1. CASE MiscToken(held) \/ RefuseToken(held)
        BY <1>1, <1>5, <2>1 DEF InterpretHeld, MiscToken, RefuseToken, AsOne, OneAtATime, GivenUp, DtdActive, Expanding, Running, streams, tree, texts, asking, values_, dtds, driver, outcome, Stop, Refuse, Report, GoOn
    <2>2. CASE DoctypeToken(held)
        BY <1>1, <1>5, <2>2 DEF InterpretHeld, DoctypeToken, AsOne, OneAtATime, GivenUp, DtdActive, Expanding, Running, streams, tree, texts, asking, values_, dtds, driver, outcome, Stop, Refuse, Report, GoOn
    <2>3. CASE StartToken(held)
        BY <1>1, <1>5, <2>3 DEF InterpretHeld, StartToken, AsOne, OneAtATime, GivenUp, DtdActive, Expanding, Running, streams, tree, texts, asking, values_, dtds, driver, outcome, Stop, Refuse, Report, GoOn
    <2>4. CASE EndToken(held)
        BY <1>1, <1>5, <2>4 DEF InterpretHeld, EndToken, CloseElement, AsOne, OneAtATime, GivenUp, DtdActive, Expanding, Running, streams, tree, texts, asking, values_, dtds, driver, outcome, Stop, Refuse, Report, GoOn
    <2> QED BY <1>5, <2>1, <2>2, <2>3, <2>4 DEF InterpretHeld, Interpret
<1>6. CASE DriveDtd
    <2>1. CASE dtd = "subset" /\ dtd' = "reading" /\ request' = [kind |-> "subset", name |-> Nothing] /\ Stop("entity")
        <3>1. request' # Nothing /\ request'.kind = "subset"
            BY <2>1, InputsAssumption DEF Requests
        <3> QED BY <1>1, <1>6, <2>1, <3>1 DEF DriveDtd, AsOne, OneAtATime, GivenUp, DtdActive, Expanding, Running, streams, tree, texts, asking, values_, dtds, driver, outcome, Stop, Refuse, Report, GoOn
    <2>2. CASE dtd = "reading" /\ request' = [kind |-> "parameter", name |-> Nothing] /\ Stop("entity") /\ UNCHANGED dtd
        <3>1. request' # Nothing /\ request'.kind = "parameter"
            BY <2>2, InputsAssumption DEF Requests
        <3> QED BY <1>1, <1>6, <2>2, <3>1 DEF DriveDtd, AsOne, OneAtATime, GivenUp, DtdActive, Expanding, Running, streams, tree, texts, asking, values_, dtds, driver, outcome, Stop, Refuse, Report, GoOn
    <2>3. CASE dtd = "reading" /\ dtd' = "complete" /\ Report(Doctype) /\ UNCHANGED request
        BY <1>1, <1>6, <2>3 DEF DriveDtd, AsOne, OneAtATime, GivenUp, DtdActive, Expanding, Running, streams, tree, texts, asking, values_, dtds, driver, outcome, Stop, Refuse, Report, GoOn
    <2> QED BY <1>6, <2>1, <2>2, <2>3 DEF DriveDtd
<1>7. CASE TextDeclaration
    BY <1>1, <1>7 DEF AsOne, TextDeclaration, OneAtATime, GivenUp, DtdActive, Expanding, Running, streams, tree, texts, asking, values_, dtds, driver, outcome, Stop, Refuse, Report, GoOn
<1>8. CASE ScanText
    BY <1>1, <1>8 DEF AsOne, ScanText, AtToken, Scanning, AddText, FlushText, OneAtATime, GivenUp, DtdActive, Expanding, Running, streams, tree, texts, asking, values_, dtds, driver, outcome, Stop, Refuse, Report, GoOn
<1>9. CASE ScanMarkup
    <2> DEFINE t == NextToken(Top)
    <2>1. CASE pending # <<>> /\ held' = t /\ FlushText(pending) /\ UNCHANGED <<tree, values_, dtds>>
        <3>1. progress' \in {"token", "refused"} /\ (progress' = "token" => pending' = <<>>)
            BY <2>1 DEF FlushText, Report, Refuse, Stop
        <3> QED BY <1>1, <1>9, <2>1, <3>1 DEF ScanMarkup, AtToken, Scanning, AsOne, OneAtATime, GivenUp, DtdActive, Expanding, Running, streams, tree, texts, asking, values_, dtds, driver, outcome, Stop, Refuse, Report, GoOn
    <2>2. CASE pending = <<>> /\ Interpret(t) /\ UNCHANGED texts
        <3>1. CASE MiscToken(t) \/ RefuseToken(t)
            BY <1>1, <1>9, <2>2, <3>1 DEF ScanMarkup, AtToken, Scanning, MiscToken, RefuseToken, AsOne, OneAtATime, GivenUp, DtdActive, Expanding, Running, streams, tree, texts, asking, values_, dtds, driver, outcome, Stop, Refuse, Report, GoOn
        <3>2. CASE DoctypeToken(t)
            BY <1>1, <1>9, <2>2, <3>2 DEF ScanMarkup, AtToken, Scanning, DoctypeToken, AsOne, OneAtATime, GivenUp, DtdActive, Expanding, Running, streams, tree, texts, asking, values_, dtds, driver, outcome, Stop, Refuse, Report, GoOn
        <3>3. CASE StartToken(t)
            <4>1. t # Nothing
                BY <1>9, TopFacts, TokenFacts DEF IInv, ScanMarkup, AtToken
            <4> QED BY <1>1, <1>9, <2>2, <3>3, <4>1 DEF ScanMarkup, AtToken, Scanning, StartToken, AsOne, OneAtATime, GivenUp, DtdActive, Expanding, Running, streams, tree, texts, asking, values_, dtds, driver, outcome, Stop, Refuse, Report, GoOn
        <3>4. CASE EndToken(t)
            BY <1>1, <1>9, <2>2, <3>4 DEF ScanMarkup, AtToken, Scanning, EndToken, CloseElement, AsOne, OneAtATime, GivenUp, DtdActive, Expanding, Running, streams, tree, texts, asking, values_, dtds, driver, outcome, Stop, Refuse, Report, GoOn
        <3> QED BY <2>2, <3>1, <3>2, <3>3, <3>4 DEF Interpret
    <2> QED BY <1>9, <2>1, <2>2 DEF ScanMarkup
<1>10. CASE NeedMoreInput
    BY <1>1, <1>10 DEF AsOne, NeedMoreInput, Scanning, OneAtATime, GivenUp, DtdActive, Expanding, Running, streams, tree, texts, asking, values_, dtds, driver, outcome, Stop, Refuse, Report, GoOn
<1>11. CASE LeaveEntity
    BY <1>1, <1>11 DEF AsOne, LeaveEntity, Drained, Scanning, OneAtATime, GivenUp, DtdActive, Expanding, Running, streams, tree, texts, asking, values_, dtds, driver, outcome, Stop, Refuse, Report, GoOn
<1>12. CASE Finish
    BY <1>1, <1>12 DEF AsOne, Finish, Drained, Scanning, FlushText, OneAtATime, GivenUp, DtdActive, Expanding, Running, streams, tree, texts, asking, values_, dtds, driver, outcome, Stop, Refuse, Report, GoOn
<1>13. CASE ExpandData
    <2>1. values' # <<>>
        BY <1>13, ValueFacts DEF ExpandData, Expanding
    <2> QED BY <1>1, <1>13, <2>1 DEF ExpandData, AsOne, OneAtATime, GivenUp, DtdActive, Expanding, Running, streams, tree, texts, asking, values_, dtds, driver, outcome, Stop, Refuse, Report, GoOn
<1>14. CASE RefuseValue
    BY <1>1, <1>14 DEF AsOne, RefuseValue, OneAtATime, GivenUp, DtdActive, Expanding, Running, streams, tree, texts, asking, values_, dtds, driver, outcome, Stop, Refuse, Report, GoOn
<1>15. CASE EndReplacement
    <2>1. values' # <<>>
        <3>1. values \in Seq(OpenValues) /\ values # <<>>
            BY <1>1, <1>15 DEF EndReplacement, AsOne, Expanding, TypeOK
        <3>2. Front(values) \in Seq(OpenValues) /\ Len(Front(values)) = Len(values) - 1 /\ Len(values) \in Nat
            BY <3>1, LastSplit
        <3> QED BY <1>15, <3>2 DEF EndReplacement
    <2> QED BY <1>1, <1>15, <2>1 DEF EndReplacement, AsOne, OneAtATime, GivenUp, DtdActive, Expanding, Running, streams, tree, texts, asking, values_, dtds, driver, outcome, Stop, Refuse, Report, GoOn
<1>16. CASE OpenElement
    BY <1>1, <1>16 DEF AsOne, OpenElement, OneAtATime, GivenUp, DtdActive, Expanding, Running, streams, tree, texts, asking, values_, dtds, driver, outcome, Stop, Refuse, Report, GoOn
<1>17. ASSUME NEW n \in Names, ExpandReference(n)
        PROVE  AsOne'
    BY <1>1, <1>17 DEF AsOne, ExpandReference, AtReference, Count, OneAtATime, GivenUp, DtdActive, Expanding, Running, streams, tree, texts, asking, values_, dtds, driver, outcome, Stop, Refuse, Report, GoOn
<1>18. ASSUME NEW n \in Names, RefuseReference(n)
        PROVE  AsOne'
    BY <1>1, <1>18 DEF AsOne, RefuseReference, ScanReference, OneAtATime, GivenUp, DtdActive, Expanding, Running, streams, tree, texts, asking, values_, dtds, driver, outcome, Stop, Refuse, Report, GoOn
<1>19. ASSUME NEW n \in Names, IncludeInternal(n)
        PROVE  AsOne'
    BY <1>1, <1>19 DEF AsOne, IncludeInternal, ScanReference, Count, OneAtATime, GivenUp, DtdActive, Expanding, Running, streams, tree, texts, asking, values_, dtds, driver, outcome, Stop, Refuse, Report, GoOn
<1>20. ASSUME NEW n \in Names, RequestExternal(n)
        PROVE  AsOne'
    <2>1. request' # Nothing /\ request'.kind = "general" /\ request'.name = n
        BY <1>20, InputsAssumption DEF RequestExternal, Requests
    <2> QED BY <1>1, <1>20, <2>1 DEF RequestExternal, ScanReference, AtToken, Scanning, AsOne, OneAtATime, GivenUp, DtdActive, Expanding, Running, streams, tree, texts, asking, values_, dtds, driver, outcome, Stop, Refuse, Report, GoOn
<1>21. CASE BeginEntity
    BY <1>1, <1>21 DEF AsOne, BeginEntity, Count, OneAtATime, GivenUp, DtdActive, Expanding, Running, streams, tree, texts, asking, values_, dtds, driver, outcome, Stop, Refuse, Report, GoOn
<1>22. CASE ProvideEntity
    BY <1>1, <1>22 DEF AsOne, ProvideEntity, OneAtATime, GivenUp, DtdActive, Expanding, Running, streams, tree, texts, asking, values_, dtds, driver, outcome, Stop, Refuse, Report, GoOn
<1>23. CASE DeclineEntity
    BY <1>1, <1>23 DEF AsOne, DeclineEntity, OneAtATime, GivenUp, DtdActive, Expanding, Running, streams, tree, texts, asking, values_, dtds, driver, outcome, Stop, Refuse, Report, GoOn
<1>24. CASE InputFails
    BY <1>1, <1>24 DEF AsOne, InputFails, OneAtATime, GivenUp, DtdActive, Expanding, Running, streams, tree, texts, asking, values_, dtds, driver, outcome, Stop, Refuse, Report, GoOn
<1>25. CASE Fill
    BY <1>1, <1>25 DEF AsOne, Fill, OneAtATime, GivenUp, DtdActive, Expanding, Running, streams, tree, texts, asking, values_, dtds, driver, outcome, Stop, Refuse, Report, GoOn
<1> QED BY <1>2, <1>3, <1>4, <1>5, <1>6, <1>7, <1>8, <1>9, <1>10, <1>11, <1>12, <1>13, <1>14, <1>15, <1>16, <1>17, <1>18, <1>19, <1>20, <1>21, <1>22, <1>23, <1>24, <1>25 DEF Next, Parse, Drive, ExpandValue
-----------------------------------------------------------------------------
(* What is read goes to the entity it belongs to. *)
LEMMA LiveStep ==
    ASSUME IInv, [Next]_vars, ~GivenUp
    PROVE  LiveReaders' = IF finished' THEN Tail(sources') ELSE sources'
<1>1. /\ Settled \/ ReadsOne \/ PassesDeclaration \/ Leaves \/ Fill
         \/ \E n \in Names : Pushes(n) \/ Streams(n)
    BY StackStep
<1>2. /\ LiveOf(stack) = IF finished THEN Tail(sources) ELSE sources
      /\ LiveReaders' = LiveOf(stack')
    <2>1. LiveReaders' = LiveOf(stack')
        BY Zenon DEF LiveReaders, LiveOf, Live
    <2> QED BY <2>1, LiveIsLive DEF IInv, FeedsWhatIsRead
<1>3. /\ Top \in Frames /\ Front(stack) \in Seq(Frames) /\ stack = Append(Front(stack), Top) /\ stack \in Seq(Frames)
      /\ sources \in Seq(Sources) /\ sources # <<>>
    BY TopFacts DEF IInv, TypeOK, FramesFit
<1>4. /\ LiveOf(Front(stack)) \in Seq(Sources) /\ LiveOf(stack) = LiveOf(Front(stack)) \o Live(Top)
      /\ LiveOf(stack) \in Seq(Sources)
    BY <1>3, LiveGrows
<1>5. CASE Settled \/ PassesDeclaration
    BY <1>2, <1>5 DEF Settled, PassesDeclaration, driver
<1>6. CASE ReadsOne
    <2>1. ReadOn(Top) \in Frames /\ Consumed = Append(Front(stack), ReadOn(Top))
        BY ConsumedFacts DEF IInv
    <2>2. LiveOf(Consumed) = LiveOf(Front(stack)) \o Live(ReadOn(Top))
        BY <1>3, <2>1, LiveGrows
    <2>3. Live(ReadOn(Top)) = Live(Top)
        BY <1>3 DEF Live, Reader, ReadOn, Frames
    <2> QED BY <1>2, <1>4, <1>6, <2>2, <2>3 DEF ReadsOne, driver
<1>7. CASE Leaves
    <2>1. Live(Top) = <<>>
        BY <1>7 DEF Leaves, Live
    <2> QED BY <1>2, <1>4, <1>7, <2>1 DEF Leaves, driver
<1>8. CASE Fill
    <2>1. PICK n \in Nat :
            /\ Filled(Top, n) \in Frames /\ stack' = Append(Front(stack), Filled(Top, n))
            /\ sources' = IF n = 0 /\ ~InDocument THEN Front(sources)
                          ELSE Append(Front(sources), Reader(Filled(Top, n)))
            /\ finished' = IF InDocument THEN n = 0 ELSE finished
        BY <1>8, FillFacts
    <2>2. InDocument => ~finished
        BY <1>8, FillFacts
    <2>3. PICK L \in Seq(Sources) : L = LiveOf(Front(stack))
        BY <1>4
    <2>4. /\ ~finished => Front(sources) = L
          /\ finished => Front(sources) # <<>> /\ Tail(Front(sources)) = L
        BY <1>8, <2>3, FillFacts, LastReader
    <2>5. PICK r \in Sources : r = Reader(Filled(Top, n))
        BY <2>1 DEF Reader, Sources, Frames
    <2>6. PICK F \in Seq(Sources) : F = Front(sources) /\ Len(F) = Len(sources) - 1
        BY <1>3, LastSplit
    <2>7. LiveOf(stack') = L \o Live(Filled(Top, n))
        BY <1>3, <2>1, <2>3, LiveGrows
    <2>8. Live(Filled(Top, n)) = IF n = 0 THEN <<>> ELSE <<r>>
        BY <1>3, <2>5, FilledFields DEF Live
    <2>9. CASE n # 0
        <3>1. LiveOf(stack') = Append(L, r) /\ sources' = Append(F, r)
            BY <2>1, <2>5, <2>6, <2>7, <2>8, <2>9
        <3>2. CASE ~finished
            BY <1>2, <2>1, <2>4, <2>6, <2>9, <3>1, <3>2
        <3>3. CASE finished
            <4>1. Tail(Append(F, r)) = Append(L, r)
                BY <2>4, <2>6, <3>3, TailOfAppend
            <4> QED BY <1>2, <2>1, <2>2, <3>1, <3>3, <4>1
        <3> QED BY <3>2, <3>3
    <2>10. CASE n = 0 /\ InDocument
        <3>1. F = <<>> /\ L = <<>>
            BY <2>2, <2>4, <2>6, <2>10 DEF InDocument
        <3>2. LiveOf(stack') = <<>> /\ sources' = Append(F, r) /\ finished'
            <4>1. Live(Filled(Top, n)) = <<>>
                BY <2>8, <2>10
            <4>2. LiveOf(stack') = <<>>
                BY <2>7, <3>1, <4>1
            <4>3. sources' = Append(F, r)
                BY <2>1, <2>5, <2>6, <2>10
            <4>4. finished' = (n = 0)
                BY <2>1, <2>10
            <4> QED BY <2>10, <4>2, <4>3, <4>4
        <3>3. Tail(Append(F, r)) = <<>>
            BY <3>1
        <3> QED BY <1>2, <3>2, <3>3
    <2>11. CASE n = 0 /\ ~InDocument
        <3>1. LiveOf(stack') = L /\ sources' = F /\ finished' = finished
            BY <2>1, <2>6, <2>7, <2>8, <2>11
        <3> QED BY <1>2, <2>4, <2>6, <3>1
    <2> QED BY <2>9, <2>10, <2>11
<1>9. ASSUME NEW n \in Names, Pushes(n)
      PROVE  LiveReaders' = IF finished' THEN Tail(sources') ELSE sources'
    <2>1. ReadOn(Top) \in Frames /\ Consumed = Append(Front(stack), ReadOn(Top)) /\ Consumed \in Seq(Frames)
        BY ConsumedFacts DEF IInv
    <2>2. Whole(n, expansions') \in Frames /\ Live(Whole(n, expansions')) = <<>>
        <3>1. Body(n) \in Seq(Tokens) /\ n \in Entities /\ expansions' \in Nat
            BY <1>9, InputFacts DEF Pushes, Count, IInv, TypeOK
        <3> QED BY <3>1 DEF Whole, Frames, Units, Live
    <2>3. LiveOf(Consumed) = LiveOf(Front(stack)) \o Live(ReadOn(Top)) /\ LiveOf(Append(Consumed, Whole(n, expansions'))) = LiveOf(Consumed) \o <<>>
        BY <1>3, <2>1, <2>2, LiveGrows
    <2>4. Live(ReadOn(Top)) = Live(Top)
        BY <1>3 DEF Live, Reader, ReadOn, Frames
    <2>5. LiveOf(Append(Consumed, Whole(n, expansions'))) = LiveOf(stack)
        BY <1>4, <2>3, <2>4
    <2> QED BY <1>2, <1>9, <2>5 DEF Pushes, driver
<1>10. ASSUME NEW n \in Names, Streams(n)
       PROVE  LiveReaders' = IF finished' THEN Tail(sources') ELSE sources'
    <2>1. n \in Entities /\ expansions' \in Nat
        BY <1>10, InputFacts DEF Streams, Count, IInv, TypeOK
    <2>2. Streamed(n, expansions') \in Frames /\ Live(Streamed(n, expansions')) = <<[ent |-> n, sent |-> 0]>>
        BY <2>1 DEF Streamed, Frames, Live, Reader
    <2>3. LiveOf(stack') = LiveOf(stack) \o <<[ent |-> n, sent |-> 0]>>
        BY <1>3, <1>10, <2>2, LiveGrows DEF Streams
    <2>4. PICK r \in Sources : r = [ent |-> n, sent |-> 0]
        BY <2>1 DEF Sources
    <2>5. LiveOf(stack') = Append(LiveOf(stack), r) /\ sources' = Append(sources, r) /\ finished' = finished
        BY <1>4, <1>10, <2>3, <2>4 DEF Streams
    <2>6. CASE finished
        <3>1. Tail(Append(sources, r)) = Append(Tail(sources), r)
            BY <1>3, TailOfAppend
        <3> QED BY <1>2, <2>5, <2>6, <3>1
    <2>7. CASE ~finished
        BY <1>2, <2>5, <2>7
    <2> QED BY <2>6, <2>7
<1> QED BY <1>1, <1>5, <1>6, <1>7, <1>8, <1>9, <1>10

(* Input is asked for where there is more, a request reaches the driver,   *)
(* and a text declaration is looked for first of all.                      *)
AsksInOrder ==
    /\ progress' = "input" => UNCHANGED stack /\ (progress = "input" \/ ~Top.ended)
    /\ request' # Nothing => progress' = "entity" \/ GivenUp'
    /\ declPending' => request' = Nothing /\ held' = Nothing /\ starting' = Nothing

LEMMA AskingStep ==
    ASSUME IInv, [Next]_vars, ~GivenUp
    PROVE  AsksInOrder
<1>1. /\ OneAtATime
      /\ request # Nothing => progress = "entity"
      /\ declPending => request = Nothing /\ held = Nothing /\ starting = Nothing
    BY DEF IInv, FeedsWhatIsRead
<1>2. CASE UNCHANGED vars
    BY <1>1, <1>2 DEF vars, AsksInOrder, GivenUp, DtdActive, Expanding, Running, streams, tree, texts, asking, values_, dtds, driver, outcome, Stop, Refuse, Report, GoOn
<1>3. CASE Advance
    BY <1>1, <1>3 DEF AsksInOrder, Advance, GivenUp, DtdActive, Expanding, Running, streams, tree, texts, asking, values_, dtds, driver, outcome, Stop, Refuse, Report, GoOn
<1>4. CASE EmptyEnd
    BY <1>1, <1>4 DEF AsksInOrder, EmptyEnd, GivenUp, DtdActive, Expanding, Running, streams, tree, texts, asking, values_, dtds, driver, outcome, Stop, Refuse, Report, GoOn
<1>5. CASE InterpretHeld
    BY <1>1, <1>5 DEF AsksInOrder, InterpretHeld, Interpret, MiscToken, DoctypeToken, StartToken, EndToken, RefuseToken, GivenUp, DtdActive, Expanding, Running, streams, tree, texts, asking, values_, dtds, driver, outcome, Stop, Refuse, Report, GoOn
<1>6. CASE DriveDtd
    BY <1>1, <1>6 DEF AsksInOrder, DriveDtd, OneAtATime, GivenUp, DtdActive, Expanding, Running, streams, tree, texts, asking, values_, dtds, driver, outcome, Stop, Refuse, Report, GoOn
<1>7. CASE TextDeclaration
    BY <1>1, <1>7 DEF AsksInOrder, TextDeclaration, GivenUp, DtdActive, Expanding, Running, streams, tree, texts, asking, values_, dtds, driver, outcome, Stop, Refuse, Report, GoOn
<1>8. CASE ScanText
    BY <1>1, <1>8 DEF AsksInOrder, ScanText, AtToken, Scanning, AddText, FlushText, GivenUp, DtdActive, Expanding, Running, streams, tree, texts, asking, values_, dtds, driver, outcome, Stop, Refuse, Report, GoOn
<1>9. CASE ScanMarkup
    BY <1>1, <1>9 DEF AsksInOrder, ScanMarkup, AtToken, Scanning, FlushText, Interpret, MiscToken, DoctypeToken, StartToken, EndToken, RefuseToken, GivenUp, DtdActive, Expanding, Running, streams, tree, texts, asking, values_, dtds, driver, outcome, Stop, Refuse, Report, GoOn
<1>10. CASE NeedMoreInput
    BY <1>1, <1>10 DEF AsksInOrder, NeedMoreInput, Scanning, GivenUp, DtdActive, Expanding, Running, streams, tree, texts, asking, values_, dtds, driver, outcome, Stop, Refuse, Report, GoOn
<1>11. CASE LeaveEntity
    BY <1>1, <1>11 DEF AsksInOrder, LeaveEntity, Drained, Scanning, GivenUp, DtdActive, Expanding, Running, streams, tree, texts, asking, values_, dtds, driver, outcome, Stop, Refuse, Report, GoOn
<1>12. CASE Finish
    BY <1>1, <1>12 DEF AsksInOrder, Finish, Drained, Scanning, FlushText, GivenUp, DtdActive, Expanding, Running, streams, tree, texts, asking, values_, dtds, driver, outcome, Stop, Refuse, Report, GoOn
<1>13. CASE ExpandData
    BY <1>1, <1>13 DEF AsksInOrder, ExpandData, GivenUp, DtdActive, Expanding, Running, streams, tree, texts, asking, values_, dtds, driver, outcome, Stop, Refuse, Report, GoOn
<1>14. CASE RefuseValue
    BY <1>1, <1>14 DEF AsksInOrder, RefuseValue, GivenUp, DtdActive, Expanding, Running, streams, tree, texts, asking, values_, dtds, driver, outcome, Stop, Refuse, Report, GoOn
<1>15. CASE EndReplacement
    BY <1>1, <1>15 DEF AsksInOrder, EndReplacement, GivenUp, DtdActive, Expanding, Running, streams, tree, texts, asking, values_, dtds, driver, outcome, Stop, Refuse, Report, GoOn
<1>16. CASE OpenElement
    BY <1>1, <1>16 DEF AsksInOrder, OpenElement, GivenUp, DtdActive, Expanding, Running, streams, tree, texts, asking, values_, dtds, driver, outcome, Stop, Refuse, Report, GoOn
<1>17. ASSUME NEW n \in Names, ExpandReference(n)
        PROVE  AsksInOrder
    BY <1>1, <1>17 DEF AsksInOrder, ExpandReference, AtReference, Count, GivenUp, DtdActive, Expanding, Running, streams, tree, texts, asking, values_, dtds, driver, outcome, Stop, Refuse, Report, GoOn
<1>18. ASSUME NEW n \in Names, RefuseReference(n)
        PROVE  AsksInOrder
    BY <1>1, <1>18 DEF AsksInOrder, RefuseReference, ScanReference, AtToken, Scanning, GivenUp, DtdActive, Expanding, Running, streams, tree, texts, asking, values_, dtds, driver, outcome, Stop, Refuse, Report, GoOn
<1>19. ASSUME NEW n \in Names, IncludeInternal(n)
        PROVE  AsksInOrder
    BY <1>1, <1>19 DEF AsksInOrder, IncludeInternal, ScanReference, AtToken, Scanning, Count, GivenUp, DtdActive, Expanding, Running, streams, tree, texts, asking, values_, dtds, driver, outcome, Stop, Refuse, Report, GoOn
<1>20. ASSUME NEW n \in Names, RequestExternal(n)
        PROVE  AsksInOrder
    BY <1>1, <1>20 DEF AsksInOrder, RequestExternal, ScanReference, AtToken, Scanning, GivenUp, DtdActive, Expanding, Running, streams, tree, texts, asking, values_, dtds, driver, outcome, Stop, Refuse, Report, GoOn
<1>21. CASE BeginEntity
    BY <1>1, <1>21 DEF AsksInOrder, BeginEntity, Count, OneAtATime, GivenUp, DtdActive, Expanding, Running, streams, tree, texts, asking, values_, dtds, driver, outcome, Stop, Refuse, Report, GoOn
<1>22. CASE ProvideEntity
    BY <1>1, <1>22 DEF AsksInOrder, ProvideEntity, OneAtATime, GivenUp, DtdActive, Expanding, Running, streams, tree, texts, asking, values_, dtds, driver, outcome, Stop, Refuse, Report, GoOn
<1>23. CASE DeclineEntity
    BY <1>1, <1>23 DEF AsksInOrder, DeclineEntity, OneAtATime, GivenUp, DtdActive, Expanding, Running, streams, tree, texts, asking, values_, dtds, driver, outcome, Stop, Refuse, Report, GoOn
<1>24. CASE InputFails
    BY <1>1, <1>24 DEF AsksInOrder, InputFails, GivenUp, DtdActive, Expanding, Running, streams, tree, texts, asking, values_, dtds, driver, outcome, Stop, Refuse, Report, GoOn
<1>25. CASE Fill
    BY <1>1, <1>25 DEF AsksInOrder, Fill, GivenUp, DtdActive, Expanding, Running, streams, tree, texts, asking, values_, dtds, driver, outcome, Stop, Refuse, Report, GoOn
<1> QED BY <1>2, <1>3, <1>4, <1>5, <1>6, <1>7, <1>8, <1>9, <1>10, <1>11, <1>12, <1>13, <1>14, <1>15, <1>16, <1>17, <1>18, <1>19, <1>20, <1>21, <1>22, <1>23, <1>24, <1>25 DEF Next, Parse, Drive, ExpandValue

LEMMA FeedsStep ==
    ASSUME IInv, [Next]_vars
    PROVE  FeedsWhatIsRead'
<1>1. SUFFICES ASSUME ~GivenUp'
               PROVE  /\ LiveReaders' = IF finished' THEN Tail(sources') ELSE sources'
                      /\ progress' = "input" => ~Last(stack').ended
                      /\ request' # Nothing => progress' = "entity"
                      /\ declPending' =>
                            /\ Last(stack').ent # Doc /\ input'.sort[Last(stack').ent] = "external" /\ Last(stack').read = 0
                            /\ request' = Nothing /\ held' = Nothing /\ starting' = Nothing
    BY DEF FeedsWhatIsRead, Top
<1>2. ~GivenUp
    <2>1. CASE UNCHANGED vars
        BY <1>1, <2>1 DEF GivenUp, vars, outcome
    <2> QED BY <2>1, Going DEF GivenUp
<1>3. /\ progress = "input" => ~Top.ended
      /\ declPending => Top.ent # Doc /\ input.sort[Top.ent] = "external" /\ Top.read = 0
    BY <1>2 DEF IInv, FeedsWhatIsRead
<1>4. LiveReaders' = IF finished' THEN Tail(sources') ELSE sources'
    BY <1>2, LiveStep
<1>5. progress' = "input" => ~Last(stack').ended
    BY <1>2, <1>3, AskingStep DEF AsksInOrder, Top
<1>6. request' # Nothing => progress' = "entity"
    BY <1>1, <1>2, AskingStep DEF AsksInOrder
<1>7. ASSUME declPending'
      PROVE  Last(stack').ent # Doc /\ input'.sort[Last(stack').ent] = "external" /\ Last(stack').read = 0
    <2>1. input' = input /\ (Settled \/ Fill \/ \E n \in Names : Streams(n))
        BY <1>7, StackStep DEF ReadsOne, PassesDeclaration, Leaves, Pushes
    <2>2. CASE Settled
        BY <1>3, <1>7, <2>1, <2>2 DEF Settled, Top
    <2>3. CASE Fill
        <3>1. PICK n \in Nat : Filled(Top, n) \in Frames /\ stack' = Append(Front(stack), Filled(Top, n))
            BY <2>3, FillFacts
        <3>2. Top \in Frames /\ Front(stack) \in Seq(Frames) /\ declPending
            BY <1>7, <2>3, TopFacts, FillFacts DEF IInv
        <3>3. Last(stack') = Filled(Top, n)
            BY <3>1, <3>2, FrontOfAppend
        <3> QED BY <1>3, <2>1, <3>2, <3>3, FilledFields
    <2>4. ASSUME NEW n \in Names, Streams(n)
          PROVE  Last(stack').ent # Doc /\ input'.sort[Last(stack').ent] = "external" /\ Last(stack').read = 0
        <3>1. n \in Entities /\ expansions' \in Nat /\ n # Doc
            BY <2>4, InputFacts DEF Streams, Count, IInv, TypeOK
        <3>2. PICK f \in Frames : f = Streamed(n, expansions')
            BY <3>1 DEF Streamed, Frames
        <3>3. f.ent = n /\ f.read = 0
            BY <3>2 DEF Streamed
        <3>4. Last(stack') = f
            BY <2>4, <3>2, FrontOfAppend DEF Streams, IInv, TypeOK
        <3> QED BY <2>1, <2>4, <3>1, <3>3, <3>4 DEF Streams
    <2> QED BY <2>1, <2>2, <2>3, <2>4
<1>8. declPending' => request' = Nothing /\ held' = Nothing /\ starting' = Nothing
    BY <1>2, AskingStep DEF AsksInOrder
<1> QED BY <1>4, <1>5, <1>6, <1>7, <1>8
-----------------------------------------------------------------------------
(* What is expanded at any time was counted. *)
GotOf(f) == IF f.ent = Doc THEN 0 ELSE f.got
CountedOf(s) == Total([i \in DOMAIN s |-> GotOf(s[i])])
TextOf(v) == IF v.name = Nothing THEN 0 ELSE Units(v.rest)
ReplacedOf(s) == Total([i \in DOMAIN s |-> TextOf(s[i])])

LEMMA ExpandedIsCounted == ExpandedUnits = CountedOf(stack) + ReplacedOf(values)
BY Zenon DEF ExpandedUnits, CountedOf, GotOf, ReplacedOf, TextOf

LEMMA CountedGrows ==
    ASSUME NEW s \in Seq(Frames), NEW f \in Frames
    PROVE  CountedOf(s) \in Nat /\ GotOf(f) \in Nat /\ CountedOf(Append(s, f)) = CountedOf(s) + GotOf(f)
<1>0. \A g \in Frames : GotOf(g) \in Nat
    BY DEF Frames, GotOf
<1>1. PICK t : t = Append(s, f)
    OBVIOUS
<1>2. PICK n \in Nat : n = Len(s) /\ DOMAIN s = 1..n /\ DOMAIN t = 1..(n + 1) /\ t[n + 1] = f /\ \A i \in 1..n : t[i] = s[i]
    BY <1>1
<1>3. PICK parts \in Seq(Nat) :
         parts = [i \in DOMAIN s |-> GotOf(s[i])] /\ Len(parts) = n /\ \A i \in 1..n : parts[i] = GotOf(s[i])
    <2>1. \A i \in 1..n : GotOf(s[i]) \in Nat
        BY <1>0, <1>2
    <2>2. PICK parts : parts = [i \in DOMAIN s |-> GotOf(s[i])]
        OBVIOUS
    <2>3. parts = [i \in DOMAIN parts |-> parts[i]] /\ DOMAIN parts = 1..n /\ \A i \in 1..n : parts[i] = GotOf(s[i])
        BY <1>2, <2>2
    <2>4. parts \in Seq(Nat) /\ Len(parts) = n
        BY <2>1, <2>3, ASequence
    <2> QED BY <2>2, <2>3, <2>4
<1>4. PICK more : more = [i \in DOMAIN t |-> GotOf(t[i])]
    OBVIOUS
<1>5. more = Append(parts, GotOf(f))
    <2>1. more = [i \in DOMAIN more |-> more[i]] /\ DOMAIN more = 1..(Len(parts) + 1) /\ more[Len(parts) + 1] = GotOf(f)
        BY <1>2, <1>3, <1>4
    <2>2. \A i \in 1..Len(parts) : more[i] = parts[i]
        BY <1>2, <1>3, <1>4
    <2> QED BY <1>0, <2>1, <2>2, GrownByOne
<1>6. Total(parts) \in Nat /\ Total(Append(parts, GotOf(f))) = Total(parts) + GotOf(f)
    BY <1>0, SumGrows, Zenon DEF Total
<1>7. CountedOf(s) = Total(parts) /\ CountedOf(t) = Total(more)
    BY <1>3, <1>4, Zenon DEF CountedOf
<1> QED BY <1>0, <1>1, <1>5, <1>6, <1>7, Zenon

LEMMA ReplacedGrows ==
    ASSUME NEW s \in Seq(OpenValues), NEW v \in OpenValues
    PROVE  ReplacedOf(s) \in Nat /\ TextOf(v) \in Nat /\ ReplacedOf(Append(s, v)) = ReplacedOf(s) + TextOf(v)
<1>0. \A w \in OpenValues : TextOf(w) \in Nat
    <2>1. \A w \in OpenValues : w.rest \in Seq(Tokens)
        BY DEF OpenValues
    <2>2. \A w \in OpenValues : Units(w.rest) \in Nat
        BY <2>1 DEF Units
    <2> QED BY <2>2 DEF TextOf
<1>1. PICK t : t = Append(s, v)
    OBVIOUS
<1>2. PICK n \in Nat : n = Len(s) /\ DOMAIN s = 1..n /\ DOMAIN t = 1..(n + 1) /\ t[n + 1] = v /\ \A i \in 1..n : t[i] = s[i]
    BY <1>1
<1>3. PICK parts \in Seq(Nat) :
         parts = [i \in DOMAIN s |-> TextOf(s[i])] /\ Len(parts) = n /\ \A i \in 1..n : parts[i] = TextOf(s[i])
    <2>1. \A i \in 1..n : TextOf(s[i]) \in Nat
        BY <1>0, <1>2
    <2>2. PICK parts : parts = [i \in DOMAIN s |-> TextOf(s[i])]
        OBVIOUS
    <2>3. parts = [i \in DOMAIN parts |-> parts[i]] /\ DOMAIN parts = 1..n /\ \A i \in 1..n : parts[i] = TextOf(s[i])
        BY <1>2, <2>2
    <2>4. parts \in Seq(Nat) /\ Len(parts) = n
        BY <2>1, <2>3, ASequence
    <2> QED BY <2>2, <2>3, <2>4
<1>4. PICK more : more = [i \in DOMAIN t |-> TextOf(t[i])]
    OBVIOUS
<1>5. more = Append(parts, TextOf(v))
    <2>1. more = [i \in DOMAIN more |-> more[i]] /\ DOMAIN more = 1..(Len(parts) + 1) /\ more[Len(parts) + 1] = TextOf(v)
        BY <1>2, <1>3, <1>4
    <2>2. \A i \in 1..Len(parts) : more[i] = parts[i]
        BY <1>2, <1>3, <1>4
    <2> QED BY <1>0, <2>1, <2>2, GrownByOne
<1>6. Total(parts) \in Nat /\ Total(Append(parts, TextOf(v))) = Total(parts) + TextOf(v)
    BY <1>0, SumGrows, Zenon DEF Total
<1>7. ReplacedOf(s) = Total(parts) /\ ReplacedOf(t) = Total(more)
    BY <1>3, <1>4, Zenon DEF ReplacedOf
<1> QED BY <1>0, <1>1, <1>5, <1>6, <1>7, Zenon

LEMMA ReplacedOfNone == ReplacedOf(<<>>) = 0
<1>1. [i \in DOMAIN <<>> |-> TextOf(<<>>[i])] = <<>>
    OBVIOUS
<1>2. Total(<<>>) = 0
    BY SumOfNone, Zenon DEF Total
<1> QED BY <1>1, <1>2, Zenon DEF ReplacedOf

LEMMA CountedStep ==
    ASSUME IInv, [Next]_vars
    PROVE  /\ CountedOf(stack) \in Nat /\ Len(stack) \in Nat
           /\ Settled \/ ReadsOne \/ PassesDeclaration \/ Leaves =>
                 CountedOf(stack') \in Nat /\ CountedOf(stack') <= CountedOf(stack)
                 /\ Len(stack') \in Nat /\ Len(stack') <= Len(stack)
           /\ Fill => \E n \in Nat :
                 /\ CountedOf(stack') <= CountedOf(stack) + n
                 /\ chars' = chars + n /\ CountedOf(stack') \in Nat /\ Len(stack') = Len(stack)
           /\ \A n \in Names : Pushes(n) =>
                 CountedOf(stack') = CountedOf(stack) + Units(Body(n)) /\ Len(stack') = Len(stack) + 1
           /\ \A n \in Names : Streams(n) =>
                 CountedOf(stack') = CountedOf(stack) /\ Len(stack') = Len(stack) + 1
<1>1. /\ Top \in Frames /\ Front(stack) \in Seq(Frames) /\ stack = Append(Front(stack), Top) /\ stack \in Seq(Frames)
      /\ Len(stack) \in Nat /\ Len(stack) = Len(Front(stack)) + 1 /\ chars \in Nat
    <2>1. stack \in Seq(Frames) /\ stack # <<>> /\ chars \in Nat
        BY DEF IInv, TypeOK, FramesFit
    <2> QED BY <2>1, TopFacts, LastSplit DEF IInv
<1>2. CountedOf(Front(stack)) \in Nat /\ GotOf(Top) \in Nat /\ CountedOf(stack) = CountedOf(Front(stack)) + GotOf(Top)
    BY <1>1, CountedGrows
<1>3. ReadOn(Top) \in Frames /\ Consumed = Append(Front(stack), ReadOn(Top)) /\ Consumed \in Seq(Frames) /\ Len(Consumed) = Len(stack)
    BY ConsumedFacts DEF IInv
<1>4. CountedOf(Consumed) = CountedOf(stack)
    <2>1. GotOf(ReadOn(Top)) = GotOf(Top)
        BY <1>1 DEF GotOf, ReadOn, Frames
    <2> QED BY <1>1, <1>2, <1>3, <2>1, CountedGrows
<1>5. ASSUME Settled \/ ReadsOne \/ PassesDeclaration \/ Leaves
      PROVE  /\ CountedOf(stack') \in Nat /\ CountedOf(stack') <= CountedOf(stack)
             /\ Len(stack') \in Nat /\ Len(stack') <= Len(stack)
    <2>1. stack' \in {stack, Consumed, Front(stack)}
        BY <1>5 DEF Settled, ReadsOne, PassesDeclaration, Leaves
    <2>2. CountedOf(stack) \in Nat /\ CountedOf(Front(stack)) <= CountedOf(stack) /\ Len(Front(stack)) \in Nat
        BY <1>1, <1>2
    <2>3. CASE stack' = stack \/ stack' = Consumed
        <3>1. CountedOf(stack') = CountedOf(stack) /\ Len(stack') = Len(stack)
            BY <1>3, <1>4, <2>3
        <3> QED BY <1>1, <2>2, <3>1
    <2>4. CASE stack' = Front(stack)
        BY <1>1, <1>2, <2>2, <2>4
    <2> QED BY <2>1, <2>3, <2>4
<1>8. ASSUME Fill
      PROVE  \E n \in Nat :
                 /\ CountedOf(stack') <= CountedOf(stack) + n
                 /\ chars' = chars + n /\ CountedOf(stack') \in Nat /\ Len(stack') = Len(stack)
    <2>1. PICK n \in Nat :
            /\ Filled(Top, n) \in Frames /\ stack' = Append(Front(stack), Filled(Top, n))
            /\ chars' = IF Top.ent = Doc THEN chars ELSE chars + n
        BY <1>8, FillFacts
    <2>2. PICK k \in Nat : k = IF Top.ent = Doc THEN 0 ELSE n
        OBVIOUS
    <2>3. GotOf(Filled(Top, n)) = GotOf(Top) + k
        <3>1. Filled(Top, n).ent = Top.ent /\ Filled(Top, n).got = Top.got + n /\ Top.got \in Nat
            BY <1>1, FilledFields DEF Frames
        <3> QED BY <2>2, <3>1 DEF GotOf
    <2>4. CountedOf(stack') = CountedOf(Front(stack)) + GotOf(Filled(Top, n)) /\ Len(stack') = Len(Front(stack)) + 1
        BY <1>1, <2>1, CountedGrows
    <2>5. chars' = chars + k
        BY <1>1, <2>1, <2>2
    <2> QED BY <1>1, <1>2, <2>3, <2>4, <2>5
<1>9. ASSUME NEW n \in Names, Pushes(n)
      PROVE  CountedOf(stack') = CountedOf(stack) + Units(Body(n)) /\ Len(stack') = Len(stack) + 1
    <2>1. Body(n) \in Seq(Tokens) /\ n \in Entities /\ n # Doc /\ expansions' \in Nat
        BY <1>9, InputFacts DEF Pushes, Count, IInv, TypeOK
    <2>2. Units(Body(n)) \in Nat
        BY <2>1 DEF Units
    <2>3. PICK f \in Frames : f = Whole(n, expansions')
        BY <2>1, <2>2 DEF Whole, Frames
    <2>4. GotOf(f) = Units(Body(n))
        BY <2>1, <2>3 DEF Whole, GotOf
    <2>5. stack' = Append(Consumed, f)
        BY <1>9, <2>3 DEF Pushes
    <2>6. CountedOf(stack') = CountedOf(Consumed) + GotOf(f)
        BY <1>3, <2>5, CountedGrows
    <2>7. Len(stack') = Len(Consumed) + 1
        BY <1>3, <2>5
    <2> QED BY <1>3, <1>4, <2>4, <2>6, <2>7
<1>10. ASSUME NEW n \in Names, Streams(n)
       PROVE  CountedOf(stack') = CountedOf(stack) /\ Len(stack') = Len(stack) + 1
    <2>1. n \in Entities /\ expansions' \in Nat
        BY <1>10, InputFacts DEF Streams, Count, IInv, TypeOK
    <2>2. PICK f \in Frames : f = Streamed(n, expansions')
        BY <2>1 DEF Streamed, Frames
    <2>3. GotOf(f) = 0
        BY <2>2 DEF Streamed, GotOf
    <2>4. stack' = Append(stack, f)
        BY <1>10, <2>2 DEF Streams
    <2> QED BY <1>1, <1>2, <2>3, <2>4, CountedGrows
<1> QED BY <1>1, <1>2, <1>5, <1>8, <1>9, <1>10

(* What a step does to the replacement texts of an attribute value. *)
ReadsValue ==
    /\ Settled /\ UNCHANGED <<expansions, chars>>
    /\ \/ values = <<>> /\ \E text \in Seq(Tokens) : values' = <<[name |-> Nothing, rest |-> text]>>
       \/ starting # Nothing /\ Rest # <<>> /\ values' = RestRead
       \/ starting # Nothing /\ values' = Front(values)
       \/ values' = <<>>

Replaces(n) ==
    /\ Settled
    /\ starting # Nothing /\ Rest # <<>>
    /\ Below(Len(values) - 1, input.limits.depth)
    /\ CanCount(Units(Body(n))) /\ Count(Units(Body(n)))
    /\ values' = Append(RestRead, [name |-> n, rest |-> Body(n)])

StartsValue ==
    /\ ReadsOne /\ UNCHANGED <<expansions, chars>>
    /\ values = <<>> /\ \E text \in Seq(Tokens) : values' = <<[name |-> Nothing, rest |-> text]>>

LEMMA InterpretValue ==
    ASSUME TypeOK, starting = Nothing <=> values = <<>>, starting = Nothing, NEW t \in Tokens, Interpret(t)
    PROVE  \/ UNCHANGED values
           \/ values = <<>> /\ \E text \in Seq(Tokens) : values' = <<[name |-> Nothing, rest |-> text]>>
<1>1. CASE MiscToken(t) \/ DoctypeToken(t) \/ EndToken(t) \/ RefuseToken(t)
    BY <1>1 DEF MiscToken, DoctypeToken, EndToken, RefuseToken, values_
<1>2. CASE StartToken(t)
    <2>1. t.value \in Seq(Tokens)
        BY <1>2, TokenFacts, StartFacts DEF StartToken
    <2> QED BY <1>2, <2>1 DEF StartToken, values_
<1> QED BY <1>1, <1>2 DEF Interpret

LEMMA ValueStep ==
    ASSUME IInv, [Next]_vars, progress' # "limit"
    PROVE  \/ (Settled \/ ReadsOne \/ PassesDeclaration \/ Leaves) /\ UNCHANGED <<values, expansions, chars>>
           \/ ReadsValue \/ StartsValue \/ Fill
           \/ \E n \in Names : Replaces(n) \/ Pushes(n) \/ Streams(n)
<1>1. /\ Settled \/ ReadsOne \/ PassesDeclaration \/ Leaves \/ Fill
         \/ \E n \in Names : Pushes(n) \/ Streams(n)
    BY StackStep
<1>2. TypeOK /\ (starting # Nothing <=> values # <<>>)
    BY DEF IInv
<1>3. CASE UNCHANGED vars
    BY <1>3 DEF vars, streams, values_, driver, asking, Settled
<1>4. CASE Advance \/ EmptyEnd \/ DriveDtd \/ NeedMoreInput \/ Finish \/ ProvideEntity \/ DeclineEntity \/ InputFails \/ RefuseValue
    BY <1>4 DEF Advance, EmptyEnd, DriveDtd, NeedMoreInput, Finish, ProvideEntity, DeclineEntity, InputFails, RefuseValue,
        streams, values_, driver, asking, Settled
<1>5. CASE TextDeclaration \/ LeaveEntity \/ ScanText
    BY <1>1, <1>5 DEF TextDeclaration, LeaveEntity, ScanText, values_, Fill, Pushes, Streams, Stop, GoOn, outcome, Count, CanPush, TypeOK, IInv
<1>6. CASE InterpretHeld
    <2>1. held \in Tokens /\ starting = Nothing /\ Interpret(held)
        BY <1>2, <1>6 DEF InterpretHeld, Running, TypeOK
    <2>2. Settled /\ UNCHANGED <<expansions, chars>>
        BY <1>6 DEF InterpretHeld, streams, driver, asking, Settled
    <2>3. \/ UNCHANGED values
          \/ values = <<>> /\ \E text \in Seq(Tokens) : values' = <<[name |-> Nothing, rest |-> text]>>
        BY <1>2, <2>1, InterpretValue
    <2> QED BY <2>2, <2>3, Zenon DEF ReadsValue
<1>7. CASE ScanMarkup
    <2>1. NextToken(Top) \in Tokens /\ starting = Nothing
        BY <1>7, TopFacts DEF ScanMarkup, AtToken, Scanning, Running, IInv
    <2>2. ReadsOne /\ UNCHANGED <<expansions, chars>>
        BY <1>7 DEF ScanMarkup, AtToken, Scanning, driver, asking, ReadsOne, TypeOK, IInv
    <2>3. CASE Interpret(NextToken(Top))
        <3>1. \/ UNCHANGED values
              \/ values = <<>> /\ \E text \in Seq(Tokens) : values' = <<[name |-> Nothing, rest |-> text]>>
            BY <1>2, <2>1, <2>3, InterpretValue
        <3> QED BY <2>2, <3>1, Zenon DEF StartsValue
    <2>4. CASE UNCHANGED values_
        BY <2>2, <2>4 DEF values_
    <2> QED BY <1>7, <2>3, <2>4 DEF ScanMarkup
<1>8. CASE ExpandData \/ EndReplacement \/ OpenElement
    <2>1. Settled /\ UNCHANGED <<expansions, chars>>
        BY <1>8 DEF ExpandData, EndReplacement, OpenElement, streams, driver, asking, Settled
    <2>2. \/ starting # Nothing /\ Rest # <<>> /\ values' = RestRead
          \/ starting # Nothing /\ values' = Front(values)
          \/ values' = <<>>
        BY <1>8, Zenon DEF ExpandData, EndReplacement, OpenElement, Expanding
    <2> QED BY <2>1, <2>2, Zenon DEF ReadsValue
<1>9. ASSUME NEW n \in Names, ExpandReference(n)
      PROVE  Replaces(n)
    <2>1. UNCHANGED <<stack, driver, declPending>>
        BY <1>9, Zenon DEF ExpandReference, asking
    <2>2. starting # Nothing /\ Rest # <<>>
        BY <1>9, Zenon DEF ExpandReference, AtReference, Expanding
    <2> QED BY <1>9, <2>1, <2>2, Zenon DEF ExpandReference, Replaces, Settled, Stop
<1>10. ASSUME NEW n \in Names, RefuseReference(n)
       PROVE  Settled /\ UNCHANGED <<values, expansions, chars>>
    BY <1>10 DEF RefuseReference, ScanReference, streams, values_, driver, asking, Settled
<1>11. ASSUME NEW n \in Names, IncludeInternal(n)
       PROVE  Pushes(n)
    BY <1>11 DEF IncludeInternal, ScanReference, AtToken, Scanning, values_, driver, Pushes, Stop
<1>12. ASSUME NEW n \in Names, RequestExternal(n)
       PROVE  ReadsOne /\ UNCHANGED <<values, expansions, chars>>
    BY <1>12 DEF RequestExternal, ScanReference, AtToken, Scanning, values_, driver, ReadsOne, TypeOK, IInv
<1>13. CASE BeginEntity
    <2>1. CASE \E n \in Names : Streams(n)
        BY <2>1
    <2>2. CASE UNCHANGED <<streams, declPending, sources>>
        BY <1>13, <2>2 DEF BeginEntity, streams, values_, driver, Settled
    <2> QED BY <1>13, <2>1, <2>2, BeginStep
<1> QED BY <1>3, <1>4, <1>5, <1>6, <1>7, <1>8, <1>9, <1>10, <1>11, <1>12, <1>13 DEF Next, Parse, Drive, ExpandValue

LEMMA ReplacedStep ==
    ASSUME IInv
    PROVE  /\ ReplacedOf(values) \in Nat /\ Len(values) \in Nat
           /\ ReadsValue \/ StartsValue =>
                 /\ ReplacedOf(values') \in Nat /\ ReplacedOf(values') <= ReplacedOf(values)
                 /\ Len(values') \in Nat /\ (Len(values') <= Len(values) \/ Len(values') = 1)
           /\ \A n \in Names : Replaces(n) =>
                 /\ ReplacedOf(values') \in Nat /\ ReplacedOf(values') <= ReplacedOf(values) + Units(Body(n))
                 /\ Len(values') = Len(values) + 1
<1>1. values \in Seq(OpenValues) /\ Len(values) \in Nat
    BY DEF IInv, TypeOK
<1>2. ReplacedOf(values) \in Nat
    <2>1. PICK v \in OpenValues : v = [name |-> Nothing, rest |-> <<>>]
        BY EmptySeq DEF OpenValues
    <2> QED BY <1>1, ReplacedGrows
<1>3. ASSUME starting # Nothing
      PROVE  /\ values = Append(Front(values), Last(values)) /\ Front(values) \in Seq(OpenValues) /\ Last(values) \in OpenValues
             /\ ReplacedOf(Front(values)) \in Nat /\ TextOf(Last(values)) \in Nat
             /\ ReplacedOf(values) = ReplacedOf(Front(values)) + TextOf(Last(values))
             /\ Len(Front(values)) \in Nat /\ Len(Front(values)) <= Len(values)
    <2>1. values = Append(Front(values), Last(values)) /\ Front(values) \in Seq(OpenValues) /\ Last(values) \in OpenValues /\ values # <<>>
        BY <1>3, ValueFacts
    <2>2. Len(Front(values)) \in Nat /\ Len(Front(values)) <= Len(values)
        BY <1>1, <2>1, LastSplit
    <2> QED BY <2>1, <2>2, ReplacedGrows
<1>4. ASSUME starting # Nothing, Rest # <<>>
      PROVE  RestRead \in Seq(OpenValues) /\ Len(RestRead) = Len(values) /\ ReplacedOf(RestRead) \in Nat
             /\ ReplacedOf(RestRead) <= ReplacedOf(values)
    <2>1. /\ RestRead = Append(Front(values), ReadValue(Last(values))) /\ ReadValue(Last(values)) \in OpenValues
          /\ RestRead \in Seq(OpenValues) /\ Len(RestRead) = Len(values)
          /\ Rest \in Seq(Tokens) /\ Tail(Rest) \in Seq(Tokens) /\ Len(Rest) = Len(Tail(Rest)) + 1
        BY <1>4, ValueFacts
    <2>2. ReadValue(Last(values)).name = Last(values).name /\ ReadValue(Last(values)).rest = Tail(Rest) /\ Last(values).rest = Rest
        BY <1>3, <1>4 DEF ReadValue, Rest, OpenValues
    <2>3. Units(Tail(Rest)) <= Units(Rest)
        BY <2>1 DEF Units
    <2>4. TextOf(ReadValue(Last(values))) <= TextOf(Last(values))
        BY <2>2, <2>3 DEF TextOf
    <2>5. /\ ReplacedOf(RestRead) = ReplacedOf(Front(values)) + TextOf(ReadValue(Last(values)))
          /\ TextOf(ReadValue(Last(values))) \in Nat
        BY <1>3, <1>4, <2>1, ReplacedGrows
    <2> QED BY <1>3, <1>4, <2>1, <2>4, <2>5
<1>5. ASSUME ReadsValue \/ StartsValue
      PROVE  /\ ReplacedOf(values') \in Nat /\ ReplacedOf(values') <= ReplacedOf(values)
             /\ Len(values') \in Nat /\ (Len(values') <= Len(values) \/ Len(values') = 1)
    <2>1. CASE \E text \in Seq(Tokens) : values' = <<[name |-> Nothing, rest |-> text]>>
        <3>1. PICK text \in Seq(Tokens) : values' = <<[name |-> Nothing, rest |-> text]>>
            BY <2>1
        <3>2. PICK v \in OpenValues : v = [name |-> Nothing, rest |-> text]
            BY DEF OpenValues
        <3>3. TextOf(v) = 0
            BY <3>2 DEF TextOf
        <3>4. PICK none \in Seq(OpenValues) : none = <<>>
            BY EmptySeq
        <3>5. values' = Append(none, v)
            BY <3>1, <3>2, <3>4
        <3>6. ReplacedOf(values') = ReplacedOf(none) + TextOf(v)
            BY <3>5, ReplacedGrows
        <3>7. ReplacedOf(values') = 0 /\ Len(values') = 1
            BY <3>3, <3>4, <3>5, <3>6, ReplacedOfNone
        <3> QED BY <1>2, <3>7
    <2>2. CASE starting # Nothing /\ Rest # <<>> /\ values' = RestRead
        BY <1>1, <1>4, <2>2
    <2>3. CASE starting # Nothing /\ values' = Front(values)
        BY <1>2, <1>3, <2>3
    <2>4. CASE values' = <<>>
        BY <1>1, <1>2, <2>4, ReplacedOfNone
    <2> QED BY <1>5, <2>1, <2>2, <2>3, <2>4 DEF ReadsValue, StartsValue
<1>6. ASSUME NEW n \in Names, Replaces(n)
      PROVE  /\ ReplacedOf(values') \in Nat /\ ReplacedOf(values') <= ReplacedOf(values) + Units(Body(n))
             /\ Len(values') = Len(values) + 1
    <2>1. Body(n) \in Seq(Tokens) /\ n # Nothing
        BY InputFacts DEF IInv, TypeOK
    <2>2. PICK v \in OpenValues : v = [name |-> n, rest |-> Body(n)]
        BY <2>1 DEF OpenValues
    <2>3. TextOf(v) = Units(Body(n)) /\ Units(Body(n)) \in Nat
        BY <2>1, <2>2 DEF TextOf, Units
    <2>4. /\ RestRead \in Seq(OpenValues) /\ Len(RestRead) = Len(values) /\ ReplacedOf(RestRead) \in Nat
          /\ ReplacedOf(RestRead) <= ReplacedOf(values)
        BY <1>4, <1>6 DEF Replaces
    <2>5. values' = Append(RestRead, v)
        BY <1>6, <2>2 DEF Replaces
    <2>6. ReplacedOf(values') = ReplacedOf(RestRead) + TextOf(v)
        BY <2>4, <2>5, ReplacedGrows
    <2>7. Len(values') = Len(RestRead) + 1
        BY <2>4, <2>5
    <2> QED BY <1>2, <2>3, <2>4, <2>6, <2>7
<1> QED BY <1>1, <1>2, <1>5, <1>6

LEMMA OpenStep ==
    ASSUME IInv, [Next]_vars
    PROVE  /\ Len(open) \in Nat
           /\ \/ Len(open') \in Nat /\ Len(open') <= Len(open)
              \/ Len(open') = Len(open) + 1 /\ Below(Len(open), input.limits.elementDepth)
<1>1. open \in Seq(OpenElements) /\ Len(open) \in Nat
    BY DEF IInv, TypeOK
<1>2. UNCHANGED open \/ (open # <<>> /\ open' = Front(open)) \/ OpenElement
    <2>1. CASE UNCHANGED vars
        BY <2>1 DEF vars, tree
    <2>2. CASE Advance \/ DriveDtd \/ TextDeclaration \/ ScanText \/ NeedMoreInput \/ LeaveEntity \/ Finish
        BY <2>2 DEF Advance, DriveDtd, TextDeclaration, ScanText, NeedMoreInput, LeaveEntity, Finish, tree
    <2>3. CASE EmptyEnd
        BY <2>3 DEF EmptyEnd, CloseElement, IInv, OneAtATime, GivenUp, Running
    <2>4. ASSUME NEW t, Interpret(t)
          PROVE  UNCHANGED open \/ (open # <<>> /\ open' = Front(open))
        BY <2>4 DEF Interpret, MiscToken, DoctypeToken, StartToken, EndToken, RefuseToken, CloseElement, Matches, tree
    <2>5. CASE InterpretHeld \/ ScanMarkup
        BY <2>4, <2>5 DEF InterpretHeld, ScanMarkup, tree
    <2>6. CASE ExpandValue
        BY <2>6 DEF ExpandValue, ExpandData, RefuseValue, EndReplacement, ExpandReference, tree
    <2>7. ASSUME NEW n \in Names, RefuseReference(n) \/ IncludeInternal(n) \/ RequestExternal(n)
          PROVE  UNCHANGED open
        BY <2>7 DEF RefuseReference, IncludeInternal, RequestExternal, ScanReference, tree
    <2>8. CASE Drive
        BY <2>8 DEF Drive, BeginEntity, ProvideEntity, DeclineEntity, InputFails, Fill, tree
    <2> QED BY <2>1, <2>2, <2>3, <2>5, <2>6, <2>7, <2>8 DEF Next, Parse
<1>3. CASE UNCHANGED open
    BY <1>1, <1>3
<1>4. CASE open # <<>> /\ open' = Front(open)
    BY <1>1, <1>4, LastSplit
<1>5. CASE OpenElement
    <2>1. Below(Len(open), input.limits.elementDepth)
        BY <1>5 DEF OpenElement, Expanding, IInv, OneAtATime, GivenUp
    <2>2. \E x : open' = Append(open, x)
        BY <1>5 DEF OpenElement
    <2>3. Len(open') = Len(open) + 1
        BY <1>1, <2>2
    <2> QED BY <1>1, <2>1, <2>3
<1> QED BY <1>2, <1>3, <1>4, <1>5

LEMMA LimitsStep ==
    ASSUME IInv, [Next]_vars
    PROVE  WithinLimits'
<1> DEFINE lim == input.limits
<1>1. SUFFICES ASSUME progress' # "limit"
               PROVE  /\ Len(stack') > 1 => AtMost(Len(stack'), lim.depth)
                      /\ AtMost(Len(values') - 1, lim.depth)
                      /\ AtMost(expansions', lim.expansions) /\ AtMost(chars', lim.chars)
                      /\ CountedOf(stack') + ReplacedOf(values') <= chars'
                      /\ AtMost(Len(open'), lim.elementDepth)
    <2>1. input' = input
        BY StackStep
    <2>2. ExpandedUnits' = CountedOf(stack') + ReplacedOf(values')
        BY Zenon DEF ExpandedUnits, CountedOf, GotOf, ReplacedOf, TextOf
    <2> QED BY <2>1, <2>2 DEF WithinLimits
<1>2. progress # "limit"
    <2>1. CASE UNCHANGED vars
        BY <1>1, <2>1 DEF vars, outcome
    <2> QED BY <2>1, Going
<1>3. /\ Len(stack) > 1 => AtMost(Len(stack), lim.depth)
      /\ AtMost(Len(values) - 1, lim.depth)
      /\ AtMost(expansions, lim.expansions) /\ AtMost(chars, lim.chars)
      /\ CountedOf(stack) + ReplacedOf(values) <= chars
      /\ AtMost(Len(open), lim.elementDepth)
    BY <1>2, ExpandedIsCounted DEF IInv, WithinLimits
<1>4. /\ expansions \in Nat /\ chars \in Nat
      /\ lim.depth \in Nat \union {NoLimit} /\ lim.expansions \in Nat \union {NoLimit}
      /\ lim.chars \in Nat \union {NoLimit} /\ lim.elementDepth \in Nat \union {NoLimit}
      /\ \A n \in Names : Units(Body(n)) \in Nat
    <2>1. \A n \in Names : Body(n) \in Seq(Tokens)
        BY InputFacts DEF IInv, TypeOK
    <2>2. \A n \in Names : Units(Body(n)) \in Nat
        BY <2>1 DEF Units
    <2> QED BY <2>2, InputFacts DEF IInv, TypeOK, Limits
<1> HIDE DEF lim
<1>5. AtMost(Len(open'), lim.elementDepth)
    BY <1>3, <1>4, OpenStep DEF AtMost, Below, lim
<1>6. /\ CountedOf(stack) \in Nat /\ Len(stack) \in Nat
      /\ ReplacedOf(values) \in Nat /\ Len(values) \in Nat
    BY CountedStep, ReplacedStep
<1>7. CASE /\ Settled \/ ReadsOne \/ PassesDeclaration \/ Leaves
           /\ UNCHANGED <<expansions, chars>>
           /\ UNCHANGED values \/ ReadsValue \/ StartsValue
    <2>1. /\ CountedOf(stack') \in Nat /\ CountedOf(stack') <= CountedOf(stack)
          /\ Len(stack') \in Nat /\ Len(stack') <= Len(stack)
        BY <1>7, CountedStep
    <2>2. /\ ReplacedOf(values') \in Nat /\ ReplacedOf(values') <= ReplacedOf(values)
          /\ Len(values') \in Nat /\ (Len(values') <= Len(values) \/ Len(values') = 1)
        BY <1>6, <1>7, ReplacedStep
    <2>3. CountedOf(stack') + ReplacedOf(values') <= chars'
        BY <1>3, <1>4, <1>6, <1>7, <2>1, <2>2
    <2>4. Len(stack') > 1 => AtMost(Len(stack'), lim.depth)
        BY <1>3, <1>4, <1>6, <2>1 DEF AtMost
    <2>5. AtMost(Len(values') - 1, lim.depth)
        <3>1. SUFFICES ASSUME lim.depth # NoLimit PROVE Len(values') - 1 <= lim.depth
            BY DEF AtMost
        <3>2. lim.depth \in Nat /\ Len(values) - 1 <= lim.depth
            BY <1>3, <1>4, <3>1 DEF AtMost
        <3>3. CASE Len(values') = 1
            BY <3>2, <3>3
        <3>4. CASE Len(values') <= Len(values)
            BY <1>6, <2>2, <3>2, <3>4
        <3> QED BY <2>2, <3>3, <3>4
    <2> QED BY <1>3, <1>5, <1>7, <2>3, <2>4, <2>5
<1>8. CASE Fill
    <2>1. PICK n \in Nat :
            /\ CountedOf(stack') <= CountedOf(stack) + n
            /\ chars' = chars + n /\ CountedOf(stack') \in Nat /\ Len(stack') = Len(stack)
        BY <1>8, CountedStep
    <2>2. UNCHANGED <<values, expansions>> /\ AtMost(chars', lim.chars)
        BY <1>1, <1>8, FillFacts DEF Fill, values_, lim
    <2>3. CountedOf(stack') + ReplacedOf(values') <= chars'
        BY <1>3, <1>4, <1>6, <2>1, <2>2
    <2> QED BY <1>3, <1>5, <2>1, <2>2, <2>3
<1>9. ASSUME NEW n \in Names, Replaces(n)
      PROVE  /\ Len(stack') > 1 => AtMost(Len(stack'), lim.depth)
             /\ AtMost(Len(values') - 1, lim.depth)
             /\ AtMost(expansions', lim.expansions) /\ AtMost(chars', lim.chars)
             /\ CountedOf(stack') + ReplacedOf(values') <= chars'
    <2>1. /\ ReplacedOf(values') \in Nat /\ ReplacedOf(values') <= ReplacedOf(values) + Units(Body(n))
          /\ Len(values') = Len(values) + 1
        BY <1>9, ReplacedStep
    <2>2. stack' = stack /\ expansions' = expansions + 1 /\ chars' = chars + Units(Body(n))
          /\ Below(Len(values) - 1, lim.depth) /\ Below(expansions, lim.expansions) /\ AtMost(chars + Units(Body(n)), lim.chars)
        BY <1>9 DEF Replaces, Settled, Count, CanCount, lim
    <2>3. CountedOf(stack') + ReplacedOf(values') <= chars'
        BY <1>3, <1>4, <1>6, <2>1, <2>2
    <2> QED BY SMTT(20), ZenonT(30), <1>3, <1>4, <1>6, <2>1, <2>2, <2>3 DEF AtMost, Below
<1>10. ASSUME NEW n \in Names, Pushes(n) \/ Streams(n)
       PROVE  /\ Len(stack') > 1 => AtMost(Len(stack'), lim.depth)
              /\ AtMost(Len(values') - 1, lim.depth)
              /\ AtMost(expansions', lim.expansions) /\ AtMost(chars', lim.chars)
              /\ CountedOf(stack') + ReplacedOf(values') <= chars'
    <2>1. PICK more \in Nat :
            /\ CountedOf(stack') = CountedOf(stack) + more /\ Len(stack') = Len(stack) + 1
            /\ CanPush(n, more) /\ Count(more)
        <3>1. CASE Pushes(n)
            <4>1. CountedOf(stack') = CountedOf(stack) + Units(Body(n)) /\ Len(stack') = Len(stack) + 1
                BY <3>1, CountedStep
            <4> QED BY <1>4, <3>1, <4>1 DEF Pushes
        <3>2. CASE Streams(n)
            <4>1. CountedOf(stack') = CountedOf(stack) + 0 /\ Len(stack') = Len(stack) + 1
                BY <1>6, <3>2, CountedStep
            <4> QED BY <3>2, <4>1 DEF Streams
        <3> QED BY <1>10, <3>1, <3>2
    <2>2. UNCHANGED values
        BY <1>10 DEF Pushes, Streams
    <2>3. expansions' = expansions + 1 /\ chars' = chars + more /\ Below(Len(stack), lim.depth)
          /\ Below(expansions, lim.expansions) /\ AtMost(chars + more, lim.chars)
        BY <2>1 DEF CanPush, CanCount, Count, lim
    <2>4. CountedOf(stack') + ReplacedOf(values') <= chars'
        BY <1>3, <1>4, <1>6, <2>1, <2>2, <2>3
    <2> QED BY <1>3, <1>4, <1>6, <2>1, <2>2, <2>3, <2>4 DEF AtMost, Below
<1>11. \/ /\ Settled \/ ReadsOne \/ PassesDeclaration \/ Leaves
          /\ UNCHANGED <<expansions, chars>>
          /\ UNCHANGED values \/ ReadsValue \/ StartsValue
       \/ Fill
       \/ \E n \in Names : Replaces(n) \/ Pushes(n) \/ Streams(n)
    BY <1>1, ValueStep DEF ReadsValue, StartsValue
<1> QED BY <1>5, <1>7, <1>8, <1>9, <1>10, <1>11

-----------------------------------------------------------------------------
(* The theorems. *)
LEMMA InitHolds == Init => IInv
<1> SUFFICES ASSUME Init PROVE IInv
    OBVIOUS
<1>1. /\ Doc \in Entities /\ Doc # Nothing
      /\ \A in \in Inputs : in.body[Doc] \in Seq(Tokens) /\ in.limits \in [depth : Limits, expansions : Limits, chars : Limits, elementDepth : Limits]
    BY ReaderAssumption, InputsAssumption DEF Entities
<1>2. PICK f \in Frames : f = Streamed(Doc, 0)
    BY <1>1 DEF Streamed, Frames
<1>3. f.ent = Doc /\ f.read = 0 /\ f.got = 0 /\ f.ended = FALSE /\ f.nth = 0
    BY <1>2 DEF Streamed
<1>4. PICK r \in Sources : r = [ent |-> Doc, sent |-> 0] /\ r = Reader(f)
    <2>1. Reader(f) = [ent |-> Doc, sent |-> 0]
        BY <1>3, Zenon DEF Reader
    <2>2. Reader(f) \in Sources
        BY <1>1, <2>1 DEF Sources
    <2> QED BY <2>1, <2>2
<1>5. stack = <<f>> /\ sources = <<r>> /\ Top = f /\ Len(stack) = 1 /\ Body(Doc) \in Seq(Tokens)
    BY <1>1, <1>2, <1>4 DEF Init, Top, Last, Body
<1>6. TypeOK
    <2>1. /\ <<>> \in Seq(OpenElements) /\ <<>> \in Seq(Data) /\ <<>> \in Seq(OpenValues)
        BY EmptySeq
    <2>2. stack \in Seq(Frames) /\ sources \in Seq(Sources)
        BY <1>5
    <2>3. input \in Inputs /\ expansions = 0 /\ chars = 0 /\ pes = 0
        BY DEF Init
    <2>4. /\ open \in Seq(OpenElements) /\ pending \in Seq(Data) /\ values \in Seq(OpenValues)
        BY <2>1 DEF Init
    <2>5. /\ phase = "Prolog" /\ endPending = FALSE /\ held = Nothing
          /\ request = Nothing /\ declPending = FALSE /\ starting = Nothing
          /\ dtd = "none" /\ subsetRead = FALSE /\ finished = FALSE
          /\ event = Nothing /\ progress = "running"
        BY DEF Init
    <2> QED BY <2>2, <2>3, <2>4, <2>5 DEF TypeOK, Events, Outcomes
<1>7. FramesFit
    <2>1. Fits(f) /\ Past(f)
        <3>1. Doc \notin Names /\ Units(Body(Doc)) \in Nat
            BY <1>5, ReaderAssumption DEF Units
        <3> QED BY <1>3, <3>1 DEF Fits, Past, IsExternal
    <2> QED BY <1>3, <1>4, <1>5, <2>1 DEF FramesFit, Fits, Past
<1>8. OneAtATime /\ (starting # Nothing <=> values # <<>>)
    BY DEF Init, OneAtATime, DtdActive
<1>9. FeedsWhatIsRead
    <2>1. PICK none \in Seq(Frames) : none = <<>>
        BY EmptySeq
    <2>2. LiveOf(stack) = <<>> \o Live(f)
        <3>1. stack = Append(none, f)
            BY <1>5, <2>1
        <3> QED BY <2>1, <3>1, LiveGrows, LiveOfNone
    <2>3. Live(f) = <<r>>
        BY <1>3, <1>4 DEF Live
    <2>4. LiveReaders = sources
        BY <1>5, <2>2, <2>3, LiveIsLive
    <2> QED BY <2>4 DEF Init, FeedsWhatIsRead
<1>10. WithinLimits
    <2>1. PICK none \in Seq(Frames) : none = <<>>
        BY EmptySeq
    <2>2. CountedOf(none) = 0
        <3>1. [i \in DOMAIN <<>> |-> GotOf(<<>>[i])] = <<>>
            OBVIOUS
        <3>2. Total(<<>>) = 0
            BY SumOfNone, Zenon DEF Total
        <3> QED BY <2>1, <3>1, <3>2, Zenon DEF CountedOf
    <2>3. CountedOf(stack) = 0
        <3>1. stack = Append(none, f) /\ GotOf(f) = 0
            BY <1>3, <1>5, <2>1 DEF GotOf
        <3>2. CountedOf(stack) = CountedOf(none) + GotOf(f)
            BY <2>1, <3>1, CountedGrows
        <3> QED BY <2>2, <3>1, <3>2
    <2>4. ReplacedOf(values) = 0 /\ Len(values) = 0 /\ Len(open) = 0 /\ expansions = 0 /\ chars = 0
        BY ReplacedOfNone DEF Init
    <2>5. /\ input.limits.depth \in Nat \union {NoLimit} /\ input.limits.expansions \in Nat \union {NoLimit}
          /\ input.limits.chars \in Nat \union {NoLimit} /\ input.limits.elementDepth \in Nat \union {NoLimit}
        BY <1>1 DEF Init, Limits
    <2>6. ExpandedUnits <= chars
        BY <2>3, <2>4, ExpandedIsCounted
    <2> QED BY <1>5, <2>4, <2>5, <2>6 DEF WithinLimits, AtMost
<1> QED BY <1>6, <1>7, <1>8, <1>9, <1>10 DEF IInv

(* Whatever the documents, the limits and the order in which input and     *)
(* entities come: IInv holds of every state the parser and its driver      *)
(* reach (io/parse.rs, io/parse/entity.rs, io/read.rs).                    *)
THEOREM Invariant == Spec => []IInv
<1>1. IInv /\ [Next]_vars => IInv'
    BY TypeStep, FramesStep, OneStep, FeedsStep, LimitsStep DEF IInv, AsOne
<1> QED BY <1>1, InitHolds, PTL DEF Spec

(* Input always goes to the entity it belongs to, and is never asked for   *)
(* past its end (io/read.rs, fill).                                        *)
THEOREM Feeding == Spec => []FeedsWhatIsRead
<1>1. IInv => FeedsWhatIsRead
    BY DEF IInv
<1> QED BY <1>1, Invariant, PTL

(* What is expanded at any time was counted, and is within the limits      *)
(* (io/parse/entity.rs).                                                   *)
THEOREM Limiting == Spec => []WithinLimits
<1>1. IInv => WithinLimits
    BY DEF IInv
<1> QED BY <1>1, Invariant, PTL


-----------------------------------------------------------------------------
(* What is left of a frame, and what is left to be read; the input, which  *)
(* does not change, is a parameter.                                        *)
LeftIn(in, f) ==
    LET body == in.body[f.ent]
        declared == f.read = 0 /\ f.ent # Doc /\ in.sort[f.ent] = "external"
    IN IF declared /\ body # <<>> /\ body[1] = Decl
       THEN Tail(body) ELSE SubSeq(body, f.read + 1, Len(body))
TodoIn(in, s) == InsideOut([i \in DOMAIN s |-> LeftIn(in, s[i])])
LeftOf(f) == LeftIn(input, f)
TodoOf(s) == TodoIn(input, s)

LEMMA TodoNow == Todo = TodoOf(stack)
BY Zenon DEF Todo, TodoIn, TodoOf, Left, LeftIn, Body

LEMMA TodoThen ==
    ASSUME input' = input
    PROVE  Todo' = TodoOf(stack')
<1>1. Todo' = TodoIn(input', stack')
    BY Zenon DEF Todo, TodoIn, Left, LeftIn, Body
<1> QED BY <1>1, Zenon DEF TodoOf

LEMMA LeftPast ==
    ASSUME input \in Inputs, NEW f \in Frames, Past(f)
    PROVE  LeftOf(f) = SubSeq(Body(f.ent), f.read + 1, Len(Body(f.ent)))
<1>1. f.ent # Doc => f.ent \in Names
    BY DEF Frames, Entities
<1> QED BY <1>1 DEF LeftOf, LeftIn, Body, Past, IsExternal, Undeclared

LEMMA LeftDeclared ==
    ASSUME input \in Inputs, NEW f \in Frames, f.read = 0, IsExternal(f.ent),
           Body(f.ent) # <<>>, Body(f.ent)[1] = Decl
    PROVE  LeftOf(f) = Tail(Body(f.ent))
<1>1. f.ent # Doc
    BY InputFacts DEF IsExternal
<1> QED BY <1>1 DEF LeftOf, LeftIn, Body, IsExternal

LEMMA LeftType ==
    ASSUME input \in Inputs, NEW f \in Frames
    PROVE  LeftOf(f) \in Seq(Tokens)
<1>1. PICK body \in Seq(Tokens) : body = Body(f.ent)
    BY InputFacts DEF Frames
<1>2. f.read \in Nat
    BY DEF Frames
<1>3. SubSeq(body, f.read + 1, Len(body)) \in Seq(Tokens)
    BY <1>2, RestOf
<1>4. body # <<>> => Tail(body) \in Seq(Tokens)
    BY RestIsTail
<1> QED BY <1>1, <1>3, <1>4 DEF LeftOf, LeftIn, Body

LEMMA TodoGrows ==
    ASSUME input \in Inputs, NEW s \in Seq(Frames), NEW f \in Frames
    PROVE  /\ TodoOf(s) \in Seq(Tokens) /\ LeftOf(f) \in Seq(Tokens)
           /\ TodoOf(Append(s, f)) = LeftOf(f) \o TodoOf(s)
<1>1. PICK t : t = Append(s, f)
    OBVIOUS
<1>2. PICK n \in Nat : n = Len(s) /\ DOMAIN s = 1..n /\ DOMAIN t = 1..(n + 1) /\ t[n + 1] = f /\ \A i \in 1..n : t[i] = s[i]
    BY <1>1
<1>3. PICK parts \in Seq(Seq(Tokens)) :
         parts = [i \in DOMAIN s |-> LeftOf(s[i])] /\ Len(parts) = n /\ \A i \in 1..n : parts[i] = LeftOf(s[i])
    <2>1. \A i \in 1..n : LeftOf(s[i]) \in Seq(Tokens)
        BY <1>2, LeftType
    <2>2. PICK parts : parts = [i \in DOMAIN s |-> LeftOf(s[i])]
        OBVIOUS
    <2>3. parts = [i \in DOMAIN parts |-> parts[i]] /\ DOMAIN parts = 1..n /\ \A i \in 1..n : parts[i] = LeftOf(s[i])
        BY <1>2, <2>2
    <2>4. parts \in Seq(Seq(Tokens)) /\ Len(parts) = n
        BY <2>1, <2>3, ASequence
    <2> QED BY <2>2, <2>3, <2>4
<1>4. PICK more : more = [i \in DOMAIN t |-> LeftOf(t[i])]
    OBVIOUS
<1>5. more = Append(parts, LeftOf(f))
    <2>1. more = [i \in DOMAIN more |-> more[i]] /\ DOMAIN more = 1..(Len(parts) + 1) /\ more[Len(parts) + 1] = LeftOf(f)
        BY <1>2, <1>3, <1>4
    <2>2. \A i \in 1..Len(parts) : more[i] = parts[i]
        BY <1>2, <1>3, <1>4
    <2>3. LeftOf(f) \in Seq(Tokens)
        BY LeftType
    <2> QED BY <2>1, <2>2, <2>3, GrownByOne
<1>6. InsideOut(parts) \in Seq(Tokens) /\ InsideOut(Append(parts, LeftOf(f))) = LeftOf(f) \o InsideOut(parts)
    BY LeftType, StackGrows, Zenon DEF InsideOut
<1>7. TodoOf(s) = InsideOut(parts) /\ TodoOf(t) = InsideOut(more)
    BY <1>3, <1>4, Zenon DEF TodoOf, TodoIn, LeftOf
<1> QED BY <1>1, <1>5, <1>6, <1>7, LeftType, Zenon

LEMMA TodoOfNone == TodoOf(<<>>) = <<>>
<1>1. [i \in DOMAIN <<>> |-> LeftOf(<<>>[i])] = <<>>
    OBVIOUS
<1>2. InsideOut(<<>>) = <<>>
    BY StackOfNone, Zenon DEF InsideOut
<1> QED BY <1>1, <1>2, Zenon DEF TodoOf, TodoIn, LeftOf

(* How what is left changes with the stack. *)
LEMMA TodoSplit ==
    ASSUME IInv
    PROVE  /\ TodoOf(Front(stack)) \in Seq(Tokens) /\ LeftOf(Top) \in Seq(Tokens)
           /\ TodoOf(stack) = LeftOf(Top) \o TodoOf(Front(stack))
           /\ TodoOf(stack) \in Seq(Tokens)
           /\ TodoOf(Consumed) = LeftOf(ReadOn(Top)) \o TodoOf(Front(stack))
           /\ TodoOf(Consumed) \in Seq(Tokens)
           /\ LeftOf(ReadOn(Top)) \in Seq(Tokens)
<1>1. input \in Inputs /\ stack \in Seq(Frames) /\ Consumed \in Seq(Frames)
    BY ConsumedFacts DEF IInv, TypeOK
<1>2. stack = Append(Front(stack), Top) /\ Front(stack) \in Seq(Frames) /\ Top \in Frames
    BY TopFacts DEF IInv
<1>3. Consumed = Append(Front(stack), ReadOn(Top)) /\ ReadOn(Top) \in Frames
    BY ConsumedFacts DEF IInv
<1>4. TodoOf(stack) \in Seq(Tokens) /\ TodoOf(Consumed) \in Seq(Tokens)
    BY <1>1, <1>2, TodoGrows
<1> QED BY <1>1, <1>2, <1>3, <1>4, TodoGrows, Zenon

LEMMA TodoRead ==
    ASSUME IInv, ~declPending, Arrived(Top) >= 2
    PROVE  /\ NextToken(Top) \in Tokens /\ TodoOf(Consumed) \in Seq(Tokens)
           /\ TodoOf(stack) = <<NextToken(Top)>> \o TodoOf(Consumed)
<1>1. PICK body \in Seq(Tokens) : body = Body(Top.ent)
    BY TopFacts DEF IInv
<1>2. PICK k \in Nat : k = Top.read /\ k < Len(body)
    BY <1>1, TopFacts DEF IInv, Frames
<1>3. input \in Inputs /\ Top \in Frames /\ ReadOn(Top) \in Frames /\ Past(Top)
    <2>1. Top = stack[Len(stack)] /\ Len(stack) \in 1..Len(stack)
        BY TopFacts DEF IInv
    <2> QED BY <2>1, TopFacts, FramesNow, ConsumedFacts DEF IInv, TypeOK
<1>4. ReadOn(Top).ent = Top.ent /\ ReadOn(Top).read = k + 1
    BY <1>2, <1>3 DEF ReadOn, Frames
<1>5. Past(ReadOn(Top))
    BY <1>2, <1>4 DEF Past
<1>6. LeftOf(Top) = SubSeq(body, k + 1, Len(body))
    BY <1>1, <1>2, <1>3, LeftPast
<1>7. LeftOf(ReadOn(Top)) = SubSeq(body, (k + 1) + 1, Len(body))
    BY <1>1, <1>3, <1>4, <1>5, LeftPast
<1>8. LeftOf(Top) = <<NextToken(Top)>> \o LeftOf(ReadOn(Top)) /\ NextToken(Top) \in Tokens
    <2>1. NextToken(Top) = body[k + 1] /\ body[k + 1] \in Tokens
        BY <1>1, <1>2 DEF NextToken
    <2>2. SubSeq(body, k + 1, Len(body)) = <<body[k + 1]>> \o SubSeq(body, (k + 1) + 1, Len(body))
        BY <1>2, RestFromNext
    <2> QED BY <1>6, <1>7, <2>1, <2>2
<1>9. <<NextToken(Top)>> \in Seq(Tokens)
    BY <1>8
<1>10. (<<NextToken(Top)>> \o LeftOf(ReadOn(Top))) \o TodoOf(Front(stack))
          = <<NextToken(Top)>> \o (LeftOf(ReadOn(Top)) \o TodoOf(Front(stack)))
    BY SMTT(20), ZenonT(30), <1>9, TodoSplit, Joining
<1> QED BY <1>8, <1>10, TodoSplit, Zenon

LEMMA TodoPassed ==
    ASSUME IInv, ~GivenUp, declPending, Arrived(Top) >= 2, NextToken(Top) = Decl
    PROVE  TodoOf(Consumed) = TodoOf(stack)
<1>1. PICK body \in Seq(Tokens) : body = Body(Top.ent)
    BY TopFacts DEF IInv
<1>2. Top.read = 0 /\ Len(body) > 0 /\ body[1] = Decl
    BY <1>1, TopFacts DEF IInv, FeedsWhatIsRead, NextToken, Frames
<1>3. input \in Inputs /\ Top \in Frames /\ ReadOn(Top) \in Frames /\ IsExternal(Top.ent)
    <2>1. Top.ent # Doc /\ input.sort[Top.ent] = "external"
        BY DEF IInv, FeedsWhatIsRead
    <2> QED BY <2>1, TopFacts, ConsumedFacts DEF IInv, TypeOK, IsExternal, Frames, Entities
<1>4. ReadOn(Top).ent = Top.ent /\ ReadOn(Top).read = 0 + 1
    BY <1>2, <1>3 DEF ReadOn, Frames
<1>5. LeftOf(Top) = Tail(body)
    BY <1>1, <1>2, <1>3, LeftDeclared
<1>6. LeftOf(ReadOn(Top)) = SubSeq(body, (0 + 1) + 1, Len(body))
    <2>1. Past(ReadOn(Top))
        BY <1>4 DEF Past
    <2> QED BY <2>1, <1>1, <1>3, <1>4, LeftPast
<1>7. LeftOf(ReadOn(Top)) = LeftOf(Top)
    BY <1>2, <1>5, <1>6, RestIsTail
<1> QED BY <1>7, TodoSplit

LEMMA TodoDrained ==
    ASSUME IInv, ~declPending, Arrived(Top) = 0, Top.ended
    PROVE  /\ TodoOf(Front(stack)) = TodoOf(stack)
           /\ Len(stack) = 1 => TodoOf(stack) = <<>>
<1>1. PICK body \in Seq(Tokens) : body = Body(Top.ent)
    BY TopFacts DEF IInv
<1>2. Top.read = Len(body) /\ Top.read \in Nat
    BY <1>1, TopFacts DEF IInv, Frames, Arrived, Units
<1>3. input \in Inputs /\ Top \in Frames /\ Past(Top)
    <2>1. Top = stack[Len(stack)] /\ Len(stack) \in 1..Len(stack)
        BY TopFacts DEF IInv
    <2> QED BY <2>1, TopFacts, FramesNow DEF IInv, TypeOK
<1>4. LeftOf(Top) = <<>>
    BY <1>1, <1>2, <1>3, LeftPast, RestOfRead
<1>5. TodoOf(Front(stack)) = TodoOf(stack)
    BY <1>4, TodoSplit, JoiningNone
<1>6. Len(stack) = 1 => TodoOf(Front(stack)) = <<>>
    <2>1. PICK s \in Seq(Frames) : s = Front(stack) /\ Len(s) = Len(stack) - 1
        <3>1. stack \in Seq(Frames) /\ stack # <<>>
            BY FramesNow DEF IInv, TypeOK
        <3> QED BY <3>1, LastSplit
    <2>2. Len(stack) = 1 => s = <<>>
        BY <2>1
    <2> QED BY <2>1, <2>2, TodoOfNone
<1> QED BY <1>5, <1>6

LEMMA TodoFilled ==
    ASSUME IInv, NEW n \in Nat, Filled(Top, n) \in Frames
    PROVE  TodoOf(Append(Front(stack), Filled(Top, n))) = TodoOf(stack)
<1>1. LeftOf(Filled(Top, n)) = LeftOf(Top)
    BY FilledFields, TopFacts DEF IInv, LeftOf, LeftIn
<1>2. input \in Inputs /\ Front(stack) \in Seq(Frames)
    BY TopFacts DEF IInv, TypeOK
<1> QED BY <1>1, <1>2, TodoSplit, TodoGrows

LEMMA TodoOpened ==
    ASSUME input \in Inputs, NEW s \in Seq(Frames), NEW n \in Names, NEW nth \in Nat
    PROVE  /\ Whole(n, nth) \in Frames /\ Streamed(n, nth) \in Frames
           /\ Meaning!Replacement(n) \in Seq(Tokens)
           /\ input.sort[n] = "internal" =>
                 TodoOf(Append(s, Whole(n, nth))) = Meaning!Replacement(n) \o TodoOf(s)
           /\ input.sort[n] = "external" =>
                 TodoOf(Append(s, Streamed(n, nth))) = Meaning!Replacement(n) \o TodoOf(s)
<1>1. PICK body \in Seq(Tokens) : body = Body(n)
    BY InputFacts
<1>2. n # Doc /\ n \in Entities
    BY InputFacts
<1>3. Whole(n, nth) \in Frames /\ Streamed(n, nth) \in Frames
    BY <1>1, <1>2 DEF Whole, Streamed, Frames, Units
<1>4. body # <<>> => (body[1] = Decl <=> body[1].kind = "decl")
    <2>1. body # <<>> => body[1] \in Tokens
        BY <1>1
    <2> QED BY <2>1, TokenFacts DEF Decl
<1>5. SubSeq(body, 0 + 1, Len(body)) = body
    BY RestOfAll
<1>6. input.sort[n] = "internal" => LeftOf(Whole(n, nth)) = Meaning!Replacement(n)
    BY <1>1, <1>5 DEF LeftOf, LeftIn, Whole, Meaning!Replacement, Body
<1>7. input.sort[n] = "external" => LeftOf(Streamed(n, nth)) = Meaning!Replacement(n)
    BY <1>1, <1>2, <1>4, <1>5 DEF LeftOf, LeftIn, Streamed, Meaning!Replacement, Body
<1>8. Meaning!Replacement(n) \in Seq(Tokens)
    BY <1>1, RestIsTail DEF Meaning!Replacement, Body
<1> QED BY <1>3, <1>6, <1>7, <1>8, TodoGrows

LEMMA TodoAtFirst ==
    ASSUME input \in Inputs
    PROVE  TodoOf(<<Streamed(Doc, 0)>>) = input.body[Doc]
<1>1. PICK body \in Seq(Tokens) : body = Body(Doc)
    BY InputFacts
<1>2. Streamed(Doc, 0) \in Frames
    BY InputFacts DEF Streamed, Frames
<1>3. LeftOf(Streamed(Doc, 0)) = SubSeq(body, 0 + 1, Len(body))
    BY <1>1 DEF LeftOf, LeftIn, Streamed, Body
<1>4. <<Streamed(Doc, 0)>> = Append(<<>>, Streamed(Doc, 0))
    OBVIOUS
<1>5. TodoOf(<<Streamed(Doc, 0)>>) = body \o <<>>
    <2>1. TodoOf(Append(<<>>, Streamed(Doc, 0))) = LeftOf(Streamed(Doc, 0)) \o TodoOf(<<>>)
        BY <1>2, TodoGrows, EmptySeq
    <2> QED BY <1>3, <1>4, <2>1, RestOfAll, TodoOfNone
<1>6. body \o <<>> = body
    OBVIOUS
<1> QED BY <1>1, <1>5, <1>6 DEF Body

-----------------------------------------------------------------------------
(* The shapes that a step can have in Inclusion. *)
Ahead == Owed \o Todo
Reads == progress # "eof" /\ ~GivenUp
Means == Meaning!Next \/ UNCHANGED Meaning!vars
TagsOf(o) == [i \in DOMAIN o |-> o[i].tag]
Taking(t, R) == t \in Tokens /\ R \in Seq(Tokens) /\ Ahead = <<t>> \o R

LEMMA MeansNothing ==
    ASSUME Reads, Reads', UNCHANGED <<input, pending, open, event>>, Ahead' = Ahead
    PROVE  Means
BY Zenon DEF Means, Reads, GivenUp, Ahead, Meaning!vars

LEMMA MeansGiveUp ==
    ASSUME Reads, GivenUp', UNCHANGED <<input, event>>
    PROVE  Means
<1>1. progress' # "eof"
    BY DEF GivenUp
<1> QED BY <1>1 DEF Means, Reads, Meaning!Next, Meaning!GiveUp

LEMMA MeansAsk ==
    ASSUME Reads, Reads', UNCHANGED <<input, pending, open>>, Ahead' = Ahead, event' = Nothing
    PROVE  Means
<1>1. Meaning!Ask
    BY Zenon DEF Reads, Ahead, Meaning!Ask, Meaning!Reading
<1> QED BY <1>1 DEF Means, Meaning!Next

LEMMA MeansInclude ==
    ASSUME Reads, Reads', UNCHANGED <<input, pending, open, event>>,
           NEW n \in Names, NEW R, Taking(Ref(n), R), Ahead' = Meaning!Replacement(n) \o R
    PROVE  Means
<1>1. Ahead # <<>> /\ Ahead[1] = Ref(n) /\ Tail(Ahead) = R
    BY OneThenRest DEF Taking
<1>2. Meaning!Include
    <2>1. Ref(n).kind = "ref" /\ Ref(n).name = n
        BY DEF Ref
    <2> QED BY <1>1, <2>1, Zenon DEF Reads, Ahead, Meaning!Include, Meaning!Reading, Meaning!Head1
<1> QED BY <1>2 DEF Means, Meaning!Next

LEMMA MeansGather ==
    ASSUME Reads, Reads', UNCHANGED <<input, open, event>>,
           NEW t, NEW R, Taking(t, R), IsData(t), Ahead' = R, pending' = Append(pending, t)
    PROVE  Means
<1>1. Ahead # <<>> /\ Ahead[1] = t /\ Tail(Ahead) = R
    BY OneThenRest DEF Taking
<1>2. Meaning!Gather
    BY <1>1, Zenon DEF Reads, Ahead, Meaning!Gather, Meaning!Reading, Meaning!Head1, IsData, Meaning!IsData
<1> QED BY <1>2 DEF Means, Meaning!Next

LEMMA MeansGatherAndReport ==
    ASSUME Reads, Reads', UNCHANGED <<input, open>>, NEW t, NEW R, Taking(t, R), IsData(t), Ahead' = R,
           pending' = <<>>, event' = [kind |-> "run", text |-> Append(pending, t)]
    PROVE  Means
<1>1. Ahead # <<>> /\ Ahead[1] = t /\ Tail(Ahead) = R
    BY OneThenRest DEF Taking
<1>2. Meaning!GatherAndReport
    BY <1>1, Zenon DEF Reads, Ahead, Meaning!GatherAndReport, Meaning!Reading, Meaning!Head1, IsData, Meaning!IsData
<1> QED BY <1>2 DEF Means, Meaning!Next

LEMMA MeansReportRun ==
    ASSUME Reads, Reads', UNCHANGED <<input, open>>, Ahead' = Ahead,
           pending # <<>>, pending' = <<>>, event' = [kind |-> "run", text |-> pending]
    PROVE  Means
<1>1. Meaning!ReportRun
    BY Zenon DEF Reads, Ahead, Meaning!ReportRun, Meaning!Reading
<1> QED BY <1>1 DEF Means, Meaning!Next

LEMMA MeansPlain ==
    ASSUME Reads, Reads', UNCHANGED <<input, open>>, NEW t, NEW R, Taking(t, R),
           t.kind \in {"misc", "cdata", "doctype"}, Ahead' = R,
           pending = <<>>, pending' = <<>>, event' = t
    PROVE  Means
<1>1. Ahead # <<>> /\ Ahead[1] = t /\ Tail(Ahead) = R
    BY OneThenRest DEF Taking
<1>2. Meaning!ReportMarkup
    BY <1>1, Zenon DEF Reads, Ahead, Meaning!ReportMarkup, Meaning!Reading, Meaning!Head1, Meaning!Plain
<1> QED BY <1>2 DEF Means, Meaning!Next

LEMMA TagsOfFront ==
    ASSUME NEW o \in Seq(OpenElements), o # <<>>
    PROVE  /\ TagsOf(o) # <<>> /\ TagsOf(o)[Len(TagsOf(o))] = Last(o).tag
           /\ TagsOf(Front(o)) = Meaning!Front1(TagsOf(o))
<1> DEFINE n == Len(o)
<1>1. n \in Nat /\ n >= 1 /\ DOMAIN o = 1..n /\ Last(o) = o[n] /\ \A i \in 1..n : o[i].tag \in Tags
    <2>1. \A i \in 1..n : o[i] \in OpenElements
        OBVIOUS
    <2>2. \A i \in 1..n : o[i].tag \in Tags
        BY <2>1 DEF OpenElements
    <2>3. n \in Nat /\ n >= 1 /\ Last(o) = o[n]
        BY LastSplit
    <2>4. DOMAIN o = 1..n
        OBVIOUS
    <2> HIDE DEF n
    <2> QED BY <2>2, <2>3, <2>4
<1> HIDE DEF n
<1>2. PICK f : f = Front(o) /\ DOMAIN f = 1..(n - 1) /\ \A i \in 1..(n - 1) : f[i] = o[i]
    <2>1. Front(o) \in Seq(OpenElements) /\ Len(Front(o)) = n - 1 /\ \A i \in 1..(n - 1) : Front(o)[i] = o[i]
        BY LastSplit DEF n
    <2> QED BY <1>1, <2>1
<1>3. PICK T \in Seq(Tags) : T = TagsOf(o) /\ Len(T) = n /\ \A i \in 1..n : T[i] = o[i].tag
    <2>1. PICK T : T = TagsOf(o)
        OBVIOUS
    <2>2. T = [i \in DOMAIN T |-> T[i]] /\ DOMAIN T = 1..n /\ \A i \in 1..n : T[i] = o[i].tag
        BY <1>1, <2>1 DEF TagsOf
    <2>3. T \in Seq(Tags) /\ Len(T) = n
        BY <1>1, <2>2, ASequence
    <2> QED BY <2>1, <2>2, <2>3
<1>4. PICK g : g = TagsOf(f)
    OBVIOUS
<1>5. g = [i \in DOMAIN g |-> g[i]] /\ DOMAIN g = 1..(Len(T) - 1) /\ \A i \in 1..(Len(T) - 1) : g[i] = T[i]
    BY <1>1, <1>2, <1>3, <1>4 DEF TagsOf
<1>6. g = SubSeq(T, 1, Len(T) - 1)
    BY <1>1, <1>3, <1>5, ShrunkByOne
<1>7. T # <<>> /\ T[Len(T)] = Last(o).tag
    BY <1>1, <1>3
<1> QED BY <1>2, <1>3, <1>4, <1>6, <1>7 DEF Meaning!Front1

LEMMA TagsOfMore ==
    ASSUME NEW o \in Seq(OpenElements), NEW x \in OpenElements
    PROVE  TagsOf(Append(o, x)) = Append(TagsOf(o), x.tag)
<1> DEFINE n == Len(o)
<1>1. n \in Nat /\ DOMAIN o = 1..n /\ \A i \in 1..n : o[i].tag \in Tags
    <2>1. \A i \in 1..n : o[i] \in OpenElements
        OBVIOUS
    <2> QED BY <2>1 DEF OpenElements
<1>2. PICK p : p = Append(o, x) /\ DOMAIN p = 1..(n + 1) /\ p[n + 1] = x /\ \A i \in 1..n : p[i] = o[i]
    <2>1. PICK p : p = Append(o, x)
        OBVIOUS
    <2>2. DOMAIN p = 1..(n + 1) /\ p[n + 1] = x /\ \A i \in 1..n : p[i] = o[i]
        BY <2>1
    <2> QED BY <2>1, <2>2
<1> HIDE DEF n
<1>3. PICK T \in Seq(Tags) : T = TagsOf(o) /\ Len(T) = n /\ \A i \in 1..n : T[i] = o[i].tag
    <2>1. PICK T : T = TagsOf(o)
        OBVIOUS
    <2>2. T = [i \in DOMAIN T |-> T[i]] /\ DOMAIN T = 1..n /\ \A i \in 1..n : T[i] = o[i].tag
        BY <1>1, <2>1 DEF TagsOf
    <2>3. T \in Seq(Tags) /\ Len(T) = n
        BY <1>1, <2>2, ASequence
    <2> QED BY <2>1, <2>2, <2>3
<1>4. PICK g : g = TagsOf(p)
    OBVIOUS
<1>5. /\ g = [i \in DOMAIN g |-> g[i]] /\ DOMAIN g = 1..(Len(T) + 1)
      /\ g[Len(T) + 1] = x.tag /\ \A i \in 1..Len(T) : g[i] = T[i]
    BY <1>1, <1>2, <1>3, <1>4 DEF TagsOf
<1>6. x.tag \in Tags
    BY DEF OpenElements
<1>7. g = Append(T, x.tag)
    BY <1>3, <1>5, <1>6, GrownByOne
<1> QED BY <1>2, <1>3, <1>4, <1>7

LEMMA MeansStart ==
    ASSUME Reads, Reads', UNCHANGED input, open \in Seq(OpenElements), NEW t, NEW R, Taking(t, R),
           t.kind = "start", Ahead' = (IF t.empty THEN <<End(t.tag)>> ELSE <<>>) \o R,
           NEW x \in OpenElements, x.tag = t.tag, open' = Append(open, x),
           pending = <<>>, pending' = <<>>, event' = t
    PROVE  Means
<1>1. Ahead # <<>> /\ Ahead[1] = t /\ Tail(Ahead) = R
    BY OneThenRest DEF Taking
<1>2. TagsOf(open') = Append(TagsOf(open), t.tag)
    BY TagsOfMore
<1>3. Meaning!ReportMarkup
    BY <1>1, <1>2, Zenon DEF Reads, Ahead, TagsOf, End, Meaning!ReportMarkup, Meaning!Reading, Meaning!Head1, Meaning!EndOf
<1> QED BY <1>3 DEF Means, Meaning!Next

LEMMA MeansEnd ==
    ASSUME Reads, Reads', UNCHANGED input, open \in Seq(OpenElements), NEW t, NEW R, Taking(t, R),
           t.kind = "end", Ahead' = R, open # <<>>, Last(open).tag = t.tag, open' = Front(open),
           pending = <<>>, pending' = <<>>, event' = t
    PROVE  Means
<1>1. Ahead # <<>> /\ Ahead[1] = t /\ Tail(Ahead) = R
    BY OneThenRest DEF Taking
<1>2. /\ TagsOf(open) # <<>> /\ TagsOf(open)[Len(TagsOf(open))] = t.tag
      /\ TagsOf(open') = Meaning!Front1(TagsOf(open))
    BY TagsOfFront
<1>3. Meaning!ReportMarkup
    BY <1>1, <1>2, Zenon DEF Reads, Ahead, TagsOf, Meaning!ReportMarkup, Meaning!Reading, Meaning!Head1
<1> QED BY <1>3 DEF Means, Meaning!Next

LEMMA MeansComplete ==
    ASSUME Reads, progress' = "eof", UNCHANGED <<input, pending, open, event>>, Ahead' = Ahead,
           Ahead = <<>>, pending = <<>>, open = <<>>
    PROVE  Means
<1>1. [i \in DOMAIN open |-> open[i].tag] = <<>>
    OBVIOUS
<1>2. Meaning!Complete
    BY <1>1, Zenon DEF Reads, Ahead, Meaning!Complete
<1> QED BY <1>2 DEF Means, Meaning!Next

-----------------------------------------------------------------------------
(* What is ahead before and after a step. *)
Clear == ~endPending /\ held = Nothing /\ starting = Nothing /\ ~DtdActive /\ request = Nothing

LEMMA AheadIs ==
    ASSUME IInv, input' = input
    PROVE  /\ TodoOf(stack) \in Seq(Tokens)
           /\ Ahead = Owed \o TodoOf(stack) /\ Ahead' = Owed' \o TodoOf(stack')
           /\ Clear => Ahead = TodoOf(stack)
           /\ Clear' /\ TodoOf(stack') \in Seq(Tokens) => Ahead' = TodoOf(stack')
<1>1. TodoOf(stack) \in Seq(Tokens)
    BY TodoSplit
<1>2. Ahead = Owed \o TodoOf(stack) /\ Ahead' = Owed' \o TodoOf(stack')
    BY TodoNow, TodoThen, Zenon DEF Ahead
<1>3. (Clear => Owed = <<>>) /\ (Clear' => Owed' = <<>>)
    BY DEF Clear, Owed, DtdActive
<1>4. Clear => Ahead = TodoOf(stack)
    BY <1>1, <1>2, <1>3, JoiningNone, Zenon
<1>5. Clear' /\ TodoOf(stack') \in Seq(Tokens) => Ahead' = TodoOf(stack')
    BY <1>2, <1>3, JoiningNone, Zenon
<1> QED BY <1>1, <1>2, <1>4, <1>5

LEMMA ScanIsClear ==
    ASSUME IInv, Running, ~DtdActive, ~endPending, held = Nothing
    PROVE  Clear /\ Reads
BY DEF Running, Clear, Reads, IInv, FeedsWhatIsRead, GivenUp

LEMMA Quiet ==
    ASSUME IInv, Reads, Reads', UNCHANGED <<input, open, event, pending, endPending, held, starting, dtd, request>>,
           TodoOf(stack') = TodoOf(stack)
    PROVE  Means
<1>1. Owed' = Owed
    BY Zenon DEF Owed, DtdActive
<1>2. Ahead' = Ahead
    BY <1>1, AheadIs, Zenon
<1> QED BY <1>2, MeansNothing

LEMMA InterpretMeans ==
    ASSUME IInv, Reads, NEW t, NEW R, Taking(t, R), Interpret(t), TodoOf(stack') = R,
           ~endPending, starting = Nothing, ~DtdActive, request = Nothing, pending = <<>>,
           held' = Nothing, UNCHANGED <<input, pending, request>>
    PROVE  Means
<1>1. t \in Tokens /\ t # Nothing /\ R \in Seq(Tokens) /\ Ahead = <<t>> \o R
    BY TokenFacts DEF Taking
<1>2. Ahead' = Owed' \o R /\ (Clear' => Ahead' = R)
    BY <1>1, AheadIs
<1>3. ASSUME UNCHANGED <<endPending, starting, dtd>> PROVE Ahead' = R
    BY <1>2, <1>3 DEF Clear, DtdActive
<1>4. CASE MiscToken(t)
    <2>1. UNCHANGED <<endPending, starting, dtd, open>> /\ event' = t /\ progress' = "token" /\ t.kind \in {"misc", "cdata"}
        BY <1>4 DEF MiscToken, Report, tree, values_, dtds
    <2>2. Reads'
        BY <2>1 DEF Reads, GivenUp
    <2> QED BY <1>3, <2>1, <2>2, MeansPlain
<1>5. CASE DoctypeToken(t)
    <2>1. t = Doctype /\ DtdActive' /\ UNCHANGED <<endPending, starting, open, event, progress>>
        BY <1>1, <1>5, TokenFacts DEF DoctypeToken, GoOn, outcome, tree, values_, DtdActive
    <2>2. Owed' = <<t>>
        BY <2>1 DEF Owed
    <2>3. Ahead' = Ahead
        BY <1>1, <1>2, <2>2
    <2>4. Reads'
        BY <2>1 DEF Reads, GivenUp
    <2> QED BY <2>1, <2>3, <2>4, MeansNothing
<1>6. CASE StartToken(t)
    <2>1. UNCHANGED <<open, endPending, dtd, event>>
        BY <1>6 DEF StartToken, dtds, GoOn, Stop, outcome
    <2>2. CASE progress' = "limit"
        BY <2>1, <2>2, MeansGiveUp DEF GivenUp
    <2>3. CASE progress' # "limit"
        <3>1. starting' = t /\ progress' = progress
            BY <1>6, <2>3 DEF StartToken, GoOn, Stop, outcome
        <3>2. Owed' = <<t>>
            BY <1>1, <2>1, <3>1 DEF Owed
        <3>3. Ahead' = Ahead
            BY <1>1, <1>2, <3>2
        <3>4. Reads'
            BY <3>1 DEF Reads, GivenUp
        <3> QED BY <2>1, <3>3, <3>4, MeansNothing
    <2> QED BY <2>2, <2>3
<1>7. CASE EndToken(t)
    <2>1. /\ UNCHANGED <<endPending, starting, dtd>> /\ event' = t /\ progress' = "token" /\ t.kind = "end"
          /\ open # <<>> /\ Last(open).tag = t.tag /\ open' = Front(open)
        BY <1>7 DEF EndToken, Report, values_, dtds, Matches, CloseElement
    <2>2. Reads'
        BY <2>1 DEF Reads, GivenUp
    <2>3. open \in Seq(OpenElements)
        BY DEF IInv, TypeOK
    <2> QED BY <1>3, <2>1, <2>2, <2>3, MeansEnd
<1>8. CASE RefuseToken(t)
    BY <1>8, MeansGiveUp DEF RefuseToken, Refuse, Stop, GivenUp
<1> QED BY <1>4, <1>5, <1>6, <1>7, <1>8 DEF Interpret

-----------------------------------------------------------------------------
(* Each action is a step of Inclusion, or leaves it unchanged. *)
LEMMA TokenMeans ==
    ASSUME IInv, input' = input, Advance \/ EmptyEnd \/ InterpretHeld
    PROVE  Means
<1>1. TodoOf(stack) \in Seq(Tokens) /\ open \in Seq(OpenElements) /\ held \in Tokens \union {Nothing}
    BY AheadIs DEF IInv, TypeOK
<1>2. CASE Advance
    <2>1. Reads /\ Reads' /\ event' = Nothing
          /\ UNCHANGED <<stack, open, pending, endPending, held, starting, dtd, request>>
        BY <1>2 DEF Advance, Reads, GivenUp, streams, tree, texts, asking, values_, dtds
    <2>2. Owed' = Owed
        BY <2>1, Zenon DEF Owed, DtdActive
    <2>3. Ahead' = Ahead
        BY <2>1, <2>2, AheadIs, Zenon
    <2> QED BY <2>1, <2>3, MeansAsk
<1>3. CASE EmptyEnd
    <2>1. /\ endPending /\ ~endPending' /\ starting = Nothing /\ ~DtdActive /\ progress = "running"
          /\ event' = End(Last(open).tag) /\ progress' = "token" /\ open' = Front(open)
          /\ UNCHANGED <<stack, pending, held, starting, dtd, request>>
        BY <1>3 DEF EmptyEnd, Running, CloseElement, Report, streams, texts, asking, values_, dtds
    <2>2. open # <<>> /\ pending = <<>> /\ held = Nothing /\ request = Nothing
        BY <2>1 DEF IInv, OneAtATime, FeedsWhatIsRead, GivenUp
    <2>3. Reads /\ Reads' /\ Clear'
        BY <2>1, <2>2 DEF Reads, GivenUp, Clear, DtdActive
    <2>4. PICK t : t = End(Last(open).tag)
        OBVIOUS
    <2>5. t \in Tokens /\ t.kind = "end" /\ t.tag = Last(open).tag
        <3>1. Last(open).tag \in Tags
            <4>1. Last(open) \in OpenElements
                BY <1>1, <2>2, LastSplit
            <4> QED BY <4>1 DEF OpenElements
        <3> QED BY <2>4, <3>1, KnownTokens DEF End
    <2>6. Taking(t, TodoOf(stack))
        BY <1>1, <2>1, <2>4, <2>5, AheadIs DEF Taking, Owed
    <2>7. Ahead' = TodoOf(stack)
        BY <1>1, <2>1, <2>3, AheadIs
    <2> QED BY <1>1, <2>1, <2>2, <2>3, <2>4, <2>5, <2>6, <2>7, MeansEnd
<1>4. CASE InterpretHeld
    <2>1. /\ progress = "running" /\ starting = Nothing /\ ~DtdActive /\ ~endPending /\ held # Nothing
          /\ held' = Nothing /\ Interpret(held) /\ UNCHANGED <<stack, pending, request>>
        BY <1>4 DEF InterpretHeld, Running, streams, asking
    <2>2. Reads /\ pending = <<>> /\ request = Nothing
        BY <2>1 DEF Reads, IInv, OneAtATime, FeedsWhatIsRead, GivenUp
    <2>3. Taking(held, TodoOf(stack))
        BY <1>1, <2>1, AheadIs DEF Taking, Owed
    <2> QED BY <2>1, <2>2, <2>3, InterpretMeans
<1> QED BY <1>2, <1>3, <1>4

LEMMA DtdMeans ==
    ASSUME IInv, input' = input, DriveDtd \/ ProvideEntity \/ DeclineEntity
    PROVE  Means
<1>1. TodoOf(stack) \in Seq(Tokens)
    BY AheadIs
<1>2. /\ UNCHANGED <<stack, open, pending, endPending, held, starting>>
      /\ DriveDtd => progress = "running" /\ DtdActive
      /\ ProvideEntity \/ DeclineEntity => progress = "entity" /\ UNCHANGED <<event, dtd>> /\ request' = Nothing
      /\ ProvideEntity => request.kind # "general" /\ progress' = "running"
      /\ DeclineEntity => progress' = "lost" \/ (progress' = "running" /\ request.kind = "subset")
    BY DEF DriveDtd, ProvideEntity, DeclineEntity, Running, streams, tree, texts, values_, dtds
<1>3. Reads
    BY <1>2 DEF Reads, GivenUp
<1>4. CASE progress' = "lost"
    <2>1. event' = event
        BY <1>2, <1>4 DEF DriveDtd, Stop, Report
    <2> QED BY <1>3, <1>4, <2>1, MeansGiveUp DEF GivenUp
<1>5. CASE progress' # "lost"
    <2>1. DtdActive
        BY <1>2, <1>5 DEF IInv, OneAtATime, GivenUp
    <2>2. ~endPending /\ held = Nothing /\ starting = Nothing /\ pending = <<>>
        BY <1>3, <2>1 DEF IInv, OneAtATime, Reads
    <2>3. Owed = <<Doctype>>
        BY <2>1, <2>2 DEF Owed
    <2>4. CASE DtdActive' /\ event' = event /\ progress' \in {"running", "entity"}
        <3>1. Owed' = <<Doctype>>
            BY <1>2, <2>2, <2>4 DEF Owed
        <3>2. Ahead' = Ahead
            BY <1>2, <2>3, <3>1, AheadIs, Zenon
        <3>3. Reads'
            BY <2>4 DEF Reads, GivenUp
        <3> QED BY <1>2, <1>3, <2>4, <3>2, <3>3, MeansNothing
    <2>5. CASE dtd' = "complete" /\ event' = Doctype /\ progress' = "token" /\ request' = request /\ progress = "running"
        <3>1. Reads' /\ Clear'
            BY <1>2, <2>2, <2>5 DEF Reads, GivenUp, Clear, DtdActive, IInv, FeedsWhatIsRead
        <3>2. Ahead' = TodoOf(stack)
            BY <1>1, <1>2, <3>1, AheadIs
        <3>3. Taking(Doctype, TodoOf(stack))
            BY <1>1, <2>3, AheadIs, KnownTokens DEF Taking
        <3>4. Doctype.kind \in {"misc", "cdata", "doctype"}
            BY DEF Doctype
        <3> QED BY <1>2, <1>3, <2>2, <2>5, <3>1, <3>2, <3>3, <3>4, MeansPlain
    <2>6. CASE DriveDtd
        <3>1. \/ dtd' = "reading" /\ event' = event /\ progress' = "entity"
              \/ dtd = "reading" /\ UNCHANGED dtd /\ event' = event /\ progress' = "entity"
              \/ dtd' = "complete" /\ event' = Doctype /\ progress' = "token" /\ request' = request
            BY <2>6 DEF DriveDtd, Stop, Report
        <3> QED BY <1>2, <2>4, <2>5, <2>6, <3>1 DEF DtdActive
    <2>7. CASE ProvideEntity \/ DeclineEntity
        BY <1>2, <1>5, <2>1, <2>4, <2>7 DEF DtdActive
    <2> QED BY <2>6, <2>7
<1> QED BY <1>4, <1>5

LEMMA FlushMeans ==
    ASSUME IInv, Reads, NEW p, FlushText(p), p # <<>>,
           progress' = "token" /\ pending' = <<>> /\ event' = [kind |-> "run", text |-> p] => Means,
           input' = input
    PROVE  Means
<1>1. CASE ~Placed(p)
    <2>1. GivenUp' /\ event' = event
        BY <1>1 DEF FlushText, Refuse, Stop, GivenUp
    <2> QED BY <2>1, MeansGiveUp
<1>2. CASE Placed(p)
    BY <1>2 DEF FlushText, Report
<1> QED BY <1>1, <1>2

LEMMA TextMeans ==
    ASSUME IInv, input' = input, ScanText
    PROVE  Means
<1>1. /\ AtToken /\ IsData(NextToken(Top)) /\ stack' = Consumed
      /\ AddText(Append(pending, NextToken(Top)))
      /\ UNCHANGED <<open, endPending, held, starting, dtd, request>>
    BY DEF ScanText, tree, asking, values_, dtds
<1>2. Running /\ ~DtdActive /\ ~endPending /\ held = Nothing /\ ~declPending /\ Arrived(Top) >= 2
    BY <1>1 DEF AtToken, Scanning
<1>3. Clear /\ Reads
    BY <1>2, ScanIsClear
<1>4. Clear'
    BY <1>1, <1>3 DEF Clear, DtdActive
<1>5. PICK t, R : t = NextToken(Top) /\ R = TodoOf(Consumed)
    OBVIOUS
<1>6. Taking(t, R) /\ IsData(t) /\ Ahead' = R
    BY <1>1, <1>2, <1>3, <1>4, <1>5, TodoRead, AheadIs DEF Taking
<1>7. PICK p : p = Append(pending, t)
    OBVIOUS
<1>8. CASE Full(p)
    <2>1. FlushText(p) /\ p # <<>>
        BY <1>1, <1>5, <1>7, <1>8 DEF AddText, Full
    <2>2. ASSUME progress' = "token", pending' = <<>>, event' = [kind |-> "run", text |-> p]
          PROVE  Means
        <3>1. Reads'
            BY <2>2 DEF Reads, GivenUp
        <3> QED BY <1>1, <1>3, <1>6, <1>7, <2>2, <3>1, MeansGatherAndReport
    <2> QED BY <1>3, <2>1, <2>2, FlushMeans
<1>9. CASE ~Full(p)
    <2>1. pending' = p /\ UNCHANGED <<event, progress>>
        BY <1>1, <1>5, <1>7, <1>9 DEF AddText, GoOn, outcome
    <2>2. Reads'
        BY <1>3, <2>1 DEF Reads, GivenUp
    <2> QED BY <1>1, <1>3, <1>6, <1>7, <2>1, <2>2, MeansGather
<1> QED BY <1>8, <1>9

LEMMA MarkupMeans ==
    ASSUME IInv, input' = input, ScanMarkup
    PROVE  Means
<1>1. /\ AtToken /\ stack' = Consumed /\ UNCHANGED request
      /\ \/ pending = <<>> /\ Interpret(NextToken(Top)) /\ UNCHANGED <<pending, held>>
         \/ /\ pending # <<>> /\ held' = NextToken(Top) /\ FlushText(pending)
            /\ UNCHANGED <<open, endPending, starting, dtd>>
    BY DEF ScanMarkup, tree, asking, values_, dtds, texts
<1>2. Running /\ ~DtdActive /\ ~endPending /\ held = Nothing /\ ~declPending /\ Arrived(Top) >= 2 /\ starting = Nothing
    BY <1>1 DEF AtToken, Scanning, Running
<1>3. Clear /\ Reads
    BY <1>2, ScanIsClear
<1>4. PICK t, R : t = NextToken(Top) /\ R = TodoOf(Consumed)
    OBVIOUS
<1>5. Taking(t, R) /\ t # Nothing
    BY <1>1, <1>2, <1>3, <1>4, TodoRead, AheadIs, TokenFacts DEF Taking
<1>6. CASE pending = <<>>
    <2>1. Interpret(t) /\ held' = Nothing /\ UNCHANGED <<pending, request>> /\ TodoOf(stack') = R
        BY <1>1, <1>2, <1>4, <1>6
    <2> QED BY <1>2, <1>3, <1>5, <1>6, <2>1, InterpretMeans DEF Clear
<1>7. CASE pending # <<>>
    <2>1. FlushText(pending) /\ held' = t /\ UNCHANGED <<open, endPending, starting, dtd>>
        BY <1>1, <1>4, <1>7
    <2>2. Owed' = <<t>>
        BY <1>2, <1>5, <2>1 DEF Owed
    <2>3. Ahead' = Ahead
        BY <1>1, <1>4, <1>5, <2>2, AheadIs DEF Taking
    <2>4. ASSUME progress' = "token", pending' = <<>>, event' = [kind |-> "run", text |-> pending]
          PROVE  Means
        <3>1. Reads'
            BY <2>4 DEF Reads, GivenUp
        <3> QED BY <1>3, <1>7, <2>1, <2>3, <2>4, <3>1, MeansReportRun
    <2> QED BY <1>3, <1>7, <2>1, <2>4, FlushMeans
<1> QED BY <1>6, <1>7

LEMMA ReferenceMeans ==
    ASSUME IInv, input' = input, NEW n \in Names,
           RefuseReference(n) \/ IncludeInternal(n) \/ RequestExternal(n)
    PROVE  Means
<1>1. /\ AtToken /\ NextToken(Top) = Ref(n)
      /\ UNCHANGED <<open, endPending, pending, held, starting, dtd>>
    BY DEF RefuseReference, IncludeInternal, RequestExternal, ScanReference, tree, texts, values_, dtds
<1>2. Running /\ ~DtdActive /\ ~endPending /\ held = Nothing /\ ~declPending /\ Arrived(Top) >= 2 /\ starting = Nothing
    BY <1>1 DEF AtToken, Scanning, Running
<1>3. Clear /\ Reads
    BY <1>2, ScanIsClear
<1>4. PICK R : R = TodoOf(Consumed)
    OBVIOUS
<1>5. Taking(Ref(n), R)
    BY <1>1, <1>2, <1>3, <1>4, TodoRead, AheadIs DEF Taking
<1>6. CASE GivenUp' /\ UNCHANGED event
    BY <1>3, <1>6, MeansGiveUp
<1>7. CASE RefuseReference(n)
    BY <1>6, <1>7 DEF RefuseReference, Refuse, Stop, GivenUp
<1>8. CASE IncludeInternal(n)
    <2>1. CASE ~CanPush(n, Units(Body(n)))
        BY <1>6, <1>8, <2>1 DEF IncludeInternal, Stop, GivenUp
    <2>2. CASE CanPush(n, Units(Body(n)))
        <3>1. /\ input.sort[n] = "internal" /\ expansions' = expansions + 1
              /\ stack' = Append(Consumed, Whole(n, expansions')) /\ UNCHANGED <<event, progress, request>>
            BY <1>8, <2>2 DEF IncludeInternal, Count, GoOn, outcome
        <3>2. input \in Inputs /\ Consumed \in Seq(Frames) /\ expansions' \in Nat
            BY <3>1, ConsumedFacts DEF IInv, TypeOK
        <3>3. TodoOf(stack') = Meaning!Replacement(n) \o R /\ TodoOf(stack') \in Seq(Tokens)
            <4>1. PICK k \in Nat : k = expansions'
                BY <3>2
            <4>2. /\ TodoOf(Append(Consumed, Whole(n, k))) = Meaning!Replacement(n) \o TodoOf(Consumed)
                  /\ Meaning!Replacement(n) \in Seq(Tokens)
                BY <3>1, <3>2, TodoOpened
            <4>3. stack' = Append(Consumed, Whole(n, k))
                BY <3>1, <4>1
            <4>4. Meaning!Replacement(n) \o R \in Seq(Tokens)
                BY <4>2, <1>5, Joining DEF Taking
            <4> QED BY <1>4, <4>2, <4>3, <4>4, Zenon
        <3>4. Clear' /\ Reads'
            BY <1>1, <1>3, <3>1 DEF Clear, DtdActive, Reads, GivenUp
        <3>5. Ahead' = Meaning!Replacement(n) \o R
            BY <3>3, <3>4, AheadIs, Zenon
        <3> QED BY <1>1, <1>3, <1>5, <3>1, <3>4, <3>5, MeansInclude
    <2> QED BY <2>1, <2>2
<1>9. CASE RequestExternal(n)
    <2>1. /\ stack' = Consumed /\ request' = [kind |-> "general", name |-> n]
          /\ progress' = "entity" /\ UNCHANGED event
        BY <1>9 DEF RequestExternal, Stop
    <2>2. request' # Nothing
        BY <2>1, InputsAssumption DEF Requests
    <2>3. Owed' = <<Ref(n)>>
        BY <1>1, <1>2, <2>1, <2>2 DEF Owed, DtdActive
    <2>4. Ahead' = Ahead
        BY <1>4, <1>5, <2>1, <2>3, AheadIs DEF Taking
    <2>5. Reads'
        BY <2>1 DEF Reads, GivenUp
    <2> QED BY <1>1, <1>3, <2>1, <2>4, <2>5, MeansNothing
<1> QED BY <1>7, <1>8, <1>9

LEMMA ValueMeans ==
    ASSUME IInv, input' = input, ExpandValue
    PROVE  Means
<1>1. Expanding /\ UNCHANGED <<stack, pending, held, dtd, request>>
    BY DEF ExpandValue, ExpandData, RefuseValue, EndReplacement, OpenElement, ExpandReference, AtReference,
           streams, texts, asking, dtds
<1>2. progress = "running" /\ starting # Nothing /\ Reads
    BY <1>1 DEF Expanding, Reads, GivenUp
<1>3. /\ ~endPending /\ held = Nothing /\ pending = <<>> /\ ~DtdActive /\ request = Nothing
    BY <1>2 DEF IInv, OneAtATime, FeedsWhatIsRead, Reads
<1>4. CASE OpenElement
    <2>1. starting \in Starts /\ open \in Seq(OpenElements) /\ Top.nth \in Nat /\ Len(stack) \in Nat
        BY <1>2, TopFacts DEF IInv, TypeOK, Frames
    <2>2. PICK t : t = starting
        OBVIOUS
    <2>3. t \in Tokens /\ t.tag \in Tags /\ t.empty \in BOOLEAN /\ t.kind = "start"
        BY <2>1, <2>2, StartFacts
    <2>4. PICK x : x = [tag |-> t.tag, depth |-> Len(stack), nth |-> Top.nth]
        OBVIOUS
    <2>5. x \in OpenElements /\ x.tag = t.tag
        BY <2>1, <2>3, <2>4 DEF OpenElements
    <2>6. /\ open' = Append(open, x) /\ endPending' = t.empty /\ starting' = Nothing
          /\ event' = t /\ progress' = "token"
        BY <1>4, <2>2, <2>4 DEF OpenElement, Report
    <2>7. Owed' = IF t.empty THEN <<End(t.tag)>> ELSE <<>>
        <3>1. Last(open') = x
            BY <2>1, <2>5, <2>6, FrontOfAppend
        <3> QED BY <1>1, <1>3, <2>3, <2>5, <2>6, <3>1 DEF Owed, DtdActive
    <2>8. Taking(t, TodoOf(stack))
        <3>1. Owed = <<t>>
            BY <1>2, <1>3, <2>2 DEF Owed
        <3> QED BY <2>3, <3>1, AheadIs DEF Taking
    <2>9. Ahead' = (IF t.empty THEN <<End(t.tag)>> ELSE <<>>) \o TodoOf(stack)
        BY <1>1, <2>7, AheadIs, Zenon
    <2>10. Reads'
        BY <2>6 DEF Reads, GivenUp
    <2> QED BY <1>1, <1>2, <1>3, <2>1, <2>3, <2>5, <2>6, <2>8, <2>9, <2>10, MeansStart
<1>5. CASE ~OpenElement
    <2>1. /\ UNCHANGED <<open, endPending, starting, event>>
          /\ progress' = progress \/ GivenUp'
        BY <1>5 DEF ExpandValue, ExpandData, RefuseValue, EndReplacement, ExpandReference,
               tree, values_, GoOn, Refuse, Stop, outcome, GivenUp
    <2>2. CASE GivenUp'
        BY <1>2, <2>1, <2>2, MeansGiveUp
    <2>3. CASE progress' = progress
        <3>1. Reads' /\ TodoOf(stack') = TodoOf(stack)
            BY <1>1, <1>2, <2>3 DEF Reads, GivenUp
        <3> QED BY <1>1, <1>2, <2>1, <3>1, Quiet
    <2> QED BY <2>1, <2>2, <2>3
<1> QED BY <1>4, <1>5

LEMMA StreamMeans ==
    ASSUME IInv, input' = input,
           TextDeclaration \/ NeedMoreInput \/ LeaveEntity \/ InputFails \/ Fill
    PROVE  Means
<1>1. UNCHANGED <<open, event, pending, endPending, held, starting, dtd, request>>
    BY DEF TextDeclaration, NeedMoreInput, LeaveEntity, InputFails, Fill,
           streams, tree, texts, asking, values_, dtds, GoOn, Stop, outcome
<1>2. Reads
    BY DEF TextDeclaration, NeedMoreInput, LeaveEntity, InputFails, Fill, Drained, Scanning, Running, Reads, GivenUp
<1>3. CASE GivenUp'
    BY <1>1, <1>2, <1>3, MeansGiveUp
<1>4. ASSUME TodoOf(stack') = TodoOf(stack), progress' \in {"running", "input"} PROVE Means
    BY <1>1, <1>2, <1>4, Quiet DEF Reads, GivenUp
<1>5. CASE TextDeclaration
    <2>1. progress = "running" /\ declPending /\ progress' \in {"running", "input"}
        BY <1>5 DEF TextDeclaration, Running, Stop, GoOn, outcome
    <2>2. CASE UNCHANGED stack
        BY <1>4, <2>1, <2>2
    <2>3. CASE ~UNCHANGED stack
        <3>1. Arrived(Top) >= 2 /\ NextToken(Top) = Decl /\ stack' = Consumed
            BY <1>5, <2>3 DEF TextDeclaration
        <3>2. TodoOf(stack') = TodoOf(stack)
            BY <1>2, <2>1, <3>1, TodoPassed DEF Reads
        <3> QED BY <1>4, <2>1, <3>2
    <2> QED BY <2>2, <2>3
<1>6. CASE NeedMoreInput
    BY <1>4, <1>6 DEF NeedMoreInput, Stop, streams
<1>7. CASE LeaveEntity
    <2>1. stack' = Front(stack) /\ Arrived(Top) = 0 /\ Top.ended /\ ~declPending /\ progress' = "running"
        BY <1>7 DEF LeaveEntity, Drained, Scanning, Running, GoOn, outcome
    <2> QED BY <1>4, <2>1, TodoDrained
<1>8. CASE InputFails
    BY <1>3, <1>8 DEF InputFails, Stop, GivenUp
<1>9. CASE Fill
    <2>1. progress' \in {"running", "limit"}
        BY <1>9, FillFacts
    <2>2. TodoOf(stack') = TodoOf(stack)
        <3>1. PICK n \in Nat : Filled(Top, n) \in Frames /\ stack' = Append(Front(stack), Filled(Top, n))
            BY <1>9, FillFacts
        <3> QED BY <3>1, TodoFilled
    <2> QED BY <1>3, <1>4, <2>1, <2>2 DEF GivenUp
<1> QED BY <1>5, <1>6, <1>7, <1>8, <1>9

LEMMA FinishMeans ==
    ASSUME IInv, input' = input, Finish
    PROVE  Means
<1>1. /\ Drained /\ Len(stack) = 1
      /\ UNCHANGED <<stack, open, endPending, held, starting, dtd, request>>
      /\ \/ pending # <<>> /\ FlushText(pending)
         \/ pending = <<>> /\ UNCHANGED <<pending, event>> /\ (progress' = "refused" \/ (open = <<>> /\ progress' = "eof"))
    BY DEF Finish, streams, tree, asking, values_, dtds, Refuse, Stop
<1>2. Running /\ ~DtdActive /\ ~endPending /\ held = Nothing /\ ~declPending /\ Arrived(Top) = 0 /\ Top.ended
    BY <1>1 DEF Drained, Scanning
<1>3. Clear /\ Reads
    BY <1>2, ScanIsClear
<1>4. Clear'
    BY <1>1, <1>3 DEF Clear, DtdActive
<1>5. Ahead = TodoOf(stack) /\ Ahead' = Ahead /\ Ahead = <<>>
    BY <1>1, <1>2, <1>3, <1>4, AheadIs, TodoDrained
<1>6. CASE pending # <<>>
    <2>1. FlushText(pending)
        BY <1>1, <1>6
    <2>2. ASSUME progress' = "token", pending' = <<>>, event' = [kind |-> "run", text |-> pending]
          PROVE  Means
        <3>1. Reads'
            BY <2>2 DEF Reads, GivenUp
        <3> QED BY <1>1, <1>3, <1>5, <1>6, <2>2, <3>1, MeansReportRun
    <2> QED BY <1>3, <1>6, <2>1, <2>2, FlushMeans
<1>7. CASE pending = <<>>
    <2>1. CASE progress' = "refused"
        BY <1>1, <1>3, <1>7, <2>1, MeansGiveUp DEF GivenUp
    <2>2. CASE progress' # "refused"
        BY <1>1, <1>3, <1>5, <1>7, <2>2, MeansComplete
    <2> QED BY <2>1, <2>2
<1> QED BY <1>6, <1>7

LEMMA BeginMeans ==
    ASSUME IInv, input' = input, BeginEntity
    PROVE  Means
<1>1. PICK n : n = request.name
    OBVIOUS
<1>2. /\ progress = "entity" /\ request.kind = "general" /\ request' = Nothing
      /\ UNCHANGED <<open, event, pending, endPending, held, starting, dtd>>
      /\ \/ CanPush(n, 0) /\ expansions' = expansions + 1 /\ stack' = Append(stack, Streamed(n, expansions'))
            /\ progress' = "running"
         \/ GivenUp'
    BY <1>1 DEF BeginEntity, Count, tree, texts, values_, dtds, Refuse, Stop, GivenUp
<1>3. Reads /\ request # Nothing
    BY <1>2 DEF IInv, OneAtATime, Reads, GivenUp
<1>4. /\ ~endPending /\ held = Nothing /\ starting = Nothing /\ ~DtdActive /\ input.sort[n] = "external"
    BY <1>1, <1>2, <1>3 DEF IInv, OneAtATime, Reads
<1>5. n \in Names
    BY <1>1, <1>2, <1>3 DEF IInv, TypeOK, Requests
<1>6. Taking(Ref(n), TodoOf(stack))
    <2>1. Owed = <<Ref(n)>>
        BY <1>1, <1>2, <1>3, <1>4 DEF Owed
    <2> QED BY <1>5, <2>1, AheadIs, KnownTokens DEF Taking
<1>7. CASE GivenUp'
    BY <1>2, <1>3, <1>7, MeansGiveUp
<1>8. CASE ~GivenUp'
    <2>1. expansions' = expansions + 1 /\ stack' = Append(stack, Streamed(n, expansions')) /\ progress' = "running"
        BY <1>2, <1>8
    <2>2. input \in Inputs /\ stack \in Seq(Frames)
        BY DEF IInv, TypeOK
    <2>3. PICK k \in Nat : k = expansions'
        BY <2>1 DEF IInv, TypeOK
    <2>4. /\ TodoOf(Append(stack, Streamed(n, k))) = Meaning!Replacement(n) \o TodoOf(stack)
          /\ Meaning!Replacement(n) \in Seq(Tokens)
        BY <1>4, <1>5, <2>2, TodoOpened
    <2>5. stack' = Append(stack, Streamed(n, k))
        BY <2>1, <2>3
    <2>6. Meaning!Replacement(n) \o TodoOf(stack) \in Seq(Tokens)
        BY <1>6, <2>4, Joining DEF Taking
    <2>7. Clear' /\ Reads'
        BY <1>2, <1>4, <2>1 DEF Clear, DtdActive, Reads, GivenUp
    <2>8. Ahead' = Meaning!Replacement(n) \o TodoOf(stack)
        BY <2>4, <2>5, <2>6, <2>7, AheadIs, Zenon
    <2> QED BY <1>2, <1>3, <1>5, <1>6, <2>7, <2>8, MeansInclude
<1> QED BY <1>7, <1>8

LEMMA StepMeans ==
    ASSUME IInv, [Next]_vars
    PROVE  Means
<1>1. input' = input
    BY StackStep
<1>2. CASE Next
    BY <1>1, <1>2, TokenMeans, DtdMeans, TextMeans, MarkupMeans, ReferenceMeans, ValueMeans, StreamMeans,
       FinishMeans, BeginMeans DEF Next, Parse, Drive
<1>3. CASE UNCHANGED vars
    <2>1. /\ UNCHANGED <<input, open, event, pending, endPending, held, starting, dtd, request, stack, progress>>
        BY <1>3 DEF vars, streams, tree, texts, asking, values_, dtds, outcome
    <2>2. Owed' = Owed
        BY <2>1, Zenon DEF Owed, DtdActive
    <2>3. Ahead' = Ahead
        BY <2>1, <2>2, AheadIs, Zenon
    <2>4. UNCHANGED Meaning!vars
        BY <2>1, <2>3, Zenon DEF Ahead, GivenUp, Meaning!vars
    <2> QED BY <2>4 DEF Means
<1> QED BY <1>2, <1>3

LEMMA StartMeans == Init => Meaning!Init
<1> SUFFICES ASSUME Init PROVE Meaning!Init
    OBVIOUS
<1>1. input \in Inputs /\ stack = <<Streamed(Doc, 0)>> /\ Todo = TodoOf(stack)
    BY TodoNow DEF Init
<1>2. PICK body \in Seq(Tokens) : body = input.body[Doc]
    BY <1>1, InputFacts DEF Body
<1>3. Todo = body
    BY <1>1, <1>2, TodoAtFirst
<1>4. Owed = <<>>
    BY DEF Init, Owed, DtdActive
<1>5. Owed \o Todo = input.body[Doc]
    BY <1>2, <1>3, <1>4, JoiningNone
<1>6. open = <<>> /\ pending = <<>> /\ event = Nothing /\ progress = "running"
    BY DEF Init
<1>7. [i \in DOMAIN open |-> open[i].tag] = <<>>
    BY <1>6
<1> QED BY <1>5, <1>6, <1>7 DEF Meaning!Init, GivenUp

(* What is reported is the document with every entity put in place of its  *)
(* reference, whatever the input, its chunks and the limits (io/parse.rs,  *)
(* advance).                                                               *)
THEOREM Refinement == Spec => ReadsTheDocument
<1>1. IInv /\ [Next]_vars => [Meaning!Next]_Meaning!vars
    BY StepMeans DEF Means
<1> QED BY <1>1, Invariant, StartMeans, PTL DEF Spec, ReadsTheDocument, Meaning!Spec
=============================================================================
