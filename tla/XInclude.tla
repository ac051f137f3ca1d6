------------------------------ MODULE XInclude ------------------------------
(***************************************************************************)
(* The transformer of xinclude.rs.  The events of a document pass through  *)
(* it one by one; at an xi:include it reads the resource itself, with a    *)
(* nested source whose events come back to the same transformer, before    *)
(* the event that started it returns.  So the sources at work are a stack, *)
(* the lanes, and every event is read by the last of them.  An element     *)
(* xi:include has a scope from its start to its end, and the innermost     *)
(* scope decides what becomes of an event.                                 *)
(***************************************************************************)
EXTENDS ElementPointer

CONSTANTS
    Works,        \* what a transformer is set to do: see work
    Main,         \* the URI of the document in the pipeline
    NoLimit,
    XmlBase,      \* with_xml_base
    XmlLang       \* with_xml_lang

IsInclude(e) == IsStart(e) /\ e.name = "include"
IsFallback(e) == IsStart(e) /\ e.name = "fallback"

(* What a source reports: elements in their order, within the frame of a   *)
(* document, up to its end or to an error.                                 *)
Reported(D) ==
    /\ D \in Seq(ToSet(D))
    /\ \A i \in DOMAIN D :
         /\ Level(D, i) >= 0
         /\ IsEnd(D[i]) => Level(D, i) > 0
         /\ D[i].kind \in Frame => Level(D, i) = 0
         /\ D[i].kind = "StartDocument" => i = 1
    /\ D # <<>> /\ Last(D).kind # "Malformed" => Level(D, Len(D) + 1) = 0

(* A resource for every URI, and a document in the pipeline. *)
IsLibrary(library) ==
    /\ \A u \in DOMAIN library :
          /\ Reported(library[u].xml) /\ Reported(library[u].text)
          /\ \A i \in DOMAIN library[u].xml :
                IsInclude(library[u].xml[i]) =>
                    \E h \in DOMAIN library \union {"not a URI"} : library[u].xml[i].href \in {{}, {h}}
    /\ Main \in DOMAIN library
    /\ library[Main].xml # <<>> /\ library[Main].xml[1].kind \in {"StartDocument", "Malformed"}

ASSUME XIncludeAssumption ==
    /\ NoLimit \notin Nat
    /\ {XmlBase, XmlLang} \subseteq BOOLEAN
    /\ \A w \in Works :
          /\ IsLibrary(w.library)
          /\ {w.maxDepth, w.maxIncludes} \subseteq Nat \union {NoLimit}
          /\ w.answers \subseteq [flow : {"Continue", "Break", "Error"}, count : Nat]
          /\ w.runs \in Nat \ {0}

(* work: what the resolver holds, a resource for every URI (library), the  *)
(* Limits (maxDepth, maxIncludes), what the consumers behind may answer, a *)
(* flow and an error count (answers), and, a bound of the model, how many  *)
(* documents are read with the transformer (runs).                         *)
VARIABLES
    work,
    lanes,          \* the sources at work, the pipeline's own first
    inclusions,     \* the open scopes, the outermost first
    occurrence,     \* inclusion_occurrence
    root,           \* RootElementConstraints: open elements, and elements at the top
    errorCount,     \* validity_error_count
    stopped,        \* the consumers behind the transformer have had enough
    busy,           \* an event of the pipeline is being processed
    outcome,        \* how the run ended, or "running"
    runs,           \* documents begun
    delivered,      \* history: what the consumers behind were given in this run
    reported,       \* history: the validity errors they reported
    counted         \* history: those returned upstream

state == <<work, lanes, inclusions, occurrence, root, errorCount, stopped, busy, outcome, runs>>
history == <<delivered, reported, counted>>
vars == <<state, history>>

(* A source over a resource read as XML or as text; an XML resource may be *)
(* read through a pointer.                                                 *)
Lane(uri, parse, pointer) ==
    [uri |-> uri,
     parse |-> parse,
     events |-> IF parse = "text" THEN work.library[uri].text ELSE work.library[uri].xml,
     at |-> 1,
     open |-> <<>>,
     pointer |-> pointer,
     selector |-> NewSelector(IF pointer = <<>> THEN [id |-> {}, steps |-> <<1>>] ELSE pointer[1]),
     found |-> FALSE]

NewRoot == [depth |-> 0, elements |-> 0]

Init ==
    /\ work \in Works
    /\ lanes = <<Lane(Main, "xml", <<>>)>>
    /\ inclusions = <<>>
    /\ occurrence = 0
    /\ root = NewRoot
    /\ errorCount = 0
    /\ stopped = FALSE
    /\ busy = FALSE
    /\ outcome = "running"
    /\ runs = 1
    /\ delivered = <<>>
    /\ reported = 0
    /\ counted = 0

-----------------------------------------------------------------------------
lane == Last(lanes)
Event == lane.events[lane.at]
Scope == Last(inclusions)
Nested == Len(lanes) > 1

(* A faulty form: a text is read on although the consumers have stopped. *)
ReadsTextOn ==
    /\ outcome = "running"
    /\ ~stopped \/ lane.parse = "text"
    /\ lane.at \in DOMAIN lane.events
    /\ Nested \/ ~busy

(* The lane whose turn it is reads its next event: a nested one until its  *)
(* end, the pipeline's own when the event before was done with.            *)
Reads ==
    /\ outcome = "running" /\ ~stopped
    /\ lane.at \in DOMAIN lane.events
    /\ Nested \/ ~busy

ReadsXml == Reads /\ lane.parse # "text"

(* The base URI and the language in force at event i of a document. *)
Language(D, i) ==
    LET said == {j \in Elements(D) : j <= i /\ i <= EndOf(D, j) /\ D[j].lang # {}}
    IN IF said = {} THEN "" ELSE CHOOSE l \in D[Max(said)].lang : TRUE

Context == [base |-> lane.uri, lang |-> Language(lane.events, lane.at)]

(* XIncludeValidator: what stands open in a lane, and what may not follow. *)
Violates(open, e) ==
    LET within == IF open = <<>> THEN "other" ELSE Last(open)
    IN \/ /\ IsInclude(e)
          /\ \/ within \in {"include", "include with fallback"}
             \/ e.href = {} /\ e.xpointer = <<>>
             \/ e.parse = "text" /\ e.xpointer # <<>>
             \/ e.parse # "text" /\ e.encoding # {}
             \/ e.parse \notin {"xml", "text"}
       \/ IsFallback(e) /\ within # "include"
       \/ IsStart(e) /\ e.name = "other in the namespace"

Opened(open, e) ==
    IF IsEnd(e) THEN Front(open)
    ELSE IF ~IsStart(e) THEN open
    ELSE IF IsFallback(e) /\ open # <<>>
    THEN Append([open EXCEPT ![Len(open)] = "include with fallback"], "fallback")
    ELSE Append(open, IF e.name = "include" THEN e.name ELSE "other")

(* A lane that has read event e, seen by its validator and its pointer.    *)
Onward(l, e) ==
    [uri |-> l.uri,
     parse |-> l.parse,
     events |-> l.events,
     at |-> l.at + 1,
     open |-> Opened(l.open, e),
     pointer |-> l.pointer,
     selector |-> Filtered(l.selector, e),
     found |-> l.found \/ Picks(l.selector, e)]

Read == [lanes EXCEPT ![Len(lanes)] = Onward(lane, Event)]

Fail(error) ==
    /\ outcome' = error
    /\ UNCHANGED <<work, root, errorCount, stopped, runs, history>>

Malformed ==
    /\ Reads /\ Event.kind = "Malformed"
    /\ Fail("malformed")
    /\ UNCHANGED <<lanes, inclusions, occurrence, busy>>

Invalid ==
    /\ ReadsXml /\ Violates(lane.open, Event)
    /\ Fail("invalid")
    /\ UNCHANGED <<lanes, inclusions, occurrence, busy>>

Valid == ReadsXml /\ Event.kind # "Malformed" /\ ~Violates(lane.open, Event)

(* The pointer of a lane leaves out what it does not select. *)
Selected == lane.pointer = <<>> \/ Event.kind \in Frame \/ Picks(lane.selector, Event)

PassOver ==
    /\ Valid /\ ~Selected
    /\ lanes' = Read
    /\ UNCHANGED <<work, inclusions, occurrence, root, errorCount, stopped, busy, outcome, runs, history>>

(* The innermost scope gives way to another. *)
Rescope(scope) == inclusions' = [inclusions EXCEPT ![Len(inclusions)] = scope]

Turned(scope, behavior) == [scope EXCEPT !.behavior = behavior]

(* A pointer of which no part can be used, or that selected nothing.       *)
PointerError ==
    /\ lane.pointer # <<>>
    /\ \/ Event.kind = "StartDocument" /\ ~lane.pointer[1].ok
       \/ Event.kind = "EndDocument" /\ ~lane.found

(* It is a resource error of the xi:include that gave the pointer. *)
PointerFails ==
    /\ Valid /\ PointerError
    /\ lanes' = Front(lanes)
    /\ Rescope(Turned([Scope EXCEPT !.error = {"xpointer"}], "SeekingFallback"))
    /\ UNCHANGED <<work, occurrence, root, errorCount, stopped, busy, outcome, runs, history>>

(* The event reaches the transformer, and the lane goes on from there.     *)
Receives == Valid /\ Selected /\ ~PointerError
Consumed == Receives /\ lanes' = Read /\ busy' = TRUE

(* What RootElementConstraints refuses where the document element goes.    *)
RootRefuses(e) ==
    /\ root.depth = 0
    /\ \/ IsStart(e) /\ root.elements > 0
       \/ e.kind = "Characters" /\ ~e.blank
       \/ e.kind = "EndDocument" /\ root.elements = 0

RootAfter(e) ==
    CASE IsStart(e) -> [depth |-> root.depth + 1,
                        elements |-> IF root.depth = 0 THEN root.elements + 1 ELSE root.elements]
      [] IsEnd(e) -> [root EXCEPT !.depth = @ - 1]
      [] e.kind = "StartDocument" -> NewRoot
      [] OTHER -> root

(* An element as it goes out, and the context it had where it stands.      *)
Output(e, attributes) ==
    IF IsStart(e)
    THEN [kind |-> e.kind, name |-> e.name, base |-> attributes.base, lang |-> attributes.lang,
          meant |-> Context]
    ELSE e

(* The event goes to the consumers, unless the outcome forbids it there.   *)
Passthrough(e) ==
    \/ RootRefuses(e) /\ Fail("root")
    \/ /\ ~RootRefuses(e)
       /\ root' = RootAfter(e)
       /\ delivered' = Append(delivered, e)
       /\ \E answer \in work.answers :
            /\ stopped' = (answer.flow = "Break")
            /\ outcome' = IF answer.flow = "Error" THEN "consumer" ELSE outcome
            /\ errorCount' = (IF e.kind = "StartDocument" THEN 0 ELSE errorCount) + answer.count
            /\ reported' = reported + answer.count
       /\ UNCHANGED <<work, runs, counted>>

PassthroughAsIs == Passthrough(Output(Event, [base |-> {}, lang |-> Event.lang]))

Drop == UNCHANGED <<work, root, errorCount, stopped, outcome, runs, history>>

(* A StartDocument of the pipeline discards what the last run left behind. *)
StartRun ==
    /\ Consumed
    /\ ~Nested /\ Event.kind = "StartDocument"
    /\ inclusions' = <<>>
    /\ occurrence' = 0
    /\ Passthrough(Event)

Outside ==
    /\ Consumed
    /\ inclusions = <<>> /\ ~IsInclude(Event) /\ Event.kind # "StartDocument"
    /\ IF IsStart(Event) THEN PassthroughAsIs ELSE Passthrough(Event)
    /\ UNCHANGED <<inclusions, occurrence>>

(* The frame of an included document is not part of the result. *)
LeaveOutFrame ==
    /\ Consumed
    /\ inclusions # <<>> /\ Event.kind \in Frame /\ Nested
    /\ Drop
    /\ UNCHANGED <<inclusions, occurrence>>

InScope(behaviors) ==
    /\ Consumed
    /\ inclusions # <<>> /\ Event.kind \notin Frame
    /\ Scope.behavior \in behaviors

Deeper(scope, e) ==
    [scope EXCEPT !.depth = IF IsStart(e) THEN @ + 1 ELSE IF IsEnd(e) THEN @ - 1 ELSE @]

(* A faulty form: a language is kept only where there is one. *)
FixedUpWhereSaid ==
    [base |-> IF XmlBase /\ Context.base # Scope.base THEN {Context.base} ELSE {},
     lang |-> IF XmlLang /\ Context.lang \notin {Scope.lang, ""} THEN {Context.lang} ELSE Event.lang]

(* Tags are compared without case; {"en", "EN"} stands for two such.       *)
SameLanguage(one, other) == one = other \/ {one, other} = {"en", "EN"}

(* The first element of an inclusion says where it came from, where that   *)
(* differs from the place of the xi:include.                               *)
FixedUp ==
    [base |-> IF XmlBase /\ Context.base # Scope.base THEN {Context.base} ELSE {},
     lang |-> IF XmlLang /\ ~SameLanguage(Context.lang, Scope.lang) THEN {Context.lang} ELSE Event.lang]

IncludedElement ==
    /\ InScope({"InclusionInProcessing"})
    /\ IsStart(Event) /\ ~IsInclude(Event)
    /\ Rescope([Deeper(Scope, Event) EXCEPT !.observed = TRUE])
    /\ IF Scope.observed THEN PassthroughAsIs ELSE Passthrough(Output(Event, FixedUp))
    /\ UNCHANGED occurrence

IncludedContent ==
    /\ InScope({"InclusionInProcessing"})
    /\ ~IsStart(Event)
    /\ Rescope(Deeper(Scope, Event))
    /\ IF Event.kind = "Characters" /\ Scope.depth = 0 THEN Drop ELSE Passthrough(Event)
    /\ UNCHANGED occurrence

StartFallback ==
    /\ InScope({"SeekingFallback"})
    /\ IsFallback(Event) /\ Scope.depth = 0
    /\ Rescope(Turned([Deeper(Scope, Event) EXCEPT !.error = {}], "FallbackInProgress"))
    /\ Drop
    /\ UNCHANGED occurrence

FallbackContent ==
    /\ InScope({"FallbackInProgress"})
    /\ ~IsInclude(Event) /\ ~(IsEnd(Event) /\ Scope.depth = 1)
    /\ Rescope(Deeper(Scope, Event))
    /\ IF IsStart(Event) THEN PassthroughAsIs ELSE Passthrough(Event)
    /\ UNCHANGED occurrence

EndFallback ==
    /\ InScope({"FallbackInProgress"})
    /\ IsEnd(Event) /\ Scope.depth = 1
    /\ Rescope(Turned(Deeper(Scope, Event), "IgnoreAll"))
    /\ Drop
    /\ UNCHANGED occurrence

Ignore ==
    /\ InScope({"SeekingFallback", "IgnoreAll"})
    /\ ~(Scope.behavior = "SeekingFallback" /\ IsFallback(Event) /\ Scope.depth = 0)
    /\ ~(IsEnd(Event) /\ Scope.depth = 0)
    /\ Rescope(Deeper(Scope, Event))
    /\ Drop
    /\ UNCHANGED occurrence

(* A faulty form: an XPointer error keeps its kind, and the include around *)
(* it takes it for an error of its own pointer.                            *)
EndIncludeUnconverted ==
    /\ Receives /\ busy' = TRUE
    /\ inclusions # <<>> /\ Scope.behavior \in {"SeekingFallback", "IgnoreAll"}
    /\ IsEnd(Event) /\ Scope.depth = 0
    /\ UNCHANGED occurrence
    /\ IF Nested /\ Scope.error = {"xpointer"}
       THEN /\ lanes' = Front(lanes)
            /\ inclusions' = [Front(inclusions) EXCEPT ![Len(inclusions) - 1] =
                                 [@ EXCEPT !.error = {"xpointer"}, !.behavior = "SeekingFallback"]]
            /\ Drop
       ELSE /\ inclusions' = Front(inclusions)
            /\ lanes' = Read
            /\ IF Scope.error = {} THEN Drop ELSE Fail("resource")

(* The end of the xi:include closes its scope; a resource error that no    *)
(* fallback took is an error of the run, an XPointer error like others.    *)
EndInclude ==
    /\ InScope({"SeekingFallback", "IgnoreAll"})
    /\ IsEnd(Event) /\ Scope.depth = 0
    /\ inclusions' = Front(inclusions)
    /\ IF Scope.error = {} THEN Drop ELSE Fail("resource")
    /\ UNCHANGED occurrence

-----------------------------------------------------------------------------
(* An xi:include that opens a scope: not one in content that is ignored.   *)
StartsInclude ==
    /\ Receives /\ busy' = TRUE
    /\ IsInclude(Event)
    /\ inclusions # <<>> => Scope.behavior \in {"InclusionInProcessing", "FallbackInProgress"}

TooDeep ==
    /\ StartsInclude
    /\ work.maxDepth # NoLimit /\ Len(inclusions) >= work.maxDepth
    /\ Fail("limit")
    /\ lanes' = Read
    /\ UNCHANGED <<inclusions, occurrence>>

Counted ==
    /\ StartsInclude
    /\ work.maxDepth # NoLimit => Len(inclusions) < work.maxDepth
    /\ occurrence' = occurrence + 1

TooMany ==
    /\ Counted
    /\ work.maxIncludes # NoLimit /\ occurrence' > work.maxIncludes
    /\ Fail("limit")
    /\ lanes' = Read
    /\ UNCHANGED inclusions

Permitted == Counted /\ (work.maxIncludes # NoLimit => occurrence' <= work.maxIncludes)

BadUri ==
    /\ Permitted
    /\ Event.href = {"not a URI"}
    /\ Fail("uri")
    /\ lanes' = Read
    /\ UNCHANGED inclusions

Target == IF Event.href = {} THEN lane.uri ELSE CHOOSE u \in Event.href : TRUE

NewScope(behavior, error) ==
    [uri |-> Target, xpointer |-> Event.xpointer, base |-> lane.uri, lang |-> Context.lang,
     observed |-> FALSE, depth |-> 0, error |-> error, behavior |-> behavior,
     element |-> <<Len(lanes), lane.at>>]

(* Errors that are found before the chain of inclusions is looked at. *)
Unusable == Event.href = {} \/ (Event.xpointer # <<>> /\ ~Event.xpointer[1].parses)

(* A faulty form: only the innermost inclusion is compared. *)
LoopsDirectly ==
    /\ inclusions # <<>>
    /\ Scope.behavior = "InclusionInProcessing"
    /\ Scope.uri = Target /\ Scope.xpointer = Event.xpointer

(* The same part of the same resource is being included already. *)
Loops ==
    \E i \in DOMAIN inclusions :
        /\ inclusions[i].behavior = "InclusionInProcessing"
        /\ inclusions[i].uri = Target /\ inclusions[i].xpointer = Event.xpointer

Unavailable == ~work.library[Target].available \/ Event.encoding = {"unsupported"}

FindLoop ==
    /\ Permitted
    /\ Event.href # {"not a URI"} /\ ~Unusable /\ Loops
    /\ Fail("loop")
    /\ lanes' = Read
    /\ UNCHANGED inclusions

ResourceError ==
    /\ Permitted
    /\ Event.href # {"not a URI"}
    /\ Unusable \/ (~Loops /\ Unavailable)
    /\ inclusions' = Append(inclusions, NewScope("SeekingFallback",
                         IF Event.href # {} /\ Unusable THEN {"xpointer"} ELSE {"resource"}))
    /\ lanes' = Read
    /\ Drop

Open ==
    /\ Permitted
    /\ Event.href # {"not a URI"} /\ ~Unusable /\ ~Loops /\ ~Unavailable
    /\ inclusions' = Append(inclusions, NewScope("InclusionInProcessing", {}))
    /\ lanes' = Append(Read, Lane(Target, Event.parse, Event.xpointer))
    /\ Drop

(* A text goes out in fragments as it is, past the scopes. *)
IncludeText ==
    /\ Reads /\ lane.parse = "text" /\ Event.kind = "Characters"
    /\ lanes' = Read
    /\ Passthrough(Event)
    /\ UNCHANGED <<inclusions, occurrence, busy>>

(* The nested source is done, or was stopped: include returns. *)
Included ==
    /\ outcome = "running" /\ Nested
    /\ stopped \/ lane.at \notin DOMAIN lane.events
    /\ lanes' = Front(lanes)
    /\ Rescope(Turned(Scope, "IgnoreAll"))
    /\ UNCHANGED <<work, occurrence, root, errorCount, stopped, busy, outcome, runs, history>>

(* A faulty form: the count is returned again with the next event. *)
ReturnAgain ==
    /\ outcome = "running" /\ busy /\ ~Nested
    /\ busy' = FALSE
    /\ counted' = counted + errorCount
    /\ outcome' = CASE lane.at \notin DOMAIN lane.events -> "Completed"
                    [] stopped /\ lane.at \in DOMAIN lane.events -> "Stopped"
                    [] ~stopped /\ lane.at \in DOMAIN lane.events -> "running"
    /\ UNCHANGED <<work, lanes, inclusions, occurrence, root, errorCount, stopped, runs, delivered,
                   reported>>

(* consume returns to the pipeline, with the errors found meanwhile; after *)
(* EndDocument the pipeline asks no more whether anyone has stopped.       *)
Return ==
    /\ outcome = "running" /\ busy /\ ~Nested
    /\ busy' = FALSE
    /\ counted' = counted + errorCount
    /\ errorCount' = 0
    /\ outcome' = CASE lane.at \notin DOMAIN lane.events -> "Completed"
                    [] stopped /\ lane.at \in DOMAIN lane.events -> "Stopped"
                    [] ~stopped /\ lane.at \in DOMAIN lane.events -> "running"
    /\ UNCHANGED <<work, lanes, inclusions, occurrence, root, stopped, runs, delivered, reported>>

(* Another document is read with the same transformer, however the last    *)
(* run ended.                                                              *)
NextDocument ==
    /\ outcome # "running" /\ runs < work.runs
    /\ runs' = runs + 1
    /\ lanes' = <<Lane(Main, "xml", <<>>)>>
    /\ stopped' = FALSE
    /\ busy' = FALSE
    /\ outcome' = "running"
    /\ delivered' = <<>>
    /\ reported' = 0
    /\ counted' = 0
    /\ UNCHANGED <<work, inclusions, occurrence, root, errorCount>>

(* Nothing is left to do after the last run. *)
Done == outcome # "running" /\ runs = work.runs /\ UNCHANGED vars

Including == TooDeep \/ TooMany \/ BadUri \/ FindLoop \/ ResourceError \/ Open
Scoped == IncludedElement \/ IncludedContent \/ StartFallback \/ FallbackContent \/ EndFallback
          \/ Ignore \/ EndInclude

Next ==
    \/ Malformed \/ Invalid \/ PassOver \/ PointerFails
    \/ StartRun \/ Outside \/ LeaveOutFrame \/ Scoped
    \/ Including \/ IncludeText \/ Included \/ Return
    \/ NextDocument \/ Done

Spec == Init /\ [][Next]_vars

-----------------------------------------------------------------------------
(* Between the StartDocument of a run and its end. *)
InRun == outcome = "running" /\ ~stopped /\ lanes[1].at > 1

Processing == {i \in DOMAIN inclusions : inclusions[i].behavior = "InclusionInProcessing"}

(* The elements that have begun before event i and have not ended.         *)
StillOpen(D, i) ==
    {p \in Elements(D) :
        /\ p < i
        /\ \A j \in (p + 1)..(i - 1) : ~(IsEnd(D[j]) /\ Level(D, j) = Level(D, p) + 1)}

OpenIncludes(l) == {p \in StillOpen(l.events, l.at) : IsInclude(l.events[p])}

(* The scopes that are being included are the nested sources at work, in   *)
(* order, and no two of them read the same part of the same resource: that *)
(* is why comparing with those scopes finds every loop (include, 4.2.7),   *)
(* and why what is open is bounded where no limit is set.  A scope is open *)
(* exactly as long as its element: it belongs to a source at work, whose   *)
(* xi:include has begun and not ended, and while one is open there is a    *)
(* scope for it or for the one around it (IncludeScope).  The limits bound *)
(* both (Limits).                                                          *)
ChainIsWhatIsRead ==
    InRun =>
        /\ \A i \in Processing : LET k == inclusions[i].element[1] + 1 IN
             /\ k \in DOMAIN lanes
             /\ inclusions[i].uri = lanes[k].uri /\ inclusions[i].xpointer = lanes[k].pointer
        /\ \A k \in 2..Len(lanes) : \E i \in Processing : inclusions[i].element[1] + 1 = k
        /\ \A i, j \in Processing : i < j => inclusions[i].element[1] < inclusions[j].element[1]
        /\ \A i, j \in Processing :
             <<inclusions[i].uri, inclusions[i].xpointer>> = <<inclusions[j].uri, inclusions[j].xpointer>>
             => i = j
        /\ \A i \in DOMAIN inclusions :
             LET k == inclusions[i].element[1]
             IN k \in DOMAIN lanes /\ inclusions[i].element[2] \in OpenIncludes(lanes[k])
        /\ \A k \in DOMAIN lanes :
             lanes[k].pointer = <<>> /\ OpenIncludes(lanes[k]) # {} =>
                 \E i \in DOMAIN inclusions : inclusions[i].element = <<k, Min(OpenIncludes(lanes[k]))>>
        /\ work.maxDepth # NoLimit => Len(inclusions) <= work.maxDepth
        /\ work.maxIncludes # NoLimit => occurrence <= work.maxIncludes

(* Once the consumers have had enough they are given nothing more, however *)
(* deeply the sources at work are nested (Dispatcher::is_stopped).         *)
QuietOnceStopped == [][stopped /\ runs' = runs => delivered' = delivered]_vars

(* Every validity error found behind the transformer, for whatever source, *)
(* is returned upstream once (validity_error_count).                       *)
ErrorsReachUpstream ==
    /\ reported = counted + errorCount \/ lanes[1].at = 1
    /\ outcome \in {"Completed", "Stopped"} => counted = reported

(* The base URI and the language that an element has for the consumers.    *)
BaseBehind(i) ==
    LET said == {j \in Elements(delivered) :
                    j <= i /\ i <= EndOf(delivered, j) /\ delivered[j].base # {}}
    IN IF said = {} THEN Main ELSE CHOOSE b \in delivered[Max(said)].base : TRUE

KeepsContext ==
    outcome = "Completed" =>
        \A i \in Elements(delivered) :
            /\ BaseBehind(i) = delivered[i].meant.base
            /\ SameLanguage(Language(delivered, i), delivered[i].meant.lang)

(* No xi:include says a language itself, or stands where the first element *)
(* of its document goes.                                                   *)
PlainPlaces ==
    \A u \in DOMAIN work.library : LET D == work.library[u].xml IN
        \A i \in Elements(D) : IsInclude(D[i]) => D[i].lang = {} /\ (u = Main \/ Level(D, i) > 0)

(* Where included elements stand in an element of their own document, each *)
(* keeps the base URI and the language it had there (fixup_attributes).    *)
KeepsContextInPlace == PlainPlaces /\ XmlBase /\ XmlLang => KeepsContext

=============================================================================
