---------------------------- MODULE EntityReader ----------------------------
(***************************************************************************)
(* The pull parser of io/parse.rs over its stack of entities               *)
(* (io/parse/entity.rs), driven by StreamSource (io/read.rs): the driver   *)
(* calls advance, and answers its requests for input and for entities.     *)
(* AsyncReader (io/read/async_reader.rs) is the same driver with the reads *)
(* and the resolver awaited; a call dropped while it waits spends it.      *)
(*                                                                         *)
(* A document is a sequence of tokens, and so is the text of an entity.    *)
(* Input arrives in units, two to a token, so that a chunk can end in the  *)
(* middle of one; characters are counted in units too.  What is wrong      *)
(* inside a single token, and the content of the DTD, are left out: a      *)
(* token of kind "bad" stands for the first, and input says which entities *)
(* the second declares.                                                    *)
(***************************************************************************)
EXTENDS Integers, Sequences, SequencesExt

CONSTANTS
    Names,            \* the names of general entities
    Tags,             \* the names of elements
    Doc,              \* the document entity
    Nothing,          \* None
    NoLimit,          \* a limit that is not set
    Inputs,           \* the documents read, with the limits set for each
    TextFragment,     \* ParserConfig.text_fragment_len, in text tokens
    ReadBuffer        \* bound: the units one read can return

Limits == Nat \union {NoLimit}

ASSUME ReaderAssumption ==
    /\ Doc \notin Names /\ Nothing \notin Names \union {Doc}
    /\ NoLimit \notin Int
    /\ TextFragment \in Nat
    /\ \A in \in Inputs :
          in.limits \in [depth : Limits, expansions : Limits, chars : Limits, elementDepth : Limits]
    /\ ReadBuffer \in Nat \ {0}

Below(n, limit) == limit # NoLimit => n < limit
AtMost(n, limit) == limit # NoLimit => n <= limit

Text == [kind |-> "text"]        \* character data
Space == [kind |-> "space"]      \* character data that is whitespace only
Misc == [kind |-> "misc"]        \* a comment or a processing instruction
CData == [kind |-> "cdata"]
Doctype == [kind |-> "doctype"]
Decl == [kind |-> "decl"]        \* the text declaration of an external entity
Bad == [kind |-> "bad"]          \* a token that breaks a rule of its own
Ref(n) == [kind |-> "ref", name |-> n]
Start(t, value, empty) == [kind |-> "start", tag |-> t, value |-> value, empty |-> empty]
End(t) == [kind |-> "end", tag |-> t]

IsData(t) == t.kind \in {"text", "space"}

Data == {Text, Space}
Refs == {Ref(n) : n \in Names}
Starts == [kind : {"start"}, tag : Tags, value : Seq(Data \union Refs \union {Bad}), empty : BOOLEAN]
Tokens == Data \union Refs \union Starts \union {Misc, CData, Doctype, Decl, Bad} \union {End(t) : t \in Tags}
Entities == Names \union {Doc}
Requests == [kind : {"general"}, name : Names] \union [kind : {"subset", "parameter"}, name : {Nothing}]

(* input: the tokens of the document and of each entity (body), how each   *)
(* entity is declared (sort) and which only outside the document           *)
(* (inSubset), whether the DOCTYPE names an external subset (subset), how  *)
(* many external parameter entities the DTD refers to (pes), the           *)
(* standalone declaration (standalone), and the EntityLimits: entities     *)
(* open at once, entities expanded and characters they expand to, with     *)
(* DocumentLimits.max_element_depth.                                       *)
ASSUME InputsAssumption ==
    /\ Nothing \notin Tokens \union Requests
    /\ \A in \in Inputs :
          /\ in.body \in [Entities -> Seq(Tokens)]
          /\ in.sort \in [Names -> {"internal", "external", "unparsed", "undeclared"}]
          /\ in.inSubset \subseteq Names /\ in.pes \in Nat
          /\ in.subset \in BOOLEAN /\ in.standalone \in BOOLEAN

VARIABLES
    input,
    stack,       \* EntityStack.entities: what is read, how much arrived and was read
    expansions,
    chars,       \* expansion_chars
    open,        \* the open elements
    phase,       \* "Prolog", "Content" or "Epilog"
    endPending,  \* end_pending
    pending,     \* pending_text
    held,        \* the markup held back while the text before it is reported
    request,     \* pending_entity
    declPending, \* entity_text_decl_pending
    starting,    \* the start tag whose attribute value is being expanded
    values,      \* expanding, with what is left of each replacement text
    dtd,         \* "none", "subset" (to be fetched), "reading" or "complete"
    subsetRead,  \* the external subset was read
    pes,         \* the external parameter entities read
    sources,     \* StreamSource.source, and above it the readers of streamed entities
    finished,    \* StreamSource.finished: the document was read to its end
    event,       \* the token reported
    progress     \* what advance returned, or "running"

streams == <<stack, expansions, chars>>
tree == <<open, phase, endPending>>
texts == <<pending, held>>
values_ == <<starting, values>>
dtds == <<dtd, subsetRead, pes>>
asking == <<request, declPending>>
driver == <<sources, finished>>
outcome == <<event, progress>>

vars == <<input, streams, tree, texts, asking, values_, dtds, driver, outcome>>

Top == Last(stack)
Body(e) == input.body[e]
Arrived(f) == f.got - 2 * f.read
NextToken(f) == Body(f.ent)[f.read + 1]
Units(tokens) == 2 * Len(tokens)

(* An entity whose text is at hand, and one about to be streamed.  nth is  *)
(* a history field: which expansion this is.                               *)
Whole(e, nth) ==
    [ent |-> e, read |-> 0, got |-> Units(Body(e)), ended |-> TRUE, nth |-> nth]
Streamed(e, nth) ==
    [ent |-> e, read |-> 0, got |-> 0, ended |-> FALSE, nth |-> nth]

Init ==
    /\ input \in Inputs
    /\ stack = <<Streamed(Doc, 0)>>
    /\ expansions = 0 /\ chars = 0
    /\ open = <<>> /\ phase = "Prolog" /\ endPending = FALSE
    /\ pending = <<>> /\ held = Nothing
    /\ request = Nothing /\ declPending = FALSE
    /\ starting = Nothing /\ values = <<>>
    /\ dtd = "none" /\ subsetRead = FALSE /\ pes = 0
    /\ sources = <<[ent |-> Doc, sent |-> 0]>> /\ finished = FALSE
    /\ event = Nothing /\ progress = "running"

Stop(how) == progress' = how /\ UNCHANGED event
Refuse == Stop("refused")
Report(t) == event' = t /\ progress' = "token"
GoOn == UNCHANGED outcome

-----------------------------------------------------------------------------
(* What a token does once it is interpreted.  Each of these leaves the     *)
(* entity stack, the held token and the requests to its caller.            *)

DtdActive == dtd \in {"subset", "reading"}

MiscToken(t) ==
    /\ \/ t.kind = "misc"
       \/ t.kind = "cdata" /\ phase = "Content"
    /\ Report(t)
    /\ UNCHANGED <<tree, values_, dtds>>

(* The DTD is set up to be read; the event comes when it is complete. *)
DoctypeToken(t) ==
    /\ t.kind = "doctype" /\ phase = "Prolog" /\ dtd = "none"
    /\ dtd' = IF input.subset THEN "subset" ELSE "reading"
    /\ GoOn
    /\ UNCHANGED <<tree, values_, subsetRead, pes>>

(* A start tag first has the references in its attribute value expanded. *)
StartToken(t) ==
    /\ t.kind = "start" /\ phase # "Epilog"
    /\ \/ /\ Below(Len(open), input.limits.elementDepth)
          /\ starting' = t
          /\ values' = <<[name |-> Nothing, rest |-> t.value]>>
          /\ phase' = "Content"
          /\ GoOn
       \/ /\ ~Below(Len(open), input.limits.elementDepth)
          /\ Stop("limit")
          /\ UNCHANGED <<phase, values_>>
    /\ UNCHANGED <<open, endPending, dtds>>

(* A faulty form: the document is not over with its last element. *)
CloseElementOnly ==
    /\ open' = Front(open)
    /\ UNCHANGED phase

CloseElement ==
    /\ open' = Front(open)
    /\ phase' = IF Len(open) = 1 THEN "Epilog" ELSE phase

Matches(t) ==
    /\ open # <<>>
    /\ Last(open).tag = t.tag
    /\ Last(open).depth = Len(stack)

EndToken(t) ==
    /\ t.kind = "end" /\ Matches(t)
    /\ CloseElement
    /\ Report(t)
    /\ UNCHANGED <<endPending, values_, dtds>>

RefuseToken(t) ==
    /\ \/ t.kind \in {"bad", "decl"}
       \/ t.kind = "cdata" /\ phase # "Content"
       \/ t.kind = "doctype" /\ (phase # "Prolog" \/ dtd # "none")
       \/ t.kind = "start" /\ phase = "Epilog"
       \/ t.kind = "end" /\ ~Matches(t)
    /\ Refuse
    /\ UNCHANGED <<tree, values_, dtds>>

Interpret(t) ==
    MiscToken(t) \/ DoctypeToken(t) \/ StartToken(t) \/ EndToken(t) \/ RefuseToken(t)

-----------------------------------------------------------------------------
(* References.                                                             *)

Declared(n) ==
    /\ dtd = "complete"
    /\ input.sort[n] # "undeclared"
    /\ n \in input.inSubset => subsetRead /\ ~input.standalone

Open == {stack[i].ent : i \in 1..Len(stack)}

(* EntityStack::push and count_expansion. *)
CanCount(units) == Below(expansions, input.limits.expansions) /\ AtMost(chars + units, input.limits.chars)

(* A faulty form: what is expanded is not counted. *)
CountExpansion(units) ==
    /\ expansions' = expansions + 1
    /\ UNCHANGED chars

Count(units) ==
    /\ expansions' = expansions + 1
    /\ chars' = chars + units

CanPush(n, units) == Below(Len(stack), input.limits.depth) /\ CanCount(units)

(* The open entity after the reference in it was read. *)
Consumed == [stack EXCEPT ![Len(stack)].read = @ + 1]

(* The loop of advance, past what it looks at first. *)
Running == progress = "running" /\ starting = Nothing

(* A faulty form: the text declaration is left for later. *)
ScanningPastDeclaration == Running /\ ~DtdActive /\ ~endPending /\ held = Nothing

Scanning == Running /\ ~DtdActive /\ ~endPending /\ held = Nothing /\ ~declPending

AtToken == Scanning /\ Arrived(Top) >= 2

ScanReference(n) ==
    /\ AtToken /\ NextToken(Top) = Ref(n)
    /\ UNCHANGED <<input, tree, texts, declPending, values_, dtds, driver>>

Includes(n) == phase = "Content" /\ Declared(n)

RefuseReference(n) ==
    /\ ScanReference(n)
    /\ \/ ~Includes(n)
       \/ input.sort[n] = "unparsed"
       \/ input.sort[n] = "internal" /\ n \in Open
    /\ Refuse
    /\ UNCHANGED <<streams, request>>

(* The replacement text is read where the reference stood.  The text       *)
(* before it stays pending: what reached a fragment was reported with the  *)
(* token it came in, so the flush_if_full that follows has nothing to do.  *)
IncludeInternal(n) ==
    /\ ScanReference(n) /\ Includes(n)
    /\ input.sort[n] = "internal" /\ n \notin Open
    /\ \/ /\ CanPush(n, Units(Body(n)))
          /\ Count(Units(Body(n)))
          /\ stack' = Append(Consumed, Whole(n, expansions'))
          /\ GoOn
       \/ /\ ~CanPush(n, Units(Body(n)))
          /\ Stop("limit")
          /\ UNCHANGED streams
    /\ UNCHANGED request

RequestExternal(n) ==
    /\ ScanReference(n) /\ Includes(n)
    /\ input.sort[n] = "external"
    /\ stack' = Consumed
    /\ request' = [kind |-> "general", name |-> n]
    /\ Stop("entity")
    /\ UNCHANGED <<expansions, chars>>

-----------------------------------------------------------------------------
(* expand_at and expand_general_in_attribute: the attribute value, and the *)
(* replacement texts open in it, each with what is left to expand.         *)

Expanding == progress = "running" /\ starting # Nothing
Rest == Last(values).rest
Nested == {values[i].name : i \in 2..Len(values)}
RestRead == [values EXCEPT ![Len(values)].rest = Tail(@)]
AtReference(n) == Expanding /\ Rest # <<>> /\ Head(Rest) = Ref(n)

Expandable(n) == Declared(n) /\ input.sort[n] = "internal" /\ n \notin Nested

ExpandData ==
    /\ Expanding /\ Rest # <<>> /\ IsData(Head(Rest))
    /\ values' = RestRead
    /\ GoOn
    /\ UNCHANGED <<input, streams, tree, texts, asking, starting, dtds, driver>>

ExpandReference(n) ==
    /\ AtReference(n) /\ Expandable(n)
    /\ LET units == Units(Body(n))
           allowed == Below(Len(values) - 1, input.limits.depth) /\ CanCount(units)
       IN \/ /\ allowed
             /\ Count(units)
             /\ values' = Append(RestRead, [name |-> n, rest |-> Body(n)])
             /\ GoOn
          \/ /\ ~allowed
             /\ Stop("limit")
             /\ UNCHANGED <<expansions, chars, values>>
    /\ UNCHANGED <<input, stack, tree, texts, asking, starting, dtds, driver>>

(* Markup may not appear in an attribute value, nor an entity that is not  *)
(* internal, nor one within itself.                                        *)
RefuseValue ==
    /\ Expanding /\ Rest # <<>> /\ ~IsData(Head(Rest))
    /\ \A n \in Names : Head(Rest) = Ref(n) => ~Expandable(n)
    /\ Refuse
    /\ UNCHANGED <<input, streams, tree, texts, asking, values_, dtds, driver>>

EndReplacement ==
    /\ Expanding /\ Rest = <<>> /\ Len(values) > 1
    /\ values' = Front(values)
    /\ GoOn
    /\ UNCHANGED <<input, streams, tree, texts, asking, starting, dtds, driver>>

(* The value is complete and the element opens. *)
OpenElement ==
    /\ Expanding /\ Rest = <<>> /\ Len(values) = 1
    /\ open' = Append(open, [tag |-> starting.tag, depth |-> Len(stack), nth |-> Top.nth])
    /\ endPending' = starting.empty
    /\ starting' = Nothing /\ values' = <<>>
    /\ Report(starting)
    /\ UNCHANGED <<input, streams, phase, texts, asking, dtds, driver>>

ExpandValue ==
    \/ ExpandData \/ RefuseValue \/ EndReplacement \/ OpenElement
    \/ \E n \in Names : ExpandReference(n)

-----------------------------------------------------------------------------
(* advance: what an earlier call left over comes first.                    *)

Advance ==
    /\ progress = "token"
    /\ event' = Nothing /\ progress' = "running"
    /\ UNCHANGED <<input, streams, tree, texts, asking, values_, dtds, driver>>

EmptyEnd ==
    /\ Running /\ ~DtdActive /\ endPending
    /\ endPending' = FALSE
    /\ CloseElement
    /\ Report(End(Last(open).tag))
    /\ UNCHANGED <<input, streams, texts, asking, values_, dtds, driver>>

InterpretHeld ==
    /\ Running /\ ~DtdActive /\ ~endPending /\ held # Nothing
    /\ held' = Nothing
    /\ Interpret(held)
    /\ UNCHANGED <<input, streams, pending, asking, driver>>

(* drive_dtd: the external subset is fetched first, then each external     *)
(* parameter entity the DTD refers to, and then it is complete.            *)
DriveDtd ==
    /\ Running /\ DtdActive
    /\ \/ /\ dtd = "subset"
          /\ dtd' = "reading"
          /\ request' = [kind |-> "subset", name |-> Nothing]
          /\ Stop("entity")
       \/ /\ dtd = "reading" /\ pes < input.pes
          /\ request' = [kind |-> "parameter", name |-> Nothing]
          /\ Stop("entity")
          /\ UNCHANGED dtd
       \/ /\ dtd = "reading" /\ pes = input.pes
          /\ dtd' = "complete"
          /\ Report(Doctype)
          /\ UNCHANGED request
    /\ UNCHANGED <<input, streams, tree, texts, declPending, values_, subsetRead, pes, driver>>

(* The text declaration of a streamed entity is stepped over.  What has    *)
(* arrived of another token may still look like the start of one.          *)
TextDeclaration ==
    /\ Running /\ ~DtdActive /\ ~endPending /\ held = Nothing /\ declPending
    /\ \/ /\ Arrived(Top) < 2 /\ ~Top.ended
          /\ Stop("input")
          /\ UNCHANGED <<stack, declPending>>
       \/ /\ Top.ended \/ Arrived(Top) > 0
          /\ Arrived(Top) > 0 => NextToken(Top) # Decl
          /\ declPending' = FALSE
          /\ GoOn /\ UNCHANGED stack
       \/ /\ Arrived(Top) >= 2 /\ NextToken(Top) = Decl
          /\ declPending' = FALSE
          /\ stack' = Consumed
          /\ GoOn
    /\ UNCHANGED <<input, expansions, chars, tree, texts, request, values_, dtds, driver>>

-----------------------------------------------------------------------------
(* advance: one token of the innermost entity.                             *)

Full(p) == p # <<>> /\ Len(p) >= TextFragment

Placed(p) == phase = "Content" \/ \A i \in 1..Len(p) : p[i] = Space

(* flush_text with p as the pending text. *)
FlushText(p) ==
    \/ /\ Placed(p)
       /\ pending' = <<>>
       /\ Report([kind |-> "run", text |-> p])
    \/ /\ ~Placed(p)
       /\ pending' = p
       /\ Refuse

AddText(p) ==
    \/ ~Full(p) /\ pending' = p /\ GoOn
    \/ Full(p) /\ FlushText(p)

ScanText ==
    /\ AtToken /\ IsData(NextToken(Top))
    /\ stack' = Consumed
    /\ AddText(Append(pending, NextToken(Top)))
    /\ UNCHANGED <<input, expansions, chars, tree, held, asking, values_, dtds, driver>>

(* Markup ends a run of text: the text is reported, the markup held. *)
ScanMarkup ==
    /\ AtToken
    /\ ~IsData(NextToken(Top)) /\ NextToken(Top).kind # "ref"
    /\ stack' = Consumed
    /\ \/ /\ pending = <<>>
          /\ Interpret(NextToken(Top))
          /\ UNCHANGED texts
       \/ /\ pending # <<>>
          /\ held' = NextToken(Top)
          /\ FlushText(pending)
          /\ UNCHANGED <<tree, values_, dtds>>
    /\ UNCHANGED <<input, expansions, chars, asking, driver>>

NeedMoreInput ==
    /\ Scanning /\ Arrived(Top) < 2 /\ ~Top.ended
    /\ Stop("input")
    /\ UNCHANGED <<input, streams, tree, texts, asking, values_, dtds, driver>>

Drained == Scanning /\ Arrived(Top) = 0 /\ Top.ended

(* The entity is read; the one that refers to it goes on. *)
LeaveEntity ==
    /\ Drained /\ Len(stack) > 1
    /\ stack' = Front(stack)
    /\ GoOn
    /\ UNCHANGED <<input, expansions, chars, tree, texts, asking, values_, dtds, driver>>

Finish ==
    /\ Drained /\ Len(stack) = 1
    /\ \/ pending # <<>> /\ FlushText(pending)
       \/ /\ pending = <<>>
          /\ IF open # <<>> \/ phase = "Prolog" THEN Refuse ELSE Stop("eof")
          /\ UNCHANGED pending
    /\ UNCHANGED <<input, streams, tree, held, asking, values_, dtds, driver>>

-----------------------------------------------------------------------------
(* StreamSource: resolve_entity and fill.                                  *)

(* A general entity is opened empty, to be streamed by fill. *)
BeginEntity ==
    /\ progress = "entity" /\ request.kind = "general"
    /\ request' = Nothing
    /\ LET n == request.name
       IN \/ /\ n \notin Open /\ CanPush(n, 0)
             /\ Count(0)
             /\ stack' = Append(stack, Streamed(n, expansions'))
             /\ declPending' = TRUE
             /\ sources' = Append(sources, [ent |-> n, sent |-> 0])
             /\ progress' = "running" /\ UNCHANGED event
          \/ /\ n \in Open \/ ~CanPush(n, 0)
             /\ IF n \in Open THEN Refuse ELSE Stop("limit")
             /\ UNCHANGED <<streams, declPending, sources>>
    /\ UNCHANGED <<input, tree, texts, values_, dtds, finished>>

(* The other kinds are read whole and become part of the DTD. *)
ProvideEntity ==
    /\ progress = "entity" /\ request.kind # "general"
    /\ request' = Nothing
    /\ \/ request.kind = "subset" /\ subsetRead' = TRUE /\ UNCHANGED pes
       \/ request.kind = "parameter" /\ pes' = pes + 1 /\ UNCHANGED subsetRead
    /\ progress' = "running"
    /\ UNCHANGED <<input, streams, tree, texts, declPending, values_, dtd, driver, event>>

(* The resolver has no such entity: only the external subset can be        *)
(* done without.                                                           *)
DeclineEntity ==
    /\ progress = "entity"
    /\ request' = Nothing
    /\ IF request.kind = "subset" THEN progress' = "running" ELSE progress' = "lost"
    /\ UNCHANGED <<input, streams, tree, texts, declPending, values_, dtds, driver, event>>

(* The resolver or a reader fails, or the call that awaits it is dropped:  *)
(* the reader is not used again.                                           *)
InputFails ==
    /\ progress \in {"entity", "input"}
    /\ Stop("lost")
    /\ UNCHANGED <<input, streams, tree, texts, asking, values_, dtds, driver>>

InDocument == Len(sources) = 1
Unsent == Units(Body(Last(sources).ent)) - Last(sources).sent

(* A faulty form: the end of the input is not passed on. *)
NeverLast(n) == FALSE

IsLast(n) == n = 0

(* A read returns what it likes, and nothing only at the end.  The chunk   *)
(* goes to the innermost entity the parser has open.                       *)
Fill ==
    /\ progress = "input"
    /\ InDocument => ~finished
    /\ \E n \in 0..ReadBuffer :
          /\ n <= Unsent /\ (n = 0 <=> Unsent = 0)
          /\ stack' = [stack EXCEPT ![Len(stack)].got = @ + n, ![Len(stack)].ended = IsLast(n)]
          /\ chars' = IF Top.ent = Doc THEN chars ELSE chars + n
          /\ sources' = IF IsLast(n) /\ ~InDocument THEN Front(sources)
                        ELSE [sources EXCEPT ![Len(sources)].sent = @ + n]
          /\ finished' = IF InDocument THEN IsLast(n) ELSE finished
    /\ IF AtMost(chars', input.limits.chars) THEN progress' = "running" ELSE progress' = "limit"
    /\ UNCHANGED <<input, expansions, tree, texts, asking, values_, dtds, event>>

Parse ==
    \/ Advance \/ EmptyEnd \/ InterpretHeld \/ DriveDtd \/ TextDeclaration
    \/ ScanText \/ ScanMarkup \/ NeedMoreInput \/ LeaveEntity \/ Finish
    \/ ExpandValue
    \/ \E n \in Names : RefuseReference(n) \/ IncludeInternal(n) \/ RequestExternal(n)

Drive == BeginEntity \/ ProvideEntity \/ DeclineEntity \/ InputFails \/ Fill

Next == Parse \/ Drive

Spec == Init /\ [][Next]_vars

(* The caller pulls on, the parser's loop runs, and the readers and the    *)
(* resolver answer.                                                        *)
FairSpec == Spec /\ WF_vars(Next)

-----------------------------------------------------------------------------
(* What is left of an entity, its text declaration apart, and of the       *)
(* document: what was taken and not reported yet, then the open entities   *)
(* from the innermost out.                                                 *)
Left(f) ==
    LET body == Body(f.ent)
        declared == f.read = 0 /\ f.ent # Doc /\ input.sort[f.ent] = "external"
    IN IF declared /\ body # <<>> /\ body[1] = Decl
       THEN Tail(body) ELSE SubSeq(body, f.read + 1, Len(body))

Owed ==
    IF endPending THEN <<End(Last(open).tag)>>
    ELSE IF held # Nothing THEN <<held>>
    ELSE IF starting # Nothing THEN <<starting>>
    ELSE IF DtdActive THEN <<Doctype>>
    ELSE IF request # Nothing /\ request.kind = "general" THEN <<Ref(request.name)>>
    ELSE <<>>

(* Texts read from the innermost, which is the last, out. *)
InsideOut(parts) == FoldLeft(LAMBDA later, part : part \o later, <<>>, parts)

Todo == InsideOut([i \in DOMAIN stack |-> Left(stack[i])])

GivenUp == progress \in {"refused", "limit", "lost"}

(* The events reported are those of the document with every entity put in  *)
(* place of its reference: nothing is lost, repeated or out of order,      *)
(* however the input arrives and whatever text or markup is held back      *)
(* (io/parse.rs, advance).                                                 *)
Meaning == INSTANCE Inclusion WITH
    todo <- Owed \o Todo,
    run <- pending,
    open <- [i \in DOMAIN open |-> open[i].tag],
    status <- IF progress = "eof" THEN "complete" ELSE IF GivenUp THEN "given up" ELSE "reading"

ReadsTheDocument == Meaning!Spec

(* The readers the driver keeps are those of the entities whose input has  *)
(* not all arrived, in the order the parser has them open; so what is read *)
(* goes to the entity it belongs to, and input is never asked for past its *)
(* end (io/read.rs, fill: the two Error::internal).  A request reaches the *)
(* driver from the call that raised it, before any text that follows is    *)
(* scanned, and a text declaration is looked for in one entity at a time,  *)
(* before anything of it is read (io/parse.rs, outstanding and             *)
(* entity_text_decl_pending).                                              *)
Reader(f) == [ent |-> f.ent, sent |-> f.got]
Joined(parts) == FoldLeft(LAMBDA whole, part : whole \o part, <<>>, parts)
LiveReaders == Joined([i \in DOMAIN stack |-> IF stack[i].ended THEN <<>> ELSE <<Reader(stack[i])>>])

FeedsWhatIsRead ==
    ~GivenUp =>
        /\ LiveReaders = IF finished THEN Tail(sources) ELSE sources
        /\ progress = "input" => ~Top.ended
        /\ request # Nothing => progress = "entity"
        /\ declPending =>
              /\ Top.ent # Doc /\ input.sort[Top.ent] = "external" /\ Top.read = 0
              /\ request = Nothing /\ held = Nothing /\ starting = Nothing

(* The limits bound what is at work at any time: an attribute value and    *)
(* the entity stack are limited apart and counted together, and nothing    *)
(* is expanded that was not counted (io/parse/entity.rs).  The document    *)
(* entity is open whatever the limit.                                      *)
Total(counts) == FoldLeft(LAMBDA sum, c : sum + c, 0, counts)
ExpandedUnits ==
    Total([i \in DOMAIN stack |-> IF stack[i].ent = Doc THEN 0 ELSE stack[i].got])
    + Total([i \in DOMAIN values |-> IF values[i].name = Nothing THEN 0 ELSE Units(values[i].rest)])

WithinLimits ==
    progress # "limit" =>
        /\ Len(stack) > 1 => AtMost(Len(stack), input.limits.depth)
        /\ AtMost(Len(values) - 1, input.limits.depth)
        /\ AtMost(expansions, input.limits.expansions) /\ AtMost(chars, input.limits.chars)
        /\ ExpandedUnits <= chars
        /\ AtMost(Len(open), input.limits.elementDepth)

(* A document is read to its end, refused or lost, entities that refer to  *)
(* themselves included, with no limit set.                                 *)
ReadEnds == <>(progress = "eof" \/ GivenUp)

-----------------------------------------------------------------------------
(* What the properties rest on. *)
Frames == [ent : Entities, read : Nat, got : Nat, ended : BOOLEAN, nth : Nat]
Sources == [ent : Entities, sent : Nat]
OpenElements == [tag : Tags, depth : Nat, nth : Nat]
OpenValues == [name : Names \union {Nothing}, rest : Seq(Tokens)]
Events == Tokens \union {Nothing} \union [kind : {"run"}, text : Seq(Data)]
Outcomes == {"running", "token", "input", "entity", "eof", "refused", "limit", "lost"}

TypeOK ==
    /\ input \in Inputs
    /\ stack \in Seq(Frames) /\ expansions \in Nat /\ chars \in Nat
    /\ open \in Seq(OpenElements)
    /\ phase \in {"Prolog", "Content", "Epilog"} /\ endPending \in BOOLEAN
    /\ pending \in Seq(Data) /\ held \in Tokens \union {Nothing}
    /\ request \in Requests \union {Nothing} /\ declPending \in BOOLEAN
    /\ starting \in Starts \union {Nothing}
    /\ values \in Seq(OpenValues)
    /\ dtd \in {"none", "subset", "reading", "complete"}
    /\ subsetRead \in BOOLEAN /\ pes \in Nat
    /\ sources \in Seq(Sources) /\ finished \in BOOLEAN
    /\ event \in Events
    /\ progress \in Outcomes

IsExternal(e) == e \in Names /\ input.sort[e] = "external"
Undeclared(e) == Body(e) # <<>> => Body(e)[1] # Decl

(* An entity is read no further than it has arrived, and past its text     *)
(* declaration unless that is about to be looked for.                      *)
FramesFit ==
    /\ stack # <<>> /\ stack[1].ent = Doc /\ sources # <<>>
    /\ \A i \in 2..Len(stack) :
          stack[i].ent \in Names /\ input.sort[stack[i].ent] \in {"internal", "external"}
    /\ \A i \in 1..Len(stack) : LET f == stack[i] IN
          /\ 2 * f.read <= f.got /\ f.got <= Units(Body(f.ent))
          /\ f.ended => f.got = Units(Body(f.ent))
          /\ IsExternal(f.ent) /\ f.read = 0 => (declPending /\ i = Len(stack)) \/ Undeclared(f.ent)

(* At most one thing is held back, and no text before it. *)
OneAtATime ==
    ~GivenUp =>
        /\ endPending => open # <<>> /\ pending = <<>> /\ held = Nothing /\ starting = Nothing
        /\ held # Nothing => pending = <<>> /\ starting = Nothing
        /\ starting # Nothing => pending = <<>> /\ Below(Len(open), input.limits.elementDepth)
        /\ DtdActive => pending = <<>> /\ ~endPending /\ held = Nothing /\ starting = Nothing /\ ~declPending
        /\ request # Nothing => ~endPending /\ held = Nothing /\ starting = Nothing
        /\ request # Nothing => (request.kind = "general" <=> ~DtdActive)
        /\ request # Nothing /\ request.kind = "general" => input.sort[request.name] = "external"
        /\ progress = "entity" => request # Nothing

IInv ==
    /\ TypeOK
    /\ FramesFit
    /\ OneAtATime
    /\ starting # Nothing <=> values # <<>>
    /\ FeedsWhatIsRead
    /\ WithinLimits

(* What the comment on OpenElement::entity_depth says (io/parse.rs): "an   *)
(* element cannot start in one entity and end in another".  Only the depth *)
(* is compared, and two entities can be read at the same depth.            *)
EndsWhereItStarted ==
    [][Len(open') < Len(open) => Last(open).nth = Top.nth]_vars
=============================================================================
