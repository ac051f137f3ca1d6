---------------------------- MODULE WriterSource ----------------------------
(***************************************************************************)
(* io/write/source.rs: an application writes a document by calls, and the  *)
(* source makes events of them for the consumers attached to it.  A call   *)
(* goes through the functions it is made of: start_document (begin),       *)
(* flush_start (flush), what the call itself does (act), and, when a run   *)
(* ends, the notice of how it did (finish).                                *)
(*                                                                         *)
(* Attached are an XmlWriter behind StrictXmlConstraints ("checked"), the  *)
(* two with a wrapper that lets any CDATA section pass the checks          *)
(* ("lenient"), a writer alone ("bare"), or one consumer that has had      *)
(* enough at some event ("early").                                         *)
(***************************************************************************)
EXTENDS XmlWriter

VARIABLES
    asked,       \* what is attached, and how the writer is set up
    step,        \* Step: Before, Writing, Stopped, Ended, Failed; or Dropped
    openNames,   \* the elements open
    startTag,    \* the name of the start tag being written, if there is one
    attributes,  \* its attributes
    call, stage, \* the call in progress and what of it is next
    writer       \* the XmlWriter

VARIABLES phase, seenDoctype, open, bindings, last  \* the StrictXmlConstraints

VARIABLES        \* history
    heard,       \* the events every consumer accepted
    told,        \* the outcomes they were told
    heardBefore, \* how many events they had heard then
    granted,     \* the calls that returned Ok and were not ignored
    answer,      \* what the last call returned
    refusals     \* how many calls returned a consumer's error

strictVars == <<phase, seenDoctype, open, bindings, last>>
sourceVars == <<asked, step, openNames, startTag, attributes, call, stage>>
writeHistory == <<heard, told, heardBefore, granted, answer, refusals>>
writeVars == <<sourceVars, writer, strictVars, writeHistory>>

Xml == Ascii("xml")
Xmlns == Ascii("xmlns")
XmlNs == Ascii("http://www.w3.org/XML/1998/namespace")
XmlnsNs == Ascii("http://www.w3.org/2000/xmlns/")

Strict == INSTANCE StrictXml WITH
    PrefixNames <- {Xml, Xmlns}, None <- <<>>, Names <- {XmlNs, XmlnsNs},
    Locals <- {}, Events <- {}, MaxOpen <- 100

-----------------------------------------------------------------------------
(* chars.rs *)
IsNcNameStart(c) ==
    \/ c \in Letters \/ c = 95 \/ c \in 192..214 \/ c \in 216..246 \/ c \in 248..767
    \/ c \in 880..893 \/ c \in 895..8191 \/ c \in 8204..8205 \/ c \in 8304..8591
    \/ c \in 11264..12271 \/ c \in 12289..55295 \/ c \in 63744..64975 \/ c \in 65008..65533
    \/ c \in 65536..983039
IsNcNameChar(c) ==
    \/ IsNcNameStart(c) \/ c \in 48..57 \/ c \in {45, 46, 183}
    \/ c \in 768..879 \/ c \in 8255..8256

IsNcName(s) == s # <<>> /\ IsNcNameStart(s[1]) /\ \A k \in DOMAIN s : IsNcNameChar(s[k])
IsName(s) ==
    /\ s # <<>> /\ (IsNcNameStart(s[1]) \/ s[1] = 58)
    /\ \A k \in DOMAIN s : IsNcNameChar(s[k]) \/ s[k] = 58

IsPubidChar(c) ==
    c \in {Space, Cr, Lf} \/ c \in Letters \/ c \in 48..57 \/ Contains(Ascii("-'()+,./:=?;!*#@$_%"), c)

(* name_of and split_qname: a name that is not a QName is left whole. *)
NameOf(qualified, ns) ==
    LET colon == Find(qualified, Ascii(":"))
        prefix == SubSeq(qualified, 1, colon - 1)
        local == From(qualified, colon + 1)
    IN IF colon # 0 /\ IsNcName(prefix) /\ IsNcName(local)
       THEN [prefix |-> prefix, local |-> local, ns |-> ns]
       ELSE [prefix |-> <<>>, local |-> qualified, ns |-> ns]

-----------------------------------------------------------------------------
(* The events, with what strict.rs checks of the characters of each.       *)
AllChars(text) == \A k \in DOMAIN text : IsChar(text[k])
IsQName(name) == (name.prefix = <<>> \/ IsNcName(name.prefix)) /\ IsNcName(name.local)

GoodAttribute(a) ==
    /\ IsQName(a) /\ AllChars(a.value)
    /\ a.prefix = Xml /\ a.local = Ascii("space") => a.value \in {Ascii("default"), Ascii("preserve")}

Declares(a) == a.prefix = Xmlns \/ (a.prefix = <<>> /\ a.local = Xmlns)
Declaration(a) == [prefix |-> IF a.prefix = Xmlns THEN a.local ELSE <<>>, ns |-> a.value]

StartElementEvent(name, atts) ==
    LET declarations == SelectSeq(atts, Declares)
        expanded == {<<atts[k].ns, atts[k].local>> : k \in DOMAIN atts}
    IN [ kind |-> "StartElement", prefix |-> name.prefix, local |-> name.local, ns |-> name.ns,
         attributes |-> atts,
         decls |-> [k \in DOMAIN declarations |-> Declaration(declarations[k])],
         attrs |-> SelectSeq(atts, LAMBDA a : ~Declares(a)),
         good |-> /\ IsQName(name) /\ \A k \in DOMAIN atts : GoodAttribute(atts[k])
                  /\ Cardinality(expanded) = Len(atts) ]

EndElementEvent(name) ==
    [ kind |-> "EndElement", prefix |-> name.prefix, local |-> name.local, ns |-> name.ns,
      good |-> IsQName(name) ]

GoodDoctype(c) ==
    /\ IsName(c.name)
    /\ c.publicId # <<>> => c.systemId # <<>> /\ \A k \in DOMAIN c.publicId : IsPubidChar(c.publicId[k])
    /\ ~(Contains(c.systemId, DoubleQuote) /\ Contains(c.systemId, SingleQuote))
    /\ AllChars(c.systemId)

GoodText(c) ==
    /\ AllChars(c.text)
    /\ c.kind = "Cdata" => Find(c.text, Ascii("]]>")) = 0 \/ asked.attached = "lenient"
    /\ c.kind = "Comment" => Find(c.text \o Ascii("-"), Ascii("--")) = 0
    /\ c.kind = "ProcessingInstruction" =>
          IsName(c.target) /\ Lower(c.target) # Xml /\ Find(c.text, Ascii("?>")) = 0

ContentEvent(c) ==
    c @@
    [ good |-> IF c.kind = "Doctype" THEN GoodDoctype(c) ELSE GoodText(c),
      blank |-> c.kind = "Characters" /\ \A k \in DOMAIN c.text : c.text[k] \in XmlBlank ]

Boundary(kind) == [kind |-> kind, good |-> TRUE]

-----------------------------------------------------------------------------
(* What the consumers make of an event. *)
Checks == asked.attached \in {"checked", "lenient"}

(* The verdict, for an event that passed the checks or not and a writer    *)
(* that is then as it is in after; enough is what having enough counts as. *)
Verdict(e, passes, after, enough) ==
    CASE asked.attached = "early" /\ e.kind = asked.breaksAt -> enough
      [] ~passes \/ ~Working(after) -> "Refused"
      [] OTHER -> "Continue"

Quiet == UNCHANGED <<strictVars, writer, heard>>

(* The call is over.  One that was ignored, because nobody listens any     *)
(* more, has not been granted.                                             *)
Return(result) ==
    /\ stage' = "idle"
    /\ answer' = result
    /\ granted' = IF result = "ok" /\ step # "Stopped" THEN Append(granted, call) ELSE granted

(* settle: a verdict that ends the run is followed by the notice of it. *)
Settle(verdict, from, next) ==
    /\ step' = CASE verdict = "Continue" -> from [] verdict = "Break" -> "Stopped" [] OTHER -> "Failed"
    /\ refusals' = IF verdict = "Refused" THEN refusals + 1 ELSE refusals
    /\ stage' = IF verdict = "Continue" THEN next ELSE "finish"

Deliver(e, after, verdict, from, next) ==
    /\ IF Checks THEN (Strict!Accept(e) \/ Strict!Refuse(e)) ELSE UNCHANGED strictVars
    /\ writer' = after
    /\ heard' = IF verdict = "Refused" THEN heard ELSE Append(heard, e)
    /\ Settle(verdict, from, next)

DeliverTo(e, passes, after, from, next, enough) ==
    Deliver(e, after, Verdict(e, passes, after, enough), from, next)

(* report, up to what the call does with the verdict. *)
Dispatch(e, from, next, enough) ==
    \E passes \in {~Checks \/ Strict!Accepts(e)} :
        DeliverTo(e, passes, IF passes /\ asked.attached # "early" THEN Written(asked, writer, e) ELSE writer,
                  from, next, enough)

(* What is next after start_document and flush_start. *)
AfterBegin == IF call.kind = "Doctype" THEN "act" ELSE IF call.kind = "StartDocument" THEN "return" ELSE "flush"

-----------------------------------------------------------------------------
WriterInit ==
    /\ step = "Before"
    /\ openNames = <<>> /\ startTag = <<>> /\ attributes = <<>>
    /\ call = Boundary("none") /\ stage = "idle"
    /\ writer = NewWriter
    /\ Strict!Init
    /\ heard = <<>> /\ told = <<>> /\ heardBefore = 0
    /\ granted = <<>> /\ answer = "none" /\ refusals = 0

(* A call of the source; an attribute begins nothing. *)
Call(c) ==
    /\ stage = "idle" /\ step # "Dropped"
    /\ call' = c
    /\ stage' = IF c.kind = "Attribute" THEN "act" ELSE "begin"
    /\ UNCHANGED <<asked, step, openNames, startTag, attributes, writer, strictVars, writeHistory>>

(* start_document *)
BeginDocument ==
    /\ stage = "begin"
    /\ UNCHANGED <<asked, openNames, startTag, attributes, call, told, heardBefore>>
    /\ \/ /\ step \in {"Ended", "Failed"}
          /\ Return("misuse") /\ Quiet /\ UNCHANGED <<step, refusals>>
       \/ /\ step \in {"Stopped", "Writing"}
          /\ stage' = AfterBegin
          /\ Quiet /\ UNCHANGED <<step, refusals, granted, answer>>
       \/ /\ step = "Before"
          /\ Dispatch(Boundary("StartDocument"), "Writing", AfterBegin, "Break")
          /\ UNCHANGED <<granted, answer>>

(* flush_start *)
FlushStart ==
    /\ stage = "flush"
    /\ startTag' = <<>>
    /\ UNCHANGED <<asked, call, told, heardBefore, granted, answer>>
    /\ IF startTag = <<>> \/ step = "Stopped"
       THEN stage' = "act" /\ Quiet /\ UNCHANGED <<step, openNames, attributes, refusals>>
       ELSE /\ Dispatch(StartElementEvent(startTag[1], attributes), step, "act", "Break")
            /\ openNames' = Append(openNames, startTag[1])
            /\ attributes' = <<>>

Acting(kinds) == stage = "act" /\ call.kind \in kinds /\ UNCHANGED <<asked, call, told, heardBefore>>
Taking == step = "Writing"

(* taking_writes: what comes too late is ignored or refused. *)
TooLate ==
    /\ stage = "act" /\ step \in {"Stopped", "Ended", "Failed"}
    /\ Return(IF step = "Stopped" THEN "ok" ELSE "misuse")
    /\ Quiet /\ UNCHANGED <<asked, step, openNames, startTag, attributes, call, told, heardBefore, refusals>>

(* write_start_element_ns *)
WriteStart ==
    /\ Acting({"Start"}) /\ Taking
    /\ startTag' = << NameOf(call.name, call.ns) >>
    /\ Return("ok")
    /\ Quiet /\ UNCHANGED <<step, openNames, attributes, refusals>>

(* write_attribute_ns *)
WriteAttributeCall ==
    /\ Acting({"Attribute"}) /\ step \in {"Before", "Writing"}
    /\ IF startTag = <<>> THEN Return("misuse") /\ UNCHANGED attributes
       ELSE Return("ok") /\ attributes' = Append(attributes, NameOf(call.name, call.ns) @@ [value |-> call.value])
    /\ Quiet /\ UNCHANGED <<step, openNames, startTag, refusals>>

(* write_doctype, write_characters and the others that report one event. *)
WriteContent ==
    /\ Acting({"Doctype", "Characters", "Cdata", "Comment", "ProcessingInstruction"}) /\ Taking
    /\ Dispatch(ContentEvent(call), step, "return", "Break")
    /\ UNCHANGED <<openNames, startTag, attributes, granted, answer>>

(* write_end_element *)
WriteEnd ==
    /\ Acting({"End"}) /\ Taking
    /\ UNCHANGED <<startTag, attributes>>
    /\ IF openNames = <<>>
       THEN Return("misuse") /\ Quiet /\ UNCHANGED <<step, openNames, refusals>>
       ELSE /\ openNames' = Front(openNames)
            /\ Dispatch(EndElementEvent(Last(openNames)), step, "return", "Break")
            /\ UNCHANGED <<granted, answer>>

(* A faulty form: a consumer that has had enough at the end stops the run. *)
EndLikeAnyOther ==
    /\ Acting({"EndDocument"}) /\ Taking
    /\ Dispatch(Boundary("EndDocument"), "Ended", "finish", "Break")
    /\ UNCHANGED <<openNames, startTag, attributes, granted, answer>>

(* end_document: a consumer that has had enough at the end has accepted it. *)
EndDocument ==
    /\ Acting({"EndDocument"}) /\ Taking
    /\ Dispatch(Boundary("EndDocument"), "Ended", "finish", "Continue")
    /\ UNCHANGED <<openNames, startTag, attributes, granted, answer>>

(* Dispatcher::finish.  The call that ended the run returns the error, or  *)
(* goes on with nobody listening.                                          *)
FinishRun ==
    LET outcome == CASE step = "Ended" -> "Completed" [] step = "Dropped" -> "Abandoned" [] OTHER -> step
    IN /\ stage = "finish"
       /\ told' = Append(told, outcome)
       /\ heardBefore' = Len(heard)
       /\ IF Checks THEN Strict!Finish ELSE UNCHANGED strictVars
       /\ stage' = IF step = "Dropped" THEN "idle" ELSE "return"
       /\ UNCHANGED <<asked, step, openNames, startTag, attributes, call, writer, heard, granted, answer, refusals>>

ReturnFromCall ==
    /\ stage = "return"
    /\ Return(IF step = "Failed" THEN "refused" ELSE "ok")
    /\ UNCHANGED <<asked, step, openNames, startTag, attributes, call, writer, strictVars,
                   heard, told, heardBefore, refusals>>

(* The source is dropped: a run that is going on has been given up. *)
Drop ==
    /\ stage = "idle" /\ step # "Dropped"
    /\ stage' = IF step = "Writing" THEN "finish" ELSE "idle"
    /\ step' = "Dropped"
    /\ UNCHANGED <<asked, openNames, startTag, attributes, call, writer, strictVars, writeHistory>>

WriteStep ==
    \/ BeginDocument \/ FlushStart \/ TooLate \/ WriteStart \/ WriteAttributeCall
    \/ WriteContent \/ WriteEnd \/ EndDocument \/ FinishRun \/ ReturnFromCall

(* The consumers are told once how the run ended, hear nothing after it,   *)
(* and it is what happened: Completed when they have all accepted the end  *)
(* of the document, Failed when a call returned an error of theirs         *)
(* (io/write/source.rs, settle, end_document; event.rs, Dispatcher).       *)
OutcomeMatchesTheRun ==
    /\ Len(told) <= 1
    /\ told # <<>> => Len(heard) = heardBefore
    /\ stage = "idle" =>
          /\ told = <<>> <=> step \in {"Before", "Writing"} \/ (step = "Dropped" /\ heard = <<>>)
          /\ told = <<"Completed">> <=> heard # <<>> /\ Last(heard).kind = "EndDocument"
          /\ told = <<"Failed">> <=> refusals = 1
=============================================================================
