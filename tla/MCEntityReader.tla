--------------------------- MODULE MCEntityReader ---------------------------
(* EntityReader on documents with the general entities a and b, with a     *)
(* reference definition of which of them are to be accepted, and, with its *)
(* limits set, on documents whose entities a to d multiply.                *)
EXTENDS EntityReader, FiniteSets

R(value, empty) == Start("r", value, empty)
X(value, empty) == Start("x", value, empty)
Simple == R(<<>>, FALSE)

(* Documents that use their entities, and documents that do not. *)
RefDocs == {
    <<Space, Doctype, Simple, Text, Ref("a"), Text, End("r"), Space>>,
    <<Doctype, Simple, Ref("a"), Ref("b"), End("r")>>,
    <<Doctype, Simple, X(<<Ref("a")>>, TRUE), X(<<>>, FALSE), Ref("b"), End("x"), End("r")>> }
PlainDocs == {
    <<Misc, Simple, Text, Text, CData, X(<<Text>>, TRUE), End("r"), Misc>>,
    <<Simple, Ref("a"), End("r")>>,
    <<Doctype, Ref("a"), Simple, End("r")>>,
    <<Space, Text, Simple, End("r")>>,
    <<Simple, End("r"), Text>>,
    <<Simple, Doctype, End("r")>>,
    <<Doctype, Doctype, Simple, End("r")>>,
    <<R(<<>>, TRUE), R(<<>>, TRUE)>>,
    <<CData, Simple, End("r")>>,
    <<Simple, X(<<>>, FALSE), End("r")>>,
    <<Simple, Text>>,
    <<Misc, Space>> }

As == { <<>>, <<Text>>, <<X(<<>>, FALSE)>>, <<X(<<>>, FALSE), End("x")>>,
        <<Decl, Text, Ref("b")>>, <<Ref("b"), X(<<Ref("b")>>, TRUE)>>, <<Ref("a")>> }
Bs == { <<Text>>, <<End("x")>>, <<Text, Ref("a")>>, <<Decl, X(<<>>, TRUE)>>, <<Text, Bad>> }

Setting(a, b, outside, subset, entities, standalone) ==
    [sort |-> [n \in Names |-> CASE n = "a" -> a [] n = "b" -> b [] OTHER -> "undeclared"],
     inSubset |-> outside,
     subset |-> subset, pes |-> entities, standalone |-> standalone]
Settings == {
    Setting("internal", "internal", {}, FALSE, 0, FALSE),
    Setting("external", "internal", {}, FALSE, 1, FALSE),
    Setting("external", "external", {}, FALSE, 0, FALSE),
    Setting("internal", "internal", {"b"}, TRUE, 1, FALSE) }
MoreSettings == {
    Setting("internal", "internal", {"b"}, TRUE, 0, TRUE),
    Setting("internal", "unparsed", {}, FALSE, 0, FALSE),
    Setting("external", "undeclared", {}, TRUE, 0, FALSE) }

Unlimited == [depth |-> NoLimit, expansions |-> NoLimit, chars |-> NoLimit, elementDepth |-> NoLimit]

Document(doc, a, b, setting) ==
    [body |-> [e \in Names \union {Doc} |->
                  CASE e = Doc -> doc [] e = "a" -> a [] e = "b" -> b [] OTHER -> <<>>],
     sort |-> setting.sort, inSubset |-> setting.inSubset, subset |-> setting.subset,
     pes |-> setting.pes, standalone |-> setting.standalone, limits |-> Unlimited]

PlainInputs ==
    { Document(doc, a, b, s) : doc \in RefDocs, a \in As, b \in Bs, s \in Settings }
    \union { Document(doc, <<Text, Ref("b")>>, <<Text>>, s) : doc \in RefDocs, s \in MoreSettings }
    \union { Document(doc, <<Text>>, <<Text>>, s) : doc \in PlainDocs, s \in Settings }

(* c is text, b refers to c twice and a to b, in content and in attributes. *)
MultiplyingDocs ==
    LET Within(content) == <<Doctype, Simple>> \o content \o <<End("r")>>
        Attr(n) == X(<<Text, Ref(n)>>, TRUE)
    IN { Within(<<Ref("a")>>), Within(<<Ref("b"), Ref("c"), Ref("c")>>),
         Within(<<Ref("c"), Attr("b")>>), Within(<<Attr("a")>>), Within(<<Attr("c"), Ref("b")>>),
         Within(<<Ref("c"), Ref("c")>>), Within(<<Simple, Simple, End("r"), End("r")>>),
         Within(<<Ref("d")>>) }

LimitedInputs ==
    { [body |-> [e \in Names \union {Doc} |->
                    CASE e = Doc -> doc
                      [] e = "a" -> <<Ref("b")>>
                      [] e = "b" -> <<Ref("c"), Ref("c")>>
                      [] e = "c" -> <<Text, Text>>
                      [] e = "d" -> <<Ref("b"), X(<<Ref("a")>>, TRUE)>>],
       sort |-> [n \in Names |-> IF n \in external THEN "external" ELSE "internal"],
       inSubset |-> {}, subset |-> FALSE, pes |-> 0, standalone |-> FALSE,
       limits |-> [depth |-> 3, expansions |-> 4, chars |-> 13, elementDepth |-> 2]]
      : doc \in MultiplyingDocs, external \in {{}, {"a"}, {"c"}, {"b", "d"}} }

AllInputs == PlainInputs \union LimitedInputs

-----------------------------------------------------------------------------
(* The reference: a document is written out with its entities in place,    *)
(* each token with the number of entities it stands in, and the whole is   *)
(* then checked from left to right.                                        *)
Available(in, read, n) ==
    /\ in.sort[n] # "undeclared"
    /\ n \in in.inSubset => read /\ ~in.standalone

RECURSIVE ValueAllowed(_, _, _, _)
ValueAllowed(in, read, value, within) ==
    \A i \in DOMAIN value :
        \/ IsData(value[i])
        \/ /\ value[i].kind = "ref"
           /\ LET n == value[i].name
              IN /\ Available(in, read, n) /\ in.sort[n] = "internal" /\ n \notin within
                 /\ ValueAllowed(in, read, in.body[n], within \union {n})

RECURSIVE WrittenOut(_, _, _, _)
WrittenOut(in, read, tokens, within) ==
    IF tokens = <<>> THEN <<>>
    ELSE LET t == Head(tokens)
             depth == Cardinality(within) + 1
             n == t.name
             body == in.body[n]
             text == IF in.sort[n] = "external" /\ body # <<>> /\ body[1] = Decl
                     THEN Tail(body) ELSE body
             first == IF t.kind # "ref" THEN <<[token |-> t, depth |-> depth]>>
                      ELSE <<[token |-> t, depth |-> depth]>> \o
                           (IF /\ Available(in, read, n) /\ n \notin within
                               /\ in.sort[n] # "unparsed"
                            THEN WrittenOut(in, read, text, within \union {n})
                            ELSE <<[token |-> Bad, depth |-> depth]>>)
         IN first \o WrittenOut(in, read, Tail(tokens), within)

Begun == [ok |-> TRUE, phase |-> "Prolog", doctype |-> FALSE, open |-> <<>>]

Check(in, read, s, piece) ==
    LET t == piece.token
        closes == /\ t.kind = "end" /\ s.open # <<>>
                  /\ Last(s.open) = [tag |-> t.tag, depth |-> piece.depth]
        starts == /\ t.kind = "start" /\ s.phase # "Epilog"
                  /\ ValueAllowed(in, read, t.value, {})
                  /\ t.value # <<>> /\ t.value[1].kind = "ref" => s.doctype
        allowed ==
            \/ t.kind \in {"misc", "space"}
            \/ t.kind \in {"text", "cdata"} /\ s.phase = "Content"
            \/ t.kind = "ref" /\ s.phase = "Content" /\ s.doctype
            \/ t.kind = "doctype" /\ s.phase = "Prolog" /\ ~s.doctype
            \/ starts
            \/ closes
        left == IF closes THEN Front(s.open)
                ELSE IF t.kind = "start" /\ ~t.empty
                     THEN Append(s.open, [tag |-> t.tag, depth |-> piece.depth]) ELSE s.open
    IN [ok |-> s.ok /\ allowed,
        phase |-> IF t.kind \notin {"start", "end"} THEN s.phase
                  ELSE IF left = <<>> THEN "Epilog" ELSE "Content",
        doctype |-> s.doctype \/ t.kind = "doctype",
        open |-> left]

WellFormed(in, read) ==
    LET end == FoldLeft(LAMBDA s, piece : Check(in, read, s, piece), Begun,
                        WrittenOut(in, read, in.body[Doc], {}))
    IN end.ok /\ end.open = <<>> /\ end.phase = "Epilog"

(* A document is read to its end exactly when the reference accepts it,    *)
(* whatever the chunks; it depends on the external subset only by what it  *)
(* declares (io/parse.rs, finish and the errors of the token handlers).    *)
AgreesWithReference ==
    /\ progress = "eof" => WellFormed(input, subsetRead)
    /\ progress = "refused" => ~WellFormed(input, subsetRead)
=============================================================================
