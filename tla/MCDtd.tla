------------------------------- MODULE MCDtd -------------------------------
(* Small DTDs, put together from declarations and references to parameter  *)
(* entities in every order, in both subsets and in fetched resources.      *)
EXTENDS DtdReading

TheNames == {"a", "b", "x", "y", "p", "q", "r", "s", "EMPTY", "ANY", "INCLUDE", "IGNORE", "CDATA", "ID", "v", "w", "xml"}
ThePeNames == [t \in {"%p;", "%q;", "%r;"} |-> CASE t = "%p;" -> "p" [] t = "%q;" -> "q" [] t = "%r;" -> "r"]
TheGeNames == [t \in {"&x;", "&y;"} |-> IF t = "&x;" THEN "x" ELSE "y"]
TheCharRefs == [t \in {"&#34;", "&#39;", "&#37;r;"} |-> CASE t = "&#34;" -> "\"" [] t = "&#39;" -> "'" [] t = "&#37;r;" -> "%r;"]

(* Declarations.                                                           *)
Quoted(value) == <<"\"">> \o value \o <<"\"">>
Entity(name, def) == <<"<!ENTITY", " ", name, " ">> \o def \o <<">">>
Pe(name, def) == <<"<!ENTITY", " ", "%", " ", name, " ">> \o def \o <<">">>
System(id) == <<"SYSTEM", " ">> \o Quoted(<<id>>)
Element(name, spec) == <<"<!ELEMENT", " ", name, " ">> \o spec \o <<">">>
AttlistDecl(element, defs) == <<"<!ATTLIST", " ", element>> \o defs \o <<">">>
Section(keyword, body) == <<"<![">> \o keyword \o <<"[">> \o body \o <<"]]>">>

P(value) == Pe("p", Quoted(value))
Q == Pe("q", System("s"))
UseP == <<"%p;">>
UseQ == <<"%q;">>
A == Element("a", <<"EMPTY">>)
X == Entity("x", Quoted(<<"v">>))

(* Text for the entity that has to be fetched: whole declarations, parts   *)
(* of one, quotes, nothing, and an entity of the same name elsewhere.      *)
Texts == { A, <<"EMPTY">>, <<"a">>, <<"v", "\"", "'", "w">>, <<>>, <<"<!ELEMENT", " ", "a">>, <<"%p;">>, <<"INCLUDE">>,
           Entity("x", System("t")) \o AttlistDecl("b", <<" ", "x", " ", "CDATA", " ", "#IMPLIED">>),
           Pe("r", System("s")) \o <<"%r;">> \o X, Pe("p", Quoted(<<"b">>)) \o <<"<!--", "%p;", "-->">> }
World(text) ==
    [id \in {<<"doc", "s">>, <<"ext", "s">>, <<"u1", "s">>, <<"u2", "s">>} |->
        CASE id = <<"doc", "s">> -> [uri |-> "u1", text |-> text]
          [] id = <<"ext", "s">> -> [uri |-> "u2", text |-> text]
          [] id = <<"u1", "s">> -> [uri |-> "u3", text |-> Entity("y", System("t"))]
          [] id = <<"u2", "s">> -> [uri |-> "u4", text |-> Entity("y", Quoted(<<"w">>))]]

Scene(internal, external, subset, resolver, text) ==
    [internal |-> internal, external |-> external, subset |-> subset, resolver |-> resolver, world |-> World(text)]

UpTo(n, bits) == {FlattenSeq(bit) : bit \in SeqOf(bits, n)}

(* In the internal subset references stand between declarations.           *)
Inside == {Scene(<<>> \o i, e, e # <<>>, "answers", text) :
              i \in {head \o tail : head \in {Q, P(A) \o Q}, tail \in UpTo(2, {UseP, UseQ, X, Section(<<"IGNORE">>, A)})},
              e \in {<<>>, UseP, Entity("x", System("t"))}, text \in Texts}

(* In external text they stand inside declarations, too.                   *)
Parts == { Element("a", UseQ), Element("b", <<"(", "%q;", "|", "b", ")", "*">>), Entity("y", <<"'", "v", "%q;", "%p;", "'">>),
           Section(UseP, A), Section(<<" ", "%q;", " ">>, X), AttlistDecl("a", <<" ", "%p;", " ", "CDATA", " ", "\"", "v", "\"">>),
           UseQ, UseP, P(<<"b">>), <<"%q;", " ", "EMPTY", ">">>, Section(<<"IGNORE">>, UseQ \o Section(<<"x">>, UseP)) }
Outside == {Scene(i, head \o part, TRUE, "answers", text) :
              i \in {<<>>, P(<<"INCLUDE">>)}, head \in {P(<<"a">>) \o Q, Q \o P(<<"&#37;r;">>) },
              part \in UpTo(2, Parts), text \in Texts}

Refused == {Scene(<<>>, Q \o UseQ \o UseQ, TRUE, resolver, A) : resolver \in {"fails", "none"}}
             \union {Scene(Pe("q", System("t")) \o UseQ, <<>>, FALSE, "answers", A)}

(* An entity whose text is empty, before other references.                 *)
Bare == {Scene(P(<<>>) \o Q \o i, <<>>, FALSE, "answers", A) : i \in UpTo(2, {UseP, UseQ, X})}

TheScenes == Inside \union Outside \union Refused \union Bare

Init == ReadingInit
Next == ReadingNext
Spec == Init /\ [][Next]_readingVars /\ Driven
=============================================================================
