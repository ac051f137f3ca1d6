------------------------------ MODULE XmlWriter -----------------------------
(***************************************************************************)
(* io/write/writer.rs and escape.rs: the consumer that writes each event   *)
(* out as markup, in the encoding asked for.  A writer is a record that    *)
(* the operations below take to the next one; an error is final.           *)
(*                                                                         *)
(* A text is a sequence of code points; no prefix, no name and no          *)
(* identifier are the empty one.                                           *)
(***************************************************************************)
EXTENDS Encodings

NewWriter == [out |-> <<>>, open |-> <<>>, pending |-> FALSE, error |-> "none"]

Working(w) == w.error = "none"
Failing(w, error) == IF Working(w) THEN [w EXCEPT !.error = error] ELSE w

(* put and put_with_references; asked is how the writer was set up. *)
Put(asked, w, text) ==
    CASE ~Working(w) -> w
      [] Encodable(asked.encoder, text) -> [w EXCEPT !.out = @ \o Encode(asked.encoder, text)]
      [] OTHER -> Failing(w, "Encoding")

PutWithReferences(asked, w, text) ==
    IF Working(w) THEN [w EXCEPT !.out = @ \o EncodeWithReferences(asked.encoder, text)] ELSE w

(* Several pieces of markup and text, one after the other. *)
PutAll(asked, w, texts) == FoldLeft(LAMBDA v, text : Put(asked, v, text), w, texts)

Lexical(prefix, local) == IF prefix = <<>> THEN local ELSE prefix \o Ascii(":") \o local

-----------------------------------------------------------------------------
(* escape.rs *)
Replacing(text, Escape(_)) == FlattenSeq([k \in DOMAIN text |-> Escape(text[k])])

EscapedText(text) ==
    Replacing(text, LAMBDA c :
        CASE c = 38 -> Ascii("&amp;") [] c = 60 -> Ascii("&lt;") [] c = 62 -> Ascii("&gt;")
          [] c = Cr -> Reference(c) [] OTHER -> <<c>>)


EscapedAttribute(value) ==
    Replacing(value, LAMBDA c :
        CASE c = 38 -> Ascii("&amp;") [] c = 60 -> Ascii("&lt;") [] c = DoubleQuote -> Ascii("&quot;")
          [] c \in {Tab, Lf, Cr} -> Reference(c) [] OTHER -> <<c>>)

Section(text) == Ascii("<![CDATA[") \o text \o Ascii("]]>")

(* push_cdata: what ends a section is text between two of them, and no     *)
(* section is opened for nothing.                                          *)
RECURSIVE SectionsOf(_)
SectionsOf(data) ==
    LET at == Find(data, Ascii("]]>"))
        NonEmpty(text) == IF text = <<>> THEN <<>> ELSE Section(text)
    IN IF at = 0 THEN NonEmpty(data)
       ELSE NonEmpty(SubSeq(data, 1, at - 1)) \o Ascii("]]&gt;") \o SectionsOf(From(data, at + 3))

CdataSections(data) == IF data = <<>> THEN Section(data) ELSE SectionsOf(data)

-----------------------------------------------------------------------------
(* start_document: nothing of a document before is left. *)
XmlDeclaration(asked, w) ==
    LET name == IF asked.declared = <<>> THEN Ascii(asked.encoder) ELSE asked.declared
        standalone == IF asked.standalone = "none" THEN <<>>
                      ELSE Ascii(" standalone=\"") \o Ascii(asked.standalone) \o Ascii("\"")
    IN PutAll(asked, w, << Ascii("<?xml version=\"1.0\" encoding=\""), name, Ascii("\""), standalone,
                           Ascii("?>"), asked.lineBreak >>)

WriteStartDocument(asked, w) ==
    LET fresh == [w EXCEPT !.open = <<>>, !.pending = FALSE]
    IN IF asked.declaration THEN XmlDeclaration(asked, fresh) ELSE fresh

WriteDoctype(asked, w, e) ==
    LET Quoted(text) == << Ascii(" \""), text, Ascii("\"") >>
        identifiers ==
            CASE e.systemId = <<>> -> <<>>
              [] e.publicId = <<>> -> << Ascii(" SYSTEM") >> \o Quoted(e.systemId)
              [] OTHER -> << Ascii(" PUBLIC") >> \o Quoted(e.publicId) \o Quoted(e.systemId)
    IN IF w.open # <<>> THEN Failing(w, "WellFormedness")
       ELSE PutAll(asked, w, << Ascii("<!DOCTYPE "), e.name >> \o identifiers \o << Ascii(">") >>)

CloseStartTag(asked, w) ==
    IF w.pending THEN Put(asked, [w EXCEPT !.pending = FALSE], Ascii(">")) ELSE w

(* start_element leaves its tag open for the event that comes next.        *)
WriteAttribute(asked, w, a) ==
    LET named == PutAll(asked, w, << Ascii(" "), Lexical(a.prefix, a.local), Ascii("=\"") >>)
    IN Put(asked, PutWithReferences(asked, named, EscapedAttribute(a.value)), Ascii("\""))

WriteStartElement(asked, w, e) ==
    LET name == Lexical(e.prefix, e.local)
        named == PutAll(asked, CloseStartTag(asked, w), << Ascii("<"), name >>)
        opened == [named EXCEPT !.open = Append(@, name), !.pending = TRUE]
    IN IF Working(named) THEN FoldLeft(LAMBDA v, a : WriteAttribute(asked, v, a), opened, e.attributes)
       ELSE named

WriteEndElement(asked, w, e) ==
    LET popped == [w EXCEPT !.open = Front(@)]
    IN CASE w.open = <<>> -> Failing(w, "WellFormedness")
         [] Last(w.open) # Lexical(e.prefix, e.local) -> Failing(popped, "WellFormedness")
         [] w.pending -> Put(asked, [popped EXCEPT !.pending = FALSE], Ascii("/>"))
         [] OTHER -> PutAll(asked, popped, << Ascii("</"), Last(w.open), Ascii(">") >>)

WriteCharacters(asked, w, e) ==
    PutWithReferences(asked, CloseStartTag(asked, w), EscapedText(e.text))

WriteCdata(asked, w, e) == Put(asked, CloseStartTag(asked, w), CdataSections(e.text))

WriteComment(asked, w, e) ==
    PutAll(asked, CloseStartTag(asked, w), << Ascii("<!--"), e.text, Ascii("-->") >>)

WriteProcessingInstruction(asked, w, e) ==
    LET data == IF e.text = <<>> THEN <<>> ELSE Ascii(" ") \o e.text
    IN PutAll(asked, CloseStartTag(asked, w), << Ascii("<?"), e.target, data, Ascii("?>") >>)

(* consume *)
Written(asked, w, e) ==
    CASE e.kind = "StartDocument" -> WriteStartDocument(asked, w)
      [] e.kind = "EndDocument" -> w
      [] e.kind = "Doctype" -> WriteDoctype(asked, w, e)
      [] e.kind = "StartElement" -> WriteStartElement(asked, w, e)
      [] e.kind = "EndElement" -> WriteEndElement(asked, w, e)
      [] e.kind = "Characters" -> WriteCharacters(asked, w, e)
      [] e.kind = "Cdata" -> WriteCdata(asked, w, e)
      [] e.kind = "Comment" -> WriteComment(asked, w, e)
      [] e.kind = "ProcessingInstruction" -> WriteProcessingInstruction(asked, w, e)
=============================================================================
