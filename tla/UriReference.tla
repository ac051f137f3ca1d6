---------------------------- MODULE UriReference ----------------------------
(***************************************************************************)
(* URI references and their resolution (uri.rs), and the identifier a      *)
(* resolver is asked for (io/resolve.rs).  A string is a sequence of the   *)
(* delimiters of URIs and of the texts between them, so that what a        *)
(* reference is written as can be read again as something else.            *)
(***************************************************************************)
EXTENDS Naturals, Sequences, SequencesExt

CONSTANTS
    Absent,       \* no such component
    SchemeNames,  \* the texts that are schemes
    SchemeRules,  \* SCHEMES, a function of schemes: [port, root]
    Forbidden,    \* the texts that no URI may contain
    Lowered,      \* to_ascii_lowercase, a function of texts
    Decoded       \* normalize_percent, a function of texts

VARIABLE request  \* an EntityRequest: [system, base], no base being Absent

TextOf(s, f) == [i \in DOMAIN s |-> IF s[i] \in DOMAIN f THEN f[s[i]] ELSE s[i]]
LowerCase(s) == TextOf(s, Lowered)
DecodePercent(s) == TextOf(s, Decoded)

(* The parts of a string around the first, or the last, of a delimiter. *)
First(s, delimiter) == SelectInSeq(s, LAMBDA t : t = delimiter)
LastOf(s, delimiter) == SelectLastInSeq(s, LAMBDA t : t = delimiter)
Until(s, i) == SubSeq(s, 1, i - 1)
Past(s, i) == SubSeq(s, i + 1, Len(s))
Before(s, delimiter) == IF First(s, delimiter) = 0 THEN s ELSE Until(s, First(s, delimiter))
After(s, delimiter) == IF First(s, delimiter) = 0 THEN Absent ELSE Past(s, First(s, delimiter))

StartsAtRoot(path) == path # <<>> /\ Head(path) = "/"

-----------------------------------------------------------------------------
(* parse: the references a string reads as, at most one.  A colon ends a   *)
(* scheme only if nothing but a scheme comes before it.                    *)
Parse(s) ==
    LET hier == Before(Before(s, "#"), "?")
        colon == First(hier, ":")
        named == colon = 2 /\ hier[1] \in SchemeNames
        rest == IF named THEN Past(hier, colon) ELSE hier
        net == IsPrefix(<<"/", "/">>, rest)
        authority == Before(Past(rest, 2), "/")
    IN IF ToSet(s) \cap Forbidden # {} THEN {}
       ELSE {[scheme |-> IF named THEN LowerCase(<<hier[1]>>)[1] ELSE Absent,
              authority |-> IF net THEN authority ELSE Absent,
              path |-> IF net THEN Past(rest, 2 + Len(authority)) ELSE rest,
              query |-> After(Before(s, "#"), "?"),
              fragment |-> After(s, "#")]}

(* Display. *)
Delimited(delimiter, part) == IF part = Absent THEN <<>> ELSE delimiter \o part

Rendered(r) ==
    (IF r.scheme = Absent THEN <<>> ELSE <<r.scheme, ":">>)
        \o Delimited(<<"/", "/">>, r.authority) \o r.path
        \o Delimited(<<"?">>, r.query) \o Delimited(<<"#">>, r.fragment)

(* new: components are a reference if they read back as themselves. *)
IsReference(r) == Parse(Rendered(r)) = {r}

-----------------------------------------------------------------------------
(* remove_dot_segments: the rules of RFC 3986, 5.2.4, on what is left of   *)
(* the path and what has been written.                                     *)
PopSegment(out) == IF LastOf(out, "/") = 0 THEN <<>> ELSE Until(out, LastOf(out, "/"))

RECURSIVE DotRules(_, _)
DotRules(input, out) ==
    LET starts(s) == IsPrefix(s, input)
        end == First(Past(input, 1), "/")
    IN CASE input = <<>> -> out
         [] starts(<<"..", "/">>) \/ starts(<<".", "/">>) -> DotRules(Past(input, 2), out)
         [] starts(<<"/", ".", "/">>) -> DotRules(Past(input, 2), out)
         [] input = <<"/", ".">> -> DotRules(<<"/">>, out)
         [] starts(<<"/", "..", "/">>) -> DotRules(Past(input, 2), PopSegment(out))
         [] input = <<"/", "..">> -> DotRules(<<"/">>, PopSegment(out))
         [] input \in {<<".">>, <<"..">>} -> out
         [] OTHER -> IF end = 0 THEN out \o input ELSE DotRules(Past(input, end), out \o SubSeq(input, 1, end))

RemoveDotSegments(path) == DotRules(path, <<>>)

(* merge, in two forms, the first of them faulty: the root of a base that  *)
(* has an authority and no path is left out.                               *)
Directory(path) == SubSeq(path, 1, LastOf(path, "/"))
MergePaths(base, path) == Directory(base.path) \o path

Merge(base, path) ==
    IF base.authority # Absent /\ base.path = <<>> THEN <<"/">> \o path ELSE Directory(base.path) \o path

(* resolve, by the first component the reference has. *)
Resolve(base, r) ==
    LET cleaned == [r EXCEPT !.path = RemoveDotSegments(@)]
    IN IF r.scheme # Absent THEN cleaned
       ELSE IF r.authority # Absent THEN [cleaned EXCEPT !.scheme = base.scheme]
       ELSE [base EXCEPT
                !.path = IF r.path = <<>> THEN @
                         ELSE RemoveDotSegments(IF StartsAtRoot(r.path) THEN r.path ELSE Merge(base, r.path)),
                !.query = IF r.path = <<>> /\ r.query = Absent THEN @ ELSE r.query,
                !.fragment = r.fragment]

-----------------------------------------------------------------------------
(* relative_path: the way from the directory of one path to another.       *)
Split(s) ==
    FoldLeft(LAMBDA segments, t : IF t = "/" THEN Append(segments, <<>>)
                                  ELSE Append(Front(segments), Append(Last(segments), t)),
             <<<<>>>>, s)

Join(segments) == Tail(FoldLeft(LAMBDA s, segment : s \o <<"/">> \o segment, <<>>, segments))

PathSegments(path) ==
    LET inner == IF StartsAtRoot(path) THEN Tail(path) ELSE path
    IN IF inner = <<>> THEN <<>> ELSE Split(inner)

DirSegments(path) ==
    LET segments == PathSegments(path)
    IN IF segments # <<>> /\ Last(segments) = <<>> THEN Front(segments) ELSE segments

RelativePath(base, target) ==
    LET dirs == DirSegments(Directory(base))
        segments == PathSegments(target)
        last == IF segments = <<>> THEN <<>> ELSE Last(segments)
        inner == IF segments = <<>> THEN <<>> ELSE Front(segments)
        common == Len(LongestCommonPrefix({dirs, inner}))
        parts == [i \in 1..(Len(dirs) - common) |-> <<"..">>] \o Past(inner, common) \o <<last>>
        path == Join(parts)
    IN IF path = <<>> THEN <<".">>
       ELSE IF parts[1] # <<"..">> /\ Contains(parts[1], ":") THEN <<".", "/">> \o path ELSE path

(* relativize: what does not resolve to the target is given up. *)
Relativize(base, target) ==
    LET candidate == [scheme |-> Absent, authority |-> Absent, path |-> RelativePath(base.path, target.path),
                      query |-> target.query, fragment |-> target.fragment]
    IN IF /\ base.scheme = target.scheme /\ base.authority = target.authority
          /\ Resolve(base, candidate) = target
       THEN candidate ELSE target

-----------------------------------------------------------------------------
(* normalize_authority: [userinfo@]host[:port], where the colons within    *)
(* brackets are the address's.                                             *)
NormalAuthority(authority, implied) ==
    LET at == LastOf(authority, "@")
        host == Past(authority, at)
        bracket == LastOf(host, "]")
        colon == IF bracket = 0 THEN LastOf(host, ":")
                 ELSE LET i == First(Past(host, bracket), ":") IN IF i = 0 THEN 0 ELSE bracket + i
        port == Past(host, colon)
        named == IF colon = 0 THEN host ELSE Until(host, colon)
    IN (IF at = 0 THEN <<>> ELSE DecodePercent(Until(authority, at)) \o <<"@">>)
           \o DecodePercent(LowerCase(named))
           \o (IF colon = 0 \/ port \in {<<>>, implied} THEN <<>> ELSE <<":">> \o port)

(* normalize: an encoded dot is a dot before the dots are removed. *)
Normalize(r) ==
    LET rules == IF r.scheme \in DOMAIN SchemeRules THEN SchemeRules[r.scheme] ELSE [port |-> <<>>, root |-> FALSE]
        decoded(part) == IF part = Absent THEN Absent ELSE DecodePercent(part)
        whole == r.scheme # Absent /\ (r.authority # Absent \/ StartsAtRoot(r.path))
        path == IF whole THEN RemoveDotSegments(DecodePercent(r.path)) ELSE DecodePercent(r.path)
    IN [scheme |-> r.scheme,
        authority |-> IF r.authority = Absent THEN Absent ELSE NormalAuthority(r.authority, rules.port),
        path |-> IF path = <<>> /\ r.authority # Absent /\ rules.root THEN <<"/">> ELSE path,
        query |-> decoded(r.query),
        fragment |-> decoded(r.fragment)]

(* resolve, of strings, and EntityRequest::resolved_uri: the identifiers   *)
(* there are, at most one.                                                 *)
ResolveWritten(base, reference) == {Rendered(Resolve(b, r)) : b \in Parse(base), r \in Parse(reference)}

ResolvedUri == IF request.base = Absent THEN {request.system} ELSE ResolveWritten(request.base, request.system)

-----------------------------------------------------------------------------
(* What a reference means: the place that is reached by following its      *)
(* segments from the directory of the base, or from the root.              *)
Step(place, segment) ==
    IF segment = <<".">> THEN place
    ELSE IF segment = <<"..">> THEN (IF place = <<>> THEN <<>> ELSE Front(place))
    ELSE Append(place, segment)

Reached(segments) ==
    LET place == FoldLeft(Step, <<>>, segments)
    IN IF Last(segments) \in {<<".">>, <<"..">>} THEN Append(place, <<>>) ELSE place

Dirs(path) == IF path = <<>> THEN <<>> ELSE Front(Tail(Split(path)))

Followed(base, path) ==
    <<"/">> \o Join(Reached(IF StartsAtRoot(path) THEN Tail(Split(path)) ELSE Dirs(base) \o Split(path)))

Rooted(r) == r.scheme # Absent /\ (StartsAtRoot(r.path) \/ r.authority # Absent)

HasDots(path) == \E segment \in ToSet(Split(path)) : segment \in {<<".">>, <<"..">>}

(* A base is hierarchical.  A reference resolves to the place it leads to  *)
(* from there; what is computed to lead to a place does, also when it is   *)
(* written and read again; the normal form of a reference is its own, and  *)
(* it, too, can be written (resolve, relativize and normalize in uri.rs,   *)
(* resolved_uri in io/resolve.rs).                                         *)
ReferencesResolve ==
    request.base # Absent =>
        \A base \in {b \in Parse(request.base) : Rooted(b)}, r \in Parse(request.system) :
            LET resolved == Resolve(base, r)
                back == Relativize(base, r)
                normal == Normalize(r)
                safe(x) == x.authority # Absent \/ ~IsPrefix(<<"/", "/">>, x.path)
            IN /\ ResolvedUri = {Rendered(resolved)}
               /\ r.scheme = Absent /\ r.authority = Absent /\ r.path # <<>> =>
                      resolved.path = Followed(base.path, r.path)
               /\ r.scheme # Absent /\ ~HasDots(r.path) => Resolve(base, back) = r
               /\ IsReference(back)
               /\ safe(resolved) => IsReference(resolved)
               /\ safe(normal) => IsReference(normal) /\ Normalize(normal) = normal
=============================================================================
