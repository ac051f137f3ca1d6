----------------------------- MODULE XPathSyntax -----------------------------
(* XPath expressions as words, tokens and trees (xpath/lexer.rs, ast.rs,   *)
(* parser.rs).  A word is what stands between the spaces that could be     *)
(* written: a symbol, a name, a variable, a literal or a number.  The      *)
(* lexer tells an operator from a name by what comes before it, the parser *)
(* builds a tree without the abbreviations, and Written gives words again.  *)
(* Positions in the text, which only errors show, are left out.            *)
EXTENDS Integers, SequencesExt

CONSTANT Many  \* more arguments than any call has, for a function without a most

Sym(s) == [is |-> "sym", s |-> s]
QNameWord(prefix, local) == [is |-> "name", prefix |-> prefix, local |-> local]
NameWord(local) == QNameWord("", local)
VariableWord(prefix, local) == [is |-> "variable", prefix |-> prefix, local |-> local]
LiteralWord(text) == [is |-> "literal", text |-> text]
NumberWord(n) == [is |-> "number", n |-> n]

AxisNames == {"self", "child", "parent", "attribute", "namespace", "descendant", "descendant-or-self", "ancestor",
              "ancestor-or-self", "following-sibling", "preceding-sibling", "following", "preceding"}
NodeTypes == {"node", "text", "comment", "processing-instruction"}

(***************************************************************************)
(* Tokens.                                                                 *)
(***************************************************************************)
OperatorNames == {"and", "or", "div", "mod"}
Operators == {"/", "//", "|", "+", "-", "=", "!=", "<", "<=", ">", ">=", "multiply"} \union OperatorNames

(* Whether an operand, and not an operator, can follow the token; at the   *)
(* start one must.                                                         *)
PrecedesOperand(tokens) ==
    tokens = <<>> \/ (Last(tokens).is = "sym" /\ Last(tokens).s \in Operators \union {"@", "::", "(", "[", ","})

(* A name before :: is an axis, and before ( a node type or a function.    *)
NamedBefore(word, next) ==
    CASE next = Sym("::") ->
           IF word.prefix = "" /\ word.local \in AxisNames THEN [is |-> "axis", axis |-> word.local]
           ELSE [is |-> "error"]
      [] next = Sym("(") ->
           IF word.prefix = "" /\ word.local \in NodeTypes THEN [is |-> "nodetype", type |-> word.local]
           ELSE [word EXCEPT !.is = "function"]
      [] OTHER -> word

NameToken(tokens, word, next) ==
    IF word.local = "*" THEN [is |-> "wildcard", prefix |-> word.prefix]
    ELSE IF word.prefix = "" /\ word.local \in OperatorNames /\ ~PrecedesOperand(tokens) THEN Sym(word.local)
    ELSE NamedBefore(word, next)

StarToken(tokens) == IF PrecedesOperand(tokens) THEN Sym("*") ELSE Sym("multiply")

Tokenize(words) ==
    LET Next(i) == IF i < Len(words) THEN words[i + 1] ELSE Sym("end")
        token(i, before) == CASE words[i] = Sym("*") -> StarToken(before)
                              [] words[i].is = "name" -> NameToken(before, words[i], Next(i))
                              [] OTHER -> words[i]
        tokens[i \in 0 .. Len(words)] ==
            IF i = 0 THEN <<>> ELSE Append(tokens[i - 1], token(i, tokens[i - 1]))
    IN tokens[Len(words)]

(***************************************************************************)
(* Trees.                                                                  *)
(***************************************************************************)
Binary(op, left, right) == [is |-> "binary", op |-> op, left |-> left, right |-> right]
Negate(of) == [is |-> "negate", of |-> of]
Path(start, steps) == [is |-> "path", start |-> start, steps |-> steps]
Filter(of, predicates) == [is |-> "filter", of |-> of, predicates |-> predicates]
Literal(text) == [is |-> "literal", text |-> text]
Number(n) == [is |-> "number", n |-> n]
Variable(prefix, local) == [is |-> "variable", prefix |-> prefix, local |-> local]
Function(prefix, local, arguments) ==
    [is |-> "function", prefix |-> prefix, local |-> local, arguments |-> arguments]

Root == [from |-> "root"]
Context == [from |-> "context"]
FromExpr(expr) == [from |-> "expr", of |-> expr]
Step(axis, test, predicates) == [axis |-> axis, test |-> test, predicates |-> predicates]
AnyNode == [test |-> "node"]
NameTest(prefix, local) == [test |-> "name", prefix |-> prefix, local |-> local]
AnyName == NameTest("", "*")
PiTest(target) == [test |-> "processing-instruction", target |-> target]
DescendantOrSelf == Step("descendant-or-self", AnyNode, <<>>)

Inner(expr) ==
    CASE expr.is = "binary" -> <<expr.left, expr.right>>
      [] expr.is = "negate" -> <<expr.of>>
      [] expr.is = "path" ->
           (IF expr.start.from = "expr" THEN <<expr.start.of>> ELSE <<>>)
           \o FlattenSeq([i \in DOMAIN expr.steps |-> expr.steps[i].predicates])
      [] expr.is = "filter" -> <<expr.of>> \o expr.predicates
      [] expr.is = "function" -> expr.arguments
      [] OTHER -> <<>>

(***************************************************************************)
(* Parsing, in a context: the namespaces of the prefixes, the functions    *)
(* and the variables it defines, and its limits.  An operator reads from a *)
(* token on, at a nesting depth, and gives what it read and the token      *)
(* after it, or an error, which may be that the nesting is too deep.       *)
(***************************************************************************)
Got(value, at) == [ok |-> TRUE, value |-> value, at |-> at, tooDeep |-> FALSE]
Failed == [ok |-> FALSE, at |-> 0, tooDeep |-> FALSE]
TooDeep == [Failed EXCEPT !.tooDeep = TRUE]
Bind(r, Op(_, _)) == IF r.ok THEN Op(r.value, r.at) ELSE r

(* The functions there are: the name, and how many arguments it takes.     *)
Signatures == { <<"last", 0, 0>>, <<"position", 0, 0>>, <<"count", 1, 1>>, <<"id", 1, 1>>, <<"local-name", 0, 1>>,
                <<"namespace-uri", 0, 1>>, <<"name", 0, 1>>, <<"string", 0, 1>>, <<"concat", 2, Many>>,
                <<"starts-with", 2, 2>>, <<"contains", 2, 2>>, <<"substring-before", 2, 2>>,
                <<"substring-after", 2, 2>>, <<"substring", 2, 3>>, <<"string-length", 0, 1>>,
                <<"normalize-space", 0, 1>>, <<"translate", 3, 3>>, <<"boolean", 1, 1>>, <<"not", 1, 1>>,
                <<"true", 0, 0>>, <<"false", 0, 0>>, <<"lang", 1, 1>>, <<"number", 0, 1>>, <<"sum", 1, 1>>,
                <<"floor", 1, 1>>, <<"ceiling", 1, 1>>, <<"round", 1, 1>> }

NamespaceNamed(context, prefix) ==
    CASE prefix = "" -> ""
      [] prefix = "xml" -> "xml-ns"
      [] OTHER -> context.namespaces[prefix]
IsBound(context, prefix) == prefix \in {"", "xml"} \union DOMAIN context.namespaces

FunctionsNamed(context, prefix, local) ==
    {f \in context.functions : f.ns = NamespaceNamed(context, prefix) /\ f.local = local}

Arity(given, min, max) == given >= min /\ given <= max

Check(context, prefix, local, given) ==
    IF prefix = "" THEN \E s \in Signatures : s[1] = local /\ Arity(given, s[2], s[3])
    ELSE IsBound(context, prefix) /\ \E f \in FunctionsNamed(context, prefix, local) : Arity(given, f.min, f.max)

Peek(p, at) == IF at <= Len(p.tokens) THEN p.tokens[at] ELSE [is |-> "end"]
At(p, at, s) == Peek(p, at) = Sym(s)
Expect(p, at, s, value) == IF At(p, at, s) THEN Got(value, at + 1) ELSE Failed
Bound(p, prefix) == IsBound(p.context, prefix)

Descend(p, depth) == depth + 1 <= p.context.maxDepth

Level(token) ==
    IF token.is # "sym" THEN 0
    ELSE CASE token.s = "or" -> 1
           [] token.s = "and" -> 2
           [] token.s \in {"=", "!="} -> 3
           [] token.s \in {"<=", ">=", "<", ">"} -> 4
           [] token.s \in {"+", "-"} -> 5
           [] token.s \in {"multiply", "div", "mod"} -> 6
           [] OTHER -> 0

StartsPrimary(p, at) == Peek(p, at).is \in {"variable", "literal", "number", "function"} \/ At(p, at, "(")
StartsStep(p, at) ==
    \/ Peek(p, at).is \in {"axis", "name", "wildcard", "nodetype"}
    \/ \E s \in {".", "..", "@", "*"} : At(p, at, s)

RECURSIVE Expr(_, _, _), BinaryFrom(_, _, _, _), MoreBinary(_, _, _, _, _), Unary(_, _, _), MoreUnion(_, _, _, _),
          PathExpr(_, _, _), RelativeSteps(_, _, _), StepAt(_, _, _), Predicates(_, _, _, _),
          Primary(_, _, _), Arguments(_, _, _, _)

Expr(p, at, d) == IF Descend(p, d) THEN BinaryFrom(p, at, d + 1, 1) ELSE TooDeep

(* Precedence climbing: the operators from one level on, left to right.    *)
BinaryFrom(p, at, d, lowest) == Bind(Unary(p, at, d), LAMBDA left, next : MoreBinary(p, next, d, lowest, left))

MoreBinary(p, at, d, lowest, left) ==
    LET token == Peek(p, at)
        level == Level(token)
    IN IF level = 0 \/ level < lowest THEN Got(left, at)
       ELSE Bind(BinaryFrom(p, at + 1, d, level + 1),
                 LAMBDA right, next : MoreBinary(p, next, d, lowest, Binary(token.s, left, right)))

Unary(p, at, d) ==
    IF ~At(p, at, "-") THEN Bind(PathExpr(p, at, d), LAMBDA left, next : MoreUnion(p, next, d, left))
    ELSE IF Descend(p, d) THEN Bind(Unary(p, at + 1, d + 1), LAMBDA of, next : Got(Negate(of), next))
    ELSE TooDeep

MoreUnion(p, at, d, left) ==
    IF ~At(p, at, "|") THEN Got(left, at)
    ELSE Bind(PathExpr(p, at + 1, d), LAMBDA right, next : MoreUnion(p, next, d, Binary("|", left, right)))

(* A predicate after another filter in parentheses joins that filter's.    *)
FilterOf(primary, predicates) ==
    CASE predicates = <<>> -> primary
      [] predicates # <<>> /\ primary.is = "filter" -> [primary EXCEPT !.predicates = @ \o predicates]
      [] OTHER -> Filter(primary, predicates)

(* A path continued from a path in parentheses is one path.                *)
Continued(filter, steps) ==
    IF filter.is = "path" THEN Path(filter.start, filter.steps \o steps) ELSE Path(FromExpr(filter), steps)

FilterPath(p, at, d, filter) ==
    CASE At(p, at, "/") ->
           Bind(RelativeSteps(p, at + 1, d), LAMBDA steps, next : Got(Continued(filter, steps), next))
      [] At(p, at, "//") ->
           Bind(RelativeSteps(p, at + 1, d),
                LAMBDA steps, next : Got(Continued(filter, <<DescendantOrSelf>> \o steps), next))
      [] OTHER -> Got(filter, at)

LocationPath(p, at, d) ==
    CASE At(p, at, "//") ->
           Bind(RelativeSteps(p, at + 1, d),
                LAMBDA steps, next : Got(Path(Root, <<DescendantOrSelf>> \o steps), next))
      [] At(p, at, "/") ->
           IF StartsStep(p, at + 1)
           THEN Bind(RelativeSteps(p, at + 1, d), LAMBDA steps, next : Got(Path(Root, steps), next))
           ELSE Got(Path(Root, <<>>), at + 1)
      [] OTHER -> Bind(RelativeSteps(p, at, d), LAMBDA steps, next : Got(Path(Context, steps), next))

PathExpr(p, at, d) ==
    IF ~StartsPrimary(p, at) THEN LocationPath(p, at, d)
    ELSE Bind(Primary(p, at, d), LAMBDA primary, next :
         Bind(Predicates(p, next, d, <<>>), LAMBDA predicates, after :
              FilterPath(p, after, d, FilterOf(primary, predicates))))

RelativeSteps(p, at, d) ==
    Bind(StepAt(p, at, d), LAMBDA step, next :
      CASE At(p, next, "/") ->
             Bind(RelativeSteps(p, next + 1, d), LAMBDA steps, after : Got(<<step>> \o steps, after))
        [] At(p, next, "//") ->
             Bind(RelativeSteps(p, next + 1, d),
                  LAMBDA steps, after : Got(<<step, DescendantOrSelf>> \o steps, after))
        [] OTHER -> Got(<<step>>, next))

NodeTest(p, at) ==
    LET token == Peek(p, at)
        target == IF Peek(p, at + 2).is = "literal" /\ token.type = "processing-instruction"
                  THEN <<Peek(p, at + 2).text>> ELSE <<>>
    IN CASE At(p, at, "*") -> Got(AnyName, at + 1)
         [] token.is = "wildcard" -> IF Bound(p, token.prefix) THEN Got(NameTest(token.prefix, "*"), at + 1) ELSE Failed
         [] token.is = "name" -> IF Bound(p, token.prefix) THEN Got(NameTest(token.prefix, token.local), at + 1)
                                 ELSE Failed
         [] token.is = "nodetype" ->
              IF At(p, at + 1, "(")
              THEN Expect(p, at + 2 + Len(target), ")",
                          IF token.type = "processing-instruction" THEN PiTest(target) ELSE [test |-> token.type])
              ELSE Failed
         [] OTHER -> Failed

StepAt(p, at, d) ==
    LET axis == CASE At(p, at, "@") -> Got("attribute", at + 1)
                  [] Peek(p, at).is = "axis" -> Expect(p, at + 1, "::", Peek(p, at).axis)
                  [] OTHER -> Got("child", at)
    IN CASE At(p, at, ".") -> Got(Step("self", AnyNode, <<>>), at + 1)
         [] At(p, at, "..") -> Got(Step("parent", AnyNode, <<>>), at + 1)
         [] OTHER ->
              Bind(axis, LAMBDA name, next :
              Bind(NodeTest(p, next), LAMBDA test, after :
              Bind(Predicates(p, after, d, <<>>), LAMBDA predicates, end :
                   Got(Step(name, test, predicates), end))))

Predicates(p, at, d, read) ==
    IF ~At(p, at, "[") THEN Got(read, at)
    ELSE Bind(Expr(p, at + 1, d), LAMBDA predicate, next :
         Bind(Expect(p, next, "]", predicate), LAMBDA closed, after :
              Predicates(p, after, d, Append(read, closed))))

Primary(p, at, d) ==
    LET token == Peek(p, at) IN
    CASE token.is = "variable" -> IF Bound(p, token.prefix) THEN Got(token, at + 1) ELSE Failed
      [] token.is \in {"literal", "number"} -> Got(token, at + 1)
      [] token.is = "function" ->
           IF ~At(p, at + 1, "(") THEN Failed
           ELSE Bind(IF At(p, at + 2, ")") THEN Got(<<>>, at + 3) ELSE Arguments(p, at + 2, d, <<>>),
                     LAMBDA arguments, next :
                       IF Check(p.context, token.prefix, token.local, Len(arguments))
                       THEN Got(Function(token.prefix, token.local, arguments), next) ELSE Failed)
      [] At(p, at, "(") -> Bind(Expr(p, at + 1, d), LAMBDA expr, next : Expect(p, next, ")", expr))
      [] OTHER -> Failed

Arguments(p, at, d, read) ==
    Bind(Expr(p, at, d), LAMBDA argument, next :
      IF At(p, next, ",") THEN Arguments(p, next + 1, d, Append(read, argument))
      ELSE Expect(p, next, ")", Append(read, argument)))

ParseTokens(p) ==
    LET r == Expr(p, 1, 0) IN IF r.ok /\ r.at <= Len(p.tokens) THEN Failed ELSE r

(***************************************************************************)
(* Printing: with the abbreviations, or in full.                           *)
(***************************************************************************)
Precedence(expr) ==
    CASE expr.is = "binary" -> IF expr.op = "|" THEN 8 ELSE Level(Sym(expr.op))
      [] expr.is = "negate" -> 7
      [] expr.is = "path" -> 9
      [] OTHER -> 10

Parens(words) == <<Sym("(")>> \o words \o <<Sym(")")>>
EndsWithSlash(words) == words # <<>> /\ Last(words) = Sym("/")
OperatorWord(op) == IF op = "multiply" THEN Sym("*") ELSE IF op \in OperatorNames THEN NameWord(op) ELSE Sym(op)

TestWords(test) ==
    CASE test.test = "name" -> <<IF test.prefix = "" /\ test.local = "*" THEN Sym("*")
                                 ELSE QNameWord(test.prefix, test.local)>>
      [] test.test = "processing-instruction" ->
           <<NameWord(test.test)>> \o Parens([i \in DOMAIN test.target |-> LiteralWord(test.target[i])])
      [] OTHER -> <<NameWord(test.test)>> \o Parens(<<>>)

(* Whether a step is the one that // stands for, where // can be written.  *)
Hidden(path, i, full, before) ==
    /\ ~full
    /\ ~before
    /\ i > 1 \/ path.start # Context
    /\ i < Len(path.steps)
    /\ path.steps[i] = DescendantOrSelf

RECURSIVE Written(_, _)

(* The operand of an operator that binds at a level.                       *)
OperandBare(expr, level) ==
    LET words == Written(expr, FALSE) IN IF Precedence(expr) < level THEN Parens(words) ELSE words

Operand(expr, level) ==
    LET words == Written(expr, FALSE)
    IN IF Precedence(expr) < level \/ EndsWithSlash(words) THEN Parens(words) ELSE words

Embedded(expr) ==
    LET words == Written(expr, TRUE)
    IN IF EndsWithSlash(words) \/ Head(words) = Sym("-") THEN Parens(words) ELSE words

PrintPredicates(predicates, full) ==
    FlattenSeq([i \in DOMAIN predicates |-> <<Sym("[")>> \o Written(predicates[i], full) \o <<Sym("]")>>])

PrintStep(step, full) ==
    LET bare == step.predicates = <<>> /\ ~full /\ step.test = AnyNode
        words == CASE bare /\ step.axis = "self" -> <<Sym(".")>>
                   [] bare /\ step.axis = "parent" -> <<Sym("..")>>
                   [] ~full /\ step.axis = "child" -> TestWords(step.test)
                   [] ~full /\ step.axis = "attribute" -> <<Sym("@")>> \o TestWords(step.test)
                   [] OTHER -> <<NameWord(step.axis), Sym("::")>> \o TestWords(step.test)
    IN words \o PrintPredicates(step.predicates, full)

(* Two slashes that meet are the word //.                                  *)
PrintPath(path, full) ==
    LET start == IF path.start.from # "expr" THEN <<>>
                 ELSE IF full THEN Embedded(path.start.of) ELSE Operand(path.start.of, 10)
        hidden[i \in 0 .. Len(path.steps)] == i > 0 /\ Hidden(path, i, full, hidden[i - 1])
        Separator(i) == IF i = 1 /\ path.start = Context THEN <<>>
                        ELSE IF hidden[i - 1] THEN <<Sym("//")>> ELSE <<Sym("/")>>
        Shown(i) == IF hidden[i] THEN <<>> ELSE Separator(i) \o PrintStep(path.steps[i], full)
    IN IF path.start = Root /\ path.steps = <<>> THEN <<Sym("/")>>
       ELSE start \o FlattenSeq([i \in DOMAIN path.steps |-> Shown(i)])

Written(expr, full) ==
    CASE expr.is = "binary" ->
           IF full THEN Parens(Embedded(expr.left) \o <<OperatorWord(expr.op)>> \o Embedded(expr.right))
           ELSE Operand(expr.left, Precedence(expr)) \o <<OperatorWord(expr.op)>>
                \o Operand(expr.right, Precedence(expr) + 1)
      [] expr.is = "negate" -> <<Sym("-")>> \o IF full THEN Embedded(expr.of) ELSE Operand(expr.of, 7)
      [] expr.is = "path" -> PrintPath(expr, full)
      [] expr.is = "filter" ->
           (IF ~full THEN Operand(expr.of, 10)
            ELSE IF expr.of.is = "path" /\ expr.of.steps # <<>> THEN Parens(Written(expr.of, TRUE))
            ELSE Embedded(expr.of))
           \o PrintPredicates(expr.predicates, full)
      [] expr.is = "function" ->
           <<QNameWord(expr.prefix, expr.local)>>
           \o Parens(FlattenSeq([i \in DOMAIN expr.arguments |->
                 (IF i = 1 THEN <<>> ELSE <<Sym(",")>>) \o Written(expr.arguments[i], full)]))
      [] OTHER -> <<expr>>
=============================================================================
