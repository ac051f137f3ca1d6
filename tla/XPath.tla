-------------------------------- MODULE XPath ---------------------------------
(* XPath expressions as an application uses them (xpath.rs, and depth and  *)
(* referenced of xpath/parser.rs): a context is built up call by call, an  *)
(* expression parsed in it keeps the part it needs, and is evaluated over  *)
(* a document or becomes the definition of a variable.  The calls of an    *)
(* application are given as a plan: at each place, the calls it may make.  *)
(* A call that fails leaves the context to the copy the caller kept.       *)
EXTENDS XPathValues

-----------------------------------------------------------------------------
(* Evaluating an expression (xpath/eval.rs, state.rs).  A path walks each  *)
(* axis in its own order, so that predicates count in it, and sorts what   *)
(* every step found; a comparison of node-sets looks values up or compares *)
(* extremes; a variable is what the caller passed, or else its definition, *)
(* evaluated at the root in the context it was written in.                 *)
At1(s, node, position, size) == [s EXCEPT !.node = node, !.position = position, !.size = size]
EvalState(m, node, xpath, variables) ==
    [m |-> m, node |-> node, position |-> 1, size |-> 1, context |-> xpath.context, variables |-> variables]

Given(o, Op(_)) == IF o = Error THEN Error ELSE Op(o)
NodesOrError(o, Op(_)) == IF o.is = "nodes" THEN Op(o.nodes) ELSE Error

(***************************************************************************)
(* Comparisons.                                                            *)
(***************************************************************************)
Equality == {"=", "!="}
Relational == {"<", "<=", ">", ">="}
Arithmetic == {"+", "-", "multiply", "div", "mod"}

Numbers(op, a, b) ==
    CASE op = "=" -> Same(a, b)
      [] op = "!=" -> ~Same(a, b)
      [] op = "<" -> Below(a, b)
      [] op = "<=" -> Below(a, b) \/ Same(a, b)
      [] op = ">" -> Below(b, a)
      [] op = ">=" -> Below(b, a) \/ Same(a, b)

Flip(op) ==
    CASE op = "<" -> ">" [] op = "<=" -> ">=" [] op = ">" -> "<" [] op = ">=" -> "<=" [] OTHER -> op

Equals(op, same) == IF op = "=" THEN same ELSE ~same

ScalarCompare(op, left, right, m) ==
    CASE op \in Relational -> Numbers(op, ToNumber(m, left), ToNumber(m, right))
      [] op \in Equality /\ "boolean" \in {left.is, right.is} -> Equals(op, ToBoolean(left) = ToBoolean(right))
      [] op \in Equality /\ "boolean" \notin {left.is, right.is} /\ "number" \in {left.is, right.is} ->
           Equals(op, Same(ToNumber(m, left), ToNumber(m, right)))
      [] OTHER -> Equals(op, ToText(m, left) = ToText(m, right))

NodeSetCompare(op, nodes, other, m) ==
    CASE other.is = "boolean" -> ScalarCompare(op, Boolean(nodes # <<>>), other, m)
      [] other.is = "number" -> \E i \in DOMAIN nodes : Numbers(op, NodeNumber(m, nodes[i]), other.a)
      [] other.is = "string" ->
           \E i \in DOMAIN nodes :
              IF op \in Equality THEN Equals(op, StringValue(m.doc, nodes[i]) = other.text)
              ELSE Numbers(op, NodeNumber(m, nodes[i]), StringToNumber(other.text))

(* Some pair differs unless all values are one; some pair is below unless  *)
(* the extremes are not.  NaN is in no range.                              *)
StringValues(m, nodes) == {StringValue(m.doc, nodes[i]) : i \in DOMAIN nodes}
NumbersAmong(values) == {StringToNumber(v) : v \in values} \ {NaN}
Least(numbers) == CHOOSE x \in numbers : \A y \in numbers : ~Below(y, x)
Greatest(numbers) == CHOOSE x \in numbers : \A y \in numbers : ~Below(x, y)

ExtremesCompare(op, x, y) ==
    /\ x # {} /\ y # {}
    /\ IF op \in {"<", "<="} THEN Numbers(op, Least(x), Greatest(y)) ELSE Numbers(op, Greatest(x), Least(y))

ValuesCompare(op, left, right) ==
    CASE op = "=" -> left \intersect right # {}
      [] op = "!=" -> left # {} /\ right # {} /\ Cardinality(left \union right) > 1
      [] OTHER -> ExtremesCompare(op, NumbersAmong(left), NumbersAmong(right))

NodeSetsCompareEager(op, a, b, m) ==
    IF op = "!=" THEN StringValues(m, a) # StringValues(m, b)
    ELSE ValuesCompare(op, StringValues(m, a), StringValues(m, b))

NodeSetsCompare(op, a, b, m) == ValuesCompare(op, StringValues(m, a), StringValues(m, b))

Compare(op, left, right, m) ==
    CASE left.is = "nodes" /\ right.is = "nodes" -> NodeSetsCompare(op, left.nodes, right.nodes, m)
      [] left.is = "nodes" /\ right.is # "nodes" -> NodeSetCompare(op, left.nodes, right, m)
      [] left.is # "nodes" /\ right.is = "nodes" -> NodeSetCompare(Flip(op), right.nodes, left, m)
      [] OTHER -> ScalarCompare(op, left, right, m)

Calculate(op, a, b) ==
    CASE op = "+" -> Plus(a, b)
      [] op = "-" -> Plus(a, Minus(b))
      [] op = "multiply" -> Times(a, b)
      [] op = "div" -> Over(a, b)
      [] op = "mod" -> Modulo(a, b)

(***************************************************************************)
(* Node tests.                                                             *)
(***************************************************************************)
PrincipalKind(axis) == IF axis \in {"attribute", "namespace"} THEN axis ELSE "element"

Matches(s, x, axis, test) ==
    CASE test.test = "node" -> TRUE
      [] test.test \in {"text", "comment"} -> KindOf(s.m.doc, x) = test.test
      [] test.test = "processing-instruction" ->
           /\ KindOf(s.m.doc, x) = "pi"
           /\ test.target # <<>> => test.target[1] = Piece(ExpandedName(s.m.doc, x)[2])
      [] test.test = "name" ->
           /\ KindOf(s.m.doc, x) = PrincipalKind(axis)
           /\ test # AnyName => ExpandedName(s.m.doc, x)[1] = NamespaceNamed(s.context, test.prefix)
           /\ test.local # "*" => ExpandedName(s.m.doc, x)[2] = test.local

(***************************************************************************)
(* Evaluation.                                                             *)
(***************************************************************************)
VariableName(context, expr) == <<NamespaceNamed(context, expr.prefix), expr.local>>

RECURSIVE Eval(_, _), EvalAll(_, _), EvalSteps(_, _, _), EvalStep(_, _, _), FilterAll(_, _, _), FilterBy(_, _, _, _),
          EvalBehind(_, _, _)

EvalAll(exprs, s) == [i \in DOMAIN exprs |-> Eval(exprs[i], s)]

OfBoth(op, left, right, m) ==
    CASE op \in {"or", "and"} -> Boolean(ToBoolean(right))
      [] op = "|" -> NodesOrError(left, LAMBDA a : NodesOrError(right, LAMBDA b : NodeSet(MakeNodeSet(m, a \o b))))
      [] op \in Equality \union Relational -> Boolean(Compare(op, left, right, m))
      [] op \in Arithmetic -> Num(Calculate(op, ToNumber(m, left), ToNumber(m, right)))

(* What the left side alone decides.                                       *)
IsDecided(op, left) ==
    \/ op = "or" /\ ToBoolean(left)
    \/ op = "and" /\ ~ToBoolean(left)

EvalBehind(expr, left, s) ==
    CASE left = Error -> Error
      [] left # Error /\ IsDecided(expr.op, left) -> Boolean(expr.op = "or")
      [] OTHER -> Given(Eval(expr.right, s), LAMBDA right : OfBoth(expr.op, left, right, s.m))

EvalBinary(expr, s) == EvalBehind(expr, Eval(expr.left, s), s)

(* What was passed hides a definition, and is the same in every definition.*)
EvalVariable(expr, s) ==
    LET name == VariableName(s.context, expr) IN
    CASE name \in DOMAIN s.variables -> ObjectOf(s.m, s.variables[name])
      [] name \notin DOMAIN s.variables /\ name \in DOMAIN s.context.variables ->
           LET definition == s.context.variables[name].xpath
           IN Eval(definition.expr, EvalState(s.m, Tree(DocNode), definition, s.variables))
      [] OTHER -> Error

CallWith(expr, arguments, s) ==
    IF Contains(arguments, Error) THEN Error ELSE Call(expr.prefix, expr.local, arguments, s)
EvalFunction(expr, s) == CallWith(expr, EvalAll(expr.arguments, s), s)

(* A number keeps the node at its position; anything else is a boolean.    *)
HoldsAt(verdict, i) == IF verdict.is = "number" THEN verdict.a = Whole(i) ELSE ToBoolean(verdict)
PlacesKept(verdicts) == SelectSeq([i \in DOMAIN verdicts |-> i], LAMBDA i : HoldsAt(verdicts[i], i))
KeepBy(nodes, verdicts) ==
    IF Contains(verdicts, Error) THEN Error
    ELSE LET at == PlacesKept(verdicts) IN NodeSet([k \in DOMAIN at |-> nodes[at[k]]])

FilterBy(nodes, predicate, s, size) ==
    KeepBy(nodes, [i \in DOMAIN nodes |-> Eval(predicate, At1(s, nodes[i], i, size))])

FilterAll(nodes, predicates, s) ==
    IF predicates = <<>> THEN NodeSet(nodes)
    ELSE NodesOrError(FilterBy(nodes, Head(predicates), s, Len(nodes)),
                      LAMBDA kept : FilterAll(kept, Tail(predicates), s))

Selected(step, x, s) ==
    SelectSeq(Walk(s.m.doc, x, step.axis), LAMBDA y : Matches(s, y, step.axis, step.test))
Gathered(m, found) ==
    IF Contains(found, Error) THEN Error
    ELSE NodeSet(MakeNodeSet(m, FlattenSeq([i \in DOMAIN found |-> found[i].nodes])))

EvalStep(step, from, s) ==
    Gathered(s.m, [i \in DOMAIN from |-> FilterAll(Selected(step, from[i], s), step.predicates, s)])

EvalSteps(steps, from, s) ==
    IF steps = <<>> THEN NodeSet(from)
    ELSE NodesOrError(EvalStep(Head(steps), from, s), LAMBDA reached : EvalSteps(Tail(steps), reached, s))

StartOf(start, s) ==
    CASE start.from = "root" -> NodeSet(<<Tree(DocNode)>>)
      [] start.from = "context" -> NodeSet(<<s.node>>)
      [] start.from = "expr" -> Eval(start.of, s)

EvalPath(path, s) == NodesOrError(StartOf(path.start, s), LAMBDA nodes : EvalSteps(path.steps, nodes, s))

Eval(expr, s) ==
    CASE expr.is = "literal" -> Str(expr.text)
      [] expr.is = "number" -> Num(Whole(expr.n))
      [] expr.is = "negate" -> Given(Eval(expr.of, s), LAMBDA o : Num(Minus(ToNumber(s.m, o))))
      [] expr.is = "binary" -> EvalBinary(expr, s)
      [] expr.is = "path" -> EvalPath(expr, s)
      [] expr.is = "filter" ->
           NodesOrError(Eval(expr.of, s), LAMBDA nodes : FilterAll(MakeNodeSet(s.m, nodes), expr.predicates, s))
      [] expr.is = "variable" -> EvalVariable(expr, s)
      [] expr.is = "function" -> EvalFunction(expr, s)

-----------------------------------------------------------------------------
CONSTANT Plans

VARIABLES context,  \* XPathContext: limits, namespaces, functions, definitions
          xpath,    \* the last expression parsed, or None
          written,  \* where and as what it was parsed: the context then, the words
          outcome,  \* of the last call
          plan      \* the calls to come
vars == <<context, xpath, written, outcome, plan>>

NoXPath == [expr |-> Literal(<<>>), context |-> <<>>]
Nothing == [context |-> <<>>, words |-> <<>>, doc |-> <<>>, call |-> <<>>]

NewContext(maxDepth, maxVariables) ==
    [maxDepth |-> maxDepth, maxVariables |-> maxVariables, namespaces |-> <<>>, functions |-> {}, variables |-> <<>>]

(***************************************************************************)
(* How deep an expression is evaluated, and the definitions it needs.      *)
(***************************************************************************)
IsDefined(ctx, expr) ==
    expr.is = "variable" /\ IsBound(ctx, expr.prefix) /\ VariableName(ctx, expr) \in DOMAIN ctx.variables

Highest(depths) == Max({0} \union depths)

RECURSIVE DepthFrom(_, _, _)
DepthFrom(expr, ctx, at) ==
    LET inner == Inner(expr)
        defined == IF IsDefined(ctx, expr) THEN {at + ctx.variables[VariableName(ctx, expr)].depth} ELSE {}
    IN Highest({at} \union defined \union {DepthFrom(inner[i], ctx, at + 1) : i \in DOMAIN inner})

RECURSIVE DepthBare(_, _)
DepthBare(expr, ctx) == LET inner == Inner(expr) IN 1 + Highest({DepthBare(inner[i], ctx) : i \in DOMAIN inner})

Depth(expr, ctx) == DepthFrom(expr, ctx, 1)

RECURSIVE ReferencedNames(_, _)
ReferencedNames(expr, ctx) ==
    LET inner == Inner(expr)
    IN (IF IsDefined(ctx, expr) THEN {VariableName(ctx, expr)} ELSE {})
       \union UNION {ReferencedNames(inner[i], ctx) : i \in DOMAIN inner}

Referenced(expr, ctx) == [name \in ReferencedNames(expr, ctx) |-> ctx.variables[name]]

(***************************************************************************)
(* Parsing: the nesting of the words, then the depth of the tree with the  *)
(* definitions it refers to.                                               *)
(***************************************************************************)
Parsed(ctx, r) ==
    CASE ~r.ok -> [err |-> IF r.tooDeep THEN "limit" ELSE "xpath"]
      [] r.ok /\ Depth(r.value, ctx) > ctx.maxDepth -> [err |-> "limit"]
      [] OTHER -> [err |-> "ok",
                   xpath |-> [expr |-> r.value, context |-> [ctx EXCEPT !.variables = Referenced(r.value, ctx)]]]

ParseRead(ctx, tokens) ==
    IF \E i \in DOMAIN tokens : tokens[i].is = "error" THEN [err |-> "xpath"]
    ELSE Parsed(ctx, ParseTokens([tokens |-> tokens, context |-> ctx]))

ParseIn(ctx, words) == ParseRead(ctx, Tokenize(words))

(***************************************************************************)
(* The calls.                                                              *)
(***************************************************************************)
Call0(op) == {c \in Head(plan) : c.op = op}
Done(result) == outcome' = result /\ plan' = Tail(plan)
Refused(error) == Done([is |-> error]) /\ UNCHANGED context

WithLimits ==
    \E c \in Call0("limits") :
       /\ context' = [context EXCEPT !.maxDepth = c.maxDepth, !.maxVariables = c.maxVariables]
       /\ Done([is |-> "ok"])
       /\ UNCHANGED <<xpath, written>>

(* Only xml is bound to the XML namespace, and nothing to that of xmlns.   *)
WithNamespace ==
    \E c \in Call0("namespace") :
       LET reserved == c.prefix = "xmlns" \/ c.uri = XmlnsNs \/ ((c.prefix = "xml") # (c.uri = XmlNs))
       IN /\ CASE c.prefix \in BadNames -> Refused("name")
               [] c.prefix \notin BadNames /\ (reserved \/ c.uri = "") -> Refused("namespace")
               [] OTHER -> /\ context' = [context EXCEPT !.namespaces = (c.prefix :> c.uri) @@ @]
                           /\ Done([is |-> "ok"])
          /\ UNCHANGED <<xpath, written>>

WithFunction ==
    \E c \in Call0("function") :
       LET f == c.function
           others == {g \in context.functions : g.ns # f.ns \/ g.local # f.local}
       IN /\ CASE f.local \in BadNames -> Refused("name")
               [] f.local \notin BadNames /\ f.ns = "" -> Refused("namespace")
               [] f.local \notin BadNames /\ f.ns # "" /\ f.max < f.min -> Refused("misuse")
               [] OTHER -> /\ context' = [context EXCEPT !.functions = others \union {f}]
                           /\ Done([is |-> "ok"])
          /\ UNCHANGED <<xpath, written>>

(* The last expression becomes the definition of a variable.               *)
WithVariable ==
    \E c \in Call0("variable") :
       LET name == <<c.ns, c.local>>
           full == name \notin DOMAIN context.variables
                   /\ Cardinality(DOMAIN context.variables) >= context.maxVariables
           definition == [xpath |-> xpath, depth |-> Depth(xpath.expr, xpath.context)]
       IN /\ xpath # NoXPath
          /\ CASE c.local \in BadNames -> Refused("name")
               [] c.local \notin BadNames /\ full -> Refused("limit")
               [] OTHER -> /\ context' = [context EXCEPT !.variables = (name :> definition) @@ @]
                           /\ Done([is |-> "ok"])
          /\ UNCHANGED <<xpath, written>>

Parse ==
    \E c \in Call0("parse") :
       \E r \in {ParseIn(context, c.words)} :
          /\ IF r.err = "ok"
             THEN xpath' = r.xpath /\ written' = [Nothing EXCEPT !.context = context, !.words = c.words]
             ELSE xpath' = NoXPath /\ written' = Nothing
          /\ Done([is |-> r.err])
          /\ UNCHANGED context

(* evaluate_with: the node must be one of the tree.                        *)
EvaluateIn(call) ==
    LET m == DomModel(call.doc)
        node == Import(call.doc, call.node)
    IN IF node = Nowhere THEN Error ELSE ResultOf(Eval(xpath.expr, EvalState(m, node, xpath, call.variables)))

Evaluate ==
    \E c \in Call0("evaluate") :
       /\ xpath # NoXPath
       /\ Done(EvaluateIn(c))
       /\ written' = [written EXCEPT !.doc = c.doc, !.call = c]
       /\ UNCHANGED <<context, xpath>>

Init ==
    /\ \E p \in Plans : plan = p.calls /\ context = NewContext(p.maxDepth, p.maxVariables)
    /\ xpath = NoXPath
    /\ written = Nothing
    /\ outcome = [is |-> "ok"]

Next ==
    /\ plan # <<>>
    /\ \/ WithLimits
       \/ WithNamespace
       \/ WithFunction
       \/ WithVariable
       \/ Parse
       \/ Evaluate

Spec == Init /\ [][Next]_vars
=============================================================================
