---------------------------- MODULE XPathMeaning ----------------------------
(* What an XPath expression means, by the definitions of XPath 1.0: an     *)
(* axis is a set of nodes, a predicate counts the nodes of that set in     *)
(* front of a node, and a comparison holds if it holds of some values.     *)
(* The evaluation is compared with it.                                     *)
EXTENDS XPath

(***************************************************************************)
(* Axes as sets.                                                           *)
(***************************************************************************)
NodesIn(m) == ToSet(m.order)
PlaceOf(m, x) == Position(m.order, x)
IsOwned(m, x) == KindOf(m.doc, x) \in {"attribute", "namespace"}

(* The elements around a node, and the root.                               *)
Around(m, x) ==
    LET up == IF x.as = "namespace" THEN x.id
              ELSE IF m.doc[x.id].kind = "attribute" THEN m.doc[x.id].owner ELSE m.doc[x.id].parent
    IN IF up = None THEN {} ELSE {Tree(n) : n \in ToSet(SelfAndAbove(m.doc, up))}

AxisSet(m, x, axis) ==
    LET Tree0 == {y \in NodesIn(m) : ~IsOwned(m, y)}
        Owned(kind) == {y \in NodesIn(m) : KindOf(m.doc, y) = kind /\ ParentOf(m.doc, y) = x}
        Under == {y \in Tree0 : x \in Around(m, y)}
        Beside == {y \in Tree0 : ~IsOwned(m, x) /\ x # Tree(DocNode) /\ y # x /\ Around(m, y) = Around(m, x)}
        Later == {y \in Tree0 : PlaceOf(m, y) > PlaceOf(m, x)}
        Earlier == {y \in Tree0 : PlaceOf(m, y) < PlaceOf(m, x)}
    IN CASE axis = "self" -> {x}
         [] axis = "parent" -> {ParentOf(m.doc, x)} \ {Nowhere}
         [] axis = "attribute" -> Owned("attribute")
         [] axis = "namespace" -> Owned("namespace")
         [] axis = "child" -> {y \in Tree0 : ParentOf(m.doc, y) = x}
         [] axis = "descendant" -> Under
         [] axis = "descendant-or-self" -> Under \union {x}
         [] axis = "ancestor" -> Around(m, x)
         [] axis = "ancestor-or-self" -> Around(m, x) \union {x}
         [] axis = "following-sibling" -> Beside \intersect Later
         [] axis = "preceding-sibling" -> Beside \intersect Earlier
         [] axis = "following" -> Later \ Under
         [] axis = "preceding" -> Earlier \ Around(m, x)

InOrder(m, nodes) == SelectSeq(m.order, LAMBDA x : x \in nodes)

(***************************************************************************)
(* Values.  A node-set is a set here.                                      *)
(***************************************************************************)
SetOf(nodes) == [is |-> "set", nodes |-> nodes]
AsSet(o) == IF o.is = "nodes" THEN SetOf(ToSet(o.nodes)) ELSE o
AsObject(m, v) == IF v.is = "set" THEN NodeSet(InOrder(m, v.nodes)) ELSE v

(* What takes part in a comparison: the value of a node, unless the other  *)
(* side is a boolean.                                                      *)
Compared(m, o, other) ==
    CASE o.is = "nodes" /\ other.is = "boolean" -> {Boolean(o.nodes # <<>>)}
      [] o.is = "nodes" /\ other.is # "boolean" -> {Str(StringValue(m.doc, x)) : x \in ToSet(o.nodes)}
      [] OTHER -> {o}

Holds(op, left, right, m) ==
    \E a \in Compared(m, left, right), b \in Compared(m, right, left) : ScalarCompare(op, a, b, m)

RECURSIVE Meaning(_, _), MeaningOfSteps(_, _, _), Chosen(_, _, _, _)

(* The nodes of a set that pass the predicates, counted along the axis.    *)
Chosen(nodes, predicates, backwards, s) ==
    IF predicates = <<>> THEN SetOf(nodes)
    ELSE LET Nearer(x) == {y \in nodes : IF backwards THEN PlaceOf(s.m, y) >= PlaceOf(s.m, x)
                                         ELSE PlaceOf(s.m, y) <= PlaceOf(s.m, x)}
             At0(x) == Cardinality(Nearer(x))
             means == [x \in nodes |-> Meaning(Head(predicates), At1(s, x, At0(x), Cardinality(nodes)))]
             passing == {x \in nodes : IF means[x].is = "number" THEN means[x].a = Whole(At0(x))
                                       ELSE ToBoolean(AsObject(s.m, means[x]))}
         IN IF \E x \in nodes : means[x] = Error THEN Error ELSE Chosen(passing, Tail(predicates), backwards, s)

MeaningOfSteps(steps, from, s) ==
    IF steps = <<>> THEN SetOf(from)
    ELSE LET step == Head(steps)
             Of(x) == Chosen({y \in AxisSet(s.m, x, step.axis) : Matches(s, y, step.axis, step.test)},
                             step.predicates, step.axis \in ReverseAxes, s)
         IN IF \E x \in from : Of(x) = Error THEN Error
            ELSE MeaningOfSteps(Tail(steps), UNION {Of(x).nodes : x \in from}, s)

MeaningOfBinary(op, left, right, s) ==
    LET l == Meaning(left, s)
        r == Meaning(right, s)
        a == AsObject(s.m, l)
        b == AsObject(s.m, r)
    IN CASE l = Error -> Error
         [] l # Error /\ op = "or" /\ ToBoolean(a) -> Boolean(TRUE)
         [] l # Error /\ op = "and" /\ ~ToBoolean(a) -> Boolean(FALSE)
         [] OTHER ->
            IF r = Error THEN Error
            ELSE CASE op \in {"or", "and"} -> Boolean(ToBoolean(b))
                   [] op = "|" -> IF l.is = "set" /\ r.is = "set" THEN SetOf(l.nodes \union r.nodes) ELSE Error
                   [] op \in Equality \union Relational -> Boolean(Holds(op, a, b, s.m))
                   [] op \in Arithmetic -> Num(Calculate(op, ToNumber(s.m, a), ToNumber(s.m, b)))

Meaning(expr, s) ==
    CASE expr.is = "literal" -> Str(expr.text)
      [] expr.is = "number" -> Num(Whole(expr.n))
      [] expr.is = "negate" ->
           LET v == Meaning(expr.of, s) IN IF v = Error THEN Error ELSE Num(Minus(ToNumber(s.m, AsObject(s.m, v))))
      [] expr.is = "binary" -> MeaningOfBinary(expr.op, expr.left, expr.right, s)
      [] expr.is = "path" ->
           LET from == CASE expr.start.from = "root" -> SetOf({Tree(DocNode)})
                         [] expr.start.from = "context" -> SetOf({s.node})
                         [] expr.start.from = "expr" -> Meaning(expr.start.of, s)
           IN IF from.is = "set" THEN MeaningOfSteps(expr.steps, from.nodes, s) ELSE Error
      [] expr.is = "filter" ->
           LET v == Meaning(expr.of, s) IN IF v.is = "set" THEN Chosen(v.nodes, expr.predicates, FALSE, s) ELSE Error
      [] expr.is = "variable" ->
           LET name == VariableName(s.context, expr) IN
           IF name \in DOMAIN s.variables THEN AsSet(ObjectOf(s.m, s.variables[name]))
           ELSE IF name \notin DOMAIN s.context.variables THEN Error
           ELSE LET definition == s.context.variables[name].xpath
                IN Meaning(definition.expr, EvalState(s.m, Tree(DocNode), definition, s.variables))
      [] expr.is = "function" ->
           LET means == [i \in DOMAIN expr.arguments |-> Meaning(expr.arguments[i], s)]
           IN IF Contains(means, Error) THEN Error
              ELSE AsSet(Call(expr.prefix, expr.local, [i \in DOMAIN means |-> AsObject(s.m, means[i])], s))

(***************************************************************************)
(* Properties.                                                             *)
(***************************************************************************)
HasXPath == xpath # NoXPath
Evaluated == written.doc # <<>>

(* Printing an expression, with the abbreviations or in full, gives words  *)
(* that parse back to the same tree (ast.rs, "writes the AST as a          *)
(* parseable XPath expression"): precedence, grouping, slashes and the     *)
(* names that are operators survive.                                       *)
PrintParsesBack ==
    HasXPath => \A full \in BOOLEAN :
       LET again == ParseIn([written.context EXCEPT !.maxDepth = Many], Written(xpath.expr, full))
       IN again.err = "ok" /\ again.xpath.expr = xpath.expr

(* How deep evaluating goes, following every definition to its own.        *)
RECURSIVE Recursion(_, _)
Recursion(expr, ctx) ==
    LET inner == Inner(expr)
        definition == IF IsDefined(ctx, expr)
                      THEN {Recursion(ctx.variables[VariableName(ctx, expr)].xpath.expr,
                                      ctx.variables[VariableName(ctx, expr)].xpath.context)} ELSE {}
    IN 1 + Highest({Recursion(inner[i], ctx) : i \in DOMAIN inner} \union definition)

(* An expression that parsed is never evaluated deeper than max_depth of   *)
(* the context it was parsed in, through any chain of definitions          *)
(* (parser::depth, Definition::depth).                                     *)
DepthIsBounded == HasXPath => Recursion(xpath.expr, xpath.context) <= xpath.context.maxDepth

(* Every node a caller may hand in has one place in the document order,    *)
(* parents first, and the namespaces numbered from the inherited scope are *)
(* those found from the element up (numbered_nodes, in_scope_prefixes).    *)
EveryNodeHasAPlace ==
    Evaluated =>
       LET t == written.doc
           m == DomModel(t)
           bound == UNION {ToSet(Namespaces(t, Tree(n))) : n \in {e \in NodesOf(t) : t[e].kind = "element" /\ IsInTree(t, e)}}
           preorder == <<DocNode>> \o Descendants(t, DocNode)
           Rank(x) == << SelectInSeq(preorder, LAMBDA n : n = IF KindOf(t, x) = "attribute" THEN t[x.id].owner ELSE x.id),
                         IF x.as = "namespace" THEN 1 ELSE IF KindOf(t, x) = "attribute" THEN 2 ELSE 0 >>
           InFront(a, b) == a[1] < b[1] \/ (a[1] = b[1] /\ a[2] <= b[2])
       IN /\ NodesIn(m) = ({Import(t, Tree(n)) : n \in NodesOf(t)} \ {Nowhere}) \union bound
          /\ Len(m.order) = Cardinality(NodesIn(m))
          /\ \A i, j \in DOMAIN m.order : i < j => InFront(Rank(m.order[i]), Rank(m.order[j]))

(* An evaluation gives what the expression means at the node, with all the *)
(* definitions of the context it was parsed in: the axis order, the        *)
(* sorting, the extremes, the lookups and the definitions left out change  *)
(* nothing (XPath::evaluate_with, eval::eval, XPathContext::parse), and    *)
(* the order they are numbered in is the document order.                   *)
EvaluatesAsDefined ==
    /\ EveryNodeHasAPlace
    /\ Evaluated =>
       LET m == DomModel(written.doc)
           node == Import(written.doc, written.call.node)
           s == [EvalState(m, node, xpath, written.call.variables) EXCEPT !.context = written.context]
       IN outcome = IF node = Nowhere THEN Error ELSE ResultOf(AsObject(m, Meaning(xpath.expr, s)))
=============================================================================
