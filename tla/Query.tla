------------------------------- MODULE Query -------------------------------
(***************************************************************************)
(* The query made of a finished constraint: ConstraintBuilder::            *)
(* into_fixpoint (src/liquid-rust-typeck/src/constraint_builder.rs), and   *)
(* its text (src/liquid-rust-fixpoint/src/constraint.rs) as far as it is   *)
(* about how operators group: the rest of the syntax is parenthesized.     *)
(*                                                                         *)
(* Trees are as in Meaning, and an Option of one is a sequence.            *)
(***************************************************************************)
EXTENDS Meaning

Tree(kind, var, pred, children) ==
    [kind |-> kind, var |-> var, pred |-> pred, children |-> children]
Children(b, n) == SelectSeq([m \in DOMAIN b.nodes |-> m], LAMBDA m : b.nodes[m].parent = n)

(* The node of a builder as a tree, before the conversion.                 *)
RECURSIVE NodeTree(_, _)
NodeTree(b, n) ==
    Tree(b.nodes[n].kind,
         IF b.nodes[n].kind = "ForAll" THEN Last(b.nodes[n].binders) ELSE 0,
         b.nodes[n].pred,
         [i \in DOMAIN Children(b, n) |-> NodeTree(b, Children(b, n)[i])])

-----------------------------------------------------------------------------
(* into_fixpoint                                                           *)

IsVar(e) == e.term[1] = "Var"

(* pred_to_fixpoint: fixpoint wants variables for the arguments of a kvar, *)
(* so each other argument gets a fresh one, bound to it.                   *)
PredToFixpoint(pred, next) ==
    LET none == [bindings |-> <<>>, pred |-> pred, next |-> next]
        arg(acc, e) ==
          IF IsVar(e) THEN [acc EXCEPT !.pred.args = Append(@, e)]
          ELSE [bindings |-> Append(acc.bindings,
                               [var |-> acc.next, is |-> BinaryExpr("Eq", VarExpr(acc.next), e)]),
                pred     |-> [acc.pred EXCEPT !.args = Append(@, VarExpr(acc.next))],
                next     |-> acc.next + 1]
    IN  IF pred.kind = "KVar" THEN FoldLeft(arg, [none EXCEPT !.pred.args = <<>>], pred.args)
        ELSE none

(* Mutant: the bindings are forgotten.                                     *)
StitchNothing(bindings, c) == c

Stitch(bindings, c) ==
    FoldRight(LAMBDA binding, inner :
                Tree("ForAll", binding.var, ExprPred(binding.is), <<inner>>), bindings, c)

Conjoin(children) ==
    IF Len(children) <= 1 THEN children ELSE <<Tree("Conj", 0, ExprPred(TT), children)>>

(* Node::into_fixpoint and children_to_fixpoint: a node without a head     *)
(* below it disappears, with the names it has taken.                       *)
RECURSIVE NodeToFixpoint(_, _, _)
NodeToFixpoint(b, n, next) ==
    LET node     == b.nodes[n]
        pred     == PredToFixpoint(node.pred, next)
        all      == FoldLeft(LAMBDA acc, m :
                               LET r == NodeToFixpoint(b, m, acc.next)
                               IN  [cs |-> acc.cs \o r.cs, next |-> r.next],
                             [cs |-> <<>>, next |-> pred.next], Children(b, n))
        children == [all EXCEPT !.cs = Conjoin(@)]
        under(var) == [all EXCEPT !.cs = [i \in DOMAIN Conjoin(@) |->
                         Stitch(pred.bindings, Tree(node.kind, var, pred.pred, Conjoin(@)))]]
    IN  CASE node.kind = "Conj"   -> children
          [] node.kind = "Guard"  -> under(0)
          [] node.kind = "ForAll" -> under(Last(node.binders))
          [] node.kind = "Head"   ->
               [cs   |-> <<Stitch(pred.bindings, Tree("Head", 0, pred.pred, <<>>))>>,
                next |-> pred.next]

IntoFixpoint(b) ==
    LET root == NodeToFixpoint(b, 1, b.next_name).cs
    IN  IF root = <<>> THEN Tree("Head", 0, ExprPred(TT), <<>>) ELSE root[1]
-----------------------------------------------------------------------------
(* The text of an expression, as a sequence of tokens.                     *)

Precedence(op) ==
    CASE op = "Iff"                                      -> 1
      [] op = "Imp"                                      -> 2
      [] op = "Or"                                       -> 3
      [] op = "And"                                      -> 4
      [] op \in {"Eq", "Ne", "Gt", "Ge", "Lt", "Le"}     -> 5
      [] op \in {"Add", "Sub"}                           -> 6
      [] op \in {"Mul", "Div"}                           -> 7
IsAssociative(precedence) == precedence \notin {Precedence("Imp"), Precedence("Eq")}

IsAtom(term) == term[1] \in {"Var", "Constant"}
IsBinary(term) == Len(term) = 3

ShouldParenthesize(op, child) ==
    /\ IsBinary(child)
    /\ \/ Precedence(child[1]) < Precedence(op)
       \/ Precedence(child[1]) = Precedence(op) /\ ~IsAssociative(Precedence(op))

Parens(text) == <<<<"(">>>> \o text \o <<<<")">>>>

RECURSIVE Text(_)
Text(term) ==
    LET child(t) == IF ShouldParenthesize(term[1], t) THEN Parens(Text(t)) ELSE Text(t)
    IN  CASE IsAtom(term)   -> <<term>>
          [] IsBinary(term) -> child(term[2]) \o <<<<term[1]>>>> \o child(term[3])
          [] OTHER          -> <<<<term[1]>>>> \o (IF IsAtom(term[2]) THEN Text(term[2])
                                                  ELSE Parens(Text(term[2])))

(* How fixpoint reads it: the operators that bind tighter first, those that*)
(* bind alike from left to right.  A reading is a term and the text left.  *)
Operators(level) ==
    {op \in {"Iff", "Imp", "Or", "And", "Eq", "Ne", "Add", "Sub", "Mul", "Div"} :
        Precedence(op) >= level}
RECURSIVE Operand(_), Operations(_, _)
Operand(text) ==
    CASE text[1] = <<"(">> ->
           LET inner == Operations(Operand(Tail(text)), 1)
           IN  [inner EXCEPT !.text = Tail(@)]
      [] text[1] \in {<<"Not">>, <<"Neg">>} ->
           LET inner == Operand(Tail(text))
           IN  [inner EXCEPT !.term = <<text[1][1], @>>]
      [] OTHER -> [term |-> text[1], text |-> Tail(text)]
Operations(left, level) ==
    IF left.text = <<>> \/ Len(left.text[1]) # 1 \/ left.text[1][1] \notin Operators(level)
    THEN left
    ELSE LET op    == left.text[1][1]
             right == Operations(Operand(Tail(left.text)), Precedence(op) + 1)
         IN  Operations([right EXCEPT !.term = <<op, left.term, @>>], level)

Reading(term) == Operations(Operand(Text(term)), 1).term

(* The query as fixpoint reads it.                                         *)
RECURSIVE ReadQuery(_)
ReadQuery(c) ==
    [c EXCEPT !.pred = IF @.kind = "Expr" THEN [@ EXCEPT !.expr.term = Reading(@)] ELSE @,
              !.children = [i \in DOMAIN @ |-> ReadQuery(@[i])]]

(* A query fixpoint can take: every variable is bound, once on its path,   *)
(* and kvars are applied to variables, as many as they were declared with. *)
RECURSIVE Scoped(_, _, _)
Scoped(b, c, vars) ==
    LET inner == IF c.kind = "ForAll" THEN vars \union {c.var} ELSE vars
    IN  /\ c.kind = "ForAll" => c.var \notin vars
        /\ PredVars(c.pred) \subseteq inner
        /\ c.pred.kind = "KVar" =>
              /\ \A i \in DOMAIN c.pred.args : IsVar(c.pred.args[i])
              /\ Len(c.pred.args) = Len(b.kvars[c.pred.kvid]) + 1
        /\ \A i \in DOMAIN c.children : Scoped(b, c.children[i], inner)
=============================================================================
