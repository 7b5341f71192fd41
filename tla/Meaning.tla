------------------------------ MODULE Meaning ------------------------------
(***************************************************************************)
(* What a constraint says, and what fixpoint answers to it, over the ints  *)
(* modulo a small prime.  The checker never looks into the arithmetic: a   *)
(* constraint it makes is as good over these as over all of them.          *)
(*                                                                         *)
(* A constraint is a tree: a Conj, a ForAll that binds var under pred, a   *)
(* Guard or a Head.  fixpoint looks for the least solution of the kvars,   *)
(* here over all sets of values and not only over those its qualifiers     *)
(* describe, and says Safe when the other heads hold in it.                *)
(***************************************************************************)
EXTENDS Constraint, TLC

CONSTANT Modulus

Values == 0..(Modulus - 1)
Truth(b) == IF b THEN 1 ELSE 0

ApplyUnary(op, v) ==
    CASE op = "Not" -> Truth(v = 0)
      [] op = "Neg" -> (Modulus - v) % Modulus
ApplyBinary(op, v, w) ==
    CASE op = "Add" -> (v + w) % Modulus
      [] op = "Sub" -> (v + Modulus - w) % Modulus
      [] op = "Mul" -> (v * w) % Modulus
      [] op = "Div" -> IF w = 0 THEN 0 ELSE CHOOSE q \in Values : (q * w) % Modulus = v
      [] op = "Eq"  -> Truth(v = w)
      [] op = "Ne"  -> Truth(v # w)
      [] op = "And" -> Truth(v # 0 /\ w # 0)

(* The value of a term when vals has that of each variable.                *)
RECURSIVE TermValue(_, _)
TermValue(term, vals) ==
    CASE term[1] = "Constant" -> term[2]
      [] term[1] = "Var"      -> vals[term[2]]
      [] Len(term) = 2 /\ term[1] \notin {"Constant", "Var"} ->
           ApplyUnary(term[1], TermValue(term[2], vals))
      [] Len(term) = 3        ->
           ApplyBinary(term[1], TermValue(term[2], vals), TermValue(term[3], vals))
True(e, vals) == TermValue(e.term, vals) # 0

(* A solution is a set of pairs of a kvar and the values it holds of.      *)
Instance(pred, vals) ==
    <<pred.kvid, [i \in DOMAIN pred.args |-> TermValue(pred.args[i].term, vals)]>>
Holds(pred, vals, solution) ==
    IF pred.kind = "KVar" THEN Instance(pred, vals) \in solution ELSE True(pred.expr, vals)

Refuted == <<0, <<>>>>

(* What the heads ask for when the variables bound around the constraint   *)
(* can have the values in envs: more of a kvar, or what no solution gives. *)
RECURSIVE Demands(_, _, _)
Demands(c, envs, solution) ==
    LET below(inner) == UNION {Demands(c.children[i], inner, solution) : i \in DOMAIN c.children}
    IN  CASE c.kind = "Conj"   -> below(envs)
          [] c.kind = "Guard"  -> below({vals \in envs : Holds(c.pred, vals, solution)})
          [] c.kind = "ForAll" ->
               below({vals \in {(c.var :> v) @@ old : v \in Values, old \in envs} :
                        Holds(c.pred, vals, solution)})
          [] c.kind = "Head"   ->
               IF c.pred.kind = "KVar" THEN {Instance(c.pred, vals) : vals \in envs}
               ELSE IF \A vals \in envs : True(c.pred.expr, vals) THEN {} ELSE {Refuted}

RECURSIVE LeastSolution(_, _)
LeastSolution(c, solution) ==
    LET more == Demands(c, {<<>>}, solution)
    IN  IF more \subseteq solution THEN solution ELSE LeastSolution(c, solution \union more)

Safe(c) == Refuted \notin LeastSolution(c, {})
=============================================================================
