----------------------------- MODULE Execution -----------------------------
(***************************************************************************)
(* What the bodies of Checker do when they run.  A function called does    *)
(* anything its signature allows; it goes wrong when its arguments are not *)
(* what the signature asks for.  A division by zero goes wrong too, and so *)
(* does a return that is not what the function's own signature says.       *)
(*                                                                         *)
(* Memory maps the cells that are initialized to <<"Int", value>> or to    *)
(* <<"Ref", cell>>.  The cells are the locals, those behind the locations  *)
(* the signature requires, and one made by each call that ensures a        *)
(* location it does not require.                                           *)
(***************************************************************************)
EXTENDS Initialized, Calls, Meaning

Given(loc) == <<"Given", loc>>
Made(bb) == <<"Made", bb>>

Cell(mem, place) ==
    IF place.deref THEN mem[Local(place.local)][2] ELSE Local(place.local)
OperandValue(mem, operand) ==
    IF operand.kind = "Constant" THEN <<"Int", operand.value>> ELSE mem[Cell(mem, operand.place)]
RvalueValue(mem, rv) ==
    LET arg(i) == OperandValue(mem, rv.args[i])
    IN  CASE rv.op = "Use"     -> arg(1)
          [] rv.op = "MutRef"  -> <<"Ref", Cell(mem, rv.place)>>
          [] Len(rv.args) = 2  -> <<"Int", ApplyBinary(rv.op, arg(1)[2], arg(2)[2])>>
          [] Len(rv.args) = 1 /\ rv.op # "Use" -> <<"Int", ApplyUnary(rv.op, arg(1)[2])>>

RunStatement(s, stmt) ==
    IF s.wrong \/ (stmt.rv.op = "Div" /\ OperandValue(s.mem, stmt.rv.args[2]) = <<"Int", 0>>)
    THEN [s EXCEPT !.wrong = TRUE]
    ELSE [s EXCEPT !.mem = (Cell(@, stmt.dst) :> RvalueValue(@, stmt.rv)) @@ @]

-----------------------------------------------------------------------------
(* Signatures, under the values of parameters and the cells of locations   *)

AtomMeans(names, bound, e) ==
    CASE e[1] = "Free" -> names[e[2]] [] e[1] = "Bound" -> bound [] e[1] = "Literal" -> e[2]
Means(names, bound, e) ==
    IF Len(e) = 3 THEN ApplyBinary(e[1], AtomMeans(names, bound, e[2]), AtomMeans(names, bound, e[3]))
    ELSE AtomMeans(names, bound, e)

HasTy(names, cells, value, ty) ==
    CASE ty.kind = "Refine" -> value = <<"Int", Means(names, 0, ty.expr)>>
      [] ty.kind = "Exists" -> value[1] = "Int" /\ Means(names, value[2], ty.pred) # 0
      [] ty.kind = "MutRef" -> value = <<"Ref", cells[ty.loc]>>
OfTy(names, cells, ty) ==
    IF ty.kind = "MutRef" THEN {<<"Ref", cells[ty.loc]>>}
    ELSE {value \in {"Int"} \X Values : HasTy(names, cells, value, ty)}

ParamsHold(names, sig) ==
    \A i \in DOMAIN sig.params : Means(names, 0, sig.params[i].pred) # 0

(* The memories that map the cells in cells[i] to a value of tys[i].       *)
Memories(names, cells, at, tys) ==
    FoldLeft(LAMBDA mems, i :
               {(at[i] :> value) @@ mem : value \in OfTy(names, cells, tys[i]), mem \in mems},
             {<<>>}, [i \in DOMAIN tys |-> i])

-----------------------------------------------------------------------------
(* Runs                                                                    *)

Entries(b) ==
    LET sig   == b.sig
        locs  == {sig.requires[i].loc : i \in DOMAIN sig.requires}
        cells == [loc \in locs |-> Given(loc)]
        at    == [i \in DOMAIN sig.requires |-> Given(sig.requires[i].loc)]
                 \o [i \in DOMAIN sig.args |-> Local(i)]
        tys   == [i \in DOMAIN sig.requires |-> sig.requires[i].ty] \o sig.args
        given == {names \in [{sig.params[i].name : i \in DOMAIN sig.params} -> Values] :
                    ParamsHold(names, sig)}
    IN  UNION {{[bb |-> START, mem |-> mem, names |-> names, wrong |-> FALSE] :
                  mem \in Memories(names, cells, at, tys)} : names \in given}

Returned(b, s) ==
    LET sig   == b.sig
        cells == [loc \in {sig.requires[i].loc : i \in DOMAIN sig.requires} |-> Given(loc)]
    IN  /\ HasTy(s.names, cells, s.mem[Local(0)], sig.ret)
        /\ \A i \in DOMAIN sig.ensures :
              HasTy(s.names, cells, s.mem[cells[sig.ensures[i].loc]], sig.ensures[i].ty)

(* The states in which a call in s returns, each going on at its target;   *)
(* or the one that it is wrong in.                                         *)
AfterCall(s, term) ==
    LET sig     == term.sig
        args    == [i \in DOMAIN term.args |-> OperandValue(s.mem, term.args[i])]
        refs    == {i \in DOMAIN args : sig.args[i].kind = "MutRef"}
        located == FoldLeft(LAMBDA m, i : IF i \in refs THEN (sig.args[i].loc :> args[i][2]) @@ m
                                          ELSE m, <<>>, [i \in DOMAIN args |-> i])
        cells   == FoldLeft(LAMBDA m, ensured : m @@ (ensured.loc :> Made(s.bb)), located, sig.ensures)
        actuals == args \o [i \in DOMAIN sig.requires |-> s.mem[cells[sig.requires[i].loc]]]
        formals == sig.args \o [i \in DOMAIN sig.requires |-> sig.requires[i].ty]
        names   == FoldLeft(LAMBDA m, i :
                     IF formals[i].kind = "Refine" /\ formals[i].expr[1] = "Free"
                     THEN (formals[i].expr[2] :> actuals[i][2]) @@ m ELSE m,
                     <<>>, [i \in DOMAIN formals |-> i])
        asked   == /\ ParamsHold(names, sig)
                   /\ \A i \in DOMAIN formals : HasTy(names, cells, actuals[i], formals[i])
        at      == [i \in DOMAIN sig.ensures |-> cells[sig.ensures[i].loc]]
                   \o <<Local(term.dst.local)>>
        tys     == [i \in DOMAIN sig.ensures |-> sig.ensures[i].ty] \o <<sig.ret>>
    IN  IF ~asked THEN {[s EXCEPT !.wrong = TRUE]}
        ELSE {[s EXCEPT !.bb = target, !.mem = mem @@ @] :
                target \in ToSet(term.targets), mem \in Memories(names, cells, at, tys)}

Taken(term, value) ==
    IF \E i \in DOMAIN term.bits : term.bits[i] = value
    THEN term.targets[CHOOSE i \in DOMAIN term.bits : term.bits[i] = value]
    ELSE Last(term.targets)

(* From the start of a block to those of the next ones.                    *)
Steps(b, s0) ==
    LET s    == FoldLeft(RunStatement, s0, b.stmts[s0.bb])
        term == b.term[s0.bb]
    IN  IF s.wrong THEN IF s0.wrong THEN {} ELSE {s}
        ELSE CASE term.kind = "Return"    -> IF Returned(b, s) THEN {} ELSE {[s EXCEPT !.wrong = TRUE]}
               [] term.kind = "Call"      -> AfterCall(s, term)
               [] term.kind = "SwitchInt" ->
                    {[s EXCEPT !.bb = Taken(term, OperandValue(s.mem, term.discr)[2])]}
               [] term.kind \in {"Goto", "Drop"} -> {[s EXCEPT !.bb = term.targets[1]]}

RECURSIVE ReachedFrom(_, _)
ReachedFrom(b, states) ==
    LET more == UNION {Steps(b, s) : s \in states}
    IN  IF more \subseteq states THEN states ELSE ReachedFrom(b, states \union more)

Reached(b) == ReachedFrom(b, Entries(b))
=============================================================================
