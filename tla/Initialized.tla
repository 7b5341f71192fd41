---------------------------- MODULE Initialized ----------------------------
(***************************************************************************)
(* What rustc guarantees of the bodies the checker is given: no local is   *)
(* read unless every path to the place has initialized it.                 *)
(***************************************************************************)
EXTENDS MirBody, SequencesExt

Locals(b) == 0..(b.nlocals - 1)
Args(b) == 1..Len(b.sig.args)
Reads(init, place) == place.local \in init

AfterRead(init, operand) ==
    IF operand.kind = "Move" THEN init \ {operand.place.local} ELSE init
AfterWrite(init, place) == IF place.deref THEN init ELSE init \union {place.local}
AfterStmt(init, stmt) == AfterWrite(FoldLeft(AfterRead, init, stmt.rv.args), stmt.dst)
AfterStmts(b, bb, init) == FoldLeft(AfterStmt, init, b.stmts[bb])
AfterTerm(b, bb, init) ==
    LET t == b.term[bb]
    IN  CASE t.kind = "Drop"      -> init \ {t.local}
          [] t.kind = "Call"      -> AfterWrite(FoldLeft(AfterRead, init, t.args), t.dst)
          [] t.kind = "SwitchInt" -> AfterRead(init, t.discr)
          [] OTHER                -> init

Out(b, bb, init) == AfterTerm(b, bb, AfterStmts(b, bb, init))

(* The locals that some path to a block leaves uninitialized, as pairs     *)
(* <<block, local>>.                                                       *)
Flow(b, start, gen, kill) ==
    LET edges == UNION {{<<bb, t>> : t \in ToSet(b.term[bb].targets)} : bb \in Blocks}
        along(from) == UNION {{<<e[2], p[2]>> : p \in {q \in from : q[1] = e[1]}} : e \in edges}
        reach[n \in Nat] ==
          IF n = 0 THEN ({START} \X start) \union along(gen)
          ELSE LET prev == reach[n - 1] IN prev \union along(prev \ kill)
    IN  reach[Cardinality(Blocks)]
Inits(b) == {p \in Blocks \X Locals(b) : p[2] \in Out(b, p[1], {})}
Uninits(b) == {p \in Blocks \X Locals(b) : p[2] \notin Out(b, p[1], Locals(b))}
MaybeUninit(b) == Flow(b, Locals(b) \ Args(b), Uninits(b), Inits(b))

Readable(init, operands) ==
    \A j \in DOMAIN operands :
        \/ operands[j].kind = "Constant"
        \/ Reads(FoldLeft(AfterRead, init, SubSeq(operands, 1, j - 1)), operands[j].place)
StmtReadable(b, bb, init, i) ==
    LET before == FoldLeft(AfterStmt, init, SubSeq(b.stmts[bb], 1, i - 1))
        stmt   == b.stmts[bb][i]
    IN  /\ Readable(before, stmt.rv.args)
        /\ stmt.rv.op = "MutRef" => Reads(before, stmt.rv.place)
        /\ stmt.dst.deref => Reads(before, stmt.dst)
TermReadable(b, bb, init) ==
    LET t == b.term[bb]
    IN  CASE t.kind = "Return"    -> 0 \in init
          [] t.kind = "Call"      -> Readable(init, t.args)
          [] t.kind = "SwitchInt" -> Readable(init, <<t.discr>>)
          [] OTHER                -> TRUE

Accepted(b) ==
    LET uninit == MaybeUninit(b)
        in(bb) == {x \in Locals(b) : <<bb, x>> \notin uninit}
    IN  \A bb \in Blocks :
          /\ \A i \in DOMAIN b.stmts[bb] : StmtReadable(b, bb, in(bb), i)
          /\ TermReadable(b, bb, AfterStmts(b, bb, in(bb)))
=============================================================================
