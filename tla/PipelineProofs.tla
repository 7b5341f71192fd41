--------------------------- MODULE PipelineProofs ---------------------------
(***************************************************************************)
(* Proofs about Pipeline, for every crate and every number of attributes.  *)
(*                                                                         *)
(* The two properties speak of the end of a run and of its first stage at  *)
(* once, so the invariant carries what each stage leaves to the next: the  *)
(* session has heard of a failure exactly when the run remembers one, the  *)
(* annotations of a run without errors say what the attributes say, and    *)
(* what has left the iterator of a stage has been judged by it.            *)
(***************************************************************************)
EXTENDS Pipeline, TLAPS

\* What a stage remembers of its failures is what the session was told.
ReportedInv ==
    /\ failed <=> reported # {}
    /\ stage \in Stages => \A r \in reported : r[2] = stage

\* Before typeck::check nothing is asked of fixpoint, and a function whose attributes
\* were read with one in error was reported by its collector.
CollectInv ==
    /\ stage = "collect" =>
         /\ DOMAIN attrs = Fns \ left
         /\ \A f \in DOMAIN attrs \intersect ItemFns :
              ErrorIn(attrs[f]) => <<f, "collect">> \in reported
    /\ stage # "collect" => DOMAIN attrs = Fns
    /\ stage \in {"collect", "resolve"} => answered = Empty

\* As long as there is no error every signature read is kept, with its flag.
SpecsInv ==
    reported = {} =>
        \A f \in DOMAIN attrs \intersect ItemFns :
            HasSignature(f) => f \in DOMAIN specs /\ specs[f] = Assumed(f)

\* What the second stage of check_crate has decided of f.
Judged(f) == specs[f] \/ Verified(f) \/ <<f, "check">> \in reported

CheckInv ==
    /\ stage = "check" => \A f \in DOMAIN specs : f \in left \/ f = cur \/ Judged(f)
    /\ child.out = {"Safe"} => Verified(cur)

\* The inductive invariant.
IInv ==
    /\ TypeOK
    /\ ReportedInv
    /\ CollectInv
    /\ SpecsInv
    /\ CheckInv
    /\ SuccessMeansVerified
    /\ EveryFunctionJudged

-----------------------------------------------------------------------------

\* Inserting into a partial function from S to T gives one, when the pair fits.
LEMMA InsertPartial ==
    ASSUME NEW S, NEW T, NEW map, NEW f \in S, NEW v \in T, Partial(map, S, T)
    PROVE  /\ Partial(Insert(map, f, v), S, T)
           /\ DOMAIN Insert(map, f, v) = DOMAIN map \union {f}
           /\ Insert(map, f, v)[f] = v
           /\ \A g \in DOMAIN map : g # f => Insert(map, f, v)[g] = map[g]
BY DEF Partial, Insert

\* A list of attributes without errors that has a signature gives a spec.
LEMMA SpecOfSignature ==
    ASSUME NEW as \in AttrLists, ~ErrorIn(as), \E i \in DOMAIN as : as[i] \in SigKinds
    PROVE  SpecIn(as)
BY DEF ErrorIn, SpecIn, SigKinds

-----------------------------------------------------------------------------
(* Type correctness *)

\* No pair yet: a partial function between any two sets.
LEMMA EmptyPartial ==
    ASSUME NEW S, NEW T
    PROVE  Partial(Empty, S, T)
<1>1. DOMAIN Empty = {}
  BY DEF Empty
<1>2. Empty \in [{} -> T]
  BY DEF Empty
<1> QED
  BY <1>1, <1>2 DEF Partial

LEMMA TypeInit == Init => TypeOK
<1> SUFFICES ASSUME Init PROVE TypeOK
  OBVIOUS
<1>1. Partial(attrs, Fns, AttrLists) /\ Partial(specs, ItemFns, BOOLEAN) /\ Partial(answered, Fns, Tags)
  BY EmptyPartial DEF Init
<1>2. child \in [running: BOOLEAN, eof: BOOLEAN, out: SUBSET Tags] /\ child = NoChild
  BY DEF Init, NoChild
<1> QED
  BY <1>1, <1>2 DEF Init, TypeOK, Stages

LEMMA TypeCollect ==
    ASSUME TypeOK, NEW f \in Fns, NEW as \in AttrLists, Collect(f, as)
    PROVE  TypeOK'
<1>1. Partial(attrs', Fns, AttrLists)
  BY InsertPartial DEF TypeOK, Collect
<1>2. AssumeIn(as) \in BOOLEAN
  BY DEF AssumeIn
<1>3. Partial(specs', ItemFns, BOOLEAN)
  BY <1>2, InsertPartial DEF TypeOK, Collect
<1>4. reported' \subseteq Fns \X Stages /\ failed' \in BOOLEAN
  <2>1. reported' \subseteq Fns \X Stages
    <3>1. reported' = reported \/ reported' = reported \union {<<f, "collect">>}
      BY DEF Collect
    <3> QED
      BY <3>1 DEF TypeOK, Stages
  <2>2. failed' \in BOOLEAN
    BY Zenon DEF Collect
  <2> QED
    BY <2>1, <2>2
<1> QED
  BY <1>1, <1>3, <1>4 DEF TypeOK, Collect

LEMMA TypePassOver ==
    ASSUME TypeOK, NEW f \in Fns, NEW as \in AttrLists, PassOver(f, as)
    PROVE  TypeOK'
<1>1. Partial(attrs', Fns, AttrLists)
  BY InsertPartial DEF TypeOK, PassOver
<1> QED
  BY <1>1 DEF TypeOK, PassOver

LEMMA TypeStep ==
    ASSUME TypeOK, [Next]_vars
    PROVE  TypeOK'
<1> USE PipelineAssumption
<1>1. CASE \E f \in Fns, as \in AttrLists : Collect(f, as) \/ PassOver(f, as)
  BY <1>1, TypeCollect, TypePassOver
<1>2. CASE EndCollect \/ EndResolve \/ EndCheck
  BY <1>2 DEF EndCollect, EndResolve, EndCheck, EndStage, TypeOK, Stages, Partial, Fns
<1>3. CASE \E f \in Fns : ResolveOk(f) \/ CheckAssumed(f) \/ LowerOk(f)
  BY <1>3 DEF ResolveOk, CheckAssumed, LowerOk, TypeOK, Partial
<1>4. ASSUME NEW f \in Fns, ResolveErr(f) PROVE TypeOK'
  <2>1. Partial(specs', ItemFns, BOOLEAN)
    BY <1>4 DEF ResolveErr, TypeOK, Partial
  <2> QED
    BY <1>4, <2>1 DEF ResolveErr, ItemFails, TypeOK, Stages
<1>5. ASSUME NEW f \in Fns, LowerErr(f) PROVE TypeOK'
  BY <1>5 DEF LowerErr, ItemFails, TypeOK, Stages
<1>6. CASE Typeck
  <2> USE <1>6 DEF Typeck
  <2>1. CASE \E callees \in SUBSET (Fns \union {NoFn}) : InferBody(callees)
    BY <2>1 DEF InferBody, Panic, TypeOK
  <2>2. CASE CheckBody
    BY <2>2 DEF CheckBody, TypeOK
  <2>3. CASE BodyErr
    BY <2>3 DEF BodyErr, ItemFails, Leave, TypeOK, NoChild, Stages
  <2>4. CASE SpawnOk \/ SpawnErr
    BY <2>4 DEF SpawnOk, SpawnErr, Panic, TypeOK, NoChild
  <2>5. CASE \E fits \in BOOLEAN : Write(fits)
    BY <2>5 DEF Write, Panic, TypeOK
  <2>6. CASE DropWriter
    BY <2>6 DEF DropWriter, TypeOK, NoChild
  <2>7. CASE Safe
    BY <2>7 DEF Safe, Leave, TypeOK, NoChild
  <2>8. CASE Unsafe
    BY <2>8 DEF Unsafe, ItemFails, Leave, TypeOK, NoChild, Stages
  <2>9. CASE FixpointFailed
    BY <2>9 DEF FixpointFailed, Panic, TypeOK
  <2> QED
    BY <2>1, <2>2, <2>3, <2>4, <2>5, <2>6, <2>7, <2>8, <2>9
<1>7. ASSUME NEW tag \in Tags, Answer(tag) PROVE TypeOK'
  <2>1. cur \in Fns /\ step \in {"write", "drop", "wait"}
    BY <1>7 DEF Answer, TypeOK, NoChild
  <2>2. Partial(answered', Fns, Tags)
    BY <1>7, <2>1, InsertPartial DEF Answer, TypeOK
  <2> QED
    BY <1>7, <2>1, <2>2 DEF Answer, TypeOK
<1>8. ASSUME NEW out \in {{}, {"Crash"}}, Die(out) PROVE TypeOK'
  <2>1. out \in SUBSET Tags
    BY DEF Tags
  <2>2. step \in {"write", "drop", "wait"}
    BY <1>8 DEF Die, TypeOK, NoChild
  <2> QED
    BY <1>8, <2>1, <2>2 DEF Die, TypeOK
<1>9. CASE UNCHANGED vars
  BY <1>9 DEF vars, TypeOK
<1> QED
  BY <1>1, <1>2, <1>3, <1>4, <1>5, <1>6, <1>7, <1>8, <1>9
  DEF Next, Tool, Fixpoint, Ended

\* The variables of a run keep their types, and a fixpoint process exists only
\* between the spawn and the verdict of typeck::check.
THEOREM TypeCorrect == Spec => []TypeOK
<1>1. Init => TypeOK
  BY TypeInit
<1>2. TypeOK /\ [Next]_vars => TypeOK'
  BY TypeStep
<1> QED
  BY <1>1, <1>2, PTL DEF Spec

-----------------------------------------------------------------------------
(* The parts of the invariant, each kept by a step *)

\* The actions that leave stage, attrs, failed and reported as they are.
Silent ==
    \/ \E f \in Fns : ResolveOk(f) \/ CheckAssumed(f) \/ LowerOk(f)
    \/ CheckBody \/ SpawnOk \/ DropWriter \/ (stage = "check" /\ Safe)
    \/ \E callees \in SUBSET (Fns \union {NoFn}) : InferBody(callees) /\ ~Panic
    \/ \E fits \in BOOLEAN : Write(fits) /\ ~Panic
    \/ Fixpoint
    \/ UNCHANGED vars

\* The actions that tell the session of the error of an item.
Failing ==
    \/ \E f \in Fns : ResolveErr(f) \/ LowerErr(f)
    \/ stage = "check" /\ (BodyErr \/ Unsafe)

\* Every step is of one of seven kinds.
LEMMA StepKinds ==
    ASSUME [Next]_vars
    PROVE  \/ \E f \in Fns, as \in AttrLists : Collect(f, as)
           \/ \E f \in Fns, as \in AttrLists : PassOver(f, as)
           \/ EndCollect \/ EndResolve
           \/ EndCheck
           \/ Failing
           \/ Silent
           \/ stage = "check" /\ Panic
<1>1. CASE Typeck
  <2> USE <1>1 DEF Typeck
  <2>1. CASE \E callees \in SUBSET (Fns \union {NoFn}) : InferBody(callees)
    BY <2>1 DEF Silent
  <2>2. CASE \E fits \in BOOLEAN : Write(fits)
    BY <2>2 DEF Silent
  <2>3. CASE SpawnErr \/ FixpointFailed
    BY <2>3 DEF SpawnErr, FixpointFailed
  <2>4. CASE CheckBody \/ SpawnOk \/ DropWriter \/ Safe
    BY <2>4 DEF Silent
  <2>5. CASE BodyErr \/ Unsafe
    BY <2>5 DEF Failing
  <2> QED
    BY <2>1, <2>2, <2>3, <2>4, <2>5
<1>2. CASE Tool /\ ~Typeck
  BY <1>2 DEF Tool, Failing, Silent
<1>3. CASE Fixpoint
  BY <1>3 DEF Silent
<1>4. CASE UNCHANGED vars
  BY <1>4 DEF Silent
<1> QED
  BY <1>1, <1>2, <1>3, <1>4 DEF Next, Ended

LEMMA SilentFrame ==
    ASSUME Silent
    PROVE  UNCHANGED <<stage, attrs, specs, failed, reported>>
<1>1. CASE \E f \in Fns : ResolveOk(f) \/ CheckAssumed(f) \/ LowerOk(f)
  BY <1>1 DEF ResolveOk, CheckAssumed, LowerOk
<1>2. CASE CheckBody \/ SpawnOk \/ DropWriter \/ Safe
  BY <1>2 DEF CheckBody, SpawnOk, DropWriter, Safe
<1>3. CASE \E callees \in SUBSET (Fns \union {NoFn}) : InferBody(callees) /\ ~Panic
  BY <1>3 DEF InferBody
<1>4. CASE \E fits \in BOOLEAN : Write(fits) /\ ~Panic
  BY <1>4 DEF Write
<1>5. CASE Fixpoint
  BY <1>5 DEF Fixpoint, Answer, Die
<1>6. CASE UNCHANGED vars
  BY <1>6 DEF vars
<1> QED
  BY <1>1, <1>2, <1>3, <1>4, <1>5, <1>6 DEF Silent

\* An item that fails reports itself at its stage, and the run goes on.
LEMMA FailingFrame ==
    ASSUME TypeOK, Failing
    PROVE  /\ UNCHANGED <<stage, attrs, answered>>
           /\ stage \in {"resolve", "check"}
           /\ failed' = TRUE
           /\ \E f \in Fns :
                /\ reported' = reported \union {<<f, stage>>}
                /\ f \in left \/ (stage = "check" /\ f = cur)
                /\ left' \subseteq left /\ left \subseteq left' \union {f}
<1> USE PipelineAssumption
<1>1. CASE \E f \in Fns : ResolveErr(f) \/ LowerErr(f)
  <2>1. PICK f \in Fns : ResolveErr(f) \/ LowerErr(f)
    BY <1>1
  <2>2. f \in left /\ left' = left \ {f} /\ reported' = reported \union {<<f, stage>>}
    BY <2>1 DEF ResolveErr, LowerErr, ItemFails
  <2>3. UNCHANGED <<stage, attrs, answered>> /\ stage \in {"resolve", "check"} /\ failed' = TRUE
    BY <2>1 DEF ResolveErr, LowerErr, ItemFails
  <2>4. left' \subseteq left /\ left \subseteq left' \union {f}
    BY <2>2
  <2>5. \E g \in Fns :
          /\ reported' = reported \union {<<g, stage>>}
          /\ g \in left \/ (stage = "check" /\ g = cur)
          /\ left' \subseteq left /\ left \subseteq left' \union {g}
    <3> WITNESS f \in Fns
    <3> QED
      BY <2>2, <2>4
  <2> QED
    BY <2>3, <2>5
<1>2. CASE stage = "check" /\ BodyErr
  <2>1. cur \in Fns
    BY <1>2 DEF BodyErr, TypeOK
  <2> QED
    BY <1>2, <2>1 DEF BodyErr, ItemFails
<1>3. CASE stage = "check" /\ Unsafe
  <2>1. cur \in Fns
    BY <1>3 DEF Unsafe, TypeOK
  <2> QED
    BY <1>3, <2>1 DEF Unsafe, ItemFails
<1> QED
  BY <1>1, <1>2, <1>3 DEF Failing

LEMMA ReportedStep ==
    ASSUME IInv, [Next]_vars
    PROVE  ReportedInv'
<1> USE DEF IInv
<1>1. ASSUME NEW f \in Fns, NEW as \in AttrLists, Collect(f, as) PROVE ReportedInv'
  <2>1. CASE ErrorIn(as)
    <3>1. reported' = reported \union {<<f, "collect">>}
      BY <1>1, <2>1 DEF Collect
    <3>2. failed'
      BY <1>1, <2>1 DEF Collect
    <3>3. stage = "collect" /\ stage' = "collect"
      BY <1>1 DEF Collect
    <3>4. \A r \in reported : r[2] = stage
      BY <3>3 DEF ReportedInv, Stages
    <3>5. <<f, "collect">>[2] = stage'
      BY <3>3
    <3>6. reported' # {} /\ \A r \in reported' : r[2] = stage'
      BY <3>1, <3>3, <3>4, <3>5
    <3> QED
      BY <3>2, <3>6, Zenon DEF ReportedInv
  <2>2. CASE ~ErrorIn(as)
    <3>1. reported' = reported /\ stage' = stage
      BY <1>1, <2>2 DEF Collect
    <3>2. failed' <=> failed
      BY <1>1, <2>2 DEF Collect
    <3> QED
      BY <3>1, <3>2 DEF ReportedInv
  <2> QED
    BY <2>1, <2>2
<1>2. CASE EndCollect \/ EndResolve
  BY <1>2 DEF EndCollect, EndResolve, EndStage, ReportedInv, Stages
<1>3. CASE EndCheck \/ (stage = "check" /\ Panic)
  BY <1>3 DEF EndCheck, Panic, ReportedInv, Stages
<1>4. CASE Failing
  <2>1. failed' = TRUE /\ stage' = stage /\ stage \in Stages
    BY <1>4, FailingFrame DEF Stages
  <2>2. PICK f \in Fns : reported' = reported \union {<<f, stage>>}
    BY <1>4, FailingFrame
  <2>3. reported' # {} /\ \A r \in reported' : r[2] = stage'
    <3>1. \A r \in reported : r[2] = stage
      BY <2>1 DEF ReportedInv
    <3>2. <<f, stage>>[2] = stage
      OBVIOUS
    <3> QED
      BY <2>1, <2>2, <3>1, <3>2
  <2> QED
    BY <2>1, <2>3, Zenon DEF ReportedInv
<1>5. CASE Silent
  BY <1>5, SilentFrame DEF ReportedInv
<1>6. ASSUME NEW f \in Fns, NEW as \in AttrLists, PassOver(f, as) PROVE ReportedInv'
  BY <1>6 DEF PassOver, ReportedInv
<1> QED
  BY <1>1, <1>2, <1>3, <1>4, <1>5, <1>6, StepKinds

LEMMA CollectStep ==
    ASSUME IInv, [Next]_vars
    PROVE  CollectInv'
<1> USE DEF IInv
<1>1. ASSUME NEW f \in Fns, NEW as \in AttrLists, Collect(f, as) PROVE CollectInv'
  <2>1. /\ stage = "collect" /\ stage' = "collect" /\ f \in left
        /\ left' = left \ {f} /\ answered' = answered
        /\ attrs' = Insert(attrs, f, as)
        /\ ErrorIn(as) => reported' = reported \union {<<f, "collect">>}
        /\ ~ErrorIn(as) => reported' = reported
    BY <1>1 DEF Collect
  <2>2. /\ DOMAIN attrs' = DOMAIN attrs \union {f}
        /\ attrs'[f] = as
        /\ \A g \in DOMAIN attrs : g # f => attrs'[g] = attrs[g]
    BY <2>1 DEF Insert
  <2>3. DOMAIN attrs' = Fns \ left'
    BY <2>1, <2>2 DEF CollectInv
  <2>4. ASSUME NEW g \in DOMAIN attrs' \intersect ItemFns, ErrorIn(attrs'[g])
        PROVE <<g, "collect">> \in reported'
    <3>1. CASE g = f
      BY <2>1, <2>2, <2>4, <3>1
    <3>2. CASE g # f
      <4>1. g \in DOMAIN attrs /\ ErrorIn(attrs[g])
        BY <2>2, <2>4, <3>2
      <4> QED
        BY <2>1, <4>1 DEF CollectInv
    <3> QED
      BY <3>1, <3>2
  <2> QED
    BY <2>1, <2>3, <2>4 DEF CollectInv
<1>2. CASE EndCollect \/ EndResolve
  BY <1>2 DEF EndCollect, EndResolve, EndStage, CollectInv
<1>3. CASE EndCheck \/ (stage = "check" /\ Panic)
  BY <1>3 DEF EndCheck, Panic, CollectInv
<1>4. CASE Failing
  <2>1. UNCHANGED <<stage, attrs, answered>> /\ stage \in {"resolve", "check"}
    BY <1>4, FailingFrame
  <2> QED
    BY <2>1 DEF CollectInv
<1>5. CASE Silent
  <2>1. UNCHANGED <<stage, attrs, specs, failed, reported>>
    BY <1>5, SilentFrame
  <2>2. stage = "collect" => left' = left
    BY <1>5 DEF Silent, ResolveOk, CheckAssumed, LowerOk, CheckBody, SpawnOk, DropWriter,
                Safe, InferBody, Write, Panic, Fixpoint, Answer, Die, vars
  <2>3. stage \in {"collect", "resolve"} => answered' = answered
    BY <1>5 DEF Silent, ResolveOk, CheckAssumed, LowerOk, CheckBody, SpawnOk, DropWriter,
                Safe, InferBody, Write, Panic, Fixpoint, Answer, Die, vars
  <2> QED
    BY <2>1, <2>2, <2>3 DEF CollectInv
<1>6. ASSUME NEW f \in Fns, NEW as \in AttrLists, PassOver(f, as) PROVE CollectInv'
  <2>1. /\ stage = "collect" /\ stage' = "collect" /\ f \notin ItemFns
        /\ f \in left /\ left' = left \ {f}
        /\ UNCHANGED <<answered, reported>>
    BY <1>6 DEF PassOver
  <2>2. /\ DOMAIN attrs' = DOMAIN attrs \union {f}
        /\ \A g \in DOMAIN attrs : g # f => attrs'[g] = attrs[g]
    BY <1>6 DEF PassOver, Insert
  <2>3. DOMAIN attrs' = Fns \ left'
    BY <2>1, <2>2 DEF CollectInv
  <2>4. \A g \in DOMAIN attrs' \intersect ItemFns : g \in DOMAIN attrs /\ attrs'[g] = attrs[g]
    BY <2>1, <2>2
  <2> QED
    BY <2>1, <2>3, <2>4 DEF CollectInv
<1> QED
  BY <1>1, <1>2, <1>3, <1>4, <1>5, <1>6, StepKinds

LEMMA SpecsStep ==
    ASSUME IInv, [Next]_vars
    PROVE  SpecsInv'
<1> USE DEF IInv
<1>1. ASSUME NEW f \in Fns, NEW as \in AttrLists, Collect(f, as) PROVE SpecsInv'
  <2> SUFFICES ASSUME reported' = {}, NEW g \in DOMAIN attrs' \intersect ItemFns, HasSignature(g)'
               PROVE  g \in DOMAIN specs' /\ specs'[g] = Assumed(g)'
    BY DEF SpecsInv
  <2>1. ~ErrorIn(as) /\ reported = {}
    BY <1>1 DEF Collect
  <2>2. /\ f \in left /\ f \notin DOMAIN attrs
        /\ attrs' = Insert(attrs, f, as)
        /\ SpecIn(as) => specs' = Insert(specs, f, AssumeIn(as))
        /\ ~SpecIn(as) => specs' = specs
    BY <1>1 DEF Collect, CollectInv
  <2>3. /\ DOMAIN attrs' = DOMAIN attrs \union {f}
        /\ attrs'[f] = as
        /\ \A h \in DOMAIN attrs : h # f => attrs'[h] = attrs[h]
    BY <2>2 DEF Insert
  <2>4. SpecIn(as) => /\ DOMAIN specs' = DOMAIN specs \union {f}
                      /\ specs'[f] = AssumeIn(as)
                      /\ \A h \in DOMAIN specs : h # f => specs'[h] = specs[h]
    BY <2>2 DEF Insert
  <2>5. CASE g = f
    <3>1. \E i \in DOMAIN as : as[i] \in SigKinds
      BY <2>3, <2>5 DEF HasSignature
    <3>2. SpecIn(as)
      BY <2>1, <3>1, SpecOfSignature
    <3> QED
      BY <2>3, <2>4, <2>5, <3>2 DEF Assumed
  <2>6. CASE g # f
    <3>1. g \in DOMAIN attrs /\ attrs'[g] = attrs[g]
      BY <2>3, <2>6
    <3>2. HasSignature(g)
      BY <3>1 DEF HasSignature
    <3>3. g \in DOMAIN specs /\ specs[g] = Assumed(g)
      BY <2>1, <3>1, <3>2 DEF SpecsInv
    <3>4. Assumed(g)' = Assumed(g)
      BY <3>1 DEF Assumed
    <3> QED
      BY <2>2, <2>4, <2>6, <3>3, <3>4
  <2> QED
    BY <2>5, <2>6
<1>2. CASE EndCollect \/ EndResolve \/ EndCheck \/ Panic \/ Silent
  <2>1. UNCHANGED <<attrs, specs, reported>>
    BY <1>2, SilentFrame DEF EndCollect, EndResolve, EndStage, EndCheck, Panic
  <2> QED
    BY <2>1 DEF SpecsInv, HasSignature, Assumed
<1>3. CASE Failing
  <2>1. reported' # {}
    BY <1>3, FailingFrame
  <2> QED
    BY <2>1 DEF SpecsInv
<1>4. ASSUME NEW f \in Fns, NEW as \in AttrLists, PassOver(f, as) PROVE SpecsInv'
  <2>1. f \notin ItemFns /\ UNCHANGED <<specs, reported>>
    BY <1>4 DEF PassOver
  <2>2. \A g \in DOMAIN attrs' \intersect ItemFns : g \in DOMAIN attrs /\ attrs'[g] = attrs[g]
    BY <1>4, <2>1 DEF PassOver, Insert
  <2> QED
    BY <2>1, <2>2 DEF SpecsInv, HasSignature, Assumed
<1> QED
  BY <1>1, <1>2, <1>3, <1>4, StepKinds

\* Without a function in hand there is no child, hence no answer of one.
LEMMA NoChildBetween ==
    ASSUME TypeOK, cur = NoFn
    PROVE  child = NoChild /\ child.out # {"Safe"}
<1>1. child = NoChild
  BY DEF TypeOK
<1> QED
  BY <1>1 DEF NoChild

LEMMA CheckStep ==
    ASSUME IInv, [Next]_vars
    PROVE  CheckInv'
<1> USE DEF IInv
<1>1. ASSUME NEW f \in Fns, NEW as \in AttrLists, Collect(f, as) PROVE CheckInv'
  BY <1>1 DEF Collect, CheckInv, Verified
<1>9. ASSUME NEW f \in Fns, NEW as \in AttrLists, PassOver(f, as) PROVE CheckInv'
  BY <1>9 DEF PassOver, CheckInv, Verified
<1>2. CASE EndCollect \/ EndResolve
  <2>1. stage' = "check" => left' = DOMAIN specs
    BY <1>2 DEF EndCollect, EndResolve, EndStage
  <2>2. UNCHANGED <<specs, child, cur, answered>>
    BY <1>2 DEF EndCollect, EndResolve, EndStage
  <2> QED
    BY <2>1, <2>2 DEF CheckInv, Verified
<1>3. CASE EndCheck \/ (stage = "check" /\ Panic)
  BY <1>3 DEF EndCheck, Panic, CheckInv, Verified
<1>4. ASSUME NEW f \in Fns, ResolveErr(f) \/ ResolveOk(f) PROVE CheckInv'
  BY <1>4 DEF ResolveErr, ResolveOk, ItemFails, CheckInv, Verified
<1>5. ASSUME NEW f \in Fns, LowerErr(f) \/ CheckAssumed(f) \/ LowerOk(f) PROVE CheckInv'
  <2>1. /\ stage = "check" /\ stage' = "check" /\ cur = NoFn
        /\ left' = left \ {f} /\ reported \subseteq reported'
        /\ UNCHANGED <<specs, child, answered>>
    BY <1>5 DEF LowerErr, CheckAssumed, LowerOk, ItemFails
  <2>2. \/ cur' = f
        \/ cur' = cur /\ (specs[f] \/ <<f, "check">> \in reported')
    BY <1>5 DEF LowerErr, CheckAssumed, LowerOk, ItemFails
  <2>3. ASSUME NEW g \in DOMAIN specs' PROVE g \in left' \/ g = cur' \/ Judged(g)'
    <3>1. g \in Fns /\ g # cur
      BY <2>1, <2>3, PipelineAssumption DEF TypeOK, Partial, Fns
    <3>2. g \in left \/ Judged(g)
      BY <2>1, <2>3, <3>1 DEF CheckInv
    <3> QED
      BY <2>1, <2>2, <3>2 DEF Judged, Verified
  <2>4. child'.out # {"Safe"}
    BY <2>1, NoChildBetween
  <2> QED
    BY <2>3, <2>4 DEF CheckInv
<1>6. CASE stage = "check" /\ (BodyErr \/ Unsafe \/ Safe)
  <2>1. /\ stage' = "check" /\ cur' = NoFn /\ child' = NoChild
        /\ reported \subseteq reported'
        /\ UNCHANGED <<left, specs, answered>>
    BY <1>6 DEF BodyErr, Unsafe, Safe, ItemFails, Leave
  <2>2. Verified(cur) \/ <<cur, "check">> \in reported'
    BY <1>6 DEF BodyErr, Unsafe, Safe, ItemFails, CheckInv
  <2>3. child'.out # {"Safe"}
    BY <2>1 DEF NoChild
  <2> QED
    BY <1>6, <2>1, <2>2, <2>3 DEF CheckInv, Judged, Verified
<1>7. CASE \/ CheckBody \/ SpawnOk \/ DropWriter
           \/ \E callees \in SUBSET (Fns \union {NoFn}) : InferBody(callees)
           \/ \E fits \in BOOLEAN : Write(fits)
           \/ UNCHANGED vars
  <2>1. /\ stage' = "check" => stage = "check"
        /\ UNCHANGED <<left, specs, reported, cur, answered>>
    BY <1>7 DEF CheckBody, SpawnOk, DropWriter, InferBody, Write, Panic, vars
  <2>2. child'.out = {"Safe"} => child.out = {"Safe"}
    BY <1>7 DEF CheckBody, SpawnOk, DropWriter, InferBody, Write, Panic, vars, NoChild, TypeOK
  <2> QED
    BY <2>1, <2>2 DEF CheckInv, Judged, Verified
<1>8. CASE Fixpoint
  <2>1. UNCHANGED <<stage, left, specs, reported, cur>>
    BY <1>8 DEF Fixpoint, Answer, Die
  <2>2. \A g : g # cur /\ Verified(g) => Verified(g)'
    BY <1>8 DEF Fixpoint, Answer, Die, Insert, Verified
  <2>3. child'.out = {"Safe"} => Verified(cur)'
    <3>1. ASSUME NEW tag \in Tags, Answer(tag), child'.out = {"Safe"} PROVE Verified(cur)'
      <4>1. child'.out = {tag} /\ answered' = Insert(answered, cur, tag) /\ cur' = cur
        BY <3>1 DEF Answer, TypeOK
      <4>2. tag = "Safe"
        BY <3>1, <4>1
      <4> QED
        BY <4>1, <4>2 DEF Insert, Verified
    <3>2. ASSUME NEW out \in {{}, {"Crash"}}, Die(out) PROVE child'.out # {"Safe"}
      BY <3>2 DEF Die, TypeOK
    <3> QED
      BY <1>8, <3>1, <3>2 DEF Fixpoint
  <2> QED
    BY <2>1, <2>2, <2>3 DEF CheckInv, Judged
<1> QED
  BY <1>1, <1>2, <1>3, <1>4, <1>5, <1>6, <1>7, <1>8, <1>9, StepKinds DEF Failing, Silent

-----------------------------------------------------------------------------
(* The end of a run *)

\* A run ends by the end of a stage, and nothing moves once it has ended.
LEMMA EndKinds ==
    ASSUME [Next]_vars, stage' = "done"
    PROVE  \/ EndCollect \/ EndResolve
           \/ EndCheck
           \/ stage = "done" /\ UNCHANGED <<attrs, specs, reported, answered>>
<1>1. CASE Silent
  <2>1. UNCHANGED <<stage, attrs, specs, reported>>
    BY <1>1, SilentFrame
  <2>2. stage = "done" => answered' = answered
    BY <1>1 DEF Silent, ResolveOk, CheckAssumed, LowerOk, CheckBody, SpawnOk, DropWriter,
                Safe, InferBody, Write, Panic, Fixpoint, Answer, Die, vars
  <2> QED
    BY <2>1, <2>2
<1>2. CASE Failing \/ (stage = "check" /\ Panic)
  BY <1>2 DEF Failing, ResolveErr, LowerErr, BodyErr, Unsafe, Panic
<1>3. ASSUME NEW f \in Fns, NEW as \in AttrLists PROVE ~(Collect(f, as) \/ PassOver(f, as))
  BY <1>3 DEF Collect, PassOver
<1> QED
  BY <1>1, <1>2, <1>3, StepKinds

LEMMA SuccessStep ==
    ASSUME IInv, [Next]_vars
    PROVE  SuccessMeansVerified'
<1> USE DEF IInv
<1> SUFFICES ASSUME stage' = "done", reported' = {}, NEW f \in ItemFns, HasSignature(f)'
             PROVE  Assumed(f)' \/ Verified(f)'
  BY DEF SuccessMeansVerified, ExitStatus
<1>1. CASE EndCollect \/ EndResolve
  <2>1. failed /\ reported' = reported
    BY <1>1 DEF EndCollect, EndResolve, EndStage
  <2> QED
    BY <2>1 DEF ReportedInv
<1>2. CASE EndCheck
  <2>1. /\ stage = "check" /\ left = {} /\ cur = NoFn
        /\ UNCHANGED <<attrs, specs, reported, answered>>
    BY <1>2 DEF EndCheck
  <2>2. HasSignature(f) /\ f \in DOMAIN attrs /\ reported = {}
    BY <2>1 DEF HasSignature, CollectInv, Fns
  <2>3. f \in DOMAIN specs /\ specs[f] = Assumed(f)
    BY <2>2 DEF SpecsInv
  <2>4. specs[f] \/ Verified(f)
    BY <2>1, <2>2, <2>3, PipelineAssumption DEF CheckInv, Judged, Fns
  <2> QED
    BY <2>1, <2>3, <2>4 DEF Assumed, Verified
<1>3. CASE stage = "done" /\ UNCHANGED <<attrs, specs, reported, answered>>
  <2>1. Assumed(f) \/ Verified(f)
    BY <1>3 DEF SuccessMeansVerified, ExitStatus, HasSignature
  <2> QED
    BY <1>3, <2>1 DEF Assumed, Verified
<1> QED
  BY <1>1, <1>2, <1>3, EndKinds

LEMMA JudgedStep ==
    ASSUME IInv, [Next]_vars
    PROVE  EveryFunctionJudged'
<1> USE DEF IInv
<1> SUFFICES ASSUME stage' = "done", reported' # {}
             PROVE  \E s \in Stages :
                      /\ \A r \in reported' : r[2] = s
                      /\ s = "collect" =>
                           \A f \in ItemFns : ErrorIn(attrs'[f]) => <<f, s>> \in reported'
                      /\ s # "check" => answered' = Empty
                      /\ s = "check" => \A f \in DOMAIN specs' :
                           specs'[f] \/ Verified(f)' \/ <<f, s>> \in reported'
  BY DEF EveryFunctionJudged
<1>1. CASE EndCollect \/ EndResolve \/ EndCheck
  <2>1. /\ stage \in Stages /\ left = {} /\ cur = NoFn
        /\ UNCHANGED <<attrs, specs, reported, answered>>
    BY <1>1 DEF EndCollect, EndResolve, EndCheck, EndStage, Stages
  <2>2. \A r \in reported' : r[2] = stage
    BY <2>1 DEF ReportedInv
  <2>3. stage = "collect" => \A f \in ItemFns : ErrorIn(attrs'[f]) => <<f, stage>> \in reported'
    BY <2>1 DEF CollectInv, Fns
  <2>4. stage # "check" => answered' = Empty
    BY <2>1 DEF CollectInv, Stages
  <2>5. stage = "check" => \A f \in DOMAIN specs' :
          specs'[f] \/ Verified(f)' \/ <<f, stage>> \in reported'
    <3> SUFFICES ASSUME stage = "check", NEW f \in DOMAIN specs
                 PROVE  specs[f] \/ Verified(f) \/ <<f, "check">> \in reported
      BY <2>1 DEF Verified
    <3>1. f \in Fns
      BY DEF TypeOK, Partial, Fns
    <3> QED
      BY <2>1, <3>1, PipelineAssumption DEF CheckInv, Judged
  <2> QED
    BY <2>1, <2>2, <2>3, <2>4, <2>5
<1>2. CASE stage = "done" /\ UNCHANGED <<attrs, specs, reported, answered>>
  BY <1>2 DEF EveryFunctionJudged, Verified
<1> QED
  BY <1>1, <1>2, EndKinds

LEMMA InvInit == Init => IInv
<1> SUFFICES ASSUME Init PROVE IInv
  OBVIOUS
<1>1. DOMAIN attrs = {}
  BY DEF Init, Empty
<1>2. ReportedInv /\ SuccessMeansVerified /\ EveryFunctionJudged
  BY DEF Init, ReportedInv, SuccessMeansVerified, EveryFunctionJudged
<1>3. CollectInv /\ SpecsInv
  BY <1>1 DEF Init, CollectInv, SpecsInv
<1>4. CheckInv
  BY DEF Init, CheckInv, NoChild
<1> QED
  BY <1>2, <1>3, <1>4, TypeInit DEF IInv

\* The invariant holds at every point of a run.
THEOREM Inductive == Spec => []IInv
<1>1. Init => IInv
  BY InvInit
<1>2. IInv /\ [Next]_vars => IInv'
  BY TypeStep, ReportedStep, CollectStep, SpecsStep, CheckStep, SuccessStep, JudgedStep DEF IInv
<1> QED
  BY <1>1, <1>2, PTL DEF Spec

\* A run that exits with success has had fixpoint's Safe for every function with
\* a signature that is not assumed, whatever the crate: for the functions whose
\* attributes visit_item and visit_impl_item read, and no others.
THEOREM SuccessIsVerified == Spec => []SuccessMeansVerified
<1>1. IInv => SuccessMeansVerified
  BY DEF IInv
<1> QED
  BY <1>1, Inductive, PTL

\* A run that ends without a panic has judged every function of the stage it ended in,
\* of those whose attributes are read, and of no other stage, whatever the crate.
THEOREM AllJudged == Spec => []EveryFunctionJudged
<1>1. IInv => EveryFunctionJudged
  BY DEF IInv
<1> QED
  BY <1>1, Inductive, PTL

=============================================================================
