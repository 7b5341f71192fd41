---------------------------- MODULE CheckerProofs ----------------------------
(***************************************************************************)
(* The checker with its types, constraints and cursors implements the walk *)
(* of BlockWalk, for any functions, and so has its properties: no block is *)
(* checked without an environment, twice, or not at all, whatever the      *)
(* environments are and whatever the rules do with them.                   *)
(*                                                                         *)
(* The second part is about the rules: every operation of TypeEnv and of a *)
(* call leaves well formed types and a cursor that can be used on, and only*)
(* adds to the constraint, so that the cursors which the running switches  *)
(* have suspended stay good (TypesInv).                                    *)
(***************************************************************************)
EXTENDS Checker, InductionProofs, SequenceTheorems, FiniteSetTheorems, TLAPS

-----------------------------------------------------------------------------
(* The frames of the walk                                                  *)

WalkFrame(f) == [bb |-> f.bb, next |-> f.next]

(* One more frame of the checker, and what the walk sees of it.            *)
See(b, f, s) == IF HasBranchLeft(b, f) THEN Append(s, WalkFrame(f)) ELSE s

SeenIs(b, fs, seen) ==
    seen = [k \in 0..Len(fs) |-> IF k = 0 THEN <<>> ELSE See(b, fs[k], seen[k - 1])]
Seen(b, fs) == CHOOSE seen : SeenIs(b, fs, seen)

LEMMA SeenExists ==
  ASSUME NEW b, NEW FrameSet, NEW fs \in Seq(FrameSet)
  PROVE  SeenIs(b, fs, Seen(b, fs)) /\ \E R : Seen(b, fs)[Len(fs)] \in Seq(R)
<1> DEFINE n == Len(fs)
           R == {WalkFrame(fs[k]) : k \in 1..n}
           step == [p \in Nat \X Seq(R) |->
                      IF p[1] + 1 <= n THEN See(b, fs[p[1] + 1], p[2]) ELSE p[2]]
<1>1. n \in Nat
  BY LenProperties
<1>2. step \in [Nat \X Seq(R) -> Seq(R)]
  <2> SUFFICES ASSUME NEW k \in Nat, NEW s \in Seq(R), k + 1 <= n
               PROVE  See(b, fs[k + 1], s) \in Seq(R)
    OBVIOUS
  <2>1. WalkFrame(fs[k + 1]) \in R
    <3>1. k + 1 \in 1..n
      BY <1>1
    <3> QED
      BY <3>1
  <2> HIDE DEF R
  <2> QED
    BY <2>1, AppendProperties DEF See
<1>3. \A k \in Nat, s \in Seq(R) :
         k + 1 <= n => step[<<k, s>>] = See(b, fs[k + 1], s)
  OBVIOUS
<1>4. <<>> \in Seq(R)
  OBVIOUS
<1> HIDE DEF step, R
<1>5. PICK f : f \in [Nat -> Seq(R)] /\ f[0] = <<>>
               /\ \A k \in Nat : f[k + 1] = step[<<k, f[k]>>]
  <2>1. PICK f : Follows(Seq(R), <<>>, step, f)
    BY <1>2, <1>4, Recursion
  <2> QED
    BY <2>1 DEF Follows
<1> DEFINE seen == [k \in 0..n |-> f[k]]
<1>6. SeenIs(b, fs, seen)
  <2>1. ASSUME NEW k \in 0..n, k # 0
        PROVE  f[k] = See(b, fs[k], f[k - 1])
    <3>1. k - 1 \in Nat /\ (k - 1) + 1 = k /\ k <= n
      BY <1>1, <2>1
    <3> QED
      BY <1>3, <1>5, <3>1, ZenonT(30)
  <2>2. \A k \in 0..n : k # 0 => seen[k - 1] = f[k - 1]
    BY <1>1
  <2>3. \A k \in 0..n : f[k] = IF k = 0 THEN <<>> ELSE See(b, fs[k], seen[k - 1])
    <3> HIDE DEF seen
    <3> QED
      BY <1>5, <2>1, <2>2
  <2>4. seen = [k \in 0..n |-> IF k = 0 THEN <<>> ELSE See(b, fs[k], seen[k - 1])]
    BY <2>3
  <2> HIDE DEF seen
  <2> QED
    BY <2>4 DEF SeenIs
<1>7. SeenIs(b, fs, Seen(b, fs))
  <2> HIDE DEF seen
  <2> QED
    BY <1>6 DEF Seen
<1>8. ASSUME NEW g, SeenIs(b, fs, g)
      PROVE  \A k \in Nat : k <= n => g[k] = f[k]
  <2> DEFINE T == {k \in Nat : k <= n => g[k] = f[k]}
  <2>1. 0 \in T
    BY <1>1, <1>5, <1>8 DEF SeenIs
  <2>2. ASSUME NEW k \in Nat, k \in T PROVE k + 1 \in T
    <3> SUFFICES ASSUME k + 1 <= n PROVE g[k + 1] = f[k + 1]
      OBVIOUS
    <3>1. g[k] = f[k] /\ k + 1 \in 0..Len(fs) /\ k + 1 # 0 /\ (k + 1) - 1 = k
      BY <1>1, <2>2
    <3>2. g[k + 1] = See(b, fs[k + 1], g[k])
      BY <1>8, <3>1 DEF SeenIs
    <3>3. f[k + 1] = See(b, fs[k + 1], f[k])
      BY <1>3, <1>5
    <3> QED
      BY <3>1, <3>2, <3>3
  <2> HIDE DEF T
  <2>3. Nat \subseteq T
    BY <2>1, <2>2, SetInduction
  <2> QED
    BY <2>3 DEF T
<1>9. Seen(b, fs)[n] \in Seq(R)
  <2>1. Seen(b, fs)[n] = f[n]
    BY <1>1, <1>7, <1>8
  <2>2. f[n] \in Seq(R)
    BY <1>1, <1>5
  <2> HIDE DEF n
  <2> QED
    BY <2>1, <2>2
<1> QED
  BY <1>7, <1>9

LEMMA WalkFramesSeen ==
  ASSUME NEW b, NEW fs
  PROVE  WalkFrames(b, fs) = Seen(b, fs)[Len(fs)]
BY DEF WalkFrames, Seen, SeenIs, See, WalkFrame

LEMMA WalkFramesSeq ==
  ASSUME NEW b, NEW FrameSet, NEW fs \in Seq(FrameSet)
  PROVE  \E R : WalkFrames(b, fs) \in Seq(R)
BY WalkFramesSeen, SeenExists

LEMMA WalkFramesEmpty ==
  ASSUME NEW b
  PROVE  WalkFrames(b, <<>>) = <<>>
<1>1. SeenIs(b, <<>>, Seen(b, <<>>)) /\ Len(<<>>) = 0
  <2>1. <<>> \in Seq({})
    OBVIOUS
  <2> QED
    BY <2>1, SeenExists
<1>2. Seen(b, <<>>)[0] = <<>>
  BY <1>1 DEF SeenIs
<1> QED
  BY <1>1, <1>2, WalkFramesSeen

LEMMA WalkFramesAppend ==
  ASSUME NEW b, NEW FrameSet, NEW fs \in Seq(FrameSet), NEW f
  PROVE  WalkFrames(b, Append(fs, f)) = See(b, f, WalkFrames(b, fs))
<1> DEFINE n == Len(fs)
           gs == Append(fs, f)
           F == Seen(b, fs)
           G == Seen(b, gs)
<1>1. /\ n \in Nat /\ gs \in Seq(FrameSet \union {f}) /\ Len(gs) = n + 1
      /\ gs[n + 1] = f /\ \A k \in 1..n : gs[k] = fs[k]
  BY LenProperties, AppendProperties
<1>2. SeenIs(b, fs, F) /\ SeenIs(b, gs, G)
  BY <1>1, SeenExists
<1> HIDE DEF gs, F, G
<1> DEFINE T == {k \in Nat : k <= n => F[k] = G[k]}
<1>3. 0 \in T
  BY <1>1, <1>2 DEF SeenIs
<1>4. ASSUME NEW k \in Nat, k \in T PROVE k + 1 \in T
  <2> SUFFICES ASSUME k + 1 <= n PROVE F[k + 1] = G[k + 1]
    OBVIOUS
  <2>1. F[k] = G[k] /\ k + 1 \in 0..n /\ k + 1 \in 0..Len(gs) /\ (k + 1) - 1 = k /\ k + 1 # 0
    BY <1>1, <1>4
  <2>2. F[k + 1] = See(b, fs[k + 1], F[k])
    BY <1>2, <2>1 DEF SeenIs
  <2>3. G[k + 1] = See(b, gs[k + 1], G[k])
    BY <1>2, <2>1 DEF SeenIs
  <2>4. gs[k + 1] = fs[k + 1]
    BY <1>1, <2>1
  <2> QED
    BY <2>1, <2>2, <2>3, <2>4
<1> HIDE DEF T
<1>5. Nat \subseteq T
  BY <1>3, <1>4, SetInduction
<1>6. F[n] = G[n]
  BY <1>1, <1>5 DEF T
<1>7. G[n + 1] = See(b, gs[n + 1], G[n])
  <2>1. n + 1 \in 0..Len(gs) /\ n + 1 # 0 /\ (n + 1) - 1 = n
    BY <1>1
  <2> QED
    BY <1>2, <2>1 DEF SeenIs
<1> QED
  BY <1>1, <1>6, <1>7, WalkFramesSeen DEF F, G, gs

-----------------------------------------------------------------------------
(* The invariant: what the walk's variables hold                           *)

IsFrame(f) ==
    /\ {"bb", "next"} \subseteq DOMAIN f
    /\ f = [x \in DOMAIN f |-> f[x]]
    /\ f.bb \in Blocks /\ f.next \in Nat \ {0}

ControlTypes ==
    /\ body \in Bodies
    /\ cur \in Blocks /\ target \in Blocks
    /\ pos \in Nat
    /\ \E FrameSet : frames \in Seq(FrameSet)
    /\ \A k \in 1..Len(frames) : IsFrame(frames[k])

-----------------------------------------------------------------------------
(* The body and what the walk sees of it                                   *)

LEMMA SkeletonFacts ==
  ASSUME NEW b \in Bodies
  PROVE  /\ Skeleton(b) \in {s \in BodyType : WellFormed(s)}
         /\ Skeleton(b).rpo = b.rpo
         /\ \A bb \in Blocks : /\ Skeleton(b).term[bb].kind = b.term[bb].kind
                               /\ Skeleton(b).term[bb].targets = b.term[bb].targets
<1>1. WellFormed(Skeleton(b))
  BY CheckerAssumption
<1>2. Skeleton(b) \in BodyType
  BY <1>1 DEF WellFormed
<1>3. Skeleton(b).rpo = b.rpo
      /\ \A bb \in Blocks : /\ Skeleton(b).term[bb].kind = b.term[bb].kind
                            /\ Skeleton(b).term[bb].targets = b.term[bb].targets
  BY DEF Skeleton
<1> QED
  BY <1>1, <1>2, <1>3

LEMMA TargetFacts ==
  ASSUME NEW b \in Bodies, NEW bb \in Blocks
  PROVE  /\ b.term[bb].targets \in Seq(Blocks)
         /\ b.term[bb].kind = "Return" => Len(b.term[bb].targets) = 0
         /\ b.term[bb].kind \in {"Goto", "Drop"} => Len(b.term[bb].targets) = 1
         /\ b.term[bb].kind = "Call" => Len(b.term[bb].targets) \in {0, 1}
         /\ b.term[bb].kind = "SwitchInt" => Len(b.term[bb].targets) > 0
<1> DEFINE s == Skeleton(b)
<1>1. s \in BodyType /\ WellFormed(s) /\ s.term[bb].kind = b.term[bb].kind
      /\ s.term[bb].targets = b.term[bb].targets
  BY SkeletonFacts
<1> HIDE DEF s
<1>2. s.term[bb].targets \in Seq(Blocks)
  BY <1>1 DEF BodyType
<1> QED
  BY <1>1, <1>2 DEF WellFormed

LEMMA OrderFacts ==
  ASSUME NEW b \in Bodies
  PROVE  b.rpo \in Seq(Blocks)
<1> DEFINE s == Skeleton(b)
<1>1. s \in BodyType /\ s.rpo = b.rpo
  BY SkeletonFacts
<1> HIDE DEF s
<1> QED
  BY <1>1 DEF BodyType

LEMMA SameEdges ==
  ASSUME NEW b \in Bodies
  PROVE  /\ Edges(Skeleton(b)) = Edges(b)
         /\ \A e \in Edges(b) : Target(Skeleton(b), e) = Target(b, e)
<1> DEFINE s == Skeleton(b)
<1>1. \A bb \in Blocks : s.term[bb].targets = b.term[bb].targets
  BY SkeletonFacts
<1> HIDE DEF s
<1>2. Edges(s) = Edges(b)
  BY <1>1 DEF Edges
<1>3. ASSUME NEW e \in Edges(b) PROVE Target(s, e) = Target(b, e)
  <2>1. e[1] \in Blocks
    BY DEF Edges
  <2> QED
    BY <1>1, <2>1 DEF Target
<1> QED
  BY <1>2, <1>3 DEF s

LEMMA SameJoin ==
  ASSUME NEW b \in Bodies, NEW bb
  PROVE  IsJoinPoint(Skeleton(b), bb) <=> IsJoinPoint(b, bb)
<1>1. Predecessors(Skeleton(b), bb) = Predecessors(b, bb)
  BY SameEdges DEF Predecessors
<1> QED
  BY <1>1 DEF IsJoinPoint

LEMMA WalkJoin ==
  ASSUME body \in Bodies, NEW bb
  PROVE  BW!Join(bb) <=> Join(bb)
<1>1. BW!Join(bb) <=> IsJoinPoint(Skeleton(body), bb)
  BY DEF BW!Join, BW!IsJoinPoint, BW!Predecessors, BW!Edges, BW!Target,
         IsJoinPoint, Predecessors, Edges, Target
<1> QED
  BY <1>1, SameJoin DEF Join

LEMMA WalkTerm ==
  ASSUME body \in Bodies, NEW bb \in Blocks
  PROVE  BW!Term(bb).kind = Term(bb).kind /\ BW!Term(bb).targets = Term(bb).targets
BY SkeletonFacts DEF BW!Term, Term

-----------------------------------------------------------------------------
(* Each action is an action of the walk or none                            *)

LEMMA InitWalks ==
  ASSUME Init
  PROVE  ControlTypes /\ BW!Init
<1>1. /\ body \in Bodies /\ mode = "Inference" /\ visited = {} /\ frames = <<>> /\ pos = 0
      /\ bb_envs = <<>> /\ shapes = <<>> /\ pc = "goto" /\ cur = START /\ target = START
  BY DEF Init
<1>2. WalkFrames(body, frames) = <<>> /\ DOMAIN bb_envs = {} /\ DOMAIN shapes = {}
  BY <1>1, WalkFramesEmpty
<1>3. Skeleton(body) \in {b \in BodyType : WellFormed(b)}
  BY <1>1, SkeletonFacts
<1>4. frames \in Seq({})
  BY <1>1
<1>5. ControlTypes
  BY <1>1, <1>4, CheckerAssumption DEF ControlTypes
<1>6. BW!Init
  BY <1>1, <1>2, <1>3 DEF BW!Init
<1> QED
  BY <1>5, <1>6

LEMMA GotoBlockWalks ==
  ASSUME ControlTypes, GotoBlock
  PROVE  ControlTypes' /\ BW!GotoBlock
<1>1. /\ Running /\ pc = "goto" /\ ~Join(target)
      /\ visited' = visited \union {target} /\ pc' = "terminator" /\ cur' = target
      /\ UNCHANGED <<body, mode, frames, pos, target, bb_envs, shapes>>
  BY DEF GotoBlock, CheckBasicBlock
<1>2. ControlTypes'
  BY <1>1 DEF ControlTypes
<1>3. BW!GotoBlock
  BY <1>1, WalkJoin DEF ControlTypes, BW!GotoBlock, BW!CheckBasicBlock, BW!Running, Running
<1> QED
  BY <1>2, <1>3

LEMMA GotoJoinWalks ==
  ASSUME ControlTypes,
         \/ GotoJoinInferFirst \/ GotoJoinInferAgain
         \/ GotoJoinCheckFirst \/ GotoJoinCheckAgain
  PROVE  ControlTypes' /\ BW!Goto
<1>1. /\ pc = "goto" /\ BW!Join(target) /\ pc' = "return"
      /\ UNCHANGED <<body, mode, visited, frames, pos, cur, target>>
  BY WalkJoin DEF ControlTypes, GotoJoinInferFirst, GotoJoinInferAgain,
                  GotoJoinCheckFirst, GotoJoinCheckAgain
<1>2. ControlTypes'
  BY <1>1 DEF ControlTypes
<1>3. CASE GotoJoinInferFirst
  <2>1. mode = "Inference" /\ UNCHANGED shapes
        /\ DOMAIN bb_envs' = DOMAIN bb_envs \union {target}
    BY <1>3 DEF GotoJoinInferFirst, Put
  <2> QED
    BY <1>1, <1>2, <2>1 DEF BW!Goto, BW!GotoJoinInfer
<1>4. CASE GotoJoinInferAgain
  <2>1. mode = "Inference" /\ UNCHANGED shapes
        /\ DOMAIN bb_envs' = DOMAIN bb_envs \union {target}
    BY <1>4 DEF GotoJoinInferAgain
  <2> QED
    BY <1>1, <1>2, <2>1 DEF BW!Goto, BW!GotoJoinInfer
<1>5. CASE GotoJoinCheckFirst
  <2>1. mode = "Check" /\ target \notin DOMAIN bb_envs /\ target \in DOMAIN shapes
        /\ DOMAIN bb_envs' = DOMAIN bb_envs \union {target}
        /\ DOMAIN shapes' = DOMAIN shapes \ {target}
    BY <1>5 DEF GotoJoinCheckFirst, Put
  <2> QED
    BY <1>1, <1>2, <2>1 DEF BW!Goto, BW!GotoJoinCheckFirst
<1>6. CASE GotoJoinCheckAgain
  <2>1. mode = "Check" /\ target \in DOMAIN bb_envs /\ UNCHANGED <<bb_envs, shapes>>
    BY <1>6 DEF GotoJoinCheckAgain
  <2> QED
    BY <1>1, <1>2, <2>1 DEF BW!Goto, BW!GotoJoinCheckAgain
<1> QED
  BY <1>2, <1>3, <1>4, <1>5, <1>6

LEMMA SuccessorWalks ==
  ASSUME ControlTypes, CheckReturn \/ CheckGoto \/ CheckDrop \/ CheckCall \/ CallError
  PROVE  ControlTypes' /\ (BW!CheckTerminator \/ UNCHANGED BW!vars)
<1>1. /\ Running /\ pc = "terminator" /\ cur \in Blocks
      /\ UNCHANGED <<body, visited, frames, pos, cur, bb_envs, shapes>>
  BY DEF ControlTypes, CheckReturn, CheckGoto, CheckDrop, CheckCall, CallError
<1>2. BW!Running /\ UNCHANGED <<Skeleton(body), DOMAIN bb_envs, DOMAIN shapes,
                                WalkFrames(body, frames)>>
  BY <1>1 DEF Running, BW!Running
<1>3. BW!Term(cur).kind = Term(cur).kind /\ BW!Term(cur).targets = Term(cur).targets
  BY <1>1, WalkTerm DEF ControlTypes
<1>4. /\ Term(cur).targets \in Seq(Blocks)
      /\ Term(cur).kind = "Return" => Len(Term(cur).targets) = 0
      /\ Term(cur).kind \in {"Goto", "Drop"} => Len(Term(cur).targets) = 1
      /\ Term(cur).kind = "Call" => Len(Term(cur).targets) \in {0, 1}
  BY <1>1, TargetFacts DEF Term, ControlTypes
<1>5. CASE Term(cur).targets = <<>> /\ pc' = "return" /\ UNCHANGED <<mode, target>>
  <2>1. BW!NoSuccessor
    BY <1>1, <1>2, <1>3, <1>5 DEF BW!NoSuccessor
  <2> QED
    BY <1>1, <1>5, <2>1 DEF ControlTypes, BW!CheckTerminator
<1>6. CASE /\ Term(cur).kind \in {"Goto", "Drop", "Call"} /\ Len(Term(cur).targets) = 1
           /\ target' = Term(cur).targets[1] /\ pc' = "goto" /\ UNCHANGED mode
  <2>1. BW!OneSuccessor
    BY <1>1, <1>2, <1>3, <1>6 DEF BW!OneSuccessor
  <2>2. target' \in Blocks
    BY <1>4, <1>6
  <2> QED
    BY <1>1, <1>6, <2>1, <2>2 DEF ControlTypes, BW!CheckTerminator
<1>7. CASE CheckReturn
  BY <1>4, <1>5, <1>7 DEF CheckReturn
<1>8. CASE CheckGoto
  BY <1>4, <1>6, <1>8 DEF CheckGoto
<1>9. CASE CheckDrop
  BY <1>4, <1>6, <1>9 DEF CheckDrop
<1>10. CASE CheckCall
  <2>1. CASE ~Ok(Inferred.st)
    <3>1. UNCHANGED <<mode, pc, target>>
      BY <1>10, <2>1 DEF CheckCall
    <3> QED
      BY <1>1, <1>2, <3>1 DEF ControlTypes, BW!vars
  <2>2. CASE Ok(Inferred.st) /\ Term(cur).targets = <<>>
    BY <1>5, <1>10, <2>2 DEF CheckCall
  <2>3. CASE Ok(Inferred.st) /\ Term(cur).targets # <<>>
    <3>1. /\ Term(cur).kind = "Call" /\ pc' = "goto" /\ target' = Term(cur).targets[1]
          /\ UNCHANGED mode
      BY <1>10, <2>3 DEF CheckCall
    <3>2. Len(Term(cur).targets) = 1
      BY <1>4, <2>3, <3>1
    <3> QED
      BY <1>6, <3>1, <3>2
  <2> QED
    BY <2>1, <2>2, <2>3
<1>11. CASE CallError
  <2>1. Term(cur).kind = "Call" /\ mode' = "Err" /\ pc' = "end" /\ UNCHANGED target
    BY <1>11 DEF CallError
  <2>2. BW!CallError
    BY <1>1, <1>2, <1>3, <2>1 DEF BW!CallError
  <2> QED
    BY <1>1, <2>1, <2>2 DEF ControlTypes, BW!CheckTerminator
<1> QED
  BY <1>7, <1>8, <1>9, <1>10, <1>11

(* Taking a branch of frame, with the frames rest below it.                *)
LEMMA BranchWalks ==
  ASSUME body \in Bodies, body' = body, NEW FrameSet, NEW rest \in Seq(FrameSet), NEW frame, NEW st,
         \A k \in 1..Len(rest) : IsFrame(rest[k]),
         IsFrame(frame), HasBranchLeft(body, frame),
         TakeBranch(st, frame, rest)
  PROVE  /\ cur' \in Blocks /\ target' \in Blocks
         /\ \E R : frames' \in Seq(R)
         /\ \A k \in 1..Len(frames') : IsFrame(frames'[k])
         /\ BW!TakeBranch(frame.bb, frame.next, WalkFrames(body, rest))
<1> DEFINE next == [frame EXCEPT !.next = frame.next + 1]
<1>1. /\ frames' = Append(rest, next) /\ cur' = frame.bb
      /\ target' = Term(frame.bb).targets[frame.next] /\ pc' = "goto"
  BY DEF TakeBranch, Branch
<1>2. /\ IsFrame(next) /\ next.bb = frame.bb /\ next.next = frame.next + 1
      /\ frame.bb \in Blocks /\ frame.next \in Nat \ {0}
  BY DEF IsFrame
<1> HIDE DEF next
<1>3. /\ frames' \in Seq(FrameSet \union {next}) /\ Len(frames') = Len(rest) + 1
      /\ frames'[Len(rest) + 1] = next /\ \A k \in 1..Len(rest) : frames'[k] = rest[k]
  BY <1>1, AppendProperties
<1>4. \A k \in 1..Len(frames') : IsFrame(frames'[k])
  <2>1. Len(rest) \in Nat
    BY LenProperties
  <2> QED
    BY <1>2, <1>3, <2>1
<1>5. /\ Term(frame.bb).targets \in Seq(Blocks)
      /\ BW!Term(frame.bb).targets = Term(frame.bb).targets
  BY <1>2, TargetFacts, WalkTerm DEF Term
<1>6. target' \in Blocks
  <2>1. frame.next \in 1..Len(Term(frame.bb).targets)
    BY <1>2, <1>5 DEF HasBranchLeft, Term
  <2> QED
    BY <1>1, <1>5, <2>1
<1>7. WalkFrames(body, frames)' = See(body, next, WalkFrames(body, rest))
  <2>1. WalkFrames(body, Append(rest, next)) = See(body, next, WalkFrames(body, rest))
    BY WalkFramesAppend
  <2> QED
    BY <1>1, <2>1
<1>8. HasBranchLeft(body, next) <=> frame.next < Len(BW!Term(frame.bb).targets)
  BY <1>2, <1>5 DEF HasBranchLeft, Term
<1>9. WalkFrame(next) = [bb |-> frame.bb, next |-> frame.next + 1]
  BY <1>2 DEF WalkFrame
<1>10. BW!TakeBranch(frame.bb, frame.next, WalkFrames(body, rest))
  BY <1>1, <1>5, <1>7, <1>8, <1>9 DEF See, BW!TakeBranch
<1> QED
  BY <1>1, <1>2, <1>3, <1>4, <1>6, <1>10

LEMMA SwitchWalks ==
  ASSUME ControlTypes, CheckSwitchInt
  PROVE  ControlTypes' /\ BW!CheckSwitchInt
<1>1. PICK st, frame :
         /\ TakeBranch(st, frame, frames)
         /\ DOMAIN frame = {"bb", "next", "cursor", "env", "discr"}
         /\ frame.bb = cur /\ frame.next = 1
         /\ frame = [x \in DOMAIN frame |-> frame[x]]
  <2> DEFINE after == AfterOperand(St, Term(cur).discr)
             usable == Ok(after) /\ OperandTy(St, Term(cur).discr).kind = "Refine"
             st == IF usable THEN after ELSE Panic(after, "unexpected discr_ty")
             discr == IF usable THEN OperandTy(St, Term(cur).discr).expr ELSE TT
             frame == [bb |-> cur, next |-> 1, cursor |-> cursor, env |-> after.env,
                       discr |-> discr]
  <2>1. TakeBranch(st, frame, frames)
    BY Zenon DEF CheckSwitchInt
  <2> HIDE DEF st, discr, after
  <2>2. DOMAIN frame = {"bb", "next", "cursor", "env", "discr"} /\ frame.bb = cur /\ frame.next = 1
        /\ frame = [x \in DOMAIN frame |-> frame[x]]
    OBVIOUS
  <2> HIDE DEF frame
  <2> QED
    BY <2>1, <2>2
<1>2. /\ Running /\ pc = "terminator" /\ Term(cur).kind = "SwitchInt" /\ cur \in Blocks
      /\ UNCHANGED <<body, mode, visited, pos, bb_envs, shapes>>
  BY DEF CheckSwitchInt, ControlTypes
<1>3. Len(Term(cur).targets) > 0 /\ Len(Term(cur).targets) \in Nat
  BY <1>2, TargetFacts, LenProperties DEF Term, ControlTypes
<1>4. IsFrame(frame) /\ HasBranchLeft(body, frame)
  BY <1>1, <1>2, <1>3 DEF IsFrame, HasBranchLeft, Term
<1>5. PICK FrameSet : frames \in Seq(FrameSet)
  BY DEF ControlTypes
<1>6. /\ cur' \in Blocks /\ target' \in Blocks
      /\ \E R : frames' \in Seq(R)
      /\ \A k \in 1..Len(frames') : IsFrame(frames'[k])
      /\ BW!TakeBranch(cur, 1, WalkFrames(body, frames))
  <2>1. /\ cur' \in Blocks /\ target' \in Blocks
        /\ \E R : frames' \in Seq(R)
        /\ \A k \in 1..Len(frames') : IsFrame(frames'[k])
        /\ BW!TakeBranch(frame.bb, frame.next, WalkFrames(body, frames))
    BY <1>1, <1>2, <1>4, <1>5, BranchWalks DEF ControlTypes
  <2> QED
    BY <1>1, <2>1
<1>7. ControlTypes'
  BY <1>2, <1>6 DEF ControlTypes
<1>8. BW!CheckSwitchInt
  BY <1>2, <1>6, WalkTerm DEF ControlTypes, BW!CheckSwitchInt, Running, BW!Running
<1> QED
  BY <1>7, <1>8

(* The frames as the last one on those below it.                           *)
LEMMA LastFrame ==
  ASSUME NEW FrameSet, NEW fs \in Seq(FrameSet), fs # <<>>
  PROVE  /\ Front(fs) \in Seq(FrameSet) /\ Len(Front(fs)) = Len(fs) - 1
         /\ \A k \in 1..Len(fs) - 1 : Front(fs)[k] = fs[k]
         /\ Last(fs) = fs[Len(fs)] /\ Len(fs) \in Nat \ {0}
         /\ fs = Append(Front(fs), Last(fs))
<1>1. Len(fs) \in Nat \ {0}
  BY EmptySeq, LenProperties
<1>2. /\ Front(fs) \in Seq(FrameSet) /\ Len(Front(fs)) = Len(fs) - 1
      /\ \A k \in 1..Len(fs) - 1 : Front(fs)[k] = fs[k]
      /\ Last(fs) = fs[Len(fs)]
  <2>1. 1 \in 1..(Len(fs) + 1) /\ Len(fs) - 1 \in 0..Len(fs)
    BY <1>1
  <2>2. /\ SubSeq(fs, 1, Len(fs) - 1) \in Seq(FrameSet)
        /\ Len(SubSeq(fs, 1, Len(fs) - 1)) = Len(fs) - 1
        /\ \A k \in 1..Len(fs) - 1 : SubSeq(fs, 1, Len(fs) - 1)[k] = fs[k]
    <3>1. /\ SubSeq(fs, 1, Len(fs) - 1) \in Seq(FrameSet)
          /\ Len(SubSeq(fs, 1, Len(fs) - 1)) =
               IF 1 <= Len(fs) - 1 THEN (Len(fs) - 1) - 1 + 1 ELSE 0
          /\ \A k \in 1..(Len(fs) - 1) - 1 + 1 :
                SubSeq(fs, 1, Len(fs) - 1)[k] = fs[1 + k - 1]
      BY <1>1, <2>1, SubSeqProperties
    <3>2. (Len(fs) - 1) - 1 + 1 = Len(fs) - 1 /\ \A k \in Int : 1 + k - 1 = k
      BY <1>1
    <3> QED
      BY <1>1, <3>1, <3>2
  <2> QED
    BY <2>2 DEF Front, Last
<1>3. Last(fs) \in FrameSet
  BY <1>1, <1>2, ElementOfSeq
<1>4. fs = Append(Front(fs), Last(fs))
  <2> DEFINE gs == Append(Front(fs), Last(fs))
  <2>1. /\ gs \in Seq(FrameSet) /\ Len(gs) = Len(fs) /\ gs[Len(fs)] = fs[Len(fs)]
        /\ \A k \in 1..Len(fs) - 1 : gs[k] = fs[k]
    BY <1>1, <1>2, <1>3, AppendProperties
  <2> HIDE DEF gs
  <2>2. \A k \in 1..Len(fs) : gs[k] = fs[k]
    BY <1>1, <2>1
  <2> QED
    BY <2>1, <2>2, SeqEqual DEF gs
<1> QED
  BY <1>1, <1>2, <1>4

LEMMA NextBranchWalks ==
  ASSUME ControlTypes, NextBranch
  PROVE  ControlTypes' /\ BW!NextBranch
<1> DEFINE top == Last(frames)
           rest == Front(frames)
           walk == WalkFrames(body, frames)
           below == WalkFrames(body, rest)
<1>1. /\ Running /\ pc = "return" /\ frames # <<>> /\ HasBranchLeft(body, top)
      /\ TakeBranch(St, top, rest)
      /\ UNCHANGED <<body, mode, visited, pos, bb_envs, shapes>>
  BY DEF NextBranch
<1>2. PICK FrameSet : frames \in Seq(FrameSet)
  BY DEF ControlTypes
<1>3. /\ rest \in Seq(FrameSet) /\ Len(rest) = Len(frames) - 1
      /\ \A k \in 1..Len(frames) - 1 : rest[k] = frames[k]
      /\ top = frames[Len(frames)] /\ Len(frames) \in Nat \ {0}
      /\ frames = Append(rest, top)
  BY <1>1, <1>2, LastFrame
<1> HIDE DEF top, rest
<1>4. IsFrame(top) /\ \A k \in 1..Len(rest) : IsFrame(rest[k])
  <2>1. Len(frames) \in 1..Len(frames) /\ \A k \in 1..Len(rest) : k \in 1..Len(frames)
    BY <1>3
  <2> QED
    BY <1>3, <2>1 DEF ControlTypes
<1>5. /\ cur' \in Blocks /\ target' \in Blocks
      /\ \E R : frames' \in Seq(R)
      /\ \A k \in 1..Len(frames') : IsFrame(frames'[k])
      /\ BW!TakeBranch(top.bb, top.next, WalkFrames(body, rest))
  BY <1>1, <1>3, <1>4, BranchWalks DEF ControlTypes
<1>6. walk = Append(below, WalkFrame(top))
  BY <1>1, <1>2, <1>3, WalkFramesAppend DEF See
<1>7. /\ walk # <<>> /\ walk[Len(walk)] = WalkFrame(top)
      /\ SubSeq(walk, 1, Len(walk) - 1) = below
  <2>1. PICK R : below \in Seq(R)
    BY <1>3, WalkFramesSeq
  <2> HIDE DEF walk, below
  <2>2. /\ walk \in Seq(R \union {WalkFrame(top)}) /\ Len(walk) = Len(below) + 1
        /\ walk[Len(below) + 1] = WalkFrame(top) /\ Len(below) \in Nat
    BY <1>6, <2>1, AppendProperties, LenProperties
  <2>3. SubSeq(walk, 1, Len(below)) = below
    BY <1>6, <2>1
  <2> QED
    BY <2>2, <2>3
<1>8. ControlTypes'
  BY <1>1, <1>5 DEF ControlTypes
<1>9. WalkFrame(top).bb = top.bb /\ WalkFrame(top).next = top.next
  BY DEF WalkFrame
<1>10. BW!NextBranch
  <2> HIDE DEF below
  <2>1. BW!TakeBranch(walk[Len(walk)].bb, walk[Len(walk)].next, SubSeq(walk, 1, Len(walk) - 1))
    BY <1>5, <1>7, <1>9 DEF below
  <2>2. BW!Running
    BY <1>1 DEF Running, BW!Running
  <2>3. UNCHANGED <<Skeleton(body), mode, visited, DOMAIN bb_envs, DOMAIN shapes, pos>>
    BY <1>1
  <2> QED
    BY <1>1, <1>7, <2>1, <2>2, <2>3 DEF BW!NextBranch
<1> QED
  BY <1>8, <1>10

LEMMA EndSwitchWalks ==
  ASSUME ControlTypes, EndSwitch
  PROVE  ControlTypes' /\ UNCHANGED BW!vars
<1>1. /\ frames # <<>> /\ ~HasBranchLeft(body, Last(frames)) /\ frames' = Front(frames)
      /\ UNCHANGED <<body, mode, visited, pos, pc, cur, target, bb_envs, shapes>>
  BY DEF EndSwitch
<1>2. PICK FrameSet : frames \in Seq(FrameSet)
  BY DEF ControlTypes
<1>3. /\ Front(frames) \in Seq(FrameSet) /\ Len(Front(frames)) = Len(frames) - 1
      /\ \A k \in 1..Len(frames) - 1 : Front(frames)[k] = frames[k]
      /\ Len(frames) \in Nat \ {0}
      /\ frames = Append(Front(frames), Last(frames))
  BY <1>1, <1>2, LastFrame
<1>4. WalkFrames(body, frames) = WalkFrames(body, Front(frames))
  BY <1>1, <1>3, WalkFramesAppend DEF See
<1>5. WalkFrames(body, frames)' = WalkFrames(body, frames)
  BY <1>1, <1>4
<1>6. \A k \in 1..Len(frames') : IsFrame(frames'[k])
  <2>1. \A k \in 1..Len(Front(frames)) : k \in 1..Len(frames)
    BY <1>3
  <2> QED
    BY <1>1, <1>3, <2>1 DEF ControlTypes
<1>7. ControlTypes'
  BY <1>1, <1>3, <1>6 DEF ControlTypes
<1> QED
  BY <1>1, <1>5, <1>7 DEF BW!vars

LEMMA ReturnToRunWalks ==
  ASSUME ControlTypes, ReturnToRun
  PROVE  ControlTypes' /\ BW!ReturnToRun
<1>1. /\ Running /\ pc = "return" /\ frames = <<>> /\ pc' = "loop"
      /\ UNCHANGED <<body, mode, visited, frames, pos, cur, target, bb_envs, shapes>>
  BY DEF ReturnToRun
<1>2. WalkFrames(body, frames) = <<>>
  BY <1>1, WalkFramesEmpty
<1>3. ControlTypes'
  BY <1>1 DEF ControlTypes
<1> QED
  BY <1>1, <1>2, <1>3 DEF BW!ReturnToRun, Running, BW!Running

LEMMA RunSkipWalks ==
  ASSUME ControlTypes, RunSkip
  PROVE  ControlTypes' /\ BW!RunSkip
<1>1. /\ Running /\ pc = "loop" /\ pos < Len(body.rpo) /\ body.rpo[pos + 1] \in visited
      /\ pos' = pos + 1
      /\ UNCHANGED <<body, mode, visited, frames, pc, cur, target, bb_envs, shapes>>
  BY DEF RunSkip
<1>2. Skeleton(body).rpo = body.rpo
  BY SkeletonFacts DEF ControlTypes
<1>3. ControlTypes'
  BY <1>1 DEF ControlTypes
<1> QED
  BY <1>1, <1>2, <1>3 DEF BW!RunSkip, Running, BW!Running

LEMMA RunBlockWalks ==
  ASSUME ControlTypes, RunBlock
  PROVE  ControlTypes' /\ BW!RunBlock
<1> DEFINE bb == body.rpo[pos + 1]
<1>1. /\ Running /\ pc = "loop" /\ pos < Len(body.rpo)
      /\ bb \notin visited /\ bb \in DOMAIN bb_envs
      /\ visited' = visited \union {bb} /\ pc' = "terminator" /\ cur' = bb
      /\ pos' = pos + 1
      /\ UNCHANGED <<body, mode, frames, target, bb_envs, shapes>>
  BY DEF RunBlock, CheckBasicBlock
<1>2. Skeleton(body).rpo = body.rpo /\ body.rpo \in Seq(Blocks) /\ pos \in Nat
  BY SkeletonFacts, OrderFacts DEF ControlTypes
<1>3. bb \in Blocks
  <2>1. pos + 1 \in 1..Len(body.rpo)
    BY <1>1, <1>2, LenProperties
  <2> QED
    BY <1>2, <2>1
<1> HIDE DEF bb
<1>4. ControlTypes'
  BY <1>1, <1>3 DEF ControlTypes
<1>5. BW!RunBlock
  BY <1>1, <1>2 DEF bb, BW!RunBlock, BW!CheckBasicBlock, Running, BW!Running
<1> QED
  BY <1>4, <1>5

LEMMA EndInferenceWalks ==
  ASSUME ControlTypes, EndInference
  PROVE  ControlTypes' /\ BW!EndInference
<1>1. /\ mode = "Inference" /\ pc = "loop" /\ pos = Len(body.rpo)
      /\ mode' = "Check" /\ DOMAIN shapes' = DOMAIN bb_envs
      /\ visited' = {} /\ bb_envs' = <<>> /\ frames' = <<>> /\ pos' = 0
      /\ pc' = "goto" /\ cur' = START /\ target' = START /\ UNCHANGED body
  BY DEF EndInference
<1>2. WalkFrames(body, frames)' = <<>> /\ (DOMAIN bb_envs)' = {}
  BY <1>1, WalkFramesEmpty
<1>3. Skeleton(body).rpo = body.rpo
  BY SkeletonFacts DEF ControlTypes
<1>4. frames' \in Seq({})
  BY <1>1
<1>5. ControlTypes'
  BY <1>1, <1>4, CheckerAssumption DEF ControlTypes
<1>6. BW!EndInference
  BY <1>1, <1>2, <1>3 DEF BW!EndInference
<1> QED
  BY <1>5, <1>6

LEMMA EndCheckWalks ==
  ASSUME ControlTypes, EndCheck
  PROVE  ControlTypes' /\ BW!EndCheck
<1>1. /\ mode = "Check" /\ pc = "loop" /\ pos = Len(body.rpo) /\ mode' = "Done" /\ pc' = "end"
      /\ UNCHANGED <<body, visited, frames, pos, cur, target, bb_envs, shapes>>
  BY DEF EndCheck
<1>2. Skeleton(body).rpo = body.rpo
  BY SkeletonFacts DEF ControlTypes
<1>3. ControlTypes'
  BY <1>1 DEF ControlTypes
<1>4. BW!EndCheck
  BY <1>1, <1>2 DEF BW!EndCheck
<1> QED
  BY <1>3, <1>4

LEMMA StutterWalks ==
  ASSUME ControlTypes, UNCHANGED vars
  PROVE  ControlTypes' /\ UNCHANGED BW!vars
BY DEF ControlTypes, vars, BW!vars

-----------------------------------------------------------------------------

LEMMA StepWalks ==
  ASSUME ControlTypes, [Next]_vars
  PROVE  ControlTypes' /\ [BW!Next]_(BW!vars)
<1>1. CASE GotoBlock
  BY <1>1, GotoBlockWalks DEF BW!Next, BW!Step, BW!Goto
<1>2. CASE \/ GotoJoinInferFirst \/ GotoJoinInferAgain
           \/ GotoJoinCheckFirst \/ GotoJoinCheckAgain
  BY <1>2, GotoJoinWalks DEF BW!Next, BW!Step
<1>3. CASE CheckReturn \/ CheckGoto \/ CheckDrop \/ CheckCall \/ CallError
  BY <1>3, SuccessorWalks DEF BW!Next, BW!Step
<1>4. CASE CheckSwitchInt
  BY <1>4, SwitchWalks DEF BW!Next, BW!Step, BW!CheckTerminator
<1>5. CASE NextBranch
  BY <1>5, NextBranchWalks DEF BW!Next, BW!Step, BW!Return
<1>6. CASE EndSwitch
  BY <1>6, EndSwitchWalks
<1>7. CASE ReturnToRun
  BY <1>7, ReturnToRunWalks DEF BW!Next, BW!Step, BW!Return
<1>8. CASE RunSkip
  BY <1>8, RunSkipWalks DEF BW!Next, BW!Step, BW!Loop
<1>9. CASE RunBlock
  BY <1>9, RunBlockWalks DEF BW!Next, BW!Step, BW!Loop
<1>10. CASE EndInference
  BY <1>10, EndInferenceWalks DEF BW!Next, BW!Step, BW!Loop
<1>11. CASE EndCheck
  BY <1>11, EndCheckWalks DEF BW!Next, BW!Step, BW!Loop
<1>12. CASE Terminated \/ UNCHANGED vars
  BY <1>12, StutterWalks DEF Terminated
<1> QED
  BY <1>1, <1>2, <1>3, <1>4, <1>5, <1>6, <1>7, <1>8, <1>9, <1>10, <1>11, <1>12 DEF Next

(* Every step of the checker is a step of the walk of BlockWalk or none    *)
(* (property ImplementsWalk): environments, constraints and cursors change *)
(* no block's turn, whatever the bodies and the iteration orders are.      *)
THEOREM CheckerImplementsWalk == Spec => ImplementsWalk
<1>1. Init => ControlTypes /\ BW!Init
  BY InitWalks
<1>2. ControlTypes /\ [Next]_vars => ControlTypes' /\ [BW!Next]_(BW!vars)
  BY StepWalks
<1> QED
  BY <1>1, <1>2, PTL DEF Spec, ImplementsWalk, BW!Spec

-----------------------------------------------------------------------------
(* What was proved of the walk holds of the checker                        *)

Walk == INSTANCE BlockWalkProofs
          WITH Bodies  <- {b \in BodyType : WellFormed(b)},
               body    <- Skeleton(body),
               bb_envs <- DOMAIN bb_envs,
               shapes  <- DOMAIN shapes,
               frames  <- WalkFrames(body, frames)

LEMMA WalkAssumption == Walk!BlockWalkAssumption
BY CheckerAssumption
   DEF Walk!BlockWalkAssumption, BodyType, TerminatorKind, WellFormed, IsWalkOrder,
       Predecessors, Edges, Target, Walk!BodyType, Walk!TerminatorKind, Walk!WellFormed,
       Walk!IsWalkOrder, Walk!Predecessors, Walk!Edges, Walk!Target

LEMMA WalkSpec == Spec => Walk!Spec
<1>1. BW!Init => Walk!Init
  BY DEF BW!Init, Walk!Init
<1>2. [BW!Next]_(BW!vars) => [Walk!Next]_(Walk!vars)
  <2>1. /\ \A bb : BW!Term(bb) = Walk!Term(bb) /\ (BW!Join(bb) <=> Walk!Join(bb))
        /\ BW!vars = Walk!vars /\ BW!vars' = Walk!vars' /\ (BW!Running <=> Walk!Running)
    BY DEF BW!Term, BW!Join, BW!IsJoinPoint, BW!Predecessors, BW!Edges, BW!Target, BW!vars, BW!Running,
           Walk!Term, Walk!Join, Walk!IsJoinPoint, Walk!Predecessors, Walk!Edges, Walk!Target, Walk!vars, Walk!Running
  <2>2. BW!Goto => Walk!Goto
    BY <2>1 DEF BW!Goto, BW!GotoBlock, BW!GotoJoinInfer, BW!GotoJoinCheckFirst, BW!GotoJoinCheckAgain,
                BW!CheckBasicBlock, Walk!CheckBasicBlock,
                Walk!Goto, Walk!GotoBlock, Walk!GotoJoinInfer, Walk!GotoJoinCheckFirst, Walk!GotoJoinCheckAgain
  <2>3. BW!CheckTerminator => Walk!CheckTerminator
    BY <2>1 DEF BW!CheckTerminator, BW!NoSuccessor, BW!OneSuccessor, BW!CallError, BW!CheckSwitchInt, BW!TakeBranch,
                Walk!CheckTerminator, Walk!NoSuccessor, Walk!OneSuccessor, Walk!CallError, Walk!CheckSwitchInt, Walk!TakeBranch
  <2>4. BW!Return => Walk!Return
    BY <2>1 DEF BW!Return, BW!NextBranch, BW!ReturnToRun, BW!TakeBranch,
                Walk!Return, Walk!NextBranch, Walk!ReturnToRun, Walk!TakeBranch
  <2>5. BW!Loop => Walk!Loop
    BY <2>1 DEF BW!Loop, BW!RunSkip, BW!RunBlock, BW!EndInference, BW!EndCheck, BW!CheckBasicBlock,
                Walk!Loop, Walk!RunSkip, Walk!RunBlock, Walk!EndInference, Walk!EndCheck, Walk!CheckBasicBlock
  <2>6. BW!Terminated => Walk!Terminated
    BY <2>1 DEF BW!Terminated, Walk!Terminated
  <2> QED
    BY <2>1, <2>2, <2>3, <2>4, <2>5, <2>6 DEF BW!Next, BW!Step, Walk!Next, Walk!Step
<1> QED
  BY <1>1, <1>2, CheckerImplementsWalk, PTL DEF ImplementsWalk, BW!Spec, Walk!Spec

LEMMA WalkJoins ==
  ASSUME ControlTypes, NEW bb
  PROVE  Walk!Join(bb) <=> IsJoinPoint(body, bb)
BY SameJoin DEF ControlTypes, Walk!Join, Walk!IsJoinPoint, Walk!Predecessors, Walk!Edges,
                Walk!Target, IsJoinPoint, Predecessors, Edges, Target

LEMMA BodyInvariant == Spec => []ControlTypes
<1>1. Init => ControlTypes
  BY InitWalks
<1>2. ControlTypes /\ [Next]_vars => ControlTypes'
  BY StepWalks
<1> QED
  BY <1>1, <1>2, PTL DEF Spec

(* A function that was checked without an error or a panic was checked     *)
(* whole: every block has been visited, every join point has got its       *)
(* environment, and every shape of the Inference phase was used.           *)
THEOREM NoBlockEscapes ==
  Spec => [](mode = "Done" => /\ visited = Blocks
                              /\ DOMAIN bb_envs = JoinPoints(body)
                              /\ DOMAIN shapes = {})
<1>1. ControlTypes /\ Walk!AllChecked =>
        (mode = "Done" => /\ visited = Blocks
                          /\ DOMAIN bb_envs = JoinPoints(body)
                          /\ DOMAIN shapes = {})
  BY WalkJoins DEF Walk!AllChecked, JoinPoints
<1>2. Walk!Spec => []Walk!AllChecked
  BY WalkAssumption, Walk!EveryBlockChecked, PTL
<1> QED
  BY <1>1, <1>2, WalkSpec, BodyInvariant, PTL

(* The index self.bb_envs[&bb] of run finds an environment whenever it is  *)
(* reached (checker.rs:164).                                               *)
THEOREM EnvironmentFound ==
  Spec => [](Running /\ pc = "loop" /\ pos < Len(body.rpo) =>
               body.rpo[pos + 1] \in visited \union DOMAIN bb_envs)
<1>1. ControlTypes /\ Walk!BbEnvPresent =>
        (Running /\ pc = "loop" /\ pos < Len(body.rpo) =>
           body.rpo[pos + 1] \in visited \union DOMAIN bb_envs)
  BY SkeletonFacts DEF ControlTypes, Walk!BbEnvPresent, Walk!Running, Running
<1>2. Walk!Spec => []Walk!BbEnvPresent
  BY WalkAssumption, Walk!BbEnvAlwaysPresent, PTL
<1> QED
  BY <1>1, <1>2, WalkSpec, BodyInvariant, PTL

(* shapes.remove(&target) finds a shape at the first goto of the Check     *)
(* phase to each join point (checker.rs:383), although that phase infers   *)
(* other types and may take its branches with other environments.          *)
THEOREM ShapeFound ==
  Spec => [](mode = "Check" /\ pc = "goto" /\ Join(target) =>
               target \in DOMAIN bb_envs \union DOMAIN shapes)
<1>1. ControlTypes /\ Walk!ShapePresent =>
        (mode = "Check" /\ pc = "goto" /\ Join(target) =>
           target \in DOMAIN bb_envs \union DOMAIN shapes)
  BY WalkJoins DEF Walk!ShapePresent, Join
<1>2. Walk!Spec => []Walk!ShapePresent
  BY WalkAssumption, Walk!ShapeAlwaysPresent, PTL
<1> QED
  BY <1>1, <1>2, WalkSpec, BodyInvariant, PTL

(* No block is checked twice in a phase: the recursion of check_goto never *)
(* reaches a block that is no join point again (checker.rs:349).           *)
THEOREM NoBlockTwice ==
  Spec => [](pc = "goto" /\ ~Join(target) => target \notin visited)
<1>1. ControlTypes /\ Walk!CheckedOnce => (pc = "goto" /\ ~Join(target) => target \notin visited)
  BY WalkJoins DEF Walk!CheckedOnce, Join
<1>2. Walk!Spec => []Walk!CheckedOnce
  BY WalkAssumption, Walk!BlocksCheckedOnce, PTL
<1> QED
  BY <1>1, <1>2, WalkSpec, BodyInvariant, PTL

(* The proofs about the cursors of a ConstraintBuilder, for the live ones. *)
Builder == INSTANCE ConstraintBuilderProofs
             WITH cursors <- LiveCursors,
                  MaxNodes <- 0, MaxKVars <- 0, MaxCursors <- 0, MaxScopes <- 0

-----------------------------------------------------------------------------
(* The operations of ConstraintBuilderProofs are those of the checker.     *)

LEMMA SameTypes ==
  /\ \A e : Builder!ConstExpr(e) = ConstExpr(e) /\ Builder!VarExpr(e) = VarExpr(e)
  /\ \A op, e1, e2 : Builder!BinaryExpr(op, e1, e2) = BinaryExpr(op, e1, e2)
  /\ \A p : Builder!PredVars(p) = PredVars(p)
  /\ \A p, e : Builder!SubstPred(p, e) = SubstPred(p, e)
BY DEF Builder!ConstExpr, Builder!VarExpr, Builder!BinaryExpr, Builder!PredVars,
       Builder!SubstPred, Builder!SubstBoundVars, Builder!BoundVar, Builder!ExprPred,
       ConstExpr, VarExpr, BinaryExpr, PredVars, SubstPred, SubstBoundVars, BoundVar, ExprPred

LEMMA SameKVars ==
  ASSUME NEW s
  PROVE  /\ Builder!FreshKVar(s) = FreshKVar(s)
         /\ Builder!FreshKVarAtLastScope(s) = FreshKVarAtLastScope(s)
         /\ \A b, k : Builder!KVarArgs(b, k) = KVarArgs(b, k)
         /\ \A t, k : Builder!FreshKVarAt(t, k) = FreshKVarAt(t, k)
<1>1. \A b, scope : Builder!KVarArgs(b, scope) = KVarArgs(b, scope)
  BY DEF Builder!KVarArgs, KVarArgs
<1>2. \A t, scope : Builder!FreshKVarAt(t, scope) = FreshKVarAt(t, scope)
  BY <1>1 DEF Builder!FreshKVarAt, FreshKVarAt
<1>3. Builder!LastScope(s.b) = LastScope(s.b)
  BY DEF Builder!LastScope, LastScope, Builder!Last, Last
<1> QED
  BY <1>1, <1>2, <1>3 DEF Builder!FreshKVar, FreshKVar, Builder!FreshKVarAtLastScope, FreshKVarAtLastScope

LEMMA SameNodes ==
  ASSUME NEW s
  PROVE  /\ Builder!PushScope(s) = PushScope(s)
         /\ Builder!FreshName(s) = FreshName(s) /\ Builder!TakeName(s) = TakeName(s)
         /\ \A e : Builder!PushGuard(s, e) = PushGuard(s, e)
         /\ \A p : Builder!PushHead(s, p) = PushHead(s, p)
         /\ \A x, p : Builder!PushForall(s, x, p) = PushForall(s, x, p)
<1>1. \A t, kind, bound, p : Builder!PushNode(t, kind, bound, p) = PushNode(t, kind, bound, p)
  BY DEF Builder!PushNode, PushNode
<1>2. \A stack, n, v : Builder!SetOrPush(stack, n, v) = SetOrPush(stack, n, v)
  BY DEF Builder!SetOrPush, SetOrPush
<1>3. \A t, x : Builder!PushVar(t, x) = PushVar(t, x)
  BY <1>2 DEF Builder!PushVar, PushVar
<1>4. \A x, p : Builder!PushForall(s, x, p) = PushForall(s, x, p)
  BY <1>1, <1>3 DEF Builder!PushForall, PushForall
<1>5. \A p : Builder!PushHead(s, p) = PushHead(s, p)
  BY <1>1 DEF Builder!PushHead, PushHead, Builder!IsTrue, Builder!TT, Builder!ExprPred, Builder!ConstExpr,
              IsTrue, TT, ExprPred, ConstExpr
<1>6. \A e : Builder!PushGuard(s, e) = PushGuard(s, e)
  BY <1>1 DEF Builder!PushGuard, PushGuard, Builder!ExprPred, ExprPred
<1>7. Builder!FreshName(s) = FreshName(s) /\ Builder!TakeName(s) = TakeName(s)
  BY DEF Builder!FreshName, FreshName, Builder!TakeName, TakeName
<1>8. Builder!PushScope(s) = PushScope(s)
  BY <1>2 DEF Builder!PushScope, PushScope
<1> QED
  BY <1>4, <1>5, <1>6, <1>7, <1>8

LEMMA SameSubtyping ==
  ASSUME NEW s
  PROVE  /\ \A ty : Builder!Unpack(s, ty) = Unpack(s, ty)
         /\ \A ty1, ty2 : Builder!Subtyping(s, ty1, ty2) = Subtyping(s, ty1, ty2)
<1>1. \A ty : Builder!Unpack(s, ty) = Unpack(s, ty)
  BY SameNodes, SameTypes DEF Builder!Unpack, Unpack
<1>2. \A ty : Builder!UnpackedTy(s, ty) = UnpackedTy(s, ty)
  BY SameNodes, SameTypes DEF Builder!UnpackedTy, UnpackedTy, Builder!Refine, Refine
<1>3. ASSUME NEW ty1, NEW ty2
      PROVE  Builder!Subtyping(s, ty1, ty2) = Subtyping(s, ty1, ty2)
  <2> DEFINE value == UnpackedTy(s, ty1).expr
             u == Unpack(s, ty1)
  <2>1. /\ Builder!UnpackedTy(s, ty1).expr = value /\ Builder!Unpack(s, ty1) = u
        /\ \A e : Builder!ExprPred(Builder!BinaryExpr("Eq", value, e)) = ExprPred(BinaryExpr("Eq", value, e))
        /\ \A p : Builder!SubstPred(p, value) = SubstPred(p, value)
        /\ \A p : Builder!PushHead(u, p) = PushHead(u, p)
    BY <1>1, <1>2, SameTypes, SameNodes DEF Builder!ExprPred, ExprPred
  <2> HIDE DEF value, u
  <2> QED
    BY <2>1 DEF Builder!Subtyping, Subtyping, value, u
<1> QED
  BY <1>1, <1>3

-----------------------------------------------------------------------------
(* Types, bindings and environments over names the builder has given out.  *)

Name == Nat \ {0}
Loc == {"Local", "Abstract"} \X Nat

WellExpr(e) == e.fv \subseteq Name
WellPred(p) ==
    \/ \E e : p = ExprPred(e) /\ WellExpr(e)
    \/ \E kvid, args : p = KVar(kvid, args) /\ \A i \in DOMAIN args : WellExpr(args[i])
WellValue(ty) ==
    \/ ty = Uninit
    \/ \E e : ty = Refine(e) /\ WellExpr(e)
    \/ \E p : ty = Exists(p) /\ WellPred(p)
WellTy(ty) ==
    \/ WellValue(ty)
    \/ \E loc : ty = StrgRef(loc)
    \/ \E value : ty = Ref(value) /\ WellValue(value)
WellBinding(b) ==
    \E ty : /\ WellTy(ty)
            /\ b = Strong(ty) \/ \E bound : b = Weak(bound, ty) /\ WellValue(bound)
WellShape(s) ==
    /\ DOMAIN s \subseteq Loc /\ IsFiniteSet(DOMAIN s)
    /\ \A loc \in DOMAIN s : WellTy(s[loc])
WellEnv(e) ==
    /\ DOMAIN e \subseteq Loc /\ IsFiniteSet(DOMAIN e)
    /\ \A loc \in DOMAIN e : WellBinding(e[loc])

LEMMA ExprFacts ==
  /\ \A c : WellExpr(ConstExpr(c)) /\ WellExpr(BoundVar) /\ WellExpr(TT)
  /\ \A x \in Name : WellExpr(VarExpr(x))
  /\ \A op, e : WellExpr(e) => WellExpr(UnaryExpr(op, e))
  /\ \A op, e1, e2 : WellExpr(e1) /\ WellExpr(e2) => WellExpr(BinaryExpr(op, e1, e2))
BY DEF WellExpr, ConstExpr, VarExpr, UnaryExpr, BinaryExpr, BoundVar, TT

LEMMA PredFacts ==
  ASSUME NEW p, WellPred(p)
  PROVE  /\ PredVars(p) \subseteq Name
         /\ \A e : WellExpr(e) => WellPred(SubstPred(p, e))
<1>1. ASSUME NEW a, WellExpr(a), NEW e, WellExpr(e)
      PROVE  WellExpr(SubstBoundVars(a, e))
  BY <1>1 DEF WellExpr, SubstBoundVars
<1>2. CASE \E e : p = ExprPred(e) /\ WellExpr(e)
  <2>1. PICK e : p = ExprPred(e) /\ WellExpr(e)
    BY <1>2
  <2>2. p.kind = "Expr" /\ p.expr = e
    BY <2>1 DEF ExprPred
  <2>3. \A to : SubstPred(p, to) = ExprPred(SubstBoundVars(e, to))
    BY <2>2 DEF SubstPred
  <2>4. \A to : WellExpr(to) => WellPred(SubstPred(p, to))
    BY <1>1, <2>1, <2>3 DEF WellPred
  <2> QED
    BY <2>1, <2>2, <2>4 DEF PredVars, WellExpr
<1>3. CASE \E kvid, args : p = KVar(kvid, args) /\ \A i \in DOMAIN args : WellExpr(args[i])
  <2>1. PICK kvid, args : p = KVar(kvid, args) /\ \A i \in DOMAIN args : WellExpr(args[i])
    BY <1>3
  <2>2. p.kind = "KVar" /\ p.args = args
    BY <2>1 DEF KVar
  <2>3. ASSUME NEW to, WellExpr(to)
        PROVE  WellPred(SubstPred(p, to))
    <3> DEFINE new == [i \in DOMAIN args |-> SubstBoundVars(args[i], to)]
    <3>1. SubstPred(p, to) = [p EXCEPT !.args = new]
      BY <2>2 DEF SubstPred
    <3>2. \A i \in DOMAIN new : WellExpr(new[i])
      BY <1>1, <2>1, <2>3
    <3> HIDE DEF new
    <3>3. SubstPred(p, to) = KVar(kvid, new)
      BY <2>1, <3>1 DEF KVar
    <3> QED
      BY <3>2, <3>3 DEF WellPred
  <2>4. PredVars(p) = UNION {args[i].fv : i \in DOMAIN args}
    BY <2>2 DEF PredVars
  <2>5. PredVars(p) \subseteq Name
    BY <2>1, <2>4 DEF WellExpr
  <2> QED
    BY <2>3, <2>5
<1> QED
  BY <1>2, <1>3 DEF WellPred

LEMMA ValueFacts ==
  ASSUME NEW ty, WellValue(ty)
  PROVE  /\ ty.kind \in {"Uninit", "Refine", "Exists"}
         /\ ty.kind = "Uninit" => ty = Uninit
         /\ ty.kind = "Refine" => ty = Refine(ty.expr) /\ WellExpr(ty.expr)
         /\ ty.kind = "Exists" => ty = Exists(ty.pred) /\ WellPred(ty.pred)
BY DEF WellValue, Uninit, Refine, Exists

LEMMA TyFacts ==
  ASSUME NEW ty, WellTy(ty)
  PROVE  /\ ty.kind \in TyKind
         /\ ty.kind \in {"Uninit", "Refine", "Exists"} => WellValue(ty)
         /\ ty.kind = "StrgRef" => ty = StrgRef(ty.loc)
         /\ ty.kind = "Ref" => ty = Ref(ty.ty) /\ WellValue(ty.ty)
<1>1. CASE WellValue(ty)
  BY <1>1, ValueFacts DEF TyKind
<1>2. CASE \E loc : ty = StrgRef(loc)
  BY <1>2 DEF StrgRef, TyKind
<1>3. CASE \E value : ty = Ref(value) /\ WellValue(value)
  BY <1>3 DEF Ref, TyKind
<1> QED
  BY <1>1, <1>2, <1>3 DEF WellTy

LEMMA WellTypes ==
  /\ WellValue(Uninit)
  /\ \A e : WellExpr(e) => WellValue(Refine(e))
  /\ \A p : WellPred(p) => WellValue(Exists(p))
  /\ \A e : WellExpr(e) => WellPred(ExprPred(e))
  /\ \A ty : WellValue(ty) => WellTy(ty) /\ WellTy(Ref(ty))
  /\ \A loc : WellTy(StrgRef(loc))
BY DEF WellValue, WellTy, WellPred

LEMMA BindingFacts ==
  ASSUME NEW b, WellBinding(b)
  PROVE  /\ b.kind \in {"Strong", "Weak"} /\ WellTy(b.ty)
         /\ b.kind = "Weak" => WellValue(b.bound)
         /\ \A ty : WellTy(ty) => WellBinding([b EXCEPT !.ty = ty])
<1>1. PICK ty : /\ WellTy(ty)
                /\ b = Strong(ty) \/ \E bound : b = Weak(bound, ty) /\ WellValue(bound)
  BY DEF WellBinding
<1>2. CASE b = Strong(ty)
  <2>1. \A t : [b EXCEPT !.ty = t] = Strong(t)
    BY <1>2 DEF Strong
  <2> QED
    BY <1>1, <1>2, <2>1 DEF Strong, WellBinding
<1>3. CASE \E bound : b = Weak(bound, ty) /\ WellValue(bound)
  <2>1. PICK bound : b = Weak(bound, ty) /\ WellValue(bound)
    BY <1>3
  <2>2. \A t : [b EXCEPT !.ty = t] = Weak(bound, t)
    BY <2>1 DEF Weak
  <2>3. b.kind = "Weak" /\ b.bound = bound /\ b.ty = ty
    BY <2>1 DEF Weak
  <2> QED
    BY <1>1, <2>1, <2>2, <2>3 DEF WellBinding
<1> QED
  BY <1>1, <1>2, <1>3

LEMMA WellBindings ==
  /\ \A ty : WellTy(ty) => WellBinding(Strong(ty))
  /\ \A bound, ty : WellValue(bound) /\ WellTy(ty) => WellBinding(Weak(bound, ty))
BY DEF WellBinding

LEMMA EmptyEnv == WellEnv(<<>>) /\ DOMAIN <<>> = {}
<1>1. DOMAIN <<>> = {}
  OBVIOUS
<1> QED
  BY <1>1, FS_EmptySet DEF WellEnv

LEMMA PutFacts ==
  ASSUME NEW map, NEW key, NEW value
  PROVE  /\ DOMAIN Put(map, key, value) = DOMAIN map \union {key}
         /\ Put(map, key, value)[key] = value
         /\ \A k \in DOMAIN map : k # key => Put(map, key, value)[k] = map[k]
BY DEF Put

LEMMA PutEnv ==
  ASSUME NEW e, WellEnv(e), NEW loc \in Loc, NEW b, WellBinding(b)
  PROVE  WellEnv(Put(e, loc, b))
<1> DEFINE f == Put(e, loc, b)
<1>1. /\ DOMAIN f = DOMAIN e \union {loc} /\ f[loc] = b
      /\ \A k \in DOMAIN e : k # loc => f[k] = e[k]
  BY DEF Put
<1> HIDE DEF f
<1>2. IsFiniteSet(DOMAIN f)
  BY <1>1, FS_AddElement DEF WellEnv
<1>3. \A k \in DOMAIN f : WellBinding(f[k])
  BY <1>1 DEF WellEnv
<1> QED
  BY <1>1, <1>2, <1>3 DEF WellEnv, f

LEMMA LocFacts ==
  /\ \A x \in Nat : Local(x) \in Loc /\ Abstract(x) \in Loc
  /\ \A x \in Name : Abstract(x) \in Loc
BY DEF Loc, Local, Abstract, Name

-----------------------------------------------------------------------------
(* What the operations of a cursor owe, for these types.                   *)

LEMMA BuilderTypes ==
  /\ Builder!Name = Name
  /\ \A p : WellPred(p) => Builder!IsPred(p)
  /\ \A ty : WellValue(ty) => Builder!IsType(ty)
<1>1. Builder!Name = Name
  BY DEF Builder!Name, Name
<1>2. \A p : WellPred(p) => Builder!IsPred(p)
  BY <1>1, PredFacts, SameTypes DEF Builder!IsPred
<1>3. ASSUME NEW ty, WellValue(ty)
      PROVE  Builder!IsType(ty)
  <2>1. CASE ty = Uninit
    BY <2>1 DEF Builder!IsType, Builder!Uninit, Uninit
  <2>2. CASE \E e : ty = Refine(e) /\ WellExpr(e)
    BY <1>1, <2>2 DEF Builder!IsType, Builder!Refine, Refine, WellExpr
  <2>3. CASE \E p : ty = Exists(p) /\ WellPred(p)
    <3>1. PICK p : ty = Exists(p) /\ WellPred(p)
      BY <2>3
    <3>2. \A e : e.fv \subseteq Builder!Name => Builder!IsPred(Builder!SubstPred(p, e))
      BY <1>1, <1>2, <3>1, PredFacts, SameTypes DEF WellExpr
    <3>3. ty = Builder!Exists(p)
      BY <3>1 DEF Exists, Builder!Exists
    <3> QED
      BY <3>2, <3>3 DEF Builder!IsType
  <2> QED
    BY <1>3, <2>1, <2>2, <2>3 DEF WellValue
<1> QED
  BY <1>1, <1>2, <1>3

-----------------------------------------------------------------------------
(* The state the operations of the environment work on.                    *)

State(b, c, e, o, p) == [b |-> b, c |-> c, env |-> e, order |-> o, panic |-> p]
IsState(st) == \E b, c, e, o, p : st = State(b, c, e, o, p)
Typed(st) == IsState(st) /\ Builder!Works(S(st)) /\ WellEnv(st.env)

(* What an operation owes: types, and the cursors it may have borrowed; one*)
(* that works on the environment only adds to its locations.               *)
Leads(st, t) == Typed(t) /\ Builder!Grows(S(st), S(t))
Reaches(st, t) == Leads(st, t) /\ DOMAIN st.env \subseteq DOMAIN t.env

LEMMA StateFields ==
  ASSUME NEW b, NEW c, NEW e, NEW o, NEW p
  PROVE  LET st == State(b, c, e, o, p)
         IN  /\ IsState(st)
             /\ st.b = b /\ st.c = c /\ st.env = e /\ st.order = o /\ st.panic = p
BY DEF State, IsState

LEMMA StateUpdates ==
  ASSUME NEW st, IsState(st)
  PROVE  /\ \A s : With(st, s) = State(s.b, s.c, st.env, st.order, st.panic)
         /\ \A e : [st EXCEPT !.env = e] = State(st.b, st.c, e, st.order, st.panic)
         /\ \A p : [st EXCEPT !.panic = p] = State(st.b, st.c, st.env, st.order, p)
<1>1. PICK b, c, e, o, p : st = State(b, c, e, o, p)
  BY DEF IsState
<1>2. st.b = b /\ st.c = c /\ st.env = e /\ st.order = o /\ st.panic = p
  BY <1>1 DEF State
<1>3. ASSUME NEW s
      PROVE  With(st, s) = State(s.b, s.c, e, o, p)
  <2> DEFINE t == [st EXCEPT !.b = s.b]
  <2>1. t = State(s.b, c, e, o, p)
    BY <1>1 DEF State
  <2>2. With(st, s) = [t EXCEPT !.c = s.c]
    BY DEF With
  <2> HIDE DEF t
  <2> QED
    BY <2>1, <2>2 DEF State
<1>4. \A v : [st EXCEPT !.env = v] = State(b, c, v, o, p)
  BY <1>1 DEF State
<1>5. \A v : [st EXCEPT !.panic = v] = State(b, c, e, o, v)
  BY <1>1 DEF State
<1> QED
  BY <1>2, <1>3, <1>4, <1>5

LEMMA LeadsTransitive ==
  ASSUME NEW st, Typed(st), NEW t, Leads(st, t), NEW u
  PROVE  /\ Leads(t, u) => Leads(st, u)
         /\ Reaches(st, t) /\ Reaches(t, u) => Reaches(st, u)
<1>1. Builder!Works(S(st)) /\ Builder!Grows(S(st), S(t))
  BY DEF Typed, Leads
<1>2. Leads(t, u) => Leads(st, u)
  BY <1>1, Builder!GrowsTransitive DEF Leads
<1> QED
  BY <1>2 DEF Reaches

LEMMA ReachesReflexive ==
  ASSUME NEW st, Typed(st)
  PROVE  Leads(st, st) /\ Reaches(st, st)
BY Builder!GrowsReflexive DEF Typed, Leads, Reaches

(* The builder and the cursor of an operation that owes what it should.    *)
LEMMA WithReaches ==
  ASSUME NEW st, Typed(st), NEW s, Builder!Grows(S(st), s)
  PROVE  /\ Reaches(st, With(st, s))
         /\ With(st, s).b = s.b /\ With(st, s).c = s.c /\ With(st, s).env = st.env
         /\ Ok(With(st, s)) <=> Ok(st)
<1> DEFINE t == With(st, s)
<1>1. /\ IsState(t) /\ t.b = s.b /\ t.c = s.c /\ t.env = st.env /\ t.panic = st.panic
  BY StateUpdates, StateFields DEF Typed
<1> HIDE DEF t
<1>3. /\ DOMAIN S(t) = {"b", "c"} /\ S(t).b = s.b /\ S(t).c = s.c
  BY <1>1 DEF S
<1>4. Builder!Works(S(t))
  BY <1>3 DEF Builder!Grows, Builder!Works
<1>5. Builder!Grows(S(st), S(t))
  BY <1>3, <1>4 DEF Builder!Grows
<1> QED
  BY <1>1, <1>4, <1>5 DEF t, Typed, Leads, Reaches, Ok

(* A panic, or another environment, changes neither builder nor cursor.    *)
LEMMA SameCursor ==
  ASSUME NEW st, Typed(st), NEW t, IsState(t), t.b = st.b, t.c = st.c, WellEnv(t.env)
  PROVE  Leads(st, t) /\ S(t) = S(st)
<1>1. S(t) = S(st)
  BY DEF S
<1> QED
  BY <1>1, Builder!GrowsReflexive DEF Typed, Leads

LEMMA PanicReaches ==
  ASSUME NEW st, Typed(st), NEW message
  PROVE  LET t == Panic(st, message)
         IN  Reaches(st, t) /\ S(t) = S(st) /\ t.env = st.env
<1> DEFINE t == Panic(st, message)
<1>1. /\ IsState(t) /\ t.b = st.b /\ t.c = st.c /\ t.env = st.env
  <2>1. CASE Ok(st)
    <3>1. t = [st EXCEPT !.panic = message]
      BY <2>1 DEF Panic
    <3>2. t = State(st.b, st.c, st.env, st.order, message)
      BY <3>1, StateUpdates DEF Typed
    <3> QED
      BY <3>2, StateFields
  <2>2. CASE ~Ok(st)
    BY <2>2 DEF Panic, Typed
  <2> QED
    BY <2>1, <2>2
<1> HIDE DEF t
<1> QED
  BY <1>1, SameCursor DEF t, Typed, Reaches

LEMMA SetEnv ==
  ASSUME NEW st, Typed(st), NEW e, WellEnv(e)
  PROVE  LET t == [st EXCEPT !.env = e]
         IN  Leads(st, t) /\ S(t) = S(st) /\ t.env = e /\ t.panic = st.panic
<1> DEFINE t == [st EXCEPT !.env = e]
<1>1. /\ IsState(t) /\ t.b = st.b /\ t.c = st.c /\ t.env = e /\ t.panic = st.panic
  <2>1. t = State(st.b, st.c, e, st.order, st.panic)
    BY StateUpdates DEF Typed
  <2> QED
    BY <2>1, StateFields
<1> HIDE DEF t
<1> QED
  BY <1>1, SameCursor DEF t, Typed

-----------------------------------------------------------------------------
(* The operations of the cursor, on the state.                             *)

LEMMA NameFacts ==
  ASSUME NEW st, Typed(st)
  PROVE  /\ FreshName(S(st)) \in Name
         /\ Abstract(FreshName(S(st))) \in Loc
         /\ WellExpr(VarExpr(FreshName(S(st))))
<1>1. FreshName(S(st)) \in Name
  BY Builder!WorksFacts, BuilderTypes DEF Typed, FreshName
<1> QED
  BY <1>1, LocFacts, ExprFacts

LEMMA UnpackedTyFacts ==
  ASSUME NEW st, Typed(st), NEW ty, WellTy(ty)
  PROVE  LET t == UnpackedTy(S(st), ty)
         IN  /\ WellTy(t) /\ t.kind # "Exists"
             /\ WellValue(ty) => WellValue(t)
<1>1. CASE ty.kind = "Exists"
  <2>1. UnpackedTy(S(st), ty) = Refine(VarExpr(FreshName(S(st))))
    BY <1>1 DEF UnpackedTy
  <2> QED
    BY <2>1, NameFacts, WellTypes DEF Refine
<1>2. CASE ty.kind # "Exists"
  BY <1>2 DEF UnpackedTy
<1> QED
  BY <1>1, <1>2

LEMMA UnpackGrowing ==
  ASSUME NEW st, Typed(st), NEW ty, WellTy(ty)
  PROVE  Builder!Grows(S(st), Unpack(S(st), ty))
<1>1. Builder!Works(S(st))
  BY DEF Typed
<1>2. CASE ty.kind = "Exists"
  <2>1. Builder!IsType(ty)
    BY <1>2, TyFacts, BuilderTypes
  <2>2. Builder!Grows(S(st), Builder!Unpack(S(st), ty))
    BY <1>1, <2>1, Builder!UnpackGrows
  <2> QED
    BY <2>2, SameSubtyping
<1>3. CASE ty.kind # "Exists"
  BY <1>1, <1>3, Builder!GrowsReflexive DEF Unpack
<1> QED
  BY <1>2, <1>3

LEMMA TakeNameGrowing ==
  ASSUME NEW st, Typed(st)
  PROVE  Builder!Grows(S(st), TakeName(S(st)))
BY Builder!TakeNameGrows, SameNodes DEF Typed

LEMMA SubtypingGrowing ==
  ASSUME NEW st, Typed(st), NEW ty1, WellTy(ty1), NEW ty2, WellTy(ty2),
         SubtypingDefined(ty1, ty2)
  PROVE  Builder!Grows(S(st), Subtyping(S(st), ty1, ty2))
<1> DEFINE s == S(st)
<1>1. Builder!Works(s) /\ Builder!Grows(s, s)
  BY Builder!GrowsReflexive DEF Typed
<1>2. s = [b |-> s.b, c |-> s.c]
  BY DEF S
<1>3. CASE WellValue(ty1) /\ WellValue(ty2)
  <2>1. Builder!IsType(ty1) /\ Builder!IsType(ty2)
    BY <1>3, BuilderTypes
  <2>2. Builder!SubtypingDefined(ty1, ty2)
    BY DEF SubtypingDefined, Builder!SubtypingDefined, Value, Builder!Value
  <2>3. Builder!Grows(s, Builder!Subtyping(s, ty1, ty2))
    BY <1>1, <2>1, <2>2, Builder!SubtypingGrows
  <2> QED
    BY <2>3, SameSubtyping
<1>4. CASE ty1 = ty2
  BY <1>1, <1>4 DEF Subtyping
<1>5. CASE ty1.kind # "Exists" /\ ty2.kind \notin Value /\ ty1 # ty2
  <2>1. Unpack(s, ty1) = s
    BY <1>5 DEF Unpack
  <2>2. Subtyping(s, ty1, ty2) = [b |-> s.b, c |-> s.c]
    BY <1>5, <2>1 DEF Subtyping, Value
  <2> QED
    BY <1>1, <1>2, <2>2
<1>6. \/ WellValue(ty1) /\ WellValue(ty2)
      \/ ty1 = ty2
      \/ ty1.kind # "Exists" /\ ty2.kind \notin Value /\ ty1 # ty2
  <2>1. CASE ty2.kind = "Uninit"
    <3>1. WellValue(ty2)
      BY <2>1, TyFacts
    <3>2. WellValue(ty1) \/ ty1.kind # "Exists"
      BY TyFacts
    <3> QED
      BY <2>1, <3>1, <3>2 DEF Value
  <2>2. CASE ty1.kind \in Value /\ ty2.kind \in Value
    BY <2>2, TyFacts DEF Value
  <2>3. CASE ty1.kind = "StrgRef" /\ ty1 = ty2
    BY <2>3
  <2> QED
    BY <2>1, <2>2, <2>3 DEF SubtypingDefined
<1> QED
  BY <1>3, <1>4, <1>5, <1>6

LEMMA PushHeadReaches ==
  ASSUME NEW st, Typed(st), NEW p, WellPred(p)
  PROVE  Reaches(st, With(st, PushHead(S(st), p)))
<1>1. Builder!Grows(S(st), Builder!PushHead(S(st), p))
  BY Builder!PushHeadGrows, BuilderTypes DEF Typed
<1>2. Builder!Grows(S(st), PushHead(S(st), p))
  BY <1>1, SameNodes
<1> QED
  BY <1>2, WithReaches

LEMMA PushGuardReaches ==
  ASSUME NEW st, Typed(st), NEW e, WellExpr(e)
  PROVE  Reaches(st, With(st, PushGuard(S(st), e)))
<1>1. Builder!Grows(S(st), Builder!PushGuard(S(st), e))
  BY Builder!PushGuardGrows, BuilderTypes DEF Typed, WellExpr
<1>2. Builder!Grows(S(st), PushGuard(S(st), e))
  BY <1>1, SameNodes
<1> QED
  BY <1>2, WithReaches

LEMMA PushScopeReaches ==
  ASSUME NEW st, Typed(st)
  PROVE  Reaches(st, With(st, PushScope(S(st))))
<1>1. Builder!Grows(S(st), Builder!PushScope(S(st)))
  BY Builder!PushScopeGrows DEF Typed
<1> QED
  BY <1>1, SameNodes, WithReaches

LEMMA PushForallReaches ==
  ASSUME NEW st, Typed(st), NEW p, WellPred(p)
  PROVE  Reaches(st, With(st, PushForall(TakeName(S(st)), FreshName(S(st)), p)))
<1> DEFINE x == FreshName(S(st))
<1>1. /\ Builder!Works(S(st)) /\ x \in Builder!Name
      /\ Builder!PredVars(p) \subseteq Builder!Name
  BY NameFacts, BuilderTypes DEF Typed, Builder!IsPred
<1>2. Builder!Grows(S(st), Builder!PushForall(Builder!TakeName(S(st)), x, p))
  BY <1>1, Builder!PushForallGrows
<1>3. Builder!PushForall(Builder!TakeName(S(st)), x, p) = PushForall(TakeName(S(st)), x, p)
  BY SameNodes
<1>4. Builder!Grows(S(st), PushForall(TakeName(S(st)), x, p))
  BY <1>2, <1>3
<1> QED
  BY <1>4, WithReaches

(* The kvar that was made last ranges over names.                          *)
LEMMA LastKVarFacts ==
  ASSUME NEW s, Builder!Works(s), NEW k \in Nat, k <= Len(s.b.vars)
  PROVE  LET t == FreshKVarAt(s, k)
         IN  /\ Builder!Grows(s, t)
             /\ WellPred(LastKVar(t).pred) /\ LastKVar(t) = Exists(LastKVar(t).pred)
<1> DEFINE t == FreshKVarAt(s, k)
           n == Len(t.b.kvars)
           kvar == t.b.kvars[n]
           rest == [i \in DOMAIN kvar |-> VarExpr(kvar[i])]
           args == <<BoundVar>> \o rest
           Expr == {BoundVar} \union {VarExpr(x) : x \in Name}
<1>1. Builder!Grows(s, t) /\ t.b.kvars = Append(s.b.kvars, KVarArgs(s.b, k))
  <2>1. Builder!FreshKVarAt(s, k) = t /\ Builder!KVarArgs(s.b, k) = KVarArgs(s.b, k)
    BY SameKVars
  <2> HIDE DEF t
  <2> QED
    BY <2>1, Builder!FreshKVarAtGrows
<1>2. t.b.kvars \in Seq(Seq(Name)) /\ s.b.kvars \in Seq(Seq(Name))
  BY <1>1, Builder!WorksFacts, BuilderTypes DEF Builder!Grows
<1> HIDE DEF t
<1>3. kvar \in Seq(Name)
  <2>1. n \in 1..n
    BY <1>1, <1>2, LenProperties, AppendProperties
  <2> QED
    BY <1>2, <2>1, ElementOfSeq
<1>4. rest \in Seq(Expr)
  <2>1. DOMAIN kvar = 1..Len(kvar) /\ Len(kvar) \in Nat /\ \A i \in 1..Len(kvar) : kvar[i] \in Name
    BY <1>3, LenProperties, ElementOfSeq
  <2>2. rest \in [1..Len(kvar) -> Expr]
    BY <2>1
  <2> QED
    BY <2>1, <2>2, SeqDef
<1>5. args \in Seq(Expr)
  <2>1. <<BoundVar>> \in Seq(Expr)
    OBVIOUS
  <2> HIDE DEF rest
  <2> QED
    BY <1>4, <2>1, ConcatProperties
<1>6. \A i \in DOMAIN args : WellExpr(args[i])
  <2>1. \A i \in DOMAIN args : args[i] \in Expr
    BY <1>5, ElementOfSeq, LenProperties
  <2> QED
    BY <2>1, ExprFacts
<1>7. KVarPred(t.b, n) = KVar(n, args)
  BY DEF KVarPred
<1> HIDE DEF args
<1>8. WellPred(KVar(n, args))
  BY <1>6 DEF WellPred
<1>9. LastKVar(t) = Exists(KVar(n, args))
  BY <1>7 DEF LastKVar
<1>10. LastKVar(t).pred = KVar(n, args)
  BY <1>9 DEF Exists
<1> QED
  BY <1>1, <1>8, <1>9, <1>10 DEF t

LEMMA FreshKVarFacts ==
  ASSUME NEW s, Builder!Works(s)
  PROVE  /\ Builder!Grows(s, FreshKVar(s)) /\ WellPred(LastKVar(FreshKVar(s)).pred)
         /\ LastKVar(FreshKVar(s)) = Exists(LastKVar(FreshKVar(s)).pred)
<1>1. s.c.nvars \in Nat /\ s.c.nvars <= Len(s.b.vars)
  BY Builder!WorksFacts
<1> QED
  BY <1>1, LastKVarFacts DEF FreshKVar

LEMMA FreshKVarAtLastScopeFacts ==
  ASSUME NEW s, Builder!Works(s)
  PROVE  LET t == FreshKVarAtLastScope(s)
         IN  Builder!Grows(s, t) /\ WellPred(LastKVar(t).pred)
<1>1. Builder!LastScope(s.b) \in Nat /\ Builder!LastScope(s.b) <= Len(s.b.vars)
  BY Builder!LastScopeInStack
<1>2. Builder!LastScope(s.b) = LastScope(s.b)
  BY DEF Builder!LastScope, LastScope, Builder!Last, Last
<1> QED
  BY <1>1, <1>2, LastKVarFacts DEF FreshKVarAtLastScope

-----------------------------------------------------------------------------
(* The operations of the environment.                                      *)

LEMMA TypeAt ==
  ASSUME NEW e, WellEnv(e), NEW loc \in DOMAIN e
  PROVE  /\ loc \in Loc /\ WellBinding(e[loc]) /\ WellTy(e[loc].ty)
         /\ e[loc].kind \in {"Strong", "Weak"}
         /\ e[loc].kind = "Weak" => WellValue(e[loc].bound)
BY BindingFacts DEF WellEnv

LEMMA BindReaches ==
  ASSUME NEW st, Typed(st), NEW loc \in Loc, NEW b, WellBinding(b)
  PROVE  LET t == Bind(st, loc, b)
         IN  /\ Reaches(st, t) /\ S(t) = S(st)
             /\ Ok(st) => loc \in DOMAIN t.env
<1>1. CASE Ok(st)
  <2> DEFINE e == Put(st.env, loc, b)
             t == [st EXCEPT !.env = e]
  <2>1. WellEnv(e) /\ DOMAIN e = DOMAIN st.env \union {loc}
    BY PutEnv, PutFacts DEF Typed
  <2>2. Bind(st, loc, b) = t
    BY <1>1 DEF Bind
  <2> HIDE DEF e
  <2>3. Leads(st, t) /\ S(t) = S(st) /\ t.env = e
    BY <2>1, SetEnv
  <2> HIDE DEF t
  <2> QED
    BY <2>1, <2>2, <2>3 DEF Reaches
<1>2. CASE ~Ok(st)
  BY <1>2, ReachesReflexive DEF Bind
<1> QED
  BY <1>1, <1>2

LEMMA InsertReaches ==
  ASSUME NEW st, Typed(st), NEW loc \in Loc, NEW ty, WellTy(ty)
  PROVE  LET t == Insert(st, loc, ty)
         IN  /\ Reaches(st, t) /\ S(t) = S(st)
             /\ Ok(st) => loc \in DOMAIN t.env
BY BindReaches, WellBindings DEF Insert

LEMMA UnpackReaches ==
  ASSUME NEW st, Typed(st), NEW ty, WellTy(ty)
  PROVE  LET t == With(st, Unpack(S(st), ty))
         IN  Reaches(st, t) /\ t.env = st.env /\ (Ok(t) <=> Ok(st))
BY UnpackGrowing, WithReaches

LEMMA TakeNameReaches ==
  ASSUME NEW st, Typed(st)
  PROVE  LET t == With(st, TakeName(S(st)))
         IN  Reaches(st, t) /\ t.env = st.env /\ (Ok(t) <=> Ok(st))
BY TakeNameGrowing, WithReaches

LEMMA InsertUnpackedReaches ==
  ASSUME NEW st, Typed(st), NEW loc \in Loc, NEW ty, WellTy(ty)
  PROVE  Reaches(st, InsertUnpacked(st, loc, ty))
<1>1. CASE Ok(st)
  <2> DEFINE t == With(st, Unpack(S(st), ty))
             new == UnpackedTy(S(st), ty)
  <2>1. Reaches(st, t) /\ Typed(t)
    BY UnpackReaches DEF Reaches, Leads
  <2>2. WellTy(new)
    BY UnpackedTyFacts
  <2>3. InsertUnpacked(st, loc, ty) = Insert(t, loc, new)
    BY <1>1 DEF InsertUnpacked
  <2> HIDE DEF t, new
  <2>4. Reaches(t, Insert(t, loc, new))
    BY <2>1, <2>2, InsertReaches
  <2> QED
    BY <2>1, <2>3, <2>4, LeadsTransitive DEF Reaches
<1>2. CASE ~Ok(st)
  BY <1>2, ReachesReflexive DEF InsertUnpacked
<1> QED
  BY <1>1, <1>2

LEMMA SubReaches ==
  ASSUME NEW st, Typed(st), NEW ty1, WellTy(ty1), NEW ty2, WellTy(ty2)
  PROVE  Reaches(st, Sub(st, ty1, ty2)) /\ Sub(st, ty1, ty2).env = st.env
<1>1. CASE ~Ok(st)
  BY <1>1, ReachesReflexive DEF Sub
<1>2. CASE Ok(st) /\ SubtypingDefined(ty1, ty2)
  BY <1>2, SubtypingGrowing, WithReaches DEF Sub
<1>3. CASE Ok(st) /\ ~SubtypingDefined(ty1, ty2)
  BY <1>3, PanicReaches DEF Sub
<1> QED
  BY <1>1, <1>2, <1>3

LEMMA MoveLocalReaches ==
  ASSUME NEW st, Typed(st), NEW x \in Nat
  PROVE  Reaches(st, MoveLocal(st, x))
BY PanicReaches, InsertReaches, LocFacts, WellTypes DEF MoveLocal

LEMMA UpdateLocReaches ==
  ASSUME NEW st, Typed(st), NEW loc, NEW ty, WellTy(ty)
  PROVE  Reaches(st, UpdateLoc(st, loc, ty))
<1>1. CASE ~Bound(st, loc)
  BY <1>1, PanicReaches DEF UpdateLoc
<1>2. CASE Bound(st, loc)
  <2>1. /\ loc \in Loc
        /\ st.env[loc].kind \in {"Strong", "Weak"}
        /\ st.env[loc].kind = "Weak" => WellTy(st.env[loc].bound)
    BY <1>2, TypeAt, WellTypes DEF Bound, Typed
  <2>2. CASE st.env[loc].kind = "Strong"
    BY <1>2, <2>1, <2>2, InsertReaches DEF UpdateLoc
  <2>3. CASE st.env[loc].kind = "Weak"
    BY <1>2, <2>1, <2>3, SubReaches DEF UpdateLoc
  <2> QED
    BY <2>1, <2>2, <2>3
<1> QED
  BY <1>1, <1>2

LEMMA WalkPlaceReaches ==
  ASSUME NEW st, Typed(st), NEW place
  PROVE  LET t == WalkPlace(st, place)
         IN  Reaches(st, t) /\ t.env = st.env /\ (Ok(t) => Walks(t.env, place))
<1> DEFINE t == Panic(st, "walk_place")
<1>1. Ok(st) => ~Ok(t)
  <2>1. Ok(st) => t = [st EXCEPT !.panic = "walk_place"]
    BY DEF Panic
  <2>2. Ok(st) => t = State(st.b, st.c, st.env, st.order, "walk_place")
    BY <2>1, StateUpdates DEF Typed
  <2>3. Ok(st) => t.panic = "walk_place"
    BY <2>2, StateFields
  <2> HIDE DEF t
  <2> QED
    BY <2>3 DEF Ok, NoPanic
<1> HIDE DEF t
<1>2. Reaches(st, t) /\ t.env = st.env
  BY PanicReaches DEF t
<1> QED
  BY <1>1, <1>2, ReachesReflexive DEF WalkPlace, t

(* A place that walk_place gets an answer for.                             *)
LEMMA PlaceFacts ==
  ASSUME NEW e, WellEnv(e), NEW place, Walks(e, place)
  PROVE  GetLoc(e, place) \in DOMAIN e /\ WellTy(LookupPlace(e, place))
<1>1. GetLoc(e, place) \in DOMAIN e
  BY DEF Walks, GetLoc
<1> QED
  BY <1>1, TypeAt DEF LookupPlace

LEMMA WritePlaceReaches ==
  ASSUME NEW st, Typed(st), NEW place, NEW ty, WellTy(ty)
  PROVE  Reaches(st, WritePlace(st, place, ty))
<1> DEFINE t == WalkPlace(st, place)
<1>1. Reaches(st, t) /\ Typed(t)
  BY WalkPlaceReaches DEF Reaches, Leads
<1> HIDE DEF t
<1>2. WritePlace(st, place, ty) =
          IF ~Ok(t) THEN t
          ELSE IF LookupPlace(t.env, place).kind \in {"Ref", "Exists"}
          THEN Panic(t, "write_place")
          ELSE UpdateLoc(t, GetLoc(t.env, place), ty)
  BY DEF WritePlace, t
<1>3. Reaches(t, WritePlace(st, place, ty))
  BY <1>1, <1>2, PanicReaches, UpdateLocReaches, ReachesReflexive
<1> QED
  BY <1>1, <1>3, LeadsTransitive DEF Reaches

LEMMA UnpackLocReaches ==
  ASSUME NEW st, Typed(st), NEW loc \in DOMAIN st.env
  PROVE  Reaches(st, UnpackLoc(st, loc))
<1> DEFINE binding == st.env[loc]
<1>1. /\ loc \in Loc /\ WellBinding(binding) /\ WellTy(binding.ty)
      /\ \A ty : WellTy(ty) => WellBinding([binding EXCEPT !.ty = ty])
  BY TypeAt, BindingFacts DEF Typed
<1> HIDE DEF binding
<1>2. CASE binding.ty.kind = "Exists"
  <2> DEFINE t == With(st, Unpack(S(st), binding.ty))
             new == [binding EXCEPT !.ty = UnpackedTy(S(st), binding.ty)]
  <2>1. Reaches(st, t) /\ Typed(t)
    BY <1>1, UnpackReaches DEF Reaches, Leads
  <2>2. WellBinding(new)
    BY <1>1, UnpackedTyFacts
  <2>3. UnpackLoc(st, loc) = Bind(t, loc, new)
    BY <1>2 DEF UnpackLoc, binding
  <2> HIDE DEF t, new
  <2>4. Reaches(t, Bind(t, loc, new))
    BY <1>1, <2>1, <2>2, BindReaches
  <2> QED
    BY <2>1, <2>3, <2>4, LeadsTransitive DEF Reaches
<1>3. CASE binding.ty.kind = "Ref"
  <2> DEFINE fresh == Abstract(FreshName(S(st)))
             named == With(st, TakeName(S(st)))
             value == binding.ty.ty
             t == With(named, Unpack(S(named), value))
             ref == [binding EXCEPT !.ty = StrgRef(fresh)]
             u == Bind(t, loc, ref)
             weak == Weak(value, UnpackedTy(S(named), value))
  <2>1. fresh \in Loc /\ WellValue(value) /\ WellBinding(ref)
    BY <1>1, <1>3, NameFacts, TyFacts, WellTypes
  <2>2. Reaches(st, named) /\ Typed(named)
    BY TakeNameReaches DEF Reaches, Leads
  <2>3. UnpackLoc(st, loc) = Bind(u, fresh, weak)
    BY <1>3 DEF UnpackLoc, binding
  <2> HIDE DEF fresh, named, value, ref
  <2>4. Reaches(named, t) /\ Typed(t)
    BY <2>1, <2>2, UnpackReaches, WellTypes DEF Reaches, Leads
  <2>5. WellBinding(weak)
    BY <2>1, <2>2, UnpackedTyFacts, WellTypes, WellBindings
  <2> HIDE DEF t, weak
  <2>6. Reaches(t, u) /\ Typed(u)
    BY <1>1, <2>1, <2>4, BindReaches DEF Reaches, Leads
  <2> HIDE DEF u
  <2>7. Reaches(u, Bind(u, fresh, weak))
    BY <2>1, <2>5, <2>6, BindReaches
  <2>8. Reaches(named, u)
    BY <2>2, <2>4, <2>6, LeadsTransitive DEF Reaches
  <2>9. Reaches(st, u)
    BY <2>2, <2>8, LeadsTransitive DEF Reaches
  <2> QED
    BY <2>3, <2>7, <2>9, LeadsTransitive DEF Reaches
<1>4. CASE binding.ty.kind \notin {"Exists", "Ref"}
  BY <1>4, ReachesReflexive DEF UnpackLoc, binding
<1> QED
  BY <1>2, <1>3, <1>4

-----------------------------------------------------------------------------
(* Folds.  No prover can instantiate a lemma about any operator, so one    *)
(* operator stands for the step of every fold, which a name tells apart; x *)
(* is what the step has from where the fold stands.                        *)
Step(name, x, acc, e) ==
    CASE name = "unpack"    -> UnpackLoc(acc, e)
      [] name = "join"      -> IF e \in x.level THEN JoinLoc(acc, x.other, e) ELSE acc
      [] name = "transform" -> IF e \in x.level THEN TransformLoc(acc, x.other, e) ELSE acc
      [] name = "fresh"     -> RefreshKVar(acc, x[e])
      [] name = "infer"     -> InferLoc(acc, x.st, x.shape, x.new, e)
      [] name = "actual"    -> InferFromTys(acc, x.actuals[e], x.sig.args[e])
      [] name = "required"  -> InferRequired(acc, e)
      [] name = "pred"      -> RequirePred(acc, e)
      [] name = "subtype"   -> [acc EXCEPT !.st = Sub(@, x.actuals[e], LowerTy(acc.subst, x.sig.args[e]))]
      [] name = "type"      -> RequireTy(acc, e)
      [] name = "ensure"    -> Ensure(acc, e)
      [] name = "param"     -> AssumeParam(acc, e)
      [] name = "location"  -> AssumeRequired(acc, e)
      [] name = "argument"  -> InsertUnpacked(acc, Local(e), LowerTy(x.subst, x.sig.args[e]))
      [] name = "local"     -> Insert(acc, Local(e), Uninit)
      [] name = "show"      -> IF e.loc \in DOMAIN x.locs
                               THEN Show(acc, x.locs[e.loc], LowerTy(x, e.ty))
                               ELSE Panic(acc, "unwrap of None")
      [] name = "operand"   -> [st  |-> AfterOperand(acc.st, e),
                                tys |-> Append(acc.tys, OperandTy(acc.st, e))]
      [] name = "statement" -> CheckStatement(acc, e)
      [] name = "guard"     -> BinaryExpr("And", acc, e)

Runs(name, x, base, s, n, run) ==
    run = [i \in 0..n |-> IF i = 0 THEN base ELSE Step(name, x, run[i - 1], s[i])]

LEMMA RunExists ==
  ASSUME NEW name, NEW x, NEW base, NEW s
  PROVE  \A n \in Nat : \E run : Runs(name, x, base, s, n, run)
<1> DEFINE T == {n \in Nat : \E run : Runs(name, x, base, s, n, run)}
<1>1. 0 \in T
  <2> DEFINE run == [i \in 0..0 |-> base]
  <2>1. Runs(name, x, base, s, 0, run)
    BY DEF Runs
  <2> QED
    BY <2>1
<1>2. ASSUME NEW n \in Nat, n \in T PROVE n + 1 \in T
  <2>1. PICK run : Runs(name, x, base, s, n, run)
    BY <1>2
  <2> DEFINE last == Step(name, x, run[n], s[n + 1])
             longer == [i \in 0..(n + 1) |-> IF i = n + 1 THEN last ELSE run[i]]
  <2>2. \A i \in 0..n : longer[i] = run[i]
    OBVIOUS
  <2>3. \A i \in 0..n : run[i] = IF i = 0 THEN base ELSE Step(name, x, run[i - 1], s[i])
    BY <2>1 DEF Runs
  <2>4. \A i \in 0..(n + 1) :
            longer[i] = IF i = 0 THEN base ELSE Step(name, x, longer[i - 1], s[i])
    <3> SUFFICES ASSUME NEW i \in 0..(n + 1)
                 PROVE  longer[i] = IF i = 0 THEN base ELSE Step(name, x, longer[i - 1], s[i])
      OBVIOUS
    <3>1. CASE i = n + 1
      <4>1. longer[n + 1] = last /\ longer[n] = run[n]
        BY <2>2
      <4> HIDE DEF longer
      <4> QED
        BY <3>1, <4>1
    <3>2. CASE i \in 0..n
      <4>1. i # 0 => i - 1 \in 0..n
        BY <3>2
      <4> HIDE DEF longer
      <4> QED
        BY <2>2, <2>3, <3>2, <4>1
    <3> QED
      BY <3>1, <3>2
  <2>5. longer = [i \in 0..(n + 1) |-> IF i = 0 THEN base ELSE Step(name, x, longer[i - 1], s[i])]
    <3>1. longer = [i \in 0..(n + 1) |-> longer[i]]
      OBVIOUS
    <3> HIDE DEF longer
    <3> QED
      BY <2>4, <3>1
  <2> HIDE DEF longer
  <2> QED
    BY <2>5 DEF Runs
<1> HIDE DEF T
<1>3. Nat \subseteq T
  BY <1>1, <1>2, SetInduction
<1> QED
  BY <1>3 DEF T

(* The values of a fold, from base to its result.                          *)
Values(name, x, base, s, result, run) ==
    /\ run[0] = base /\ run[Len(s)] = result
    /\ \A i \in 1..Len(s) : run[i] = Step(name, x, run[i - 1], s[i])

LEMMA ValuesOf ==
  ASSUME NEW name, NEW x, NEW base, NEW s, Len(s) \in Nat, NEW run,
         Runs(name, x, base, s, Len(s), run)
  PROVE  Values(name, x, base, s, run[Len(s)], run)
BY DEF Runs, Values

(* What holds of base and is kept by every step holds to the end.          *)
LEMMA ValuesKeep ==
  ASSUME NEW n \in Nat, NEW T, 0 \in T, \A i \in 1..n : i - 1 \in T => i \in T
  PROVE  \A i \in 0..n : i \in T
<1> DEFINE U == {i \in Nat : i <= n => i \in T}
<1>1. 0 \in U /\ \A i \in Nat : i \in U => i + 1 \in U
  <2> SUFFICES ASSUME NEW i \in Nat, i \in U, i + 1 <= n PROVE i + 1 \in T
    OBVIOUS
  <2>1. i \in T /\ i + 1 \in 1..n /\ (i + 1) - 1 = i
    OBVIOUS
  <2> QED
    BY <2>1
<1> HIDE DEF U
<1>2. Nat \subseteq U
  BY <1>1, SetInduction
<1> QED
  BY <1>2 DEF U

LEMMA UnpackFold ==
  ASSUME NEW base, NEW s, Len(s) \in Nat
  PROVE  \E run : Values("unpack", 0, base, s, Fold(UnpackLoc, base, s), run)
<1> DEFINE run == CHOOSE run : Runs("unpack", 0, base, s, Len(s), run)
<1>1. Runs("unpack", 0, base, s, Len(s), run)
  BY RunExists
<1>2. Fold(UnpackLoc, base, s) = run[Len(s)]
  BY DEF Fold, Runs, Step
<1> QED
  BY <1>1, <1>2, ValuesOf

LEMMA JoinFold ==
  ASSUME NEW base, NEW other, NEW level, NEW s, Len(s) \in Nat
  PROVE  \E run : Values("join", [level |-> level, other |-> other], base, s,
                         JoinLocs(base, other, level, s), run)
<1> DEFINE x == [level |-> level, other |-> other]
           run == CHOOSE run : Runs("join", x, base, s, Len(s), run)
<1>1. Runs("join", x, base, s, Len(s), run)
  BY RunExists
<1>2. JoinLocs(base, other, level, s) = run[Len(s)]
  BY DEF JoinLocs, Fold, Runs, Step
<1> QED
  BY <1>1, <1>2, ValuesOf

(* A fold of steps on the environment only adds to its locations.          *)
LEMMA FoldReaches ==
  ASSUME NEW st, Typed(st), NEW name, NEW x, NEW s, Len(s) \in Nat, NEW result, NEW run,
         Values(name, x, st, s, result, run),
         \A i \in 1..Len(s) : \A acc :
            Reaches(st, acc) => Reaches(acc, Step(name, x, acc, s[i]))
  PROVE  Reaches(st, result)
<1> DEFINE n == Len(s)
           T == {i \in 0..n : Reaches(st, run[i])}
<1>1. /\ run[0] = st /\ run[n] = result
      /\ \A i \in 1..n : run[i] = Step(name, x, run[i - 1], s[i])
  BY DEF Values
<1>2. n \in Nat /\ 0 \in T
  BY <1>1, ReachesReflexive
<1>3. ASSUME NEW i \in 1..n, i - 1 \in T PROVE i \in T
  <2>1. Reaches(st, run[i - 1]) /\ Reaches(run[i - 1], run[i])
    BY <1>1, <1>3
  <2>2. Reaches(st, run[i])
    BY <2>1, LeadsTransitive DEF Reaches
  <2> QED
    BY <1>2, <2>2
<1> HIDE DEF T
<1>4. \A i \in 0..n : i \in T
  BY <1>2, <1>3, ValuesKeep
<1> QED
  BY <1>1, <1>2, <1>4 DEF T

LEMMA TransformFold ==
  ASSUME NEW base, NEW other, NEW level, NEW s, Len(s) \in Nat
  PROVE  \E run : Values("transform", [level |-> level, other |-> other], base, s,
                         TransformLocs(base, other, level, s), run)
<1> DEFINE x == [level |-> level, other |-> other]
           run == CHOOSE run : Runs("transform", x, base, s, Len(s), run)
<1>1. Runs("transform", x, base, s, Len(s), run)
  BY RunExists
<1>2. TransformLocs(base, other, level, s) = run[Len(s)]
  BY DEF TransformLocs, Fold, Runs, Step
<1> QED
  BY <1>1, <1>2, ValuesOf

Refreshed(base, shape, s) == Fold(LAMBDA acc, loc : RefreshKVar(acc, shape[loc]), base, s)
InferLocs(base, st, shape, new, s) ==
    Fold(LAMBDA acc, loc : InferLoc(acc, st, shape, new, loc), base, s)

LEMMA FreshFold ==
  ASSUME NEW base, NEW shape, NEW s, Len(s) \in Nat
  PROVE  \E run : Values("fresh", shape, base, s, Refreshed(base, shape, s), run)
<1> DEFINE run == CHOOSE run : Runs("fresh", shape, base, s, Len(s), run)
<1>1. Runs("fresh", shape, base, s, Len(s), run)
  BY RunExists
<1>2. Refreshed(base, shape, s) = run[Len(s)]
  BY DEF Refreshed, Fold, Runs, Step
<1> QED
  BY <1>1, <1>2, ValuesOf

LEMMA InferFold ==
  ASSUME NEW base, NEW st, NEW shape, NEW new, NEW s, Len(s) \in Nat
  PROVE  \E run : Values("infer", [st |-> st, shape |-> shape, new |-> new], base, s,
                         InferLocs(base, st, shape, new, s), run)
<1> DEFINE x == [st |-> st, shape |-> shape, new |-> new]
           run == CHOOSE run : Runs("infer", x, base, s, Len(s), run)
<1>1. Runs("infer", x, base, s, Len(s), run)
  BY RunExists
<1>2. InferLocs(base, st, shape, new, s) = run[Len(s)]
  BY DEF InferLocs, Fold, Runs, Step
<1> QED
  BY <1>1, <1>2, ValuesOf

InferActuals(base, actuals, sig, s) ==
    Fold(LAMBDA acc, i : InferFromTys(acc, actuals[i], sig.args[i]), base, s)

LEMMA ActualFold ==
  ASSUME NEW base, NEW actuals, NEW sig, NEW s, Len(s) \in Nat
  PROVE  \E run : Values("actual", [actuals |-> actuals, sig |-> sig], base, s, InferActuals(base, actuals, sig, s), run)
<1> DEFINE x == [actuals |-> actuals, sig |-> sig]
           run == CHOOSE run : Runs("actual", x, base, s, Len(s), run)
<1>1. Runs("actual", x, base, s, Len(s), run)
  BY RunExists
<1>2. InferActuals(base, actuals, sig, s) = run[Len(s)]
  BY DEF InferActuals, Fold, Runs, Step
<1> QED
  BY <1>1, <1>2, ValuesOf

LEMMA RequiredFold ==
  ASSUME NEW base, NEW s, Len(s) \in Nat
  PROVE  \E run : Values("required", 0, base, s, Fold(InferRequired, base, s), run)
<1> DEFINE x == 0
           run == CHOOSE run : Runs("required", x, base, s, Len(s), run)
<1>1. Runs("required", x, base, s, Len(s), run)
  BY RunExists
<1>2. Fold(InferRequired, base, s) = run[Len(s)]
  BY DEF Fold, Runs, Step
<1> QED
  BY <1>1, <1>2, ValuesOf

LEMMA PredFold ==
  ASSUME NEW base, NEW s, Len(s) \in Nat
  PROVE  \E run : Values("pred", 0, base, s, Fold(RequirePred, base, s), run)
<1> DEFINE x == 0
           run == CHOOSE run : Runs("pred", x, base, s, Len(s), run)
<1>1. Runs("pred", x, base, s, Len(s), run)
  BY RunExists
<1>2. Fold(RequirePred, base, s) = run[Len(s)]
  BY DEF Fold, Runs, Step
<1> QED
  BY <1>1, <1>2, ValuesOf

LEMMA TypeFold ==
  ASSUME NEW base, NEW s, Len(s) \in Nat
  PROVE  \E run : Values("type", 0, base, s, Fold(RequireTy, base, s), run)
<1> DEFINE x == 0
           run == CHOOSE run : Runs("type", x, base, s, Len(s), run)
<1>1. Runs("type", x, base, s, Len(s), run)
  BY RunExists
<1>2. Fold(RequireTy, base, s) = run[Len(s)]
  BY DEF Fold, Runs, Step
<1> QED
  BY <1>1, <1>2, ValuesOf

LEMMA EnsureFold ==
  ASSUME NEW base, NEW s, Len(s) \in Nat
  PROVE  \E run : Values("ensure", 0, base, s, Fold(Ensure, base, s), run)
<1> DEFINE x == 0
           run == CHOOSE run : Runs("ensure", x, base, s, Len(s), run)
<1>1. Runs("ensure", x, base, s, Len(s), run)
  BY RunExists
<1>2. Fold(Ensure, base, s) = run[Len(s)]
  BY DEF Fold, Runs, Step
<1> QED
  BY <1>1, <1>2, ValuesOf

LEMMA ParamFold ==
  ASSUME NEW base, NEW s, Len(s) \in Nat
  PROVE  \E run : Values("param", 0, base, s, Fold(AssumeParam, base, s), run)
<1> DEFINE x == 0
           run == CHOOSE run : Runs("param", x, base, s, Len(s), run)
<1>1. Runs("param", x, base, s, Len(s), run)
  BY RunExists
<1>2. Fold(AssumeParam, base, s) = run[Len(s)]
  BY DEF Fold, Runs, Step
<1> QED
  BY <1>1, <1>2, ValuesOf

LEMMA LocationFold ==
  ASSUME NEW base, NEW s, Len(s) \in Nat
  PROVE  \E run : Values("location", 0, base, s, Fold(AssumeRequired, base, s), run)
<1> DEFINE x == 0
           run == CHOOSE run : Runs("location", x, base, s, Len(s), run)
<1>1. Runs("location", x, base, s, Len(s), run)
  BY RunExists
<1>2. Fold(AssumeRequired, base, s) = run[Len(s)]
  BY DEF Fold, Runs, Step
<1> QED
  BY <1>1, <1>2, ValuesOf

LEMMA StatementFold ==
  ASSUME NEW base, NEW s, Len(s) \in Nat
  PROVE  \E run : Values("statement", 0, base, s, Fold(CheckStatement, base, s), run)
<1> DEFINE x == 0
           run == CHOOSE run : Runs("statement", x, base, s, Len(s), run)
<1>1. Runs("statement", x, base, s, Len(s), run)
  BY RunExists
<1>2. Fold(CheckStatement, base, s) = run[Len(s)]
  BY DEF Fold, Runs, Step
<1> QED
  BY <1>1, <1>2, ValuesOf

CheckActuals(base, actuals, sig, s) ==
    Fold(LAMBDA acc, i : [acc EXCEPT !.st = Sub(@, actuals[i], LowerTy(acc.subst, sig.args[i]))], base, s)

LEMMA SubtypeFold ==
  ASSUME NEW base, NEW actuals, NEW sig, NEW s, Len(s) \in Nat
  PROVE  \E run : Values("subtype", [actuals |-> actuals, sig |-> sig], base, s, CheckActuals(base, actuals, sig, s), run)
<1> DEFINE x == [actuals |-> actuals, sig |-> sig]
           run == CHOOSE run : Runs("subtype", x, base, s, Len(s), run)
<1>1. Runs("subtype", x, base, s, Len(s), run)
  BY RunExists
<1>2. CheckActuals(base, actuals, sig, s) = run[Len(s)]
  BY DEF CheckActuals, Fold, Runs, Step
<1> QED
  BY <1>1, <1>2, ValuesOf

EnterArgs(base, subst, sig, s) ==
    Fold(LAMBDA st, i : InsertUnpacked(st, Local(i), LowerTy(subst, sig.args[i])), base, s)

LEMMA ArgumentFold ==
  ASSUME NEW base, NEW subst, NEW sig, NEW s, Len(s) \in Nat
  PROVE  \E run : Values("argument", [subst |-> subst, sig |-> sig], base, s, EnterArgs(base, subst, sig, s), run)
<1> DEFINE x == [subst |-> subst, sig |-> sig]
           run == CHOOSE run : Runs("argument", x, base, s, Len(s), run)
<1>1. Runs("argument", x, base, s, Len(s), run)
  BY RunExists
<1>2. EnterArgs(base, subst, sig, s) = run[Len(s)]
  BY DEF EnterArgs, Fold, Runs, Step
<1> QED
  BY <1>1, <1>2, ValuesOf

EnterLocals(base, s) == Fold(LAMBDA st, x : Insert(st, Local(x), Uninit), base, s)

LEMMA LocalFold ==
  ASSUME NEW base, NEW s, Len(s) \in Nat
  PROVE  \E run : Values("local", 0, base, s, EnterLocals(base, s), run)
<1> DEFINE x == 0
           run == CHOOSE run : Runs("local", x, base, s, Len(s), run)
<1>1. Runs("local", x, base, s, Len(s), run)
  BY RunExists
<1>2. EnterLocals(base, s) = run[Len(s)]
  BY DEF EnterLocals, Fold, Runs, Step
<1> QED
  BY <1>1, <1>2, ValuesOf

ShowEnsured(base, subst, s) ==
    Fold(LAMBDA acc, ensured : IF ensured.loc \in DOMAIN subst.locs
                               THEN Show(acc, subst.locs[ensured.loc], LowerTy(subst, ensured.ty))
                               ELSE Panic(acc, "unwrap of None"), base, s)

LEMMA ShowFold ==
  ASSUME NEW base, NEW subst, NEW s, Len(s) \in Nat
  PROVE  \E run : Values("show", subst, base, s, ShowEnsured(base, subst, s), run)
<1> DEFINE x == subst
           run == CHOOSE run : Runs("show", x, base, s, Len(s), run)
<1>1. Runs("show", x, base, s, Len(s), run)
  BY RunExists
<1>2. ShowEnsured(base, subst, s) = run[Len(s)]
  BY DEF ShowEnsured, Fold, Runs, Step
<1> QED
  BY <1>1, <1>2, ValuesOf

FoldOperands(base, s) ==
    Fold(LAMBDA acc, operand : [st  |-> AfterOperand(acc.st, operand),
                                tys |-> Append(acc.tys, OperandTy(acc.st, operand))], base, s)

LEMMA OperandFold ==
  ASSUME NEW base, NEW s, Len(s) \in Nat
  PROVE  \E run : Values("operand", 0, base, s, FoldOperands(base, s), run)
<1> DEFINE x == 0
           run == CHOOSE run : Runs("operand", x, base, s, Len(s), run)
<1>1. Runs("operand", x, base, s, Len(s), run)
  BY RunExists
<1>2. FoldOperands(base, s) = run[Len(s)]
  BY DEF FoldOperands, Fold, Runs, Step
<1> QED
  BY <1>1, <1>2, ValuesOf

Conjunction(base, s) == Fold(LAMBDA e1, e2 : BinaryExpr("And", e1, e2), base, s)

LEMMA GuardFold ==
  ASSUME NEW base, NEW s, Len(s) \in Nat
  PROVE  \E run : Values("guard", 0, base, s, Conjunction(base, s), run)
<1> DEFINE x == 0
           run == CHOOSE run : Runs("guard", x, base, s, Len(s), run)
<1>1. Runs("guard", x, base, s, Len(s), run)
  BY RunExists
<1>2. Conjunction(base, s) = run[Len(s)]
  BY DEF Conjunction, Fold, Runs, Step
<1> QED
  BY <1>1, <1>2, ValuesOf

-----------------------------------------------------------------------------
(* The iteration order lists the locations it is given.                    *)

LEMMA BeforeTotal ==
  ASSUME NEW k \in Loc, NEW l \in Loc
  PROVE  /\ ~Before(k, k)
         /\ k # l => Before(k, l) \/ Before(l, k)
         /\ \A m \in Loc : Before(k, l) /\ Before(l, m) => Before(k, m)
<1>1. \A m \in Loc : m = <<m[1], m[2]>> /\ m[1] \in {"Local", "Abstract"} /\ m[2] \in Nat
  BY DEF Loc
<1> QED
  BY <1>1 DEF Before, IsLocal

Rank(locs, loc) == Cardinality({l \in locs : Before(l, loc)})

LEMMA RankFacts ==
  ASSUME NEW locs, locs \subseteq Loc, IsFiniteSet(locs)
  PROVE  /\ Cardinality(locs) \in Nat
         /\ \A loc \in locs : Rank(locs, loc) \in 0..(Cardinality(locs) - 1)
         /\ \A k, l \in locs : Before(k, l) => Rank(locs, k) < Rank(locs, l)
<1> DEFINE Below(loc) == {l \in locs : Before(l, loc)}
<1>1. \A loc : /\ IsFiniteSet(Below(loc)) /\ Cardinality(Below(loc)) \in Nat
               /\ Cardinality(locs) \in Nat
  BY FS_Subset, FS_CardinalityType
<1>2. ASSUME NEW A, NEW B, IsFiniteSet(B), A \subseteq B, NEW x \in B, x \notin A
      PROVE  Cardinality(A) < Cardinality(B)
  <2>1. A \in SUBSET B /\ A # B
    BY <1>2
  <2>2. /\ IsFiniteSet(A) /\ Cardinality(A) <= Cardinality(B)
        /\ Cardinality(A) # Cardinality(B)
    BY <1>2, <2>1, FS_Subset
  <2> QED
    BY <1>2, <2>2, FS_CardinalityType
<1>3. ASSUME NEW loc \in locs
      PROVE  Rank(locs, loc) \in 0..(Cardinality(locs) - 1)
  <2>1. Below(loc) \subseteq locs /\ loc \notin Below(loc)
    BY BeforeTotal
  <2>2. Cardinality(Below(loc)) < Cardinality(locs)
    BY <1>2, <2>1
  <2> QED
    BY <1>1, <2>2 DEF Rank
<1>4. ASSUME NEW k \in locs, NEW l \in locs, Before(k, l)
      PROVE  Rank(locs, k) < Rank(locs, l)
  <2>1. Below(k) \subseteq Below(l)
    BY <1>4, BeforeTotal
  <2>2. k \in Below(l) /\ k \notin Below(k)
    BY <1>4, BeforeTotal
  <2>3. IsFiniteSet(Below(l))
    BY <1>1
  <2> HIDE DEF Below
  <2>4. Cardinality(Below(k)) < Cardinality(Below(l))
    BY <1>2, <2>1, <2>2, <2>3
  <2> QED
    BY <2>4 DEF Rank, Below
<1> QED
  BY <1>1, <1>3, <1>4

LEMMA SortedLists ==
  ASSUME NEW locs, locs \subseteq Loc, IsFiniteSet(locs)
  PROVE  /\ Len(Sorted(locs)) \in Nat
         /\ \A i \in 1..Len(Sorted(locs)) : Sorted(locs)[i] \in locs
<1> DEFINE n == Cardinality(locs)
           at(i) == CHOOSE loc \in locs : Cardinality({l \in locs : Before(l, loc)}) = i - 1
           rank == [loc \in locs |-> Rank(locs, loc)]
<1>1. n \in Nat
  BY RankFacts
<1>2. Sorted(locs) = [i \in 1..n |-> at(i)]
  BY DEF Sorted
<1>3. rank \in Injection(locs, 0..(n - 1))
  <2>1. rank \in [locs -> 0..(n - 1)]
    BY RankFacts
  <2>2. ASSUME NEW k \in locs, NEW l \in locs, rank[k] = rank[l] PROVE k = l
    <3>1. Rank(locs, k) = Rank(locs, l) /\ Rank(locs, k) \in Nat
      BY <1>1, <2>2, RankFacts
    <3>2. ~Before(k, l) /\ ~Before(l, k)
      BY <3>1, RankFacts
    <3> QED
      BY <3>2, BeforeTotal
  <2> HIDE DEF rank
  <2> QED
    BY <2>1, <2>2 DEF Injection, IsInjective
<1>4. rank \in Surjection(locs, 0..(n - 1))
  <2>1. IsFiniteSet(0..(n - 1)) /\ Cardinality(0..(n - 1)) = n
    BY <1>1, FS_Interval
  <2> HIDE DEF rank
  <2> QED
    BY <1>3, <2>1, FS_Injection
<1>5. \A i \in 1..n : at(i) \in locs
  <2> SUFFICES ASSUME NEW i \in 1..n PROVE at(i) \in locs
    OBVIOUS
  <2>1. i - 1 \in 0..(n - 1)
    BY <1>1
  <2>2. \E loc \in locs : rank[loc] = i - 1
    <3> HIDE DEF rank
    <3> QED
      BY <1>4, <2>1 DEF Surjection
  <2>3. \E loc \in locs : Cardinality({l \in locs : Before(l, loc)}) = i - 1
    BY <2>2 DEF Rank
  <2> QED
    BY <2>3
<1> HIDE DEF at
<1>6. Sorted(locs) \in Seq(locs) /\ Len(Sorted(locs)) = n
  <2>1. Sorted(locs) \in [1..n -> locs]
    BY <1>2, <1>5
  <2> QED
    BY <1>1, <2>1, SeqDef, LenProperties
<1> QED
  BY <1>6, ElementOfSeq, LenProperties

LEMMA ReverseLists ==
  ASSUME NEW s, NEW locs, Len(s) \in Nat, \A i \in 1..Len(s) : s[i] \in locs
  PROVE  /\ Len(Reverse(s)) = Len(s)
         /\ \A i \in 1..Len(s) : Reverse(s)[i] \in locs
<1>1. Reverse(s) = [i \in 1..Len(s) |-> s[(Len(s) - i) + 1]]
  BY DEF Reverse
<1>2. \A i \in 1..Len(s) : (Len(s) - i) + 1 \in 1..Len(s)
  OBVIOUS
<1>3. Reverse(s) \in [1..Len(s) -> locs]
  BY <1>1, <1>2
<1>4. Reverse(s) \in Seq(locs)
  BY <1>3, SeqDef
<1>5. DOMAIN Reverse(s) = 1..Len(Reverse(s)) /\ Len(Reverse(s)) \in Nat
  BY <1>4, LenProperties
<1>6. DOMAIN Reverse(s) = 1..Len(s)
  BY <1>1
<1>7. Len(Reverse(s)) = Len(s)
  BY <1>5, <1>6
<1> QED
  BY <1>3, <1>7

LEMMA InOrderLists ==
  ASSUME NEW st, NEW locs, locs \subseteq Loc, IsFiniteSet(locs)
  PROVE  /\ Len(InOrder(st, locs)) \in Nat
         /\ \A i \in 1..Len(InOrder(st, locs)) : InOrder(st, locs)[i] \in locs
<1> DEFINE s == Sorted(locs)
<1>1. Len(s) \in Nat /\ \A i \in 1..Len(s) : s[i] \in locs
  BY SortedLists
<1> HIDE DEF s
<1>2. InOrder(st, locs) = s \/ InOrder(st, locs) = Reverse(s)
  BY DEF InOrder, s
<1> QED
  BY <1>1, <1>2, ReverseLists

-----------------------------------------------------------------------------
(* unpack and the joins.                                                   *)

LEMMA UnpackEnvReaches ==
  ASSUME NEW st, Typed(st)
  PROVE  Reaches(st, UnpackEnv(st))
<1> DEFINE s == InOrder(st, DOMAIN st.env)
           n == Len(s)
<1>1. n \in Nat /\ \A i \in 1..n : s[i] \in DOMAIN st.env
  BY InOrderLists DEF Typed, WellEnv
<1>2. UnpackEnv(st) = Fold(UnpackLoc, st, s)
  BY DEF UnpackEnv
<1> HIDE DEF s
<1>3. PICK run : Values("unpack", 0, st, s, UnpackEnv(st), run)
  BY <1>1, <1>2, UnpackFold
<1>4. ASSUME NEW i \in 1..n, NEW acc, Reaches(st, acc)
      PROVE  Reaches(acc, Step("unpack", 0, acc, s[i]))
  <2>1. Typed(acc) /\ s[i] \in DOMAIN acc.env
    BY <1>1, <1>4 DEF Reaches, Leads
  <2> QED
    BY <2>1, UnpackLocReaches DEF Step
<1> QED
  BY <1>1, <1>3, <1>4, FoldReaches

(* The environments that weakening leaves.                                 *)
LEMMA WeakeningEnv ==
  ASSUME NEW e, WellEnv(e), NEW other, WellEnv(other)
  PROVE  LET w == Weakening(e, other)
         IN  /\ WellEnv(w)
             /\ DOMAIN w \subseteq DOMAIN e /\ DOMAIN w \subseteq DOMAIN other
<1> DEFINE w == Weakening(e, other)
<1>1. /\ DOMAIN w = DOMAIN e \intersect DOMAIN other
      /\ \A loc \in DOMAIN w : w[loc] \in {Strong(Uninit), e[loc]}
  BY DEF Weakening
<1> HIDE DEF w
<1>2. IsFiniteSet(DOMAIN w)
  BY <1>1, FS_Subset DEF WellEnv
<1>3. WellBinding(Strong(Uninit))
  BY WellTypes, WellBindings
<1>4. \A loc \in DOMAIN w : WellBinding(w[loc])
  BY <1>1, <1>3 DEF WellEnv
<1> QED
  BY <1>1, <1>2, <1>4 DEF WellEnv, w

LEMMA RefWeakReaches ==
  ASSUME NEW st, Typed(st), NEW loc, NEW bound, WellTy(bound)
  PROVE  Reaches(st, RefWeak(st, loc, bound))
<1>1. CASE Ok(st) /\ Bound(st, loc) /\ st.env[loc].kind # "Weak" /\ bound.kind = "Exists"
  <2> DEFINE t == Sub(st, st.env[loc].ty, bound)
  <2>1. loc \in Loc /\ WellTy(st.env[loc].ty)
    BY <1>1, TypeAt DEF Bound, Typed
  <2>2. Reaches(st, t) /\ Typed(t)
    BY <2>1, SubReaches DEF Reaches, Leads
  <2>3. RefWeak(st, loc, bound) = Insert(t, loc, bound)
    BY <1>1 DEF RefWeak
  <2> HIDE DEF t
  <2>4. Reaches(t, Insert(t, loc, bound))
    BY <2>1, <2>2, InsertReaches
  <2> QED
    BY <2>2, <2>3, <2>4, LeadsTransitive DEF Reaches
<1>2. CASE ~(Ok(st) /\ Bound(st, loc) /\ st.env[loc].kind # "Weak" /\ bound.kind = "Exists")
  BY <1>2, PanicReaches, ReachesReflexive DEF RefWeak
<1> QED
  BY <1>1, <1>2

(* A state and a type that a join gives.                                   *)
Gives(st, join) == Reaches(st, join.st) /\ WellTy(join.ty)

LEMMA ValueJoinGives ==
  ASSUME NEW st, Typed(st), NEW ty1, WellTy(ty1), NEW ty2
  PROVE  Gives(st, ValueJoin(st, ty1, ty2))
<1>1. CASE ty1 = ty2
  BY <1>1, ReachesReflexive DEF ValueJoin, Gives
<1>2. CASE ty1 # ty2
  <2> DEFINE s == FreshKVar(S(st))
             t == With(st, s)
  <2>1. Builder!Grows(S(st), s) /\ WellPred(LastKVar(s).pred) /\ LastKVar(s) = Exists(LastKVar(s).pred)
    BY FreshKVarFacts DEF Typed
  <2>2. ValueJoin(st, ty1, ty2) = [st |-> t, ty |-> LastKVar(S(t))]
    BY <1>2 DEF ValueJoin, FreshJoin
  <2> HIDE DEF s
  <2>3. Reaches(st, t) /\ t.b = s.b
    BY <2>1, WithReaches
  <2> HIDE DEF t
  <2>4. LastKVar(S(t)) = LastKVar(s)
    BY <2>3 DEF LastKVar, S
  <2>5. WellTy(LastKVar(S(t)))
    BY <2>1, <2>4, WellTypes
  <2> QED
    BY <2>2, <2>3, <2>5 DEF Gives
<1> QED
  BY <1>1, <1>2

LEMMA PanicGives ==
  ASSUME NEW st, Typed(st), NEW message
  PROVE  Gives(st, [st |-> Panic(st, message), ty |-> Uninit])
BY PanicReaches, WellTypes DEF Gives

LEMMA RefWeakJoinGives ==
  ASSUME NEW st, Typed(st), NEW loc1, NEW loc2
  PROVE  LET weak == RefWeakJoin(st, loc1, loc2)
         IN  Gives(st, weak) /\ WellValue(weak.ty)
<1> DEFINE b1 == st.env[loc1]
           b2 == st.env[loc2]
           weak == RefWeakJoin(st, loc1, loc2)
           join == ValueJoin(st, b1.ty, b2.ty)
           joins == /\ Bound(st, loc1) /\ Bound(st, loc2)
                    /\ "Weak" \notin {b1.kind, b2.kind}
                    /\ {b1.ty.kind, b2.ty.kind} \subseteq Value
<1>1. CASE joins
  <2>1. loc1 \in Loc /\ loc2 \in Loc /\ WellTy(b1.ty) /\ WellTy(b2.ty) /\ WellValue(b1.ty)
    <3>1. loc1 \in Loc /\ loc2 \in Loc /\ WellTy(b1.ty) /\ WellTy(b2.ty)
      BY <1>1, TypeAt DEF Bound, Typed
    <3> HIDE DEF b1, b2
    <3> QED
      BY <1>1, <3>1, TyFacts DEF Value
  <2>2. Gives(st, join) /\ WellValue(join.ty)
    <3>1. Gives(st, join)
      BY <2>1, ValueJoinGives
    <3>2. join.ty = b1.ty \/ join.ty.kind = "Exists"
      BY DEF ValueJoin, LastKVar, Exists
    <3> HIDE DEF join, b1
    <3> QED
      BY <2>1, <3>1, <3>2, TyFacts DEF Gives
  <2>3. weak = [st |-> Insert(Insert(join.st, loc1, join.ty), loc2, join.ty), ty |-> join.ty]
    BY <1>1 DEF RefWeakJoin
  <2> HIDE DEF join, weak
  <2> DEFINE t == Insert(join.st, loc1, join.ty)
  <2>4. Reaches(st, join.st) /\ Typed(join.st) /\ WellTy(join.ty)
    BY <2>2 DEF Gives, Reaches, Leads
  <2>5. Reaches(join.st, t) /\ Typed(t)
    BY <2>1, <2>4, InsertReaches DEF Reaches, Leads
  <2>6. Reaches(st, t)
    BY <2>4, <2>5, LeadsTransitive DEF Reaches
  <2> HIDE DEF t
  <2>7. Reaches(t, Insert(t, loc2, join.ty))
    BY <2>1, <2>4, <2>5, InsertReaches
  <2>8. Reaches(st, Insert(t, loc2, join.ty))
    BY <2>6, <2>7, LeadsTransitive DEF Reaches
  <2>9. weak.st = Insert(t, loc2, join.ty) /\ weak.ty = join.ty
    BY <2>3 DEF t
  <2> QED
    BY <2>2, <2>4, <2>8, <2>9 DEF weak, Gives
<1>2. CASE ~joins
  <2>1. weak.ty = Uninit /\ \E message : weak = [st |-> Panic(st, message), ty |-> Uninit]
    BY <1>2 DEF RefWeakJoin
  <2> HIDE DEF weak
  <2> QED
    BY <2>1, PanicGives, WellTypes DEF weak
<1> QED
  BY <1>1, <1>2

LEMMA StrgTyJoinGives ==
  ASSUME NEW st, Typed(st), NEW ty1, WellTy(ty1), NEW ty2, WellTy(ty2)
  PROVE  Gives(st, StrgTyJoin(st, ty1, ty2))
<1> DEFINE kinds == {ty1.kind, ty2.kind}
           weak == RefWeakJoin(st, ty1.loc, ty2.loc)
           strg == IF ty1.kind = "StrgRef" THEN ty1 ELSE ty2
           ref == IF ty1.kind = "StrgRef" THEN ty2 ELSE ty1
           join == StrgTyJoin(st, ty1, ty2)
           toRefs == [st |-> weak.st, ty |-> Ref(weak.ty)]
           toWeak == [st |-> RefWeak(st, strg.loc, ref.ty), ty |-> ref.ty]
           todo == [st |-> Panic(st, "todo"), ty |-> Uninit]
<1> SUFFICES Gives(st, join)
  OBVIOUS
<1>1. \/ join = [st |-> st, ty |-> ty1]
      \/ join = [st |-> st, ty |-> Uninit]
      \/ join = ValueJoin(st, ty1, ty2)
      \/ join = toRefs
      \/ kinds = {"StrgRef", "Ref"} /\ join = toWeak
      \/ join = todo
  <2>1. join = CASE ty1 = ty2 -> [st |-> st, ty |-> ty1]
                 [] ty1 # ty2 /\ "Uninit" \in kinds -> [st |-> st, ty |-> Uninit]
                 [] ty1 # ty2 /\ kinds \subseteq Value -> ValueJoin(st, ty1, ty2)
                 [] ty1 # ty2 /\ kinds = {"StrgRef"} -> toRefs
                 [] ty1 # ty2 /\ kinds = {"StrgRef", "Ref"} -> toWeak
                 [] OTHER -> todo
    BY DEF StrgTyJoin
  <2> HIDE DEF join, toRefs, toWeak, todo, kinds
  <2> QED
    BY <2>1
<1> HIDE DEF join
<1>2. CASE join = [st |-> st, ty |-> ty1] \/ join = [st |-> st, ty |-> Uninit]
  BY <1>2, ReachesReflexive, WellTypes DEF Gives
<1>3. CASE join = ValueJoin(st, ty1, ty2)
  BY <1>3, ValueJoinGives
<1>4. CASE join = toRefs
  <2>1. Reaches(st, weak.st) /\ WellTy(Ref(weak.ty))
    BY RefWeakJoinGives, WellTypes DEF Gives
  <2> HIDE DEF weak
  <2> QED
    BY <1>4, <2>1 DEF Gives
<1>5. CASE kinds = {"StrgRef", "Ref"} /\ join = toWeak
  <2>1. WellTy(ref) /\ ref.kind = "Ref"
    BY <1>5
  <2>2. WellTy(ref.ty)
    BY <2>1, TyFacts, WellTypes
  <2>3. Reaches(st, RefWeak(st, strg.loc, ref.ty))
    BY <2>2, RefWeakReaches
  <2> HIDE DEF strg, ref
  <2> QED
    BY <1>5, <2>2, <2>3 DEF Gives
<1>6. CASE join = todo
  BY <1>6, PanicGives
<1> QED
  BY <1>1, <1>2, <1>3, <1>4, <1>5, <1>6

LEMMA JoinLocReaches ==
  ASSUME NEW st, Typed(st), NEW other, WellEnv(other),
         NEW loc \in DOMAIN st.env, loc \in DOMAIN other
  PROVE  Reaches(st, JoinLoc(st, other, loc))
<1> DEFINE join == StrgTyJoin(st, st.env[loc].ty, other[loc].ty)
<1>1. loc \in Loc /\ WellTy(st.env[loc].ty) /\ WellTy(other[loc].ty)
  BY TypeAt DEF Typed
<1>2. Reaches(st, join.st) /\ Typed(join.st) /\ WellTy(join.ty)
  BY <1>1, StrgTyJoinGives DEF Gives, Reaches, Leads
<1>3. JoinLoc(st, other, loc) \in {Insert(join.st, loc, join.ty), st}
  BY DEF JoinLoc
<1> HIDE DEF join
<1>4. Reaches(join.st, Insert(join.st, loc, join.ty))
  BY <1>1, <1>2, InsertReaches
<1>5. Reaches(st, Insert(join.st, loc, join.ty))
  BY <1>2, <1>4, LeadsTransitive DEF Reaches
<1> QED
  BY <1>3, <1>5, ReachesReflexive

LEMMA JoinLocsReaches ==
  ASSUME NEW st, Typed(st), NEW other, WellEnv(other), NEW level,
         level \subseteq DOMAIN st.env, level \subseteq DOMAIN other,
         NEW s, Len(s) \in Nat
  PROVE  Reaches(st, JoinLocs(st, other, level, s))
<1> DEFINE x == [level |-> level, other |-> other]
<1>1. PICK run : Values("join", x, st, s, JoinLocs(st, other, level, s), run)
  BY JoinFold
<1>2. ASSUME NEW i \in 1..Len(s), NEW acc, Reaches(st, acc)
      PROVE  Reaches(acc, Step("join", x, acc, s[i]))
  <2>1. Typed(acc) /\ level \subseteq DOMAIN acc.env
    BY <1>2 DEF Reaches, Leads
  <2>2. Step("join", x, acc, s[i]) = IF s[i] \in level THEN JoinLoc(acc, other, s[i]) ELSE acc
    BY DEF Step
  <2> QED
    BY <2>1, <2>2, JoinLocReaches, ReachesReflexive
<1> HIDE DEF x
<1> QED
  BY <1>1, <1>2, FoldReaches

LEMMA JoinWithLeads ==
  ASSUME NEW st0, Typed(st0), NEW self, WellEnv(self), NEW other, WellEnv(other)
  PROVE  Leads(st0, JoinWith(st0, self, other))
<1> DEFINE w == Weakening(self, other)
           st == [st0 EXCEPT !.env = w]
           locs == InOrder(st, DOMAIN st.env)
           low == {loc \in DOMAIN st.env : Level(st.env, loc) = 0 /\ Level(other, loc) = 0}
           lowJoined == JoinLocs(st, other, low, locs)
           high == DOMAIN st.env \ low
           joined == JoinLocs(lowJoined, other, high, locs)
<1>1. JoinWith(st0, self, other) =
          IF HasLevels(st.env) /\ HasLevels(other) THEN joined ELSE Panic(st, "dangling reference")
  BY DEF JoinWith
<1>2. WellEnv(w) /\ DOMAIN w \subseteq DOMAIN other
  BY WeakeningEnv
<1> HIDE DEF w
<1>3. Leads(st0, st) /\ Typed(st) /\ st.env = w
  BY <1>2, SetEnv DEF Leads
<1> HIDE DEF st
<1>4. Len(locs) \in Nat
  BY <1>2, <1>3, InOrderLists DEF WellEnv
<1> HIDE DEF locs
<1>5. low \subseteq DOMAIN st.env /\ high \subseteq DOMAIN st.env
  OBVIOUS
<1> HIDE DEF low, high
<1>6. Reaches(st, lowJoined) /\ Typed(lowJoined)
  BY <1>2, <1>3, <1>4, <1>5, JoinLocsReaches DEF Reaches, Leads
<1>7. high \subseteq DOMAIN lowJoined.env
  BY <1>5, <1>6 DEF Reaches
<1> HIDE DEF lowJoined
<1>8. Reaches(lowJoined, joined)
  BY <1>2, <1>3, <1>4, <1>5, <1>6, <1>7, JoinLocsReaches
<1>9. Leads(st, joined)
  BY <1>3, <1>6, <1>8, LeadsTransitive DEF Reaches
<1> HIDE DEF joined
<1>10. Leads(st, Panic(st, "dangling reference"))
  BY <1>3, PanicReaches DEF Reaches
<1> QED
  BY <1>1, <1>3, <1>9, <1>10, LeadsTransitive

-----------------------------------------------------------------------------
(* transform_into                                                          *)

LEMMA TransformLocReaches ==
  ASSUME NEW st, Typed(st), NEW other, WellEnv(other),
         NEW loc \in DOMAIN st.env, loc \in DOMAIN other
  PROVE  Reaches(st, TransformLoc(st, other, loc))
<1> DEFINE ty1 == st.env[loc].ty
           ty2 == other[loc].ty
           refs == ty1.kind = "StrgRef" /\ ty2.kind = "Ref"
           t == IF refs THEN RefWeak(st, ty1.loc, ty2.ty) ELSE Sub(st, ty1, ty2)
<1>1. loc \in Loc /\ WellTy(ty1) /\ WellTy(ty2)
  BY TypeAt DEF Typed
<1>2. TransformLoc(st, other, loc) \in
          {st, Panic(st, "expected strong binding"), Insert(t, loc, ty2)}
  BY DEF TransformLoc
<1> HIDE DEF ty1, ty2
<1>3. Reaches(st, t) /\ Typed(t)
  <2>1. CASE refs
    <3>1. WellTy(ty2.ty)
      BY <1>1, <2>1, TyFacts, WellTypes
    <3> QED
      BY <2>1, <3>1, RefWeakReaches DEF Reaches, Leads
  <2>2. CASE ~refs
    BY <1>1, <2>2, SubReaches DEF Reaches, Leads
  <2> QED
    BY <2>1, <2>2
<1> HIDE DEF t
<1>4. Reaches(t, Insert(t, loc, ty2))
  BY <1>1, <1>3, InsertReaches
<1>5. Reaches(st, Insert(t, loc, ty2))
  BY <1>3, <1>4, LeadsTransitive DEF Reaches
<1> QED
  BY <1>2, <1>5, ReachesReflexive, PanicReaches

LEMMA TransformLocsReaches ==
  ASSUME NEW st, Typed(st), NEW other, WellEnv(other), NEW level,
         level \subseteq DOMAIN st.env, level \subseteq DOMAIN other,
         NEW s, Len(s) \in Nat
  PROVE  Reaches(st, TransformLocs(st, other, level, s))
<1> DEFINE x == [level |-> level, other |-> other]
<1>1. PICK run : Values("transform", x, st, s, TransformLocs(st, other, level, s), run)
  BY TransformFold
<1>2. ASSUME NEW i \in 1..Len(s), NEW acc, Reaches(st, acc)
      PROVE  Reaches(acc, Step("transform", x, acc, s[i]))
  <2>1. Typed(acc) /\ level \subseteq DOMAIN acc.env
    BY <1>2 DEF Reaches, Leads
  <2>2. Step("transform", x, acc, s[i]) =
            IF s[i] \in level THEN TransformLoc(acc, other, s[i]) ELSE acc
    BY DEF Step
  <2> QED
    BY <2>1, <2>2, TransformLocReaches, ReachesReflexive
<1> HIDE DEF x
<1> QED
  BY <1>1, <1>2, FoldReaches

LEMMA TransformIntoLeads ==
  ASSUME NEW st0, Typed(st0), NEW other, WellEnv(other)
  PROVE  Leads(st0, TransformInto(st0, other))
<1> DEFINE w == Weakening(st0.env, other)
           st == [st0 EXCEPT !.env = w]
           ordered == InOrder(st, DOMAIN st.env)
           locs == Reverse(ordered)
           high == {loc \in DOMAIN st.env : Level(st.env, loc) = 1}
           highDone == TransformLocs(st, other, high, locs)
           low == DOMAIN st.env \ high
           done == TransformLocs(highDone, other, low, locs)
<1>1. TransformInto(st0, other) =
          IF ~Ok(st0) THEN st0
          ELSE IF HasLevels(st.env) THEN done ELSE Panic(st, "dangling reference")
  BY DEF TransformInto
<1>2. WellEnv(w) /\ DOMAIN w \subseteq DOMAIN other
  BY WeakeningEnv DEF Typed
<1> HIDE DEF w
<1>3. Leads(st0, st) /\ Typed(st) /\ st.env = w
  BY <1>2, SetEnv DEF Leads
<1> HIDE DEF st
<1>4. Len(locs) \in Nat
  <2>1. Len(ordered) \in Nat /\ \A i \in 1..Len(ordered) : ordered[i] \in DOMAIN w
    BY <1>2, <1>3, InOrderLists DEF WellEnv
  <2> HIDE DEF ordered
  <2> QED
    BY <2>1, ReverseLists
<1> HIDE DEF locs
<1>5. low \subseteq DOMAIN st.env /\ high \subseteq DOMAIN st.env
  OBVIOUS
<1> HIDE DEF low, high
<1>6. Reaches(st, highDone) /\ Typed(highDone)
  BY <1>2, <1>3, <1>4, <1>5, TransformLocsReaches DEF Reaches, Leads
<1>7. low \subseteq DOMAIN highDone.env
  BY <1>5, <1>6 DEF Reaches
<1> HIDE DEF highDone
<1>8. Reaches(highDone, done)
  BY <1>2, <1>3, <1>4, <1>5, <1>6, <1>7, TransformLocsReaches
<1>9. Leads(st, done)
  BY <1>3, <1>6, <1>8, LeadsTransitive DEF Reaches
<1> HIDE DEF done
<1>10. Leads(st, Panic(st, "dangling reference")) /\ Leads(st0, st0)
  BY <1>3, PanicReaches, ReachesReflexive DEF Reaches
<1> QED
  BY <1>1, <1>3, <1>9, <1>10, LeadsTransitive

-----------------------------------------------------------------------------
(* infer_bb_env                                                            *)

Covers(new, ty) == IsKVar(Referred(ty)) => Referred(ty).pred.kvid \in DOMAIN new
Renews(st, acc) ==
    /\ Builder!Grows(S(st), acc.s)
    /\ \A kvid \in DOMAIN acc.new : WellPred(acc.new[kvid])

LEMMA RefreshKVarFacts ==
  ASSUME NEW st, Typed(st), NEW acc, Renews(st, acc), NEW ty
  PROVE  LET r == RefreshKVar(acc, ty)
         IN  /\ Renews(st, r) /\ Covers(r.new, ty)
             /\ DOMAIN acc.new \subseteq DOMAIN r.new
<1> DEFINE s == FreshKVarAtLastScope(acc.s)
           kvid == Referred(ty).pred.kvid
           new == Put(acc.new, kvid, LastKVar(s).pred)
           r == RefreshKVar(acc, ty)
<1>1. CASE IsKVar(Referred(ty)) /\ kvid \notin DOMAIN acc.new
  <2>1. r = [s |-> s, new |-> new]
    BY <1>1 DEF RefreshKVar
  <2>2. Builder!Works(S(st)) /\ Builder!Works(acc.s) /\ Builder!Grows(S(st), acc.s)
    BY DEF Typed, Renews, Builder!Grows
  <2>3. Builder!Grows(acc.s, s) /\ WellPred(LastKVar(s).pred)
    BY <2>2, FreshKVarAtLastScopeFacts
  <2>4. Builder!Grows(S(st), s)
    BY <2>2, <2>3, Builder!GrowsTransitive
  <2>5. /\ DOMAIN new = DOMAIN acc.new \union {kvid} /\ new[kvid] = LastKVar(s).pred
        /\ \A k \in DOMAIN acc.new : k # kvid => new[k] = acc.new[k]
    BY DEF Put
  <2> HIDE DEF s, new, kvid
  <2>6. \A k \in DOMAIN new : WellPred(new[k])
    BY <2>3, <2>5 DEF Renews
  <2>7. r.s = s /\ r.new = new
    BY <2>1
  <2> HIDE DEF r
  <2> QED
    BY <2>4, <2>5, <2>6, <2>7 DEF Renews, Covers, r, kvid
<1>2. CASE ~(IsKVar(Referred(ty)) /\ kvid \notin DOMAIN acc.new)
  <2>1. r = acc
    BY <1>2 DEF RefreshKVar
  <2> QED
    BY <1>2, <2>1 DEF Covers
<1> QED
  BY <1>1, <1>2

(* The new kvars of a shape: one for each of its kvars.                    *)
LEMMA RefreshedFacts ==
  ASSUME NEW st, Typed(st), NEW shape, NEW s, Len(s) \in Nat,
         NEW r, r = Refreshed([s |-> S(st), new |-> <<>>], shape, s)
  PROVE  /\ Renews(st, r)
         /\ \A i \in 1..Len(s) : Covers(r.new, shape[s[i]])
<1> DEFINE base == [s |-> S(st), new |-> <<>>]
           n == Len(s)
<1>1. PICK run : Values("fresh", shape, base, s, r, run)
  BY FreshFold
<1>2. /\ run[0] = base /\ run[n] = r
      /\ \A i \in 1..n : run[i] = RefreshKVar(run[i - 1], shape[s[i]])
  BY <1>1 DEF Values, Step
<1> DEFINE T == {i \in 0..n : /\ Renews(st, run[i])
                              /\ \A k \in 1..i : Covers(run[i].new, shape[s[k]])}
<1>3. 0 \in T
  <2>1. Renews(st, base)
    BY EmptyEnv, Builder!GrowsReflexive DEF Typed, Renews
  <2> HIDE DEF base
  <2> QED
    BY <1>2, <2>1
<1>4. ASSUME NEW i \in 1..n, i - 1 \in T PROVE i \in T
  <2>1. /\ Renews(st, run[i - 1])
        /\ \A k \in 1..(i - 1) : Covers(run[i - 1].new, shape[s[k]])
    BY <1>4
  <2>2. /\ Renews(st, run[i]) /\ Covers(run[i].new, shape[s[i]])
        /\ DOMAIN run[i - 1].new \subseteq DOMAIN run[i].new
    BY <1>2, <2>1, RefreshKVarFacts
  <2>3. \A k \in 1..i : Covers(run[i].new, shape[s[k]])
    <3>1. \A k \in 1..i : k = i \/ k \in 1..(i - 1)
      OBVIOUS
    <3> QED
      BY <2>1, <2>2, <3>1 DEF Covers
  <2> QED
    BY <2>2, <2>3
<1> HIDE DEF T
<1>5. \A i \in 0..n : i \in T
  BY <1>3, <1>4, ValuesKeep
<1>6. n \in T
  BY <1>5
<1> QED
  BY <1>2, <1>6 DEF T

LEMMA ReplaceKVarsFacts ==
  ASSUME NEW ty, WellTy(ty), NEW new, \A kvid \in DOMAIN new : WellPred(new[kvid]), Covers(new, ty)
  PROVE  WellTy(ReplaceKVars(ty, new))
<1> DEFINE referred == Referred(ty)
           inner == IF IsKVar(referred) THEN Exists(new[referred.pred.kvid]) ELSE referred
<1>1. ReplaceKVars(ty, new) = IF ty.kind = "Ref" THEN Ref(inner) ELSE inner
  BY DEF ReplaceKVars
<1>2. IsKVar(referred) => WellValue(inner)
  BY WellTypes DEF Covers
<1>3. CASE ty.kind = "Ref"
  <2>1. WellValue(referred)
    BY <1>3, TyFacts DEF Referred
  <2>2. WellValue(inner)
    BY <1>2, <2>1
  <2> HIDE DEF inner
  <2> QED
    BY <1>1, <1>3, <2>2, WellTypes
<1>4. CASE ty.kind # "Ref"
  <2>1. referred = ty
    BY <1>4 DEF Referred
  <2>2. WellTy(inner)
    BY <1>2, <2>1, WellTypes
  <2> HIDE DEF inner
  <2> QED
    BY <1>1, <1>4, <2>2
<1> QED
  BY <1>3, <1>4

LEMMA InferLocReaches ==
  ASSUME NEW st, Typed(st), NEW shape, WellShape(shape), NEW loc \in DOMAIN shape,
         NEW new, \A kvid \in DOMAIN new : WellPred(new[kvid]), Covers(new, shape[loc]),
         NEW acc, Typed(acc)
  PROVE  Reaches(acc, InferLoc(acc, st, shape, new, loc))
<1> DEFINE here == Renamed(st, shape, loc)
           ty1 == shape[loc]
           ty2 == st.env[here].ty
           kept == \/ ty2 = Uninit
                   \/ ty1.kind = ty2.kind /\ ty1.kind \in {"Refine", "StrgRef"}
           ty == IF kept THEN ty2 ELSE ReplaceKVars(ty1, new)
<1>1. InferLoc(acc, st, shape, new, loc) =
          IF ~Bound(st, here) THEN Panic(acc, "index of a missing location")
          ELSE Insert(acc, here, ty)
  BY DEF InferLoc
<1>2. CASE Bound(st, here)
  <2>1. here \in Loc /\ WellTy(ty2)
    BY <1>2, TypeAt DEF Bound, Typed
  <2>2. WellTy(ReplaceKVars(ty1, new))
    BY ReplaceKVarsFacts DEF WellShape
  <2>3. WellTy(ty)
    BY <2>1, <2>2
  <2> HIDE DEF ty, here
  <2> QED
    BY <1>1, <1>2, <2>1, <2>3, InsertReaches
<1>3. CASE ~Bound(st, here)
  BY <1>1, <1>3, PanicReaches
<1> QED
  BY <1>2, <1>3

LEMMA InferBbEnvLeads ==
  ASSUME NEW st, Typed(st), NEW shape, WellShape(shape)
  PROVE  Leads(st, InferBbEnv(st, shape))
<1> DEFINE locs == InOrder(st, DOMAIN shape)
           n == Len(locs)
           refreshed == Refreshed([s |-> S(st), new |-> <<>>], shape, locs)
           named == With(st, refreshed.s)
           base == [named EXCEPT !.env = <<>>]
           inferred == InferLocs(base, st, shape, refreshed.new, locs)
           x == [st |-> st, shape |-> shape, new |-> refreshed.new]
<1>1. InferBbEnv(st, shape) = inferred
  BY DEF InferBbEnv, Refreshed, InferLocs
<1>2. n \in Nat /\ \A i \in 1..n : locs[i] \in DOMAIN shape
  BY InOrderLists DEF WellShape
<1> HIDE DEF locs
<1>3. /\ Renews(st, refreshed)
      /\ \A i \in 1..n : Covers(refreshed.new, shape[locs[i]])
  BY <1>2, RefreshedFacts
<1>4. PICK run : Values("infer", x, base, locs, inferred, run)
  BY <1>2, InferFold
<1> HIDE DEF refreshed
<1>5. Reaches(st, named) /\ Typed(named)
  BY <1>3, WithReaches DEF Renews, Reaches, Leads
<1> HIDE DEF named
<1>6. Leads(named, base) /\ Typed(base)
  BY <1>5, EmptyEnv, SetEnv DEF Leads
<1> HIDE DEF base, inferred
<1>7. ASSUME NEW i \in 1..n, NEW acc, Reaches(base, acc)
      PROVE  Reaches(acc, Step("infer", x, acc, locs[i]))
  <2>1. Step("infer", x, acc, locs[i]) = InferLoc(acc, st, shape, refreshed.new, locs[i])
    BY DEF Step
  <2>2. Typed(acc)
    BY <1>7 DEF Reaches, Leads
  <2> QED
    BY <1>2, <1>3, <2>1, <2>2, InferLocReaches DEF Renews
<1> HIDE DEF x
<1>8. Reaches(base, inferred)
  BY <1>2, <1>4, <1>6, <1>7, FoldReaches
<1>9. Leads(named, inferred)
  BY <1>5, <1>6, <1>8, LeadsTransitive DEF Reaches
<1> QED
  BY <1>1, <1>5, <1>9, LeadsTransitive DEF Reaches

LEMMA ShapeFacts ==
  ASSUME NEW e, WellEnv(e)
  PROVE  WellShape(Shape(e))
<1>1. DOMAIN Shape(e) = DOMAIN e /\ \A loc \in DOMAIN e : Shape(e)[loc] = e[loc].ty
  BY DEF Shape
<1> QED
  BY <1>1, TypeAt DEF WellEnv, WellShape

-----------------------------------------------------------------------------
(* Signatures                                                              *)

LEMMA SequenceFacts ==
  ASSUME NEW s, IsSequence(s)
  PROVE  /\ Len(s) \in Nat /\ DOMAIN s = 1..Len(s)
         /\ LET index == [i \in DOMAIN s |-> i]
            IN  /\ Len(index) = Len(s)
                /\ \A i \in 1..Len(s) : index[i] = i
<1>1. Len(s) \in Nat /\ DOMAIN s = 1..Len(s)
  BY LenProperties DEF IsSequence
<1> DEFINE index == [i \in DOMAIN s |-> i]
<1>2. index \in Seq(Nat)
  <2>1. index \in [1..Len(s) -> Nat]
    BY <1>1
  <2> QED
    BY <1>1, <2>1, SeqDef
<1>3. Len(index) \in Nat /\ DOMAIN index = 1..Len(index)
  BY <1>2, LenProperties
<1>4. 1..Len(index) = 1..Len(s)
  BY <1>1, <1>3
<1>5. Len(index) = Len(s)
  BY <1>1, <1>3, <1>4
<1> QED
  BY <1>1, <1>5

(* A substitution for these names.                                         *)
Substitutes(subst, names) ==
    /\ names \subseteq DOMAIN subst.exprs
    /\ \A name \in DOMAIN subst.exprs : WellExpr(subst.exprs[name])

LEMMA LowerFacts ==
  ASSUME NEW names, NEW subst, Substitutes(subst, names)
  PROVE  /\ \A e : IsCoreExpr(e, names) => WellExpr(LowerExpr(subst, e))
         /\ \A ty : IsCoreTy(ty, names) => WellTy(LowerTy(subst, ty))
<1>1. ASSUME NEW e, IsCoreAtom(e, names)
      PROVE  WellExpr(LowerAtom(subst, e))
  <2>1. CASE e[1] = "Free" /\ e[2] \in names
    <3>1. LowerAtom(subst, e) = subst.exprs[e[2]]
      BY <2>1 DEF LowerAtom
    <3> QED
      BY <2>1, <3>1 DEF Substitutes
  <2>2. CASE e[1] = "Bound"
    BY <2>2, ExprFacts DEF LowerAtom
  <2>3. CASE e[1] = "Literal"
    BY <2>3, ExprFacts DEF LowerAtom
  <2> QED
    BY <1>1, <2>1, <2>2, <2>3 DEF IsCoreAtom
<1>2. ASSUME NEW e, IsCoreExpr(e, names)
      PROVE  WellExpr(LowerExpr(subst, e))
  BY <1>1, <1>2, ExprFacts DEF IsCoreExpr, LowerExpr
<1>3. ASSUME NEW ty, IsCoreTy(ty, names)
      PROVE  WellTy(LowerTy(subst, ty))
  <2>1. CASE ty.kind = "Refine" /\ IsCoreExpr(ty.expr, names)
    BY <1>2, <2>1, WellTypes DEF LowerTy
  <2>2. CASE ty.kind = "Exists" /\ IsCoreExpr(ty.pred, names)
    BY <1>2, <2>2, WellTypes DEF LowerTy
  <2>3. CASE ty.kind = "MutRef"
    BY <2>3, WellTypes DEF LowerTy
  <2> QED
    BY <1>3, <2>1, <2>2, <2>3 DEF IsCoreTy
<1> QED
  BY <1>2, <1>3

(* The names of a signature, which its types and predicates use.           *)
Names(sig) == ParamNames(sig, Len(sig.params))

LEMMA SigFacts ==
  ASSUME NEW sig, IsFnSig(sig)
  PROVE  /\ IsSequence(sig.params) /\ IsSequence(sig.requires)
         /\ IsSequence(sig.args) /\ IsSequence(sig.ensures)
         /\ \A i \in 1..Len(sig.params) :
               /\ IsCoreExpr(sig.params[i].pred, ParamNames(sig, i))
               /\ ParamNames(sig, i) \subseteq Names(sig)
         /\ \A i \in 1..Len(sig.requires) : IsCoreTy(sig.requires[i].ty, Names(sig))
         /\ \A i \in 1..Len(sig.args) : IsCoreTy(sig.args[i], Names(sig))
         /\ \A i \in 1..Len(sig.ensures) : IsCoreTy(sig.ensures[i].ty, Names(sig))
         /\ IsCoreTy(sig.ret, Names(sig))
<1>1. \A s : IsSequence(s) => Len(s) \in Nat /\ DOMAIN s = 1..Len(s)
  BY SequenceFacts
<1>2. \A i \in 1..Len(sig.params) : ParamNames(sig, i) \subseteq Names(sig)
  BY <1>1 DEF IsFnSig, ParamNames, Names
<1> QED
  BY <1>1, <1>2 DEF IsFnSig, Names

(* A state and a substitution for the names, on the way from state st.     *)
Acc(st, exprs, locs) == [st |-> st, subst |-> [exprs |-> exprs, locs |-> locs]]
Carries(st, acc, names) ==
    /\ \E t, exprs, locs : acc = Acc(t, exprs, locs)
    /\ Leads(st, acc.st)
    /\ Substitutes(acc.subst, names)

LEMMA AccFacts ==
  ASSUME NEW acc, \E t, exprs, locs : acc = Acc(t, exprs, locs)
  PROVE  /\ acc = Acc(acc.st, acc.subst.exprs, acc.subst.locs)
         /\ \A t : [acc EXCEPT !.st = t] = Acc(t, acc.subst.exprs, acc.subst.locs)
         /\ \A exprs : [acc.subst EXCEPT !.exprs = exprs] = [exprs |-> exprs, locs |-> acc.subst.locs]
         /\ \A locs : [acc.subst EXCEPT !.locs = locs] = [exprs |-> acc.subst.exprs, locs |-> locs]
<1>1. PICK t, exprs, locs : acc = Acc(t, exprs, locs)
  OBVIOUS
<1>2. acc.st = t /\ acc.subst = [exprs |-> exprs, locs |-> locs]
  BY <1>1 DEF Acc
<1>3. acc.subst.exprs = exprs /\ acc.subst.locs = locs
  BY <1>2
<1> QED
  BY <1>1, <1>2, <1>3 DEF Acc

(* The state of an acc after an operation that owes what it should.        *)
LEMMA CarriesState ==
  ASSUME NEW st, Typed(st), NEW names, NEW acc, Carries(st, acc, names), NEW t, Leads(acc.st, t)
  PROVE  Carries(st, [acc EXCEPT !.st = t], names)
<1> DEFINE r == [acc EXCEPT !.st = t]
<1>1. r = Acc(t, acc.subst.exprs, acc.subst.locs) /\ acc = Acc(acc.st, acc.subst.exprs, acc.subst.locs)
  BY AccFacts DEF Carries
<1>2. r.st = t /\ r.subst = acc.subst
  BY <1>1 DEF Acc
<1> HIDE DEF r
<1>3. Leads(st, t)
  BY LeadsTransitive DEF Carries
<1> QED
  BY <1>1, <1>2, <1>3 DEF Carries, r

LEMMA CarriesNew ==
  ASSUME NEW st, NEW names, NEW t, Leads(st, t), NEW exprs, NEW locs,
         names \subseteq DOMAIN exprs, \A name \in DOMAIN exprs : WellExpr(exprs[name])
  PROVE  Carries(st, Acc(t, exprs, locs), names)
<1> DEFINE r == Acc(t, exprs, locs)
<1>1. r.st = t /\ r.subst.exprs = exprs
  BY DEF Acc
<1>2. \E u, e, l : r = Acc(u, e, l)
  OBVIOUS
<1> HIDE DEF r
<1> QED
  BY <1>1, <1>2 DEF Carries, Substitutes, r

LEMMA FoldCarries ==
  ASSUME NEW st, NEW names, NEW base, Carries(st, base, names),
         NEW name, NEW x, NEW s, Len(s) \in Nat, NEW result, NEW run,
         Values(name, x, base, s, result, run),
         \A i \in 1..Len(s) : \A acc :
            Carries(st, acc, names) => Carries(st, Step(name, x, acc, s[i]), names)
  PROVE  Carries(st, result, names)
<1> DEFINE n == Len(s)
           T == {i \in 0..n : Carries(st, run[i], names)}
<1>1. /\ run[0] = base /\ run[n] = result
      /\ \A i \in 1..n : run[i] = Step(name, x, run[i - 1], s[i])
  BY DEF Values
<1>2. n \in Nat /\ 0 \in T /\ \A i \in 1..n : i - 1 \in T => i \in T
  BY <1>1
<1> HIDE DEF T
<1>3. \A i \in 0..n : i \in T
  BY <1>2, ValuesKeep
<1> QED
  BY <1>1, <1>2, <1>3 DEF T

-----------------------------------------------------------------------------
(* Calls                                                                   *)

LEMMA InferFromTysCarries ==
  ASSUME NEW st, Typed(st), NEW names, NEW acc, Carries(st, acc, names),
         NEW actual, WellTy(actual), NEW formal
  PROVE  Carries(st, InferFromTys(acc, actual, formal), names)
<1> DEFINE r == InferFromTys(acc, actual, formal)
           t == r.st
           isExpr == actual.kind = "Refine" /\ formal.kind = "Refine" /\ formal.expr[1] = "Free"
           isLoc == actual.kind = "StrgRef" /\ formal.kind = "MutRef"
           panicked == Panic(acc.st, "ambiguous instantiation")
           exprs == Put(acc.subst.exprs, formal.expr[2], actual.expr)
           locs == Put(acc.subst.locs, formal.loc, actual.loc)
<1>1. /\ \A e : [acc.subst EXCEPT !.exprs = e] = [exprs |-> e, locs |-> acc.subst.locs]
      /\ \A l : [acc.subst EXCEPT !.locs = l] = [exprs |-> acc.subst.exprs, locs |-> l]
  BY AccFacts DEF Carries
<1>2. Leads(st, acc.st) /\ Leads(st, panicked)
  <2>1. Leads(acc.st, panicked)
    BY PanicReaches DEF Carries, Leads, Reaches
  <2> QED
    BY <2>1, LeadsTransitive DEF Carries
<1> HIDE DEF panicked
<1>3. CASE isExpr
  <2> DEFINE u == IF Ambiguous(acc.subst.exprs, formal.expr[2], actual.expr) THEN panicked ELSE acc.st
  <2>1. r = [st |-> u, subst |-> [acc.subst EXCEPT !.exprs = exprs]]
    BY <1>3 DEF InferFromTys, panicked
  <2>2. Leads(st, u)
    BY <1>2
  <2> HIDE DEF u
  <2>3. r = Acc(u, exprs, acc.subst.locs)
    BY <1>1, <2>1 DEF Acc
  <2>4. /\ DOMAIN exprs = DOMAIN acc.subst.exprs \union {formal.expr[2]}
        /\ exprs[formal.expr[2]] = actual.expr
        /\ \A k \in DOMAIN acc.subst.exprs : k # formal.expr[2] => exprs[k] = acc.subst.exprs[k]
    BY DEF Put
  <2>5. WellExpr(actual.expr)
    BY <1>3, TyFacts, ValueFacts
  <2> HIDE DEF exprs, r
  <2>6. names \subseteq DOMAIN exprs /\ \A name \in DOMAIN exprs : WellExpr(exprs[name])
    BY <2>4, <2>5 DEF Carries, Substitutes
  <2> QED
    BY <2>2, <2>3, <2>6, CarriesNew DEF r
<1>4. CASE isLoc
  <2> DEFINE u == IF Ambiguous(acc.subst.locs, formal.loc, actual.loc) THEN panicked ELSE acc.st
  <2>1. r = [st |-> u, subst |-> [acc.subst EXCEPT !.locs = locs]]
    BY <1>4 DEF InferFromTys, panicked
  <2>2. Leads(st, u)
    BY <1>2
  <2> HIDE DEF u, locs
  <2>3. r = Acc(u, acc.subst.exprs, locs)
    BY <1>1, <2>1 DEF Acc
  <2> HIDE DEF r
  <2>4. names \subseteq DOMAIN acc.subst.exprs
        /\ \A name \in DOMAIN acc.subst.exprs : WellExpr(acc.subst.exprs[name])
    BY DEF Carries, Substitutes
  <2> QED
    BY <2>2, <2>3, <2>4, CarriesNew DEF r
<1>5. CASE ~isExpr /\ ~isLoc
  BY <1>5 DEF InferFromTys
<1> QED
  BY <1>3, <1>4, <1>5

LEMMA InferFromFnCallCarries ==
  ASSUME NEW st, Typed(st), NEW actuals, NEW sig, IsFnSig(sig),
         IsSequence(actuals), \A i \in DOMAIN actuals : WellTy(actuals[i])
  PROVE  Carries(st, InferFromFnCall(st, actuals, sig), {})
<1> DEFINE base == [st |-> st, subst |-> NoSubst]
           index == [i \in DOMAIN actuals |-> i]
           args == InferActuals(base, actuals, sig, index)
           result == Fold(InferRequired, args, sig.requires)
           x == [actuals |-> actuals, sig |-> sig]
<1>1. InferFromFnCall(st, actuals, sig) = result
  BY DEF InferFromFnCall, InferActuals
<1>2. /\ Len(actuals) \in Nat /\ DOMAIN actuals = 1..Len(actuals)
      /\ Len(index) = Len(actuals) /\ \A i \in 1..Len(actuals) : index[i] = i
      /\ Len(sig.requires) \in Nat
  BY SequenceFacts, SigFacts
<1> HIDE DEF index
<1>3. Carries(st, base, {})
  <2>1. base = Acc(st, <<>>, <<>>)
    BY DEF Acc, NoSubst
  <2> HIDE DEF base
  <2> QED
    BY <2>1, ReachesReflexive, CarriesNew, EmptyEnv
<1>4. PICK run : Values("actual", x, base, index, args, run)
  BY <1>2, ActualFold
<1> HIDE DEF base, args
<1>5. ASSUME NEW i \in 1..Len(index), NEW acc, Carries(st, acc, {})
      PROVE  Carries(st, Step("actual", x, acc, index[i]), {})
  <2>1. Step("actual", x, acc, index[i]) = InferFromTys(acc, actuals[i], sig.args[i])
    BY <1>2 DEF Step
  <2> QED
    BY <1>2, <1>5, <2>1, InferFromTysCarries
<1> HIDE DEF x
<1>6. Carries(st, args, {})
  BY <1>2, <1>3, <1>4, <1>5, FoldCarries
<1>7. PICK run2 : Values("required", 0, args, sig.requires, result, run2)
  BY <1>2, RequiredFold
<1> HIDE DEF result
<1>8. ASSUME NEW i \in 1..Len(sig.requires), NEW acc, Carries(st, acc, {})
      PROVE  Carries(st, Step("required", 0, acc, sig.requires[i]), {})
  <2> DEFINE required == sig.requires[i]
  <2>1. Step("required", 0, acc, required) = InferRequired(acc, required)
    BY DEF Step
  <2> HIDE DEF required
  <2>2. CASE Known(acc, required.loc)
    <3>1. WellTy(TyAt(acc, required.loc))
      BY <1>8, <2>2, TypeAt DEF Known, Bound, TyAt, Carries, Leads, Typed
    <3> QED
      BY <1>8, <2>1, <2>2, <3>1, InferFromTysCarries DEF InferRequired, required
  <2>3. CASE ~Known(acc, required.loc)
    <3> DEFINE t == Panic(acc.st, "unwrap of None")
    <3>1. Leads(acc.st, t)
      BY <1>8, PanicReaches DEF Carries, Leads, Reaches
    <3>2. InferRequired(acc, required) = [acc EXCEPT !.st = t]
      BY <2>3 DEF InferRequired
    <3> HIDE DEF t
    <3> QED
      BY <1>8, <2>1, <3>1, <3>2, CarriesState DEF required
  <2> QED
    BY <2>2, <2>3
<1> QED
  BY <1>1, <1>2, <1>6, <1>7, <1>8, FoldCarries

(* check_inference: the substitution has every name of the signature.      *)
LEMMA DeterminedCarries ==
  ASSUME NEW st, NEW acc, Carries(st, acc, {}), NEW sig, IsFnSig(sig), Determined(acc.subst, sig)
  PROVE  Carries(st, acc, Names(sig))
<1>1. DOMAIN sig.params = 1..Len(sig.params)
  BY SigFacts, SequenceFacts
<1> QED
  BY <1>1 DEF Determined, Carries, Substitutes, Names, ParamNames

-----------------------------------------------------------------------------
(* Applying the callee's signature                                         *)

LEMMA RequirePredCarries ==
  ASSUME NEW st, Typed(st), NEW names, NEW acc, Carries(st, acc, names),
         NEW param, IsCoreExpr(param.pred, names)
  PROVE  Carries(st, RequirePred(acc, param), names)
<1> DEFINE p == ExprPred(LowerExpr(acc.subst, param.pred))
           t == With(acc.st, PushHead(S(acc.st), p))
<1>1. WellPred(p)
  BY LowerFacts, WellTypes DEF Carries
<1> HIDE DEF p
<1>2. Leads(acc.st, t)
  BY <1>1, PushHeadReaches DEF Carries, Leads, Reaches
<1>3. RequirePred(acc, param) = [acc EXCEPT !.st = t]
  BY DEF RequirePred, p
<1> HIDE DEF t
<1> QED
  BY <1>2, <1>3, CarriesState

LEMMA SubCarries ==
  ASSUME NEW st, Typed(st), NEW names, NEW acc, Carries(st, acc, names),
         NEW ty1, WellTy(ty1), NEW ty2, WellTy(ty2)
  PROVE  Carries(st, [acc EXCEPT !.st = Sub(acc.st, ty1, ty2)], names)
<1>1. Leads(acc.st, Sub(acc.st, ty1, ty2))
  BY SubReaches DEF Carries, Leads, Reaches
<1> QED
  BY <1>1, CarriesState

LEMMA RequireTyCarries ==
  ASSUME NEW st, Typed(st), NEW names, NEW acc, Carries(st, acc, names),
         NEW required, IsCoreTy(required.ty, names)
  PROVE  Carries(st, RequireTy(acc, required), names)
<1> DEFINE ty1 == TyAt(acc, required.loc)
           ty2 == LowerTy(acc.subst, required.ty)
<1>1. WellTy(ty2)
  BY LowerFacts DEF Carries
<1>2. CASE Known(acc, required.loc)
  <2>1. WellTy(ty1)
    BY <1>2, TypeAt DEF Known, Bound, TyAt, Carries, Leads, Typed
  <2>2. RequireTy(acc, required) = [acc EXCEPT !.st = Sub(acc.st, ty1, ty2)]
    BY <1>2 DEF RequireTy
  <2> HIDE DEF ty1, ty2
  <2> QED
    BY <1>1, <2>1, <2>2, SubCarries
<1>3. CASE ~Known(acc, required.loc)
  <2> DEFINE t == Panic(acc.st, "unwrap of None")
  <2>1. Leads(acc.st, t)
    BY PanicReaches DEF Carries, Leads, Reaches
  <2>2. RequireTy(acc, required) = [acc EXCEPT !.st = t]
    BY <1>3 DEF RequireTy
  <2> HIDE DEF t
  <2> QED
    BY <2>1, <2>2, CarriesState
<1> QED
  BY <1>2, <1>3

LEMMA EnsureCarries ==
  ASSUME NEW st, Typed(st), NEW names, NEW acc, Carries(st, acc, names),
         NEW ensured, IsCoreTy(ensured.ty, names)
  PROVE  Carries(st, Ensure(acc, ensured), names)
<1> DEFINE ty == LowerTy(acc.subst, ensured.ty)
           unpacked == With(acc.st, Unpack(S(acc.st), ty))
           new == UnpackedTy(S(acc.st), ty)
           fresh == Abstract(FreshName(S(unpacked)))
           named == With(unpacked, TakeName(S(unpacked)))
           updated == UpdateLoc(unpacked, acc.subst.locs[ensured.loc], new)
           inserted == Insert(named, fresh, new)
           locs == Put(acc.subst.locs, ensured.loc, fresh)
<1>1. Typed(acc.st) /\ WellTy(ty)
  BY LowerFacts DEF Carries, Leads
<1>2. CASE ~Ok(acc.st)
  BY <1>2 DEF Ensure
<1>3. CASE Ok(acc.st) /\ ensured.loc \in DOMAIN acc.subst.locs
  <2>1. Ensure(acc, ensured) = [acc EXCEPT !.st = updated]
    BY <1>3 DEF Ensure
  <2> HIDE DEF ty
  <2>2. Reaches(acc.st, unpacked) /\ Typed(unpacked) /\ WellTy(new)
    BY <1>1, UnpackReaches, UnpackedTyFacts DEF Reaches, Leads
  <2> HIDE DEF unpacked, new
  <2>3. Reaches(unpacked, updated)
    BY <2>2, UpdateLocReaches
  <2>4. Leads(acc.st, updated)
    BY <1>1, <2>2, <2>3, LeadsTransitive DEF Reaches
  <2> HIDE DEF updated
  <2> QED
    BY <2>1, <2>4, CarriesState
<1>4. CASE Ok(acc.st) /\ ensured.loc \notin DOMAIN acc.subst.locs
  <2>1. Ensure(acc, ensured) = [st |-> inserted, subst |-> [acc.subst EXCEPT !.locs = locs]]
    BY <1>4 DEF Ensure
  <2> HIDE DEF ty
  <2>2. Reaches(acc.st, unpacked) /\ Typed(unpacked) /\ WellTy(new)
    BY <1>1, UnpackReaches, UnpackedTyFacts DEF Reaches, Leads
  <2> HIDE DEF unpacked, new
  <2>3. Reaches(unpacked, named) /\ Typed(named) /\ fresh \in Loc
    BY <2>2, TakeNameReaches, NameFacts DEF Reaches, Leads
  <2> HIDE DEF fresh, named
  <2>4. Reaches(named, inserted)
    BY <2>2, <2>3, InsertReaches
  <2>5. Leads(st, inserted)
    <3>1. Leads(unpacked, inserted)
      BY <2>2, <2>3, <2>4, LeadsTransitive DEF Reaches
    <3>2. Leads(acc.st, inserted)
      BY <1>1, <2>2, <3>1, LeadsTransitive DEF Reaches
    <3> QED
      BY <3>2, LeadsTransitive DEF Carries
  <2> HIDE DEF inserted, locs
  <2>6. Ensure(acc, ensured) = Acc(inserted, acc.subst.exprs, locs)
    BY <2>1, AccFacts DEF Carries, Acc
  <2>7. names \subseteq DOMAIN acc.subst.exprs
        /\ \A name \in DOMAIN acc.subst.exprs : WellExpr(acc.subst.exprs[name])
    BY DEF Carries, Substitutes
  <2> QED
    BY <2>5, <2>6, <2>7, CarriesNew
<1> QED
  BY <1>2, <1>3, <1>4

LEMMA ApplyCarries ==
  ASSUME NEW st, Typed(st), NEW actuals, NEW sig, IsFnSig(sig),
         IsSequence(actuals), \A i \in DOMAIN actuals : WellTy(actuals[i]),
         Len(actuals) = Len(sig.args),
         NEW acc0, Carries(st, acc0, Names(sig))
  PROVE  Carries(st, Apply(acc0, actuals, sig), Names(sig))
<1> DEFINE index == [i \in DOMAIN actuals |-> i]
           params == Fold(RequirePred, acc0, sig.params)
           args == CheckActuals(params, actuals, sig, index)
           required == Fold(RequireTy, args, sig.requires)
           result == Fold(Ensure, required, sig.ensures)
           x == [actuals |-> actuals, sig |-> sig]
           names == Names(sig)
<1>1. Apply(acc0, actuals, sig) = result
  BY DEF Apply, CheckActuals
<1>2. /\ Len(actuals) \in Nat /\ DOMAIN actuals = 1..Len(actuals)
      /\ Len(index) = Len(actuals) /\ \A i \in 1..Len(actuals) : index[i] = i
      /\ Len(sig.params) \in Nat /\ Len(sig.requires) \in Nat /\ Len(sig.ensures) \in Nat
  BY SequenceFacts, SigFacts
<1> HIDE DEF index
<1>3. Carries(st, params, names)
  <2>1. PICK run : Values("pred", 0, acc0, sig.params, params, run)
    BY <1>2, PredFold
  <2> HIDE DEF params
  <2>2. ASSUME NEW i \in 1..Len(sig.params), NEW acc, Carries(st, acc, names)
        PROVE  Carries(st, Step("pred", 0, acc, sig.params[i]), names)
    <3>1. IsCoreExpr(sig.params[i].pred, names)
      BY SigFacts DEF IsCoreExpr, IsCoreAtom
    <3> QED
      BY <2>2, <3>1, RequirePredCarries DEF Step
  <2> QED
    BY <1>2, <2>1, <2>2, FoldCarries
<1> HIDE DEF params
<1>4. Carries(st, args, names)
  <2>1. PICK run : Values("subtype", x, params, index, args, run)
    BY <1>2, SubtypeFold
  <2> HIDE DEF args
  <2>2. ASSUME NEW i \in 1..Len(index), NEW acc, Carries(st, acc, names)
        PROVE  Carries(st, Step("subtype", x, acc, index[i]), names)
    <3> DEFINE ty == LowerTy(acc.subst, sig.args[i])
    <3>1. Step("subtype", x, acc, index[i]) = [acc EXCEPT !.st = Sub(acc.st, actuals[i], ty)]
      BY <1>2 DEF Step
    <3>2. WellTy(actuals[i]) /\ WellTy(ty)
      BY <1>2, <2>2, SigFacts, LowerFacts DEF Carries
    <3> HIDE DEF ty
    <3> QED
      BY <2>2, <3>1, <3>2, SubCarries
  <2> HIDE DEF x
  <2> QED
    BY <1>2, <1>3, <2>1, <2>2, FoldCarries
<1> HIDE DEF args
<1>5. Carries(st, required, names)
  <2>1. PICK run : Values("type", 0, args, sig.requires, required, run)
    BY <1>2, TypeFold
  <2> HIDE DEF required
  <2>2. ASSUME NEW i \in 1..Len(sig.requires), NEW acc, Carries(st, acc, names)
        PROVE  Carries(st, Step("type", 0, acc, sig.requires[i]), names)
    <3>1. IsCoreTy(sig.requires[i].ty, names)
      BY SigFacts
    <3> QED
      BY <2>2, <3>1, RequireTyCarries DEF Step
  <2> QED
    BY <1>2, <1>4, <2>1, <2>2, FoldCarries
<1> HIDE DEF required
<1>6. Carries(st, result, names)
  <2>1. PICK run : Values("ensure", 0, required, sig.ensures, result, run)
    BY <1>2, EnsureFold
  <2> HIDE DEF result
  <2>2. ASSUME NEW i \in 1..Len(sig.ensures), NEW acc, Carries(st, acc, names)
        PROVE  Carries(st, Step("ensure", 0, acc, sig.ensures[i]), names)
    <3>1. IsCoreTy(sig.ensures[i].ty, names)
      BY SigFacts
    <3> QED
      BY <2>2, <3>1, EnsureCarries DEF Step
  <2> QED
    BY <1>2, <1>5, <2>1, <2>2, FoldCarries
<1> QED
  BY <1>1, <1>6

LEMMA WriteDestinationLeads ==
  ASSUME NEW st, Typed(st), NEW sig, IsFnSig(sig), NEW place,
         NEW acc, Carries(st, acc, Names(sig))
  PROVE  Leads(st, WriteDestination(acc, sig, place))
<1> DEFINE ret == LowerTy(acc.subst, sig.ret)
           unpacked == With(acc.st, Unpack(S(acc.st), ret))
           new == UnpackedTy(S(acc.st), ret)
           written == WritePlace(unpacked, place, new)
<1>1. WriteDestination(acc, sig, place) = IF ~Ok(acc.st) THEN acc.st ELSE written
  BY DEF WriteDestination
<1>2. Typed(acc.st) /\ WellTy(ret)
  BY SigFacts, LowerFacts DEF Carries, Leads
<1> HIDE DEF ret
<1>3. Reaches(acc.st, unpacked) /\ Typed(unpacked) /\ WellTy(new)
  BY <1>2, UnpackReaches, UnpackedTyFacts DEF Reaches, Leads
<1> HIDE DEF unpacked, new
<1>4. Reaches(unpacked, written)
  BY <1>3, WritePlaceReaches
<1> HIDE DEF written
<1>5. Leads(acc.st, written)
  BY <1>2, <1>3, <1>4, LeadsTransitive DEF Reaches
<1> QED
  BY <1>1, <1>5, LeadsTransitive DEF Carries

-----------------------------------------------------------------------------
(* The function itself                                                     *)

LEMMA NewState ==
  ASSUME NEW o
  PROVE  Typed(State(NewBuilder, NewCursor, <<>>, o, NoPanic))
<1> DEFINE st == State(NewBuilder, NewCursor, <<>>, o, NoPanic)
<1>1. IsState(st) /\ st.b = NewBuilder /\ st.c = NewCursor /\ st.env = <<>>
  BY StateFields
<1>2. Builder!NewBuilder = NewBuilder /\ Builder!NewCursor = NewCursor
  BY DEF Builder!NewBuilder, NewBuilder, Builder!NewCursor, NewCursor, Builder!ExprPred, ExprPred,
         Builder!TT, TT, Builder!ConstExpr, ConstExpr
<1>3. Builder!BuilderInv(NewBuilder) /\ Builder!CursorInv(NewBuilder, NewCursor)
  BY <1>2, Builder!NewWorks
<1> HIDE DEF st
<1>4. DOMAIN S(st) = {"b", "c"} /\ S(st).b = NewBuilder /\ S(st).c = NewCursor
  BY <1>1 DEF S
<1> HIDE DEF NewBuilder, NewCursor
<1>5. Builder!Works(S(st))
  BY <1>3, <1>4 DEF Builder!Works
<1> QED
  BY <1>1, <1>5, EmptyEnv DEF Typed, st

LEMMA AssumeParamCarries ==
  ASSUME NEW st, Typed(st), NEW names, NEW acc, Carries(st, acc, names), NEW param,
         IsCoreExpr(param.pred, names \union {param.name})
  PROVE  Carries(st, AssumeParam(acc, param), names \union {param.name})
<1> DEFINE x == FreshName(S(acc.st))
           exprs == Put(acc.subst.exprs, param.name, VarExpr(x))
           subst == [acc.subst EXCEPT !.exprs = exprs]
           p == ExprPred(LowerExpr(subst, param.pred))
           t == With(acc.st, PushForall(TakeName(S(acc.st)), x, p))
           wider == names \union {param.name}
<1>1. AssumeParam(acc, param) = [st |-> t, subst |-> subst]
  BY DEF AssumeParam
<1>2. Typed(acc.st) /\ WellExpr(VarExpr(x))
  BY NameFacts DEF Carries, Leads
<1>3. wider \subseteq DOMAIN exprs /\ \A name \in DOMAIN exprs : WellExpr(exprs[name])
  <2>1. /\ DOMAIN exprs = DOMAIN acc.subst.exprs \union {param.name}
        /\ exprs[param.name] = VarExpr(x)
        /\ \A k \in DOMAIN acc.subst.exprs : k # param.name => exprs[k] = acc.subst.exprs[k]
    BY DEF Put
  <2> HIDE DEF exprs, x
  <2> QED
    BY <1>2, <2>1 DEF Carries, Substitutes
<1> HIDE DEF exprs
<1>4. subst = [exprs |-> exprs, locs |-> acc.subst.locs]
  BY AccFacts DEF Carries
<1> HIDE DEF subst
<1>5. Substitutes(subst, wider)
  BY <1>3, <1>4 DEF Substitutes
<1>6. WellPred(p)
  BY <1>5, LowerFacts, WellTypes
<1> HIDE DEF p
<1>7. Leads(acc.st, t)
  BY <1>2, <1>6, PushForallReaches DEF Reaches
<1> HIDE DEF t, x
<1>8. Leads(st, t)
  BY <1>7, LeadsTransitive DEF Carries
<1>9. AssumeParam(acc, param) = Acc(t, exprs, acc.subst.locs)
  BY <1>1, <1>4 DEF Acc
<1> QED
  BY <1>3, <1>8, <1>9, CarriesNew

LEMMA AssumeRequiredCarries ==
  ASSUME NEW st, Typed(st), NEW names, NEW acc, Carries(st, acc, names),
         NEW required, IsCoreTy(required.ty, names)
  PROVE  Carries(st, AssumeRequired(acc, required), names)
<1> DEFINE fresh == Abstract(FreshName(S(acc.st)))
           named == With(acc.st, TakeName(S(acc.st)))
           ty == LowerTy(acc.subst, required.ty)
           t == InsertUnpacked(named, fresh, ty)
           locs == Put(acc.subst.locs, required.loc, fresh)
<1>1. AssumeRequired(acc, required) = [st |-> t, subst |-> [acc.subst EXCEPT !.locs = locs]]
  BY DEF AssumeRequired
<1>2. Typed(acc.st) /\ fresh \in Loc /\ WellTy(ty)
  BY NameFacts, LowerFacts DEF Carries, Leads
<1> HIDE DEF fresh, ty
<1>3. Reaches(acc.st, named) /\ Typed(named)
  BY <1>2, TakeNameReaches DEF Reaches, Leads
<1> HIDE DEF named
<1>4. Reaches(named, t)
  BY <1>2, <1>3, InsertUnpackedReaches
<1> HIDE DEF t, locs
<1>5. Leads(st, t)
  <2>1. Leads(acc.st, t)
    BY <1>2, <1>3, <1>4, LeadsTransitive DEF Reaches
  <2> QED
    BY <2>1, LeadsTransitive DEF Carries
<1>6. AssumeRequired(acc, required) = Acc(t, acc.subst.exprs, locs)
  BY <1>1, AccFacts DEF Carries, Acc
<1>7. names \subseteq DOMAIN acc.subst.exprs
      /\ \A name \in DOMAIN acc.subst.exprs : WellExpr(acc.subst.exprs[name])
  BY DEF Carries, Substitutes
<1> QED
  BY <1>5, <1>6, <1>7, CarriesNew

(* The parameters come into scope one after the other.                     *)
LEMMA ParamsCarry ==
  ASSUME NEW st, Typed(st), NEW sig, IsFnSig(sig), NEW base, Carries(st, base, {})
  PROVE  Carries(st, Fold(AssumeParam, base, sig.params), Names(sig))
<1> DEFINE n == Len(sig.params)
           result == Fold(AssumeParam, base, sig.params)
<1>1. n \in Nat
  BY SequenceFacts, SigFacts
<1>2. PICK run : Values("param", 0, base, sig.params, result, run)
  BY <1>1, ParamFold
<1> HIDE DEF result
<1>3. /\ run[0] = base /\ run[n] = result
      /\ \A i \in 1..n : run[i] = AssumeParam(run[i - 1], sig.params[i])
  BY <1>2 DEF Values, Step
<1> DEFINE T == {i \in 0..n : Carries(st, run[i], ParamNames(sig, i))}
<1>4. 0 \in T
  <2>1. ParamNames(sig, 0) = {}
    BY DEF ParamNames
  <2> QED
    BY <1>1, <1>3, <2>1
<1>5. ASSUME NEW i \in 1..n, i - 1 \in T PROVE i \in T
  <2> DEFINE param == sig.params[i]
  <2>1. ParamNames(sig, i) = ParamNames(sig, i - 1) \union {param.name}
    <3>1. \A j : j \in 1..i <=> j \in 1..(i - 1) \/ j = i
      BY <1>1
    <3> QED
      BY <3>1 DEF ParamNames
  <2>2. IsCoreExpr(param.pred, ParamNames(sig, i))
    BY SigFacts
  <2>3. Carries(st, run[i - 1], ParamNames(sig, i - 1))
    BY <1>5
  <2>4. Carries(st, AssumeParam(run[i - 1], param), ParamNames(sig, i))
    BY <2>1, <2>2, <2>3, AssumeParamCarries
  <2> QED
    BY <1>1, <1>3, <2>4
<1> HIDE DEF T
<1>6. \A i \in 0..n : i \in T
  BY <1>1, <1>4, <1>5, ValuesKeep
<1>7. n \in T
  BY <1>1, <1>6
<1> QED
  BY <1>3, <1>7 DEF T, Names, result

LEMMA RequiredCarry ==
  ASSUME NEW st, Typed(st), NEW sig, IsFnSig(sig), NEW base, Carries(st, base, Names(sig))
  PROVE  Carries(st, Fold(AssumeRequired, base, sig.requires), Names(sig))
<1> DEFINE result == Fold(AssumeRequired, base, sig.requires)
<1>1. Len(sig.requires) \in Nat
  BY SequenceFacts, SigFacts
<1>2. PICK run : Values("location", 0, base, sig.requires, result, run)
  BY <1>1, LocationFold
<1> HIDE DEF result
<1>3. ASSUME NEW i \in 1..Len(sig.requires), NEW acc, Carries(st, acc, Names(sig))
      PROVE  Carries(st, Step("location", 0, acc, sig.requires[i]), Names(sig))
  <2>1. IsCoreTy(sig.requires[i].ty, Names(sig))
    BY SigFacts
  <2> QED
    BY <1>3, <2>1, AssumeRequiredCarries DEF Step
<1>4. Carries(st, result, Names(sig))
  BY <1>1, <1>2, <1>3, FoldCarries
<1> QED
  BY <1>4 DEF result

LEMMA EnterArgsReaches ==
  ASSUME NEW st, Typed(st), NEW sig, IsFnSig(sig), NEW subst, Substitutes(subst, Names(sig))
  PROVE  Reaches(st, EnterArgs(st, subst, sig, [i \in DOMAIN sig.args |-> i]))
<1> DEFINE index == [i \in DOMAIN sig.args |-> i]
           x == [subst |-> subst, sig |-> sig]
           result == EnterArgs(st, subst, sig, index)
<1>1. /\ Len(sig.args) \in Nat
      /\ Len(index) = Len(sig.args) /\ \A i \in 1..Len(sig.args) : index[i] = i
  BY SequenceFacts, SigFacts
<1> HIDE DEF index
<1>2. PICK run : Values("argument", x, st, index, result, run)
  BY <1>1, ArgumentFold
<1> HIDE DEF result
<1>3. ASSUME NEW i \in 1..Len(index), NEW acc, Reaches(st, acc)
      PROVE  Reaches(acc, Step("argument", x, acc, index[i]))
  <2> DEFINE ty == LowerTy(subst, sig.args[i])
  <2>1. Step("argument", x, acc, index[i]) = InsertUnpacked(acc, Local(i), ty)
    BY <1>1 DEF Step
  <2>2. WellTy(ty) /\ Local(i) \in Loc
    BY <1>1, SigFacts, LowerFacts, LocFacts
  <2> HIDE DEF ty
  <2> QED
    BY <1>3, <2>1, <2>2, InsertUnpackedReaches DEF Reaches, Leads
<1> HIDE DEF x
<1> QED
  BY <1>1, <1>2, <1>3, FoldReaches DEF result, index

LEMMA EnterLocalsReaches ==
  ASSUME NEW st, Typed(st), NEW s \in Seq(Nat)
  PROVE  Reaches(st, EnterLocals(st, s))
<1>1. Len(s) \in Nat /\ \A i \in 1..Len(s) : s[i] \in Nat
  BY LenProperties, ElementOfSeq
<1>2. PICK run : Values("local", 0, st, s, EnterLocals(st, s), run)
  BY <1>1, LocalFold
<1>3. ASSUME NEW i \in 1..Len(s), NEW acc, Reaches(st, acc)
      PROVE  Reaches(acc, Step("local", 0, acc, s[i]))
  <2>1. Step("local", 0, acc, s[i]) = Insert(acc, Local(s[i]), Uninit)
    BY DEF Step
  <2>2. Local(s[i]) \in Loc /\ WellTy(Uninit)
    BY <1>1, LocFacts, WellTypes
  <2> QED
    BY <1>3, <2>1, <2>2, InsertReaches DEF Reaches, Leads
<1> QED
  BY <1>1, <1>2, <1>3, FoldReaches

LEMMA EnterFacts ==
  ASSUME NEW o, NEW sig, IsFnSig(sig), NEW nlocals \in Nat, nlocals > Len(sig.args)
  PROVE  LET entered == Enter(o, sig, nlocals)
         IN  Typed(entered.st) /\ Substitutes(entered.subst, Names(sig))
<1> DEFINE st0 == [b |-> NewBuilder, c |-> NewCursor, env |-> <<>>, order |-> o, panic |-> NoPanic]
           base == [st |-> st0, subst |-> NoSubst]
           params == Fold(AssumeParam, base, sig.params)
           acc == Fold(AssumeRequired, params, sig.requires)
           args == EnterArgs(acc.st, acc.subst, sig, [i \in DOMAIN sig.args |-> i])
           k == nlocals - 1 - Len(sig.args)
           others == [i \in 1..k |-> Len(sig.args) + i]
           locals == Append(others, 0)
           rest == EnterLocals(args, locals)
           named == \A i \in DOMAIN sig.ensures : sig.ensures[i].loc \in DOMAIN acc.subst.locs
           entered == Enter(o, sig, nlocals)
<1> SUFFICES Typed(entered.st) /\ Substitutes(entered.subst, Names(sig))
  OBVIOUS
<1>1. entered = [st |-> IF named THEN rest ELSE Panic(rest, "unwrap of None"), subst |-> acc.subst]
  BY DEF Enter, EnterArgs, EnterLocals
<1> HIDE DEF entered, named
<1>2. Typed(st0)
  BY NewState DEF State
<1> HIDE DEF st0
<1>3. Carries(st0, base, {})
  <2>1. base = Acc(st0, <<>>, <<>>)
    BY DEF Acc, NoSubst
  <2> HIDE DEF base
  <2> QED
    BY <1>2, <2>1, ReachesReflexive, CarriesNew, EmptyEnv
<1> HIDE DEF base
<1>4. Carries(st0, params, Names(sig))
  BY <1>2, <1>3, ParamsCarry
<1> HIDE DEF params
<1>5. Carries(st0, acc, Names(sig))
  BY <1>2, <1>4, RequiredCarry
<1> HIDE DEF acc
<1>6. Typed(acc.st) /\ Substitutes(acc.subst, Names(sig))
  BY <1>5 DEF Carries, Leads
<1>7. Typed(args)
  BY <1>6, EnterArgsReaches DEF Reaches, Leads
<1> HIDE DEF args
<1>8. locals \in Seq(Nat)
  <2>1. Len(sig.args) \in Nat
    BY SequenceFacts, SigFacts
  <2>2. k \in Nat
    BY <2>1
  <2> HIDE DEF k
  <2>3. others \in [1..k -> Nat]
    <3>1. \A i \in 1..k : Len(sig.args) + i \in Nat
      BY <2>1, <2>2
    <3> QED
      BY <3>1
  <2>4. others \in Seq(Nat)
    BY <2>2, <2>3, SeqDef
  <2> HIDE DEF others
  <2> QED
    BY <2>4, AppendProperties
<1> HIDE DEF locals
<1>9. Typed(rest)
  BY <1>7, <1>8, EnterLocalsReaches DEF Reaches, Leads
<1> HIDE DEF rest
<1>10. Typed(Panic(rest, "unwrap of None"))
  BY <1>9, PanicReaches DEF Reaches, Leads
<1> QED
  BY <1>1, <1>6, <1>9, <1>10

LEMMA ShowReaches ==
  ASSUME NEW st, Typed(st), NEW loc, NEW ty, WellTy(ty)
  PROVE  Reaches(st, Show(st, loc, ty))
<1>1. CASE Bound(st, loc)
  <2>1. WellTy(st.env[loc].ty)
    BY <1>1, TypeAt DEF Bound, Typed
  <2> QED
    BY <1>1, <2>1, SubReaches DEF Show
<1>2. CASE ~Bound(st, loc)
  BY <1>2, PanicReaches DEF Show
<1> QED
  BY <1>1, <1>2

LEMMA LeaveReaches ==
  ASSUME NEW st, Typed(st), NEW sig, IsFnSig(sig), NEW subst, Substitutes(subst, Names(sig))
  PROVE  Reaches(st, Leave(st, subst, sig))
<1> DEFINE ret == LowerTy(subst, sig.ret)
           shown == Show(st, Local(0), ret)
           s == sig.ensures
           result == ShowEnsured(shown, subst, s)
<1>1. Leave(st, subst, sig) = result
  BY DEF Leave, ShowEnsured
<1>2. Len(s) \in Nat
  BY SequenceFacts, SigFacts
<1>3. WellTy(ret)
  BY SigFacts, LowerFacts
<1> HIDE DEF ret
<1>4. Reaches(st, shown) /\ Typed(shown)
  BY <1>3, ShowReaches DEF Reaches, Leads
<1> HIDE DEF shown
<1>5. PICK run : Values("show", subst, shown, s, result, run)
  BY <1>2, ShowFold
<1> HIDE DEF result
<1>6. ASSUME NEW i \in 1..Len(s), NEW acc, Reaches(shown, acc)
      PROVE  Reaches(acc, Step("show", subst, acc, s[i]))
  <2> DEFINE ty == LowerTy(subst, s[i].ty)
             loc == s[i].loc
  <2>1. Typed(acc) /\ WellTy(ty)
    BY <1>6, SigFacts, LowerFacts DEF Reaches, Leads
  <2>2. Step("show", subst, acc, s[i]) =
            IF loc \in DOMAIN subst.locs THEN Show(acc, subst.locs[loc], ty)
            ELSE Panic(acc, "unwrap of None")
    BY DEF Step
  <2> HIDE DEF ty, loc
  <2> QED
    BY <2>1, <2>2, ShowReaches, PanicReaches
<1>7. Reaches(shown, result)
  BY <1>2, <1>4, <1>5, <1>6, FoldReaches
<1> QED
  BY <1>1, <1>4, <1>7, LeadsTransitive DEF Reaches

-----------------------------------------------------------------------------
(* Operands, rvalues and statements                                        *)

LEMMA OperandFacts ==
  ASSUME NEW st, Typed(st), NEW operand, IsOperand(operand)
  PROVE  WellTy(OperandTy(st, operand)) /\ Reaches(st, AfterOperand(st, operand))
<1>1. WellTy(OperandTy(st, operand))
  <2>1. Walks(st.env, operand.place) => WellTy(LookupPlace(st.env, operand.place))
    BY PlaceFacts DEF Typed
  <2>2. WellTy(Refine(ConstExpr(operand.value))) /\ WellTy(Uninit)
    BY WellTypes, ExprFacts
  <2> QED
    BY <2>1, <2>2 DEF OperandTy
<1>2. CASE operand.kind = "Constant"
  BY <1>1, <1>2, ReachesReflexive DEF AfterOperand
<1>3. CASE operand.kind = "Copy"
  BY <1>1, <1>3, WalkPlaceReaches DEF AfterOperand
<1>4. CASE operand.kind = "Move" /\ operand.place.local \in Nat
  <2>1. AfterOperand(st, operand) = IF operand.place.deref THEN Panic(st, "assertion failed")
                                    ELSE MoveLocal(st, operand.place.local)
    BY <1>4 DEF AfterOperand
  <2> QED
    BY <1>1, <1>4, <2>1, PanicReaches, MoveLocalReaches
<1> QED
  BY <1>2, <1>3, <1>4 DEF IsOperand

(* A list of n types.                                                      *)
Types(tys, n) == \E T : tys \in Seq(T) /\ Len(tys) = n /\ \A ty \in T : WellTy(ty)

LEMMA TypesFacts ==
  ASSUME NEW tys, NEW n \in Nat, Types(tys, n)
  PROVE  /\ IsSequence(tys) /\ Len(tys) = n /\ DOMAIN tys = 1..n
         /\ \A i \in 1..n : WellTy(tys[i])
         /\ \A ty : WellTy(ty) => Types(Append(tys, ty), n + 1)
<1>1. PICK T : tys \in Seq(T) /\ Len(tys) = n /\ \A ty \in T : WellTy(ty)
  BY DEF Types
<1>2. DOMAIN tys = 1..n /\ tys \in [1..n -> T]
  BY <1>1, LenProperties
<1>3. tys \in [1..n -> {tys[i] : i \in DOMAIN tys}]
  BY <1>2
<1>4. IsSequence(tys)
  BY <1>3, SeqDef DEF IsSequence
<1>5. ASSUME NEW ty, WellTy(ty) PROVE Types(Append(tys, ty), n + 1)
  <2> DEFINE U == T \union {ty}
  <2>1. tys \in Seq(U)
    BY <1>1, SeqMonotonic
  <2>2. Append(tys, ty) \in Seq(U) /\ Len(Append(tys, ty)) = n + 1
    BY <1>1, <2>1, AppendProperties
  <2>3. \A t \in U : WellTy(t)
    BY <1>1, <1>5
  <2> HIDE DEF U
  <2> QED
    BY <2>2, <2>3 DEF Types
<1> QED
  BY <1>1, <1>2, <1>4, <1>5

LEMMA NoTypes == Types(<<>>, 0)
<1> DEFINE T == {}
<1>1. <<>> \in Seq(T) /\ Len(<<>>) = 0 /\ \A ty \in T : WellTy(ty)
  OBVIOUS
<1> HIDE DEF T
<1> QED
  BY <1>1 DEF Types

LEMMA CheckOperandsFacts ==
  ASSUME NEW st, Typed(st), NEW operands, IsSequence(operands),
         \A i \in DOMAIN operands : IsOperand(operands[i])
  PROVE  LET checked == CheckOperands(st, operands)
         IN  Reaches(st, checked.st) /\ Types(checked.tys, Len(operands))
<1> DEFINE base == [st |-> st, tys |-> <<>>]
           n == Len(operands)
           result == FoldOperands(base, operands)
<1>1. CheckOperands(st, operands) = result
  BY DEF CheckOperands, FoldOperands
<1>2. n \in Nat /\ DOMAIN operands = 1..n
  BY SequenceFacts
<1>3. PICK run : Values("operand", 0, base, operands, result, run)
  BY <1>2, OperandFold
<1> HIDE DEF result
<1>4. /\ run[0] = base /\ run[n] = result
      /\ \A i \in 1..n : run[i] = [st  |-> AfterOperand(run[i - 1].st, operands[i]),
                                   tys |-> Append(run[i - 1].tys, OperandTy(run[i - 1].st, operands[i]))]
  BY <1>3 DEF Values, Step
<1> DEFINE T == {i \in 0..n : Reaches(st, run[i].st) /\ Types(run[i].tys, i)}
<1>5. 0 \in T
  <2>3. run[0].st = st /\ run[0].tys = <<>>
    BY <1>4
  <2> QED
    BY <1>2, <2>3, NoTypes, ReachesReflexive
<1>6. ASSUME NEW i \in 1..n, i - 1 \in T PROVE i \in T
  <2> DEFINE before == run[i - 1].st
             tys == run[i - 1].tys
             operand == operands[i]
  <2>1. Reaches(st, before) /\ Types(tys, i - 1) /\ IsOperand(operand) /\ i - 1 \in Nat
    BY <1>2, <1>6
  <2> DEFINE after == AfterOperand(before, operand)
             longer == Append(tys, OperandTy(before, operand))
  <2>2. run[i].st = after /\ run[i].tys = longer
    <3>1. run[i] = [st |-> after, tys |-> longer]
      BY <1>4
    <3> HIDE DEF after, longer
    <3> QED
      BY <3>1
  <2> HIDE DEF before, tys, operand
  <2>3. Reaches(before, run[i].st) /\ WellTy(OperandTy(before, operand))
    BY <2>1, <2>2, OperandFacts DEF Reaches, Leads
  <2>4. Reaches(st, run[i].st)
    BY <2>1, <2>3, LeadsTransitive DEF Reaches
  <2>5. Types(run[i].tys, (i - 1) + 1)
    BY <2>1, <2>2, <2>3, TypesFacts
  <2> QED
    BY <1>2, <2>4, <2>5
<1> HIDE DEF T
<1>7. \A i \in 0..n : i \in T
  BY <1>2, <1>5, <1>6, ValuesKeep
<1>8. n \in T
  BY <1>2, <1>7
<1> QED
  BY <1>1, <1>4, <1>8 DEF T

LEMMA OperationGives ==
  ASSUME NEW st, Typed(st), NEW op, NEW tys, NEW n \in {1, 2}, Types(tys, n), op = "Div" => n = 2
  PROVE  Gives(st, Operation(st, op, tys))
<1>1. n \in Nat /\ Len(tys) = n /\ DOMAIN tys = 1..n /\ \A i \in 1..n : WellTy(tys[i])
  BY TypesFacts
<1>2. CASE \E i \in DOMAIN tys : tys[i].kind # "Refine"
  <2>1. Operation(st, op, tys) = [st |-> Panic(st, "incompatible types"), ty |-> Uninit]
    BY <1>2 DEF Operation
  <2> QED
    BY <2>1, PanicGives
<1>3. CASE \A i \in DOMAIN tys : tys[i].kind = "Refine"
  <2> DEFINE nonzero == ExprPred(BinaryExpr("Ne", tys[2].expr, ConstExpr(0)))
             t == IF op = "Div" THEN With(st, PushHead(S(st), nonzero)) ELSE st
             e == IF n = 1 THEN UnaryExpr(op, tys[1].expr)
                  ELSE BinaryExpr(op, tys[1].expr, tys[2].expr)
             r == Operation(st, op, tys)
  <2>1. r = [st |-> t, ty |-> Refine(e)]
    BY <1>1, <1>3 DEF Operation
  <2>2. \A i \in 1..n : WellExpr(tys[i].expr)
    BY <1>1, <1>3, TyFacts, ValueFacts
  <2>3. WellExpr(tys[1].expr) /\ (n = 2 => WellExpr(tys[2].expr))
    BY <2>2
  <2>4. WellExpr(e)
    BY <2>3, ExprFacts
  <2>5. Reaches(st, t)
    <3>1. CASE op = "Div"
      <4>1. WellPred(nonzero)
        BY <2>3, <3>1, ExprFacts, WellTypes
      <4> HIDE DEF nonzero
      <4> QED
        BY <3>1, <4>1, PushHeadReaches
    <3>2. CASE op # "Div"
      BY <3>2, ReachesReflexive
    <3> QED
      BY <3>1, <3>2
  <2> HIDE DEF t, e, r
  <2>6. r.st = t /\ r.ty = Refine(e)
    BY <2>1
  <2> QED
    BY <2>4, <2>5, <2>6, WellTypes DEF Gives, r
<1> QED
  BY <1>2, <1>3

LEMMA CheckRvalueGives ==
  ASSUME NEW st, Typed(st), NEW rv, IsRvalue(rv)
  PROVE  Gives(st, CheckRvalue(st, rv))
<1> DEFINE checked == CheckOperands(st, rv.args)
           n == Len(rv.args)
           r == CheckRvalue(st, rv)
<1>1. Reaches(st, checked.st) /\ Typed(checked.st) /\ Types(checked.tys, n) /\ n \in Nat
  BY CheckOperandsFacts, SequenceFacts DEF IsRvalue, Reaches, Leads
<1>2. CASE rv.op = "Use"
  <2>1. r = [st |-> checked.st, ty |-> checked.tys[1]]
    BY <1>2 DEF CheckRvalue
  <2> HIDE DEF checked, r
  <2>2. n = 1
    BY <1>2 DEF IsRvalue
  <2>3. WellTy(checked.tys[1])
    BY <1>1, <2>2, TypesFacts
  <2>4. r.st = checked.st /\ r.ty = checked.tys[1]
    BY <2>1
  <2> QED
    BY <1>1, <2>3, <2>4 DEF Gives, r
<1>3. CASE rv.op = "MutRef"
  <2> DEFINE t == WalkPlace(st, rv.place)
             ty == IF Walks(st.env, rv.place) THEN StrgRef(GetLoc(st.env, rv.place)) ELSE Uninit
  <2>1. r = [st |-> t, ty |-> ty]
    BY <1>3 DEF CheckRvalue
  <2>2. Reaches(st, t) /\ WellTy(ty)
    BY WalkPlaceReaches, WellTypes
  <2> HIDE DEF t, ty, r
  <2>3. r.st = t /\ r.ty = ty
    BY <2>1
  <2> QED
    BY <2>2, <2>3 DEF Gives, r
<1>4. CASE rv.op \notin {"Use", "MutRef"}
  <2>1. r = Operation(checked.st, rv.op, checked.tys)
    BY <1>4 DEF CheckRvalue
  <2> HIDE DEF checked, r
  <2>2. n \in {1, 2} /\ (rv.op = "Div" => n = 2)
    BY <1>4 DEF IsRvalue
  <2>3. Gives(checked.st, r)
    BY <1>1, <2>1, <2>2, OperationGives
  <2> QED
    BY <1>1, <2>3, LeadsTransitive DEF Gives, Reaches, r
<1> QED
  BY <1>2, <1>3, <1>4

LEMMA CheckStatementReaches ==
  ASSUME NEW st, Typed(st), NEW stmt, IsRvalue(stmt.rv)
  PROVE  Reaches(st, CheckStatement(st, stmt))
<1> DEFINE checked == CheckRvalue(st, stmt.rv)
           written == WritePlace(checked.st, stmt.dst, checked.ty)
<1>1. CheckStatement(st, stmt) = IF Ok(st) THEN written ELSE st
  BY DEF CheckStatement
<1>2. Reaches(st, checked.st) /\ Typed(checked.st) /\ WellTy(checked.ty)
  BY CheckRvalueGives DEF Gives, Reaches, Leads
<1> HIDE DEF checked
<1>3. Reaches(checked.st, written)
  BY <1>2, WritePlaceReaches
<1> HIDE DEF written
<1> QED
  BY <1>1, <1>2, <1>3, LeadsTransitive, ReachesReflexive DEF Reaches

LEMMA CheckStatementsReaches ==
  ASSUME NEW st, Typed(st), IsBody(body), NEW bb \in Blocks
  PROVE  Reaches(st, CheckStatements(st, bb))
<1> DEFINE s == body.stmts[bb]
           result == CheckStatements(st, bb)
<1>1. IsStatements(s)
  BY DEF IsBody
<1>2. Len(s) \in Nat /\ DOMAIN s = 1..Len(s)
  BY <1>1, SequenceFacts DEF IsStatements
<1>3. PICK run : Values("statement", 0, st, s, result, run)
  BY <1>2, StatementFold DEF CheckStatements
<1> HIDE DEF result
<1>4. ASSUME NEW i \in 1..Len(s), NEW acc, Reaches(st, acc)
      PROVE  Reaches(acc, Step("statement", 0, acc, s[i]))
  <2>1. Step("statement", 0, acc, s[i]) = CheckStatement(acc, s[i])
    BY DEF Step
  <2>2. IsRvalue(s[i].rv)
    BY <1>1, <1>2 DEF IsStatements
  <2> QED
    BY <1>4, <2>1, <2>2, CheckStatementReaches DEF Reaches, Leads
<1> HIDE DEF s
<1> QED
  BY <1>2, <1>3, <1>4, FoldReaches DEF result

-----------------------------------------------------------------------------
(* The guards of a switch                                                  *)

LEMMA GuardFacts ==
  ASSUME NEW term, IsSequence(term.bits), NEW e, WellExpr(e), NEW i \in Nat \ {0},
         term.bits # <<>>
  PROVE  WellExpr(SwitchGuard(term, e, i))
<1> DEFINE n == Len(term.bits)
           not(j) == UnaryExpr("Not", MakeGuard(term, e, j))
           nots == [j \in DOMAIN term.bits |-> not(j)]
           result == Conjunction(Head(nots), Tail(nots))
<1>1. n \in Nat \ {0} /\ DOMAIN term.bits = 1..n
  <2>1. n \in Nat /\ DOMAIN term.bits = 1..n /\ term.bits \in Seq({term.bits[j] : j \in DOMAIN term.bits})
    BY SequenceFacts DEF IsSequence
  <2>2. n # 0
    BY <2>1, EmptySeq
  <2> QED
    BY <2>1, <2>2
<1>2. SwitchGuard(term, e, i) = IF i <= n THEN MakeGuard(term, e, i) ELSE result
  BY DEF SwitchGuard, Conjunction
<1>3. \A j : WellExpr(MakeGuard(term, e, j)) /\ WellExpr(not(j))
  BY ExprFacts DEF MakeGuard
<1> DEFINE E == {not(j) : j \in 1..n}
<1>4. nots \in Seq(E) /\ Len(nots) = n /\ \A f \in E : WellExpr(f)
  <2>1. nots \in [1..n -> E]
    BY <1>1
  <2>2. nots \in Seq(E) /\ Len(nots) = n
    BY <1>1, <2>1, SeqDef, LenProperties
  <2> QED
    BY <1>3, <2>2
<1> HIDE DEF not, nots, E
<1>5. Head(nots) \in E /\ Tail(nots) \in Seq(E)
  BY <1>1, <1>4, HeadTailProperties, EmptySeq
<1>6. WellExpr(result)
  <2> DEFINE base == Head(nots)
             s == Tail(nots)
             m == Len(s)
  <2>1. m \in Nat /\ (\A j \in 1..m : WellExpr(s[j])) /\ WellExpr(base)
    BY <1>4, <1>5, LenProperties, ElementOfSeq
  <2> HIDE DEF base, s
  <2>2. PICK run : Values("guard", 0, base, s, Conjunction(base, s), run)
    BY <2>1, GuardFold
  <2>3. /\ run[0] = base /\ run[m] = Conjunction(base, s)
        /\ \A j \in 1..m : run[j] = BinaryExpr("And", run[j - 1], s[j])
    BY <2>2 DEF Values, Step
  <2> DEFINE T == {j \in 0..m : WellExpr(run[j])}
  <2>4. 0 \in T /\ \A j \in 1..m : j - 1 \in T => j \in T
    BY <2>1, <2>3, ExprFacts
  <2> HIDE DEF T
  <2>5. \A j \in 0..m : j \in T
    BY <2>1, <2>4, ValuesKeep
  <2>6. m \in T
    BY <2>1, <2>5
  <2> QED
    BY <2>3, <2>6 DEF T, base, s
<1> QED
  BY <1>2, <1>3, <1>6

-----------------------------------------------------------------------------
(* The inductive invariant of the types and the cursors                    *)

(* The cursors of the frames fs are borrowed in turn, and c from the last. *)
Suspended(b, c, fs) ==
    /\ \A k \in 1..Len(fs) : /\ fs[k].cursor \in Builder!Cursor
                             /\ Builder!CursorInv(b, fs[k].cursor)
                             /\ Builder!Within(fs[k].cursor, c)
    /\ \A l \in 1..Len(fs) : \A k \in 1..l : Builder!Within(fs[k].cursor, fs[l].cursor)

WellFrame(b, f) ==
    /\ DOMAIN f = {"bb", "next", "cursor", "env", "discr"}
    /\ WellEnv(f.env) /\ WellExpr(f.discr)
    /\ IsSequence(b.term[f.bb].bits)
WellFrames(b, fs) == \A k \in 1..Len(fs) : WellFrame(b, fs[k])
WellEnvs(envs) == DOMAIN envs \subseteq Blocks /\ \A bb \in DOMAIN envs : WellEnv(envs[bb])
WellShapes(ss) == DOMAIN ss \subseteq Blocks /\ \A bb \in DOMAIN ss : WellShape(ss[bb])

WalkTypes ==
    /\ mode \in {"Inference", "Check", "Done", "Err"}
    /\ pc \in {"goto", "terminator", "return", "loop", "end"}
    /\ visited \subseteq Blocks
    /\ pos <= Len(body.rpo) /\ order \in Orders

(* The running check: its environment, the builder with its cursor, and    *)
(* the frames with theirs.                                                 *)
RunTypes ==
    /\ Typed(St)
    /\ WellFrames(body, frames)
    /\ Suspended(builder, cursor, frames)

TypesInv ==
    /\ ControlTypes /\ WalkTypes /\ RunTypes
    /\ WellEnvs(bb_envs) /\ WellShapes(shapes)

-----------------------------------------------------------------------------
(* Cursors of the frames                                                   *)

LEMMA WithinFacts ==
  /\ \A c \in Builder!Cursor : Builder!Within(c, c)
  /\ \A c, d, e \in Builder!Cursor :
        Builder!Within(c, d) /\ Builder!Within(d, e) => Builder!Within(c, e)
BY DEF Builder!Within, Builder!Cursor

LEMMA StateCursor ==
  ASSUME NEW st, Typed(st)
  PROVE  /\ S(st).b = st.b /\ S(st).c = st.c
         /\ Builder!BuilderInv(st.b) /\ Builder!CursorInv(st.b, st.c) /\ st.c \in Builder!Cursor
<1>1. S(st).b = st.b /\ S(st).c = st.c
  BY DEF S
<1> QED
  BY <1>1 DEF Typed, Builder!Works, Builder!CursorInv

(* An operation on the cursor c keeps those it was borrowed from.          *)
LEMMA OperationSuspends ==
  ASSUME NEW st, Typed(st), NEW t, Leads(st, t), NEW fs, Suspended(st.b, st.c, fs)
  PROVE  Suspended(t.b, t.c, fs)
<1>1. /\ S(st).b = st.b /\ S(st).c = st.c /\ S(t).b = t.b /\ S(t).c = t.c
      /\ st.c \in Builder!Cursor /\ t.c \in Builder!Cursor
  BY StateCursor DEF Leads
<1>2. /\ Builder!Within(st.c, t.c)
      /\ \A d \in Builder!Cursor : Builder!CursorInv(st.b, d) /\ Builder!Within(d, st.c) => Builder!CursorInv(t.b, d)
  BY <1>1 DEF Leads, Builder!Grows
<1> QED
  BY <1>1, <1>2, WithinFacts DEF Suspended

(* The state the variables are after an operation.                         *)
LEMMA Became ==
  ASSUME NEW st, Typed(st), Becomes(st)
  PROVE  Typed(St)'
<1> DEFINE t == State(builder', cursor', env', order', panic')
<1>1. builder' = st.b /\ cursor' = st.c /\ env' = st.env
  BY DEF Becomes
<1>2. IsState(t) /\ t.b = st.b /\ t.c = st.c /\ t.env = st.env
  BY <1>1, StateFields
<1>3. St' = t
  BY DEF St, State
<1> HIDE DEF t
<1>4. Typed(t)
  BY <1>2, SameCursor DEF Typed, Leads
<1> QED
  BY <1>3, <1>4

LEMMA Operated ==
  ASSUME RunTypes, NEW st, Leads(St, st), Becomes(st), UNCHANGED <<body, frames>>
  PROVE  RunTypes'
<1>1. Typed(st) /\ Typed(St) /\ Suspended(St.b, St.c, frames)
  BY DEF RunTypes, Leads, St
<1>2. Suspended(st.b, st.c, frames)
  BY <1>1, OperationSuspends
<1>3. Typed(St)'
  BY <1>1, Became
<1>4. builder' = st.b /\ cursor' = st.c
  BY DEF Becomes
<1>5. Suspended(builder', cursor', frames')
  BY <1>2, <1>4
<1>6. WellFrames(body', frames')
  BY DEF RunTypes
<1> QED
  BY <1>3, <1>5, <1>6 DEF RunTypes

-----------------------------------------------------------------------------
(* Branches                                                                *)

(* One more frame, whose cursor the next one is borrowed from.             *)
LEMMA PushSuspends ==
  ASSUME NEW b, NEW c, NEW FrameSet, NEW rest \in Seq(FrameSet), NEW frame,
         Suspended(b, c, rest), Suspended(b, frame.cursor, rest),
         frame.cursor \in Builder!Cursor, Builder!CursorInv(b, frame.cursor),
         Builder!Within(frame.cursor, c)
  PROVE  Suspended(b, c, Append(rest, frame))
<1> DEFINE fs == Append(rest, frame)
           n == Len(rest)
<1>1. /\ n \in Nat /\ Len(fs) = n + 1 /\ fs[n + 1] = frame
      /\ \A k \in 1..n : fs[k] = rest[k]
  BY AppendProperties, LenProperties
<1> HIDE DEF fs, n
<1>2. \A k \in 1..n + 1 : k \in 1..n \/ k = n + 1
  BY <1>1
<1>3. \A k \in 1..n + 1 : /\ fs[k].cursor \in Builder!Cursor
                          /\ Builder!CursorInv(b, fs[k].cursor)
                          /\ Builder!Within(fs[k].cursor, c)
  BY <1>1, <1>2 DEF Suspended, n
<1>4. ASSUME NEW l \in 1..n + 1, NEW k \in 1..l
      PROVE  Builder!Within(fs[k].cursor, fs[l].cursor)
  <2>1. CASE l \in 1..n
    <3>1. k \in 1..n
      BY <1>1, <2>1
    <3> QED
      BY <1>1, <2>1, <3>1 DEF Suspended, n
  <2>2. CASE l = n + 1 /\ k \in 1..n
    BY <1>1, <2>2 DEF Suspended, n
  <2>3. CASE l = n + 1 /\ k = n + 1
    BY <1>1, <2>3, WithinFacts
  <2>4. k \in 1..n + 1
    BY <1>1
  <2> QED
    BY <1>2, <2>1, <2>2, <2>3, <2>4
<1> QED
  BY <1>1, <1>3, <1>4 DEF Suspended, fs

(* The state at the start of a branch.                                     *)
Snapshot(st, c, e) == [st EXCEPT !.c = c, !.env = e]

LEMMA SnapshotTyped ==
  ASSUME NEW st, Typed(st), NEW c, Builder!CursorInv(st.b, c), NEW e, WellEnv(e)
  PROVE  LET t == Snapshot(st, c, e)
         IN  Typed(t) /\ t.b = st.b /\ t.c = c
<1> DEFINE t == [st EXCEPT !.c = c, !.env = e]
           u == [st EXCEPT !.c = c]
<1>1. t = State(st.b, c, e, st.order, st.panic)
  <2>1. PICK b, c0, e0, o, p : st = State(b, c0, e0, o, p)
    BY DEF Typed, IsState
  <2>2. st.b = b /\ st.order = o /\ st.panic = p
    BY <2>1, StateFields
  <2>3. u = State(b, c, e0, o, p)
    BY <2>1 DEF State
  <2>4. t = [u EXCEPT !.env = e]
    OBVIOUS
  <2> HIDE DEF t, u
  <2>5. t = State(b, c, e, o, p)
    BY <2>3, <2>4 DEF State
  <2> QED
    BY <2>2, <2>5
<1>2. IsState(t) /\ t.b = st.b /\ t.c = c /\ t.env = e
  <2> HIDE DEF t
  <2> QED
    BY <1>1, StateFields
<1>3. Builder!BuilderInv(st.b)
  BY StateCursor
<1> HIDE DEF t
<1>4. DOMAIN S(t) = {"b", "c"} /\ S(t).b = st.b /\ S(t).c = c
  BY <1>2 DEF S
<1>5. Builder!Works(S(t))
  BY <1>3, <1>4 DEF Builder!Works
<1> QED
  BY <1>2, <1>5 DEF Typed, Snapshot, t

LEMMA BranchTypes ==
  ASSUME ControlTypes, NEW st, Typed(st), NEW FrameSet, NEW rest \in Seq(FrameSet),
         WellFrames(body, rest), NEW frame, IsFrame(frame), WellFrame(body, frame),
         Suspended(st.b, frame.cursor, rest),
         frame.cursor \in Builder!Cursor, Builder!CursorInv(st.b, frame.cursor),
         TakeBranch(st, frame, rest), UNCHANGED body
  PROVE  RunTypes'
<1> DEFINE snapshot == Snapshot(st, frame.cursor, frame.env)
           guard == SwitchGuard(Term(frame.bb), frame.discr, frame.next)
           guarded == With(snapshot, PushGuard(S(snapshot), guard))
           taken == IF Term(frame.bb).bits = <<>> THEN snapshot ELSE guarded
           next == [frame EXCEPT !.next = frame.next + 1]
<1>1. Becomes(taken) /\ frames' = Append(rest, next)
  BY Zenon DEF TakeBranch, Branch, Snapshot
<1>2. Typed(snapshot) /\ snapshot.b = st.b /\ snapshot.c = frame.cursor
  <2>1. WellEnv(frame.env)
    BY DEF WellFrame
  <2> QED
    BY <2>1, SnapshotTyped
<1> HIDE DEF snapshot
<1>3. Leads(snapshot, taken)
  <2>1. CASE Term(frame.bb).bits = <<>>
    BY <1>2, <2>1, ReachesReflexive
  <2>2. CASE Term(frame.bb).bits # <<>>
    <3>1. WellExpr(guard)
      BY <2>2, GuardFacts DEF IsFrame, WellFrame, Term
    <3> HIDE DEF guard
    <3> QED
      BY <1>2, <2>2, <3>1, PushGuardReaches DEF Reaches
  <2> QED
    BY <2>1, <2>2
<1> HIDE DEF taken
<1>4. Typed(taken) /\ Typed(St)'
  <2>1. Typed(taken)
    BY <1>3 DEF Leads
  <2> QED
    BY <1>1, <2>1, Became
<1>5. Suspended(taken.b, taken.c, rest)
  BY <1>2, <1>3, OperationSuspends
<1>6. Builder!CursorInv(taken.b, frame.cursor) /\ Builder!Within(frame.cursor, taken.c)
  <2>1. /\ S(snapshot).b = st.b /\ S(snapshot).c = frame.cursor
        /\ S(taken).b = taken.b /\ S(taken).c = taken.c
    BY <1>2, <1>4, StateCursor
  <2>2. Builder!Within(frame.cursor, frame.cursor)
    BY WithinFacts
  <2> QED
    BY <1>3, <2>1, <2>2 DEF Leads, Builder!Grows
<1>7. /\ next.cursor = frame.cursor /\ next.env = frame.env /\ next.discr = frame.discr
      /\ next.bb = frame.bb /\ DOMAIN next = DOMAIN frame
  BY DEF IsFrame, WellFrame
<1> HIDE DEF next
<1>8. Suspended(taken.b, taken.c, Append(rest, next))
  <2>1. Suspended(taken.b, frame.cursor, rest)
    BY <1>5 DEF Suspended
  <2> QED
    BY <1>5, <1>6, <1>7, <2>1, PushSuspends
<1>9. WellFrames(body, Append(rest, next))
  <2>1. WellFrame(body, next)
    BY <1>7 DEF WellFrame
  <2>2. /\ Len(rest) \in Nat /\ Len(Append(rest, next)) = Len(rest) + 1
        /\ Append(rest, next)[Len(rest) + 1] = next
        /\ \A k \in 1..Len(rest) : Append(rest, next)[k] = rest[k]
    BY AppendProperties, LenProperties
  <2>3. \A k \in 1..Len(rest) + 1 : k \in 1..Len(rest) \/ k = Len(rest) + 1
    BY <2>2
  <2> QED
    BY <2>1, <2>2, <2>3 DEF WellFrames
<1>10. builder' = taken.b /\ cursor' = taken.c
  BY <1>1 DEF Becomes
<1>11. Suspended(builder', cursor', frames')
  BY <1>1, <1>8, <1>10
<1>12. WellFrames(body', frames')
  BY <1>1, <1>9
<1> QED
  BY <1>4, <1>11, <1>12 DEF RunTypes

-----------------------------------------------------------------------------
(* Each action                                                             *)

LEMMA StFacts ==
  ASSUME TypesInv
  PROVE  /\ Typed(St) /\ WellEnv(env) /\ IsBody(body) /\ cur \in Blocks /\ target \in Blocks
         /\ IsTerminator(Term(cur))
<1>1. body \in Bodies /\ cur \in Blocks /\ target \in Blocks /\ Typed(St)
  BY DEF TypesInv, ControlTypes, RunTypes
<1>2. IsBody(body)
  BY <1>1, CheckerAssumption
<1>3. WellEnv(env)
  BY <1>1 DEF Typed, St
<1> QED
  BY <1>1, <1>2, <1>3 DEF IsBody, Term

LEMMA StartFacts ==
  ASSUME ControlTypes
  PROVE  Typed(Start.st) /\ Substitutes(Start.subst, Names(body.sig))
<1>1. IsFnSig(body.sig) /\ body.nlocals \in Nat /\ body.nlocals > Len(body.sig.args)
  BY CheckerAssumption DEF ControlTypes, IsBody
<1> QED
  BY <1>1, EnterFacts DEF Start

LEMMA InitTypes ==
  ASSUME Init
  PROVE  TypesInv
<1>1. /\ mode = "Inference" /\ visited = {} /\ frames = <<>> /\ pos = 0 /\ order \in Orders
      /\ bb_envs = <<>> /\ shapes = <<>> /\ pc = "goto"
      /\ builder = Start.st.b /\ cursor = Start.st.c /\ env = Start.st.env
  BY DEF Init
<1>2. ControlTypes
  BY InitWalks
<1>3. Typed(Start.st)
  BY <1>2, StartFacts
<1>4. Typed(St)
  <2>1. IsState(St) /\ St.b = Start.st.b /\ St.c = Start.st.c /\ St.env = Start.st.env
    <3>1. St = State(builder, cursor, env, order, panic)
      BY DEF St, State
    <3> QED
      BY <1>1, <3>1, StateFields
  <2> QED
    BY <1>3, <2>1, SameCursor DEF Typed, Leads
<1>5. WalkTypes
  <2>1. Len(body.rpo) \in Nat
    BY <1>2, OrderFacts, LenProperties DEF ControlTypes
  <2> QED
    BY <1>1, <2>1 DEF WalkTypes
<1>6. Len(frames) = 0
  BY <1>1
<1>7. WellFrames(body, frames) /\ Suspended(builder, cursor, frames)
  BY <1>6 DEF WellFrames, Suspended
<1>8. WellEnvs(bb_envs) /\ WellShapes(shapes)
  BY <1>1, EmptyEnv DEF WellEnvs, WellShapes
<1> QED
  BY <1>2, <1>4, <1>5, <1>7, <1>8 DEF TypesInv, RunTypes

LEMMA CheckBasicBlockTypes ==
  ASSUME RunTypes, IsBody(body), NEW bb \in Blocks, NEW st, Leads(St, st),
         CheckBasicBlock(st, bb), UNCHANGED <<body, frames>>
  PROVE  RunTypes'
<1> DEFINE scoped == IF bb \in DominatesJoinPoint(body) THEN With(st, PushScope(S(st))) ELSE st
           t == CheckStatements(scoped, bb)
<1>1. Becomes(t)
  BY DEF CheckBasicBlock
<1>2. Typed(St) /\ Typed(st)
  BY DEF RunTypes, Leads
<1>3. Leads(st, scoped)
  BY <1>2, ReachesReflexive, PushScopeReaches DEF Reaches
<1> HIDE DEF scoped
<1>4. Leads(scoped, t)
  BY <1>3, CheckStatementsReaches DEF Leads, Reaches
<1> HIDE DEF t
<1>5. Leads(St, t)
  BY <1>2, <1>3, <1>4, LeadsTransitive
<1> QED
  BY <1>1, <1>5, Operated

LEMMA GotoBlockTypes ==
  ASSUME TypesInv, GotoBlock
  PROVE  RunTypes'
<1>1. RunTypes /\ IsBody(body) /\ target \in Blocks /\ Typed(St)
  BY CheckerAssumption DEF TypesInv, ControlTypes, RunTypes
<1>2. CheckBasicBlock(St, target) /\ UNCHANGED <<body, frames>>
  BY DEF GotoBlock
<1>3. Leads(St, St)
  BY <1>1, ReachesReflexive
<1> QED
  BY <1>1, <1>2, <1>3, CheckBasicBlockTypes

LEMMA GotoJoinInferAgainTypes ==
  ASSUME TypesInv, GotoJoinInferAgain
  PROVE  RunTypes' /\ WellEnvs(bb_envs')
<1> DEFINE st == JoinWith(St, bb_envs[target], env)
           t == [st EXCEPT !.env = env]
<1>1. /\ target \in DOMAIN bb_envs /\ bb_envs' = [bb_envs EXCEPT ![target] = st.env]
      /\ Becomes(t) /\ UNCHANGED <<body, frames>>
  BY DEF GotoJoinInferAgain
<1>2. Typed(St) /\ WellEnv(env) /\ WellEnv(bb_envs[target])
  BY <1>1, StFacts DEF TypesInv, WellEnvs
<1>3. Leads(St, st)
  BY <1>2, JoinWithLeads
<1> HIDE DEF st
<1>4. Leads(st, t)
  BY <1>2, <1>3, SetEnv DEF Leads
<1> HIDE DEF t
<1>5. Leads(St, t)
  BY <1>2, <1>3, <1>4, LeadsTransitive
<1>6. WellEnv(st.env)
  BY <1>3 DEF Leads, Typed
<1>7. WellEnvs(bb_envs')
  BY <1>1, <1>6 DEF TypesInv, WellEnvs
<1> QED
  BY <1>1, <1>5, <1>7, Operated DEF TypesInv

LEMMA GotoJoinCheckFirstTypes ==
  ASSUME TypesInv, GotoJoinCheckFirst
  PROVE  RunTypes' /\ WellEnvs(bb_envs') /\ WellShapes(shapes')
<1> DEFINE inferred == InferBbEnv(St, shapes[target])
           st == [inferred EXCEPT !.env = env]
           t == TransformInto(st, inferred.env)
<1>1. /\ target \in DOMAIN shapes /\ bb_envs' = Put(bb_envs, target, inferred.env)
      /\ Becomes(t) /\ UNCHANGED <<body, frames>>
      /\ shapes' = [bb \in DOMAIN shapes \ {target} |-> shapes[bb]]
  BY DEF GotoJoinCheckFirst
<1>2. Typed(St) /\ WellEnv(env) /\ WellShape(shapes[target]) /\ target \in Blocks
  BY <1>1, StFacts DEF TypesInv, WellShapes
<1>3. Leads(St, inferred)
  BY <1>2, InferBbEnvLeads
<1> HIDE DEF inferred
<1>4. Leads(inferred, st) /\ WellEnv(inferred.env)
  BY <1>2, <1>3, SetEnv DEF Leads, Typed
<1> HIDE DEF st
<1>5. Leads(st, t)
  BY <1>4, TransformIntoLeads DEF Leads
<1> HIDE DEF t
<1>6. Leads(St, t)
  <2>1. Leads(St, st)
    BY <1>2, <1>3, <1>4, LeadsTransitive
  <2> QED
    BY <1>2, <1>5, <2>1, LeadsTransitive
<1>7. WellEnvs(bb_envs')
  BY <1>1, <1>2, <1>4 DEF TypesInv, WellEnvs, Put
<1>8. WellShapes(shapes')
  BY <1>1 DEF TypesInv, WellShapes
<1> QED
  BY <1>1, <1>6, <1>7, <1>8, Operated DEF TypesInv

LEMMA GotoJoinCheckAgainTypes ==
  ASSUME TypesInv, GotoJoinCheckAgain
  PROVE  RunTypes'
<1> DEFINE t == TransformInto(St, bb_envs[target])
<1>1. target \in DOMAIN bb_envs /\ Becomes(t) /\ UNCHANGED <<body, frames>>
  BY DEF GotoJoinCheckAgain
<1>2. Typed(St) /\ WellEnv(bb_envs[target])
  BY <1>1, StFacts DEF TypesInv, WellEnvs
<1>3. Leads(St, t)
  BY <1>2, TransformIntoLeads
<1> HIDE DEF t
<1> QED
  BY <1>1, <1>3, Operated DEF TypesInv

LEMMA CheckReturnTypes ==
  ASSUME TypesInv, CheckReturn
  PROVE  RunTypes'
<1> DEFINE t == Leave(St, Start.subst, body.sig)
<1>1. Becomes(t) /\ UNCHANGED <<body, frames>>
  BY DEF CheckReturn
<1>2. Substitutes(Start.subst, Names(body.sig)) /\ IsFnSig(body.sig)
  BY StartFacts, StFacts DEF TypesInv, IsBody
<1>3. Leads(St, t)
  BY <1>2, StFacts, LeaveReaches DEF Reaches
<1> HIDE DEF t
<1> QED
  BY <1>1, <1>3, Operated DEF TypesInv

LEMMA CheckDropTypes ==
  ASSUME TypesInv, CheckDrop
  PROVE  RunTypes'
<1> DEFINE t == MoveLocal(St, Term(cur).local)
<1>1. Becomes(t) /\ Term(cur).kind = "Drop" /\ UNCHANGED <<body, frames>>
  BY DEF CheckDrop
<1>2. Term(cur).local \in Nat
  BY <1>1, StFacts DEF IsTerminator
<1>3. Leads(St, t)
  BY <1>2, StFacts, MoveLocalReaches DEF Reaches
<1> HIDE DEF t
<1> QED
  BY <1>1, <1>3, Operated DEF TypesInv

LEMMA CheckCallTypes ==
  ASSUME TypesInv, CheckCall
  PROVE  RunTypes'
<1> DEFINE applied == Apply(Inferred, Actuals.tys, Callee)
           written == WriteDestination(applied, Callee, Term(cur).dst)
<1>1. /\ Term(cur).kind = "Call" /\ UNCHANGED <<body, frames>>
      /\ Ok(Inferred.st) => Determined(Inferred.subst, Callee)
      /\ \/ Becomes(Inferred.st)
         \/ Ok(Inferred.st) /\ Becomes(applied.st)
         \/ Ok(Inferred.st) /\ Becomes(written)
  BY Zenon DEF CheckCall
<1>2. /\ Typed(St) /\ IsSequence(Term(cur).args)
      /\ \A i \in DOMAIN Term(cur).args : IsOperand(Term(cur).args[i])
      /\ IsFnSig(Callee) /\ Len(Term(cur).args) = Len(Callee.args)
  BY <1>1, StFacts DEF IsTerminator, Callee
<1>3. Reaches(St, Actuals.st) /\ Types(Actuals.tys, Len(Callee.args))
  BY <1>2, CheckOperandsFacts DEF Actuals
<1>4. /\ IsSequence(Actuals.tys) /\ Len(Actuals.tys) = Len(Callee.args)
      /\ \A i \in DOMAIN Actuals.tys : WellTy(Actuals.tys[i])
  <2>1. Len(Callee.args) \in Nat
    BY <1>2, SequenceFacts
  <2> QED
    BY <1>3, <2>1, TypesFacts
<1>5. Typed(Actuals.st)
  BY <1>3 DEF Reaches, Leads
<1>6. Carries(Actuals.st, Inferred, {})
  BY <1>2, <1>4, <1>5, InferFromFnCallCarries DEF Inferred
<1>7. Leads(Actuals.st, Inferred.st)
  BY <1>6 DEF Carries
<1>8. ASSUME Ok(Inferred.st)
      PROVE  Leads(Actuals.st, applied.st) /\ Leads(Actuals.st, written)
  <2>1. Carries(Actuals.st, Inferred, Names(Callee))
    BY <1>1, <1>2, <1>6, <1>8, DeterminedCarries
  <2>2. Carries(Actuals.st, applied, Names(Callee))
    BY <1>2, <1>4, <1>5, <2>1, ApplyCarries
  <2> HIDE DEF applied
  <2>3. Leads(Actuals.st, written)
    BY <1>2, <1>5, <2>2, WriteDestinationLeads
  <2> QED
    BY <2>2, <2>3 DEF Carries
<1> HIDE DEF applied, written
<1>9. \A t : Leads(Actuals.st, t) => Leads(St, t)
  BY <1>2, <1>3, LeadsTransitive DEF Reaches
<1>10. PICK t : Becomes(t) /\ Leads(St, t)
  BY <1>1, <1>7, <1>8, <1>9
<1> QED
  BY <1>1, <1>10, Operated DEF TypesInv

LEMMA CheckSwitchTypes ==
  ASSUME TypesInv, CheckSwitchInt
  PROVE  RunTypes'
<1> DEFINE operand == Term(cur).discr
           ty == OperandTy(St, operand)
           after == AfterOperand(St, operand)
           usable == Ok(after) /\ ty.kind = "Refine"
           st == IF usable THEN after ELSE Panic(after, "unexpected discr_ty")
           discr == IF usable THEN ty.expr ELSE TT
           frame == [bb |-> cur, next |-> 1, cursor |-> cursor, env |-> after.env, discr |-> discr]
<1>1. TakeBranch(st, frame, frames) /\ Term(cur).kind = "SwitchInt" /\ UNCHANGED body
  BY Zenon DEF CheckSwitchInt
<1>2. Typed(St) /\ IsOperand(operand) /\ IsSequence(Term(cur).bits) /\ cur \in Blocks
  BY <1>1, StFacts DEF IsTerminator
<1>3. WellTy(ty) /\ Reaches(St, after)
  BY <1>2, OperandFacts
<1> HIDE DEF ty, after, operand
<1>4. WellExpr(discr)
  BY <1>3, TyFacts, ValueFacts, ExprFacts
<1> HIDE DEF discr
<1>5. Typed(after) /\ Leads(St, after)
  BY <1>3 DEF Reaches, Leads
<1>6. Leads(after, st)
  BY <1>5, ReachesReflexive, PanicReaches DEF Reaches
<1> HIDE DEF st
<1>7. Leads(St, st) /\ Typed(st)
  <2>1. Leads(St, st)
    BY <1>2, <1>5, <1>6, LeadsTransitive
  <2> QED
    BY <2>1 DEF Leads
<1>8. /\ frame.bb = cur /\ frame.next = 1 /\ frame.cursor = cursor
      /\ frame.env = after.env /\ frame.discr = discr
      /\ DOMAIN frame = {"bb", "next", "cursor", "env", "discr"}
      /\ frame = [x \in DOMAIN frame |-> frame[x]]
  OBVIOUS
<1> HIDE DEF frame
<1>9. IsFrame(frame)
  BY <1>2, <1>8 DEF IsFrame
<1>10. WellFrame(body, frame)
  BY <1>2, <1>4, <1>5, <1>8 DEF WellFrame, Term, Typed
<1>11. /\ cursor \in Builder!Cursor /\ Builder!CursorInv(st.b, cursor)
       /\ Suspended(st.b, cursor, frames)
  <2>1. /\ S(St).b = builder /\ S(St).c = cursor /\ S(st).b = st.b
        /\ Builder!CursorInv(builder, cursor) /\ cursor \in Builder!Cursor
    BY <1>2, <1>7, StateCursor DEF St
  <2>2. Builder!Within(cursor, cursor)
    BY <2>1, WithinFacts
  <2>3. \A d \in Builder!Cursor : Builder!CursorInv(builder, d) /\ Builder!Within(d, cursor)
                                  => Builder!CursorInv(st.b, d)
    BY <1>7, <2>1 DEF Leads, Builder!Grows
  <2>4. Suspended(builder, cursor, frames)
    BY DEF TypesInv, RunTypes
  <2> QED
    BY <2>1, <2>2, <2>3, <2>4 DEF Suspended
<1>12. PICK FrameSet : frames \in Seq(FrameSet)
  BY DEF TypesInv, ControlTypes
<1>13. ControlTypes /\ WellFrames(body, frames)
  BY DEF TypesInv, RunTypes
<1> QED
  BY <1>1, <1>7, <1>8, <1>9, <1>10, <1>11, <1>12, <1>13, BranchTypes

(* The last frame on those below it.                                       *)
LEMMA LastFrameTypes ==
  ASSUME TypesInv, frames # <<>>
  PROVE  LET top == Last(frames) IN
         /\ \E FrameSet : Front(frames) \in Seq(FrameSet)
         /\ IsFrame(top) /\ WellFrame(body, top) /\ WellFrames(body, Front(frames))
         /\ top.cursor \in Builder!Cursor /\ Builder!CursorInv(builder, top.cursor)
         /\ Suspended(builder, top.cursor, Front(frames))
<1> DEFINE rest == Front(frames)
           top == Last(frames)
           n == Len(frames)
<1>1. PICK FrameSet : frames \in Seq(FrameSet)
  BY DEF TypesInv, ControlTypes
<1>2. /\ rest \in Seq(FrameSet) /\ Len(rest) = n - 1 /\ n \in Nat \ {0}
      /\ \A k \in 1..n - 1 : rest[k] = frames[k]
      /\ top = frames[n]
  BY <1>1, LastFrame
<1> HIDE DEF rest, top
<1>3. n \in 1..n /\ \A k \in 1..Len(rest) : k \in 1..n /\ rest[k] = frames[k]
  BY <1>2
<1>4. WellFrames(body, frames) /\ Suspended(builder, cursor, frames) /\ \A k \in 1..n : IsFrame(frames[k])
  BY DEF TypesInv, RunTypes, ControlTypes
<1> HIDE DEF n
<1>5. WellFrames(body, rest) /\ WellFrame(body, top) /\ IsFrame(top)
  BY <1>2, <1>3, <1>4 DEF WellFrames, n
<1>6. /\ top.cursor \in Builder!Cursor /\ Builder!CursorInv(builder, top.cursor)
      /\ \A l \in 1..n : \A k \in 1..l : Builder!Within(frames[k].cursor, frames[l].cursor)
      /\ \A k \in 1..n : frames[k].cursor \in Builder!Cursor /\ Builder!CursorInv(builder, frames[k].cursor)
  BY <1>2, <1>3, <1>4 DEF Suspended, n
<1>7. Suspended(builder, top.cursor, rest)
  <2>1. \A k \in 1..Len(rest) : /\ rest[k].cursor \in Builder!Cursor
                                /\ Builder!CursorInv(builder, rest[k].cursor)
                                /\ Builder!Within(rest[k].cursor, top.cursor)
    BY <1>2, <1>3, <1>6
  <2>2. ASSUME NEW l \in 1..Len(rest), NEW k \in 1..l
        PROVE  Builder!Within(rest[k].cursor, rest[l].cursor)
    <3>1. k \in 1..Len(rest)
      BY <1>2
    <3> QED
      BY <1>3, <1>6, <2>2, <3>1
  <2> QED
    BY <2>1, <2>2 DEF Suspended
<1> QED
  BY <1>2, <1>5, <1>6, <1>7 DEF top, rest

LEMMA NextBranchTypes ==
  ASSUME TypesInv, NextBranch
  PROVE  RunTypes'
<1>1. frames # <<>> /\ TakeBranch(St, Last(frames), Front(frames)) /\ UNCHANGED body
  BY DEF NextBranch
<1>2. St.b = builder
  BY DEF St
<1>3. PICK FrameSet : Front(frames) \in Seq(FrameSet)
  BY <1>1, LastFrameTypes
<1>4. Typed(St) /\ ControlTypes
  BY StFacts DEF TypesInv
<1> DEFINE top == Last(frames)
           rest == Front(frames)
<1>5. /\ IsFrame(top) /\ WellFrame(body, top) /\ WellFrames(body, rest)
      /\ top.cursor \in Builder!Cursor /\ Builder!CursorInv(builder, top.cursor)
      /\ Suspended(builder, top.cursor, rest)
  BY <1>1, LastFrameTypes
<1>6. TakeBranch(St, top, rest) /\ rest \in Seq(FrameSet)
  BY <1>1, <1>3
<1> HIDE DEF top, rest
<1> QED
  BY <1>1, <1>2, <1>4, <1>5, <1>6, BranchTypes

LEMMA EndSwitchTypes ==
  ASSUME TypesInv, EndSwitch
  PROVE  RunTypes'
<1> DEFINE top == Last(frames)
           rest == Front(frames)
<1>1. /\ frames # <<>> /\ cursor' = top.cursor /\ frames' = rest
      /\ UNCHANGED <<body, order, env, builder, panic>>
  BY DEF EndSwitch
<1>2. /\ WellFrames(body, rest) /\ Builder!CursorInv(builder, top.cursor)
      /\ Suspended(builder, top.cursor, rest)
  BY <1>1, LastFrameTypes
<1> HIDE DEF top, rest
<1>3. Typed(St) /\ WellEnv(env)
  BY StFacts
<1>4. Typed(St)'
  <2> DEFINE t == Snapshot(St, top.cursor, env)
  <2>1. Typed(t)
    BY <1>2, <1>3, SnapshotTyped DEF St
  <2>2. St' = t
    <3> DEFINE u == [St EXCEPT !.c = top.cursor]
    <3>1. t = [u EXCEPT !.env = env]
      BY DEF Snapshot
    <3>2. u = State(builder, top.cursor, env, order, panic)
      BY DEF St, State
    <3>3. St' = State(builder, top.cursor, env, order, panic)
      BY <1>1 DEF St, State
    <3> HIDE DEF t, u
    <3> QED
      BY <3>1, <3>2, <3>3 DEF State
  <2> HIDE DEF t
  <2> QED
    BY <2>1, <2>2
<1>5. WellFrames(body', frames') /\ Suspended(builder', cursor', frames')
  BY <1>1, <1>2
<1> QED
  BY <1>4, <1>5 DEF RunTypes

LEMMA RunBlockTypes ==
  ASSUME TypesInv, RunBlock
  PROVE  RunTypes'
<1> DEFINE bb == body.rpo[pos + 1]
           st == [St EXCEPT !.env = bb_envs[bb]]
           t == UnpackEnv(st)
<1>1. /\ bb \in DOMAIN bb_envs /\ CheckBasicBlock(t, bb) /\ UNCHANGED <<body, frames>>
  BY DEF RunBlock
<1>2. bb \in Blocks /\ WellEnv(bb_envs[bb]) /\ RunTypes /\ Typed(St) /\ IsBody(body)
  BY <1>1, StFacts DEF TypesInv, WellEnvs
<1> HIDE DEF bb
<1>3. Leads(St, st)
  BY <1>2, SetEnv
<1> HIDE DEF st
<1>4. Leads(st, t)
  BY <1>3, UnpackEnvReaches DEF Leads, Reaches
<1> HIDE DEF t
<1>5. Leads(St, t)
  BY <1>2, <1>3, <1>4, LeadsTransitive
<1> QED
  BY <1>1, <1>2, <1>5, CheckBasicBlockTypes

LEMMA EndInferenceTypes ==
  ASSUME TypesInv, EndInference
  PROVE  RunTypes' /\ WellEnvs(bb_envs') /\ WellShapes(shapes')
<1>1. /\ shapes' = [bb \in DOMAIN bb_envs |-> Shape(bb_envs[bb])]
      /\ bb_envs' = <<>> /\ frames' = <<>> /\ Becomes(Start.st)
  BY DEF EndInference
<1>2. Typed(Start.st)
  BY StartFacts DEF TypesInv
<1>3. Typed(St)'
  BY <1>1, <1>2, Became
<1>4. Len(frames') = 0
  BY <1>1
<1>5. WellFrames(body', frames') /\ Suspended(builder', cursor', frames')
  BY <1>4 DEF WellFrames, Suspended
<1>6. WellEnvs(bb_envs')
  BY <1>1, EmptyEnv DEF WellEnvs
<1>7. WellShapes(shapes')
  BY <1>1, ShapeFacts DEF TypesInv, WellEnvs, WellShapes
<1> QED
  BY <1>3, <1>5, <1>6, <1>7 DEF RunTypes

LEMMA WalkTypesStep ==
  ASSUME TypesInv, [Next]_vars
  PROVE  WalkTypes'
<1>1. /\ mode \in {"Inference", "Check", "Done", "Err"}
      /\ pc \in {"goto", "terminator", "return", "loop", "end"}
      /\ visited \subseteq Blocks /\ pos <= Len(body.rpo) /\ order \in Orders
      /\ cur \in Blocks /\ target \in Blocks /\ pos \in Nat
      /\ body.rpo \in Seq(Blocks) /\ Len(body.rpo) \in Nat
  BY OrderFacts, LenProperties DEF TypesInv, ControlTypes, WalkTypes
<1>2. UNCHANGED <<body, order>>
  BY DEF Next, vars, GotoBlock, GotoJoinInferFirst, GotoJoinInferAgain, GotoJoinCheckFirst,
         GotoJoinCheckAgain, CheckReturn, CheckGoto, CheckDrop, CheckCall, CallError, CheckSwitchInt,
         NextBranch, EndSwitch, ReturnToRun, RunSkip, RunBlock, EndInference, EndCheck, Terminated
<1>3. CASE GotoBlock
  BY <1>1, <1>2, <1>3 DEF GotoBlock, CheckBasicBlock, WalkTypes
<1>4. CASE GotoJoinInferFirst \/ GotoJoinInferAgain \/ GotoJoinCheckFirst \/ GotoJoinCheckAgain
  BY <1>1, <1>2, <1>4 DEF GotoJoinInferFirst, GotoJoinInferAgain, GotoJoinCheckFirst, GotoJoinCheckAgain, WalkTypes
<1>5. CASE CheckReturn \/ CheckGoto \/ CheckDrop \/ CallError
  BY <1>1, <1>2, <1>5 DEF CheckReturn, CheckGoto, CheckDrop, CallError, WalkTypes
<1>6. CASE CheckCall
  <2>1. /\ UNCHANGED <<mode, visited, pos>>
        /\ UNCHANGED pc \/ pc' = "return" \/ pc' = "goto"
    BY <1>6, Zenon DEF CheckCall
  <2> QED
    BY <1>1, <1>2, <2>1 DEF WalkTypes
<1>7. CASE CheckSwitchInt
  <2>1. PICK st, frame : TakeBranch(st, frame, frames)
    BY <1>7, Zenon DEF CheckSwitchInt
  <2>2. pc' = "goto"
    BY <2>1 DEF TakeBranch, Branch
  <2>3. UNCHANGED <<mode, visited, pos>>
    BY <1>7 DEF CheckSwitchInt
  <2> QED
    BY <1>1, <1>2, <2>2, <2>3 DEF WalkTypes
<1>8. CASE NextBranch
  <2>1. pc' = "goto" /\ UNCHANGED <<mode, visited, pos>>
    BY <1>8 DEF NextBranch, TakeBranch, Branch
  <2> QED
    BY <1>1, <1>2, <2>1 DEF WalkTypes
<1>9. CASE EndSwitch \/ ReturnToRun \/ EndCheck \/ Terminated \/ UNCHANGED vars
  BY <1>1, <1>2, <1>9 DEF EndSwitch, ReturnToRun, EndCheck, Terminated, vars, WalkTypes
<1>10. CASE RunSkip
  BY <1>1, <1>2, <1>10 DEF RunSkip, WalkTypes
<1>11. CASE RunBlock
  <2> DEFINE bb == body.rpo[pos + 1]
  <2>1. /\ pos < Len(body.rpo) /\ visited' = visited \union {bb} /\ pc' = "terminator"
        /\ pos' = pos + 1 /\ UNCHANGED mode
    BY <1>11 DEF RunBlock, CheckBasicBlock
  <2>2. bb \in Blocks
    <3>1. pos + 1 \in 1..Len(body.rpo)
      BY <1>1, <2>1
    <3> QED
      BY <1>1, <3>1
  <2> HIDE DEF bb
  <2> QED
    BY <1>1, <1>2, <2>1, <2>2 DEF WalkTypes
<1>12. CASE EndInference
  BY <1>1, <1>2, <1>12 DEF EndInference, WalkTypes
<1> QED
  BY <1>3, <1>4, <1>5, <1>6, <1>7, <1>8, <1>9, <1>10, <1>11, <1>12 DEF Next

LEMMA UnchangedTypes ==
  ASSUME TypesInv, UNCHANGED <<body, frames, env, cursor, builder, order, panic>>
  PROVE  RunTypes'
<1>1. Leads(St, St) /\ RunTypes
  BY StFacts, ReachesReflexive DEF TypesInv
<1>2. Becomes(St)
  BY DEF Becomes, St
<1> QED
  BY <1>1, <1>2, Operated

LEMMA StepTypes ==
  ASSUME TypesInv, [Next]_vars
  PROVE  TypesInv'
<1>1. ControlTypes' /\ WalkTypes'
  BY StepWalks, WalkTypesStep DEF TypesInv
<1>2. WellEnvs(bb_envs) /\ WellShapes(shapes)
  BY DEF TypesInv
<1>3. CASE GotoBlock
  BY <1>1, <1>2, <1>3, GotoBlockTypes DEF GotoBlock, TypesInv
<1>4. CASE GotoJoinInferFirst
  <2>1. bb_envs' = Put(bb_envs, target, env) /\ UNCHANGED <<body, frames, shapes, env, cursor, builder, order, panic>>
    BY <1>4 DEF GotoJoinInferFirst
  <2>2. WellEnvs(bb_envs')
    BY <1>2, <2>1, StFacts DEF WellEnvs, Put
  <2> QED
    BY <1>1, <1>2, <2>1, <2>2, UnchangedTypes DEF TypesInv
<1>5. CASE GotoJoinInferAgain
  BY <1>1, <1>2, <1>5, GotoJoinInferAgainTypes DEF GotoJoinInferAgain, TypesInv
<1>6. CASE GotoJoinCheckFirst
  BY <1>1, <1>6, GotoJoinCheckFirstTypes DEF TypesInv
<1>7. CASE GotoJoinCheckAgain
  BY <1>1, <1>2, <1>7, GotoJoinCheckAgainTypes DEF GotoJoinCheckAgain, TypesInv
<1>8. CASE CheckReturn
  BY <1>1, <1>2, <1>8, CheckReturnTypes DEF CheckReturn, TypesInv
<1>9. CASE CheckDrop
  BY <1>1, <1>2, <1>9, CheckDropTypes DEF CheckDrop, TypesInv
<1>10. CASE CheckCall
  <2>1. UNCHANGED <<bb_envs, shapes>>
    BY <1>10 DEF CheckCall
  <2> QED
    BY <1>1, <1>2, <1>10, <2>1, CheckCallTypes DEF TypesInv
<1>11. CASE CheckSwitchInt
  <2>1. UNCHANGED <<bb_envs, shapes>>
    BY <1>11 DEF CheckSwitchInt
  <2> QED
    BY <1>1, <1>2, <1>11, <2>1, CheckSwitchTypes DEF TypesInv
<1>12. CASE NextBranch
  BY <1>1, <1>2, <1>12, NextBranchTypes DEF NextBranch, TypesInv
<1>13. CASE EndSwitch
  BY <1>1, <1>2, <1>13, EndSwitchTypes DEF EndSwitch, TypesInv
<1>14. CASE RunBlock
  BY <1>1, <1>2, <1>14, RunBlockTypes DEF RunBlock, TypesInv
<1>15. CASE EndInference
  BY <1>1, <1>15, EndInferenceTypes DEF TypesInv
<1>16. CASE CheckGoto \/ CallError \/ ReturnToRun \/ RunSkip \/ EndCheck \/ Terminated \/ UNCHANGED vars
  <2>1. UNCHANGED <<body, frames, bb_envs, shapes, env, cursor, builder, order, panic>>
    BY <1>16 DEF CheckGoto, CallError, ReturnToRun, RunSkip, EndCheck, Terminated, vars
  <2> QED
    BY <1>1, <1>2, <2>1, UnchangedTypes DEF TypesInv
<1> QED
  BY <1>3, <1>4, <1>5, <1>6, <1>7, <1>8, <1>9, <1>10, <1>11, <1>12, <1>13, <1>14, <1>15, <1>16 DEF Next

-----------------------------------------------------------------------------
(* What the invariant says                                                 *)

LEMMA BuilderInvariant == TypesInv => Builder!IInv
<1> SUFFICES ASSUME TypesInv PROVE Builder!IInv
  OBVIOUS
<1> DEFINE n == Len(frames)
           below == [k \in 1..n |-> frames[k].cursor]
           live == Append(below, cursor)
<1>1. /\ Builder!BuilderInv(builder) /\ Builder!CursorInv(builder, cursor)
      /\ cursor \in Builder!Cursor /\ Suspended(builder, cursor, frames)
  BY StFacts, StateCursor DEF TypesInv, RunTypes, St
<1>2. n \in Nat
  BY LenProperties DEF TypesInv, ControlTypes
<1>3. below \in Seq(Builder!Cursor) /\ Len(below) = n /\ \A k \in 1..n : below[k] = frames[k].cursor
  <2>1. below \in [1..n -> Builder!Cursor]
    BY <1>1 DEF Suspended
  <2>2. below \in Seq(Builder!Cursor)
    BY <1>2, <2>1, SeqDef
  <2> QED
    BY <1>2, <2>1, <2>2, LenProperties
<1> HIDE DEF n, below
<1>4. /\ live \in Seq(Builder!Cursor) /\ Len(live) = n + 1 /\ live[n + 1] = cursor
      /\ \A k \in 1..n : live[k] = frames[k].cursor
  BY <1>1, <1>3, AppendProperties
<1>5. live # <<>>
  BY <1>2, <1>4
<1> HIDE DEF live
<1>6. \A k \in 1..n + 1 : k \in 1..n \/ k = n + 1
  BY <1>2
<1>7. \A k \in 1..Len(live) : Builder!CursorInv(builder, live[k])
  BY <1>1, <1>4, <1>6 DEF Suspended, n
<1>8. ASSUME NEW l \in 1..Len(live), NEW k \in 1..l
      PROVE  Builder!Within(live[k], live[l])
  <2>1. CASE l \in 1..n
    <3>1. k \in 1..n
      BY <1>2, <2>1
    <3> QED
      BY <1>1, <1>4, <2>1, <3>1 DEF Suspended, n
  <2>2. CASE l = n + 1 /\ k \in 1..n
    BY <1>1, <1>4, <2>2 DEF Suspended, n
  <2>3. CASE l = n + 1 /\ k = n + 1
    BY <1>1, <1>4, <2>3, WithinFacts
  <2>4. k \in 1..n + 1
    BY <1>2, <1>4
  <2> QED
    BY <1>4, <1>6, <2>1, <2>2, <2>3, <2>4
<1>9. LiveCursors = live
  BY DEF LiveCursors, live, below, n
<1> QED
  BY <1>1, <1>4, <1>5, <1>7, <1>8, <1>9 DEF Builder!IInv

LEMMA EnvTypes ==
  ASSUME NEW e, WellEnv(e)
  PROVE  IsEnv(e)
BY BindingFacts, TyFacts DEF WellEnv, IsEnv, IsBinding

LEMMA ShapeTypes ==
  ASSUME NEW s, WellShape(s)
  PROVE  IsShape(s)
BY TyFacts DEF WellShape, IsShape

LEMMA BuilderProperties ==
  TypesInv => CB!TypeOK /\ CB!VarsMatchPath /\ CB!PointersValid /\ CB!ScopesNested
<1>1. TypesInv => Builder!TypeOK /\ Builder!VarsMatchPath /\ Builder!PointersValid /\ Builder!ScopesNested
  BY BuilderInvariant, Builder!InvTypes, Builder!InvStack, Builder!InvPointers, Builder!InvScopes
<1>2. \A p : Builder!PredVars(p) = CB!PredVars(p)
  BY DEF Builder!PredVars, CB!PredVars
<1>3. Builder!TypeOK => CB!TypeOK
  BY <1>2 DEF Builder!TypeOK, CB!TypeOK, Builder!IsBuilder, CB!IsBuilder, Builder!IsNode, CB!IsNode,
     Builder!Cursor, CB!Cursor, Builder!Name, CB!Name
<1>4. Builder!VarsMatchPath => CB!VarsMatchPath
  BY DEF Builder!VarsMatchPath, CB!VarsMatchPath
<1>5. Builder!PointersValid => CB!PointersValid
  BY DEF Builder!PointersValid, CB!PointersValid
<1>6. Builder!ScopesNested => CB!ScopesNested
  BY DEF Builder!ScopesNested, CB!ScopesNested
<1> QED
  BY <1>1, <1>3, <1>4, <1>5, <1>6

LEMMA InvariantTypes == TypesInv => TypeOK
<1> SUFFICES ASSUME TypesInv PROVE TypeOK
  OBVIOUS
<1>1. CB!TypeOK
  BY BuilderProperties
<1>2. IsEnv(env) /\ \A k \in DOMAIN frames : IsEnv(frames[k].env)
  <2>1. DOMAIN frames = 1..Len(frames)
    BY LenProperties DEF TypesInv, ControlTypes
  <2>2. \A k \in DOMAIN frames : WellEnv(frames[k].env)
    BY <2>1 DEF TypesInv, RunTypes, WellFrames, WellFrame
  <2> QED
    BY <2>2, StFacts, EnvTypes
<1>3. \A k \in DOMAIN frames : frames[k].bb \in Blocks /\ frames[k].next \in Nat \ {0}
  BY LenProperties DEF TypesInv, ControlTypes, IsFrame
<1>4. /\ DOMAIN bb_envs \subseteq Blocks /\ \A bb \in DOMAIN bb_envs : IsEnv(bb_envs[bb])
      /\ DOMAIN shapes \subseteq Blocks /\ \A bb \in DOMAIN shapes : IsShape(shapes[bb])
  BY EnvTypes, ShapeTypes DEF TypesInv, WellEnvs, WellShapes
<1>5. /\ mode \in {"Inference", "Check", "Done", "Err"}
      /\ pc \in {"goto", "terminator", "return", "loop", "end"}
      /\ visited \subseteq Blocks /\ cur \in Blocks /\ target \in Blocks
      /\ pos \in 0..Len(body.rpo) /\ order \in Orders
  <2>1. Len(body.rpo) \in Nat
    BY OrderFacts, LenProperties DEF TypesInv, ControlTypes
  <2> QED
    BY <2>1 DEF TypesInv, ControlTypes, WalkTypes
<1> QED
  BY <1>1, <1>2, <1>3, <1>4, <1>5 DEF TypeOK

(* The inductive invariant: every type, binding, environment and shape the *)
(* checker has is well formed, with names like those the builder gives,    *)
(* and the cursors suspended by the running switches are borrowed in turn. *)
THEOREM TypesInvariant == Spec => []TypesInv
BY InitTypes, StepTypes, PTL DEF Spec

(* Type correctness of the whole checker, of the builder it writes included*)
(* (checker.rs, type_env.rs and constraint_builder.rs together).           *)
THEOREM TypeCorrect == Spec => []TypeOK
BY TypesInvariant, InvariantTypes, PTL

(* While check_terminator takes the branches of a switch with a snapshot   *)
(* each, the shared stack of variables is right for the running cursor and *)
(* for those of the switches around it (checker.rs:331).                   *)
THEOREM StackMatchesPath == Spec => []CB!VarsMatchPath
BY TypesInvariant, BuilderProperties, PTL

(* No node pointer of the running cursor, or of one a switch suspended and *)
(* will use again, is dangling (the unsafe dereferences of                 *)
(* constraint_builder.rs), whatever the function is.                       *)
THEOREM CursorsNotDangling == Spec => []CB!PointersValid
BY TypesInvariant, BuilderProperties, PTL

(* The scopes of those cursors are nested and within their variables, so   *)
(* that the kvars the checker makes range over what is bound.              *)
THEOREM CursorScopesNested == Spec => []CB!ScopesNested
BY TypesInvariant, BuilderProperties, PTL
=============================================================================
