-------------------------- MODULE BlockWalkProofs --------------------------
(***************************************************************************)
(* The safety properties of BlockWalk, proved for every set of well-formed *)
(* bodies.  The inductive invariant says what the recursion of check_goto  *)
(* still owes: a target of a checked block is checked, or waits in         *)
(* bb_envs, or is among the branches a pending switch will take.           *)
(***************************************************************************)
EXTENDS BlockWalk, SequenceTheorems, TLAPS

Targets(bb) == Term(bb).targets

(* Branch i of the switch at bb is still to be taken.                      *)
PendingBranch(bb, i) ==
    \E k \in 1..Len(frames) : frames[k].bb = bb /\ frames[k].next <= i

(* The types, and what the program counter says of the other variables.    *)
ControlInv ==
    /\ TypeOK
    /\ body \in Bodies
    /\ pos <= Len(body.rpo)
    /\ \A k \in 1..Len(frames) :
          /\ frames[k].bb \in visited
          /\ frames[k].next \in 1..Len(Targets(frames[k].bb))
          /\ \A l \in 1..Len(frames) : frames[k].bb = frames[l].bb => k = l
    /\ pc = "terminator" =>
          /\ cur \in visited
          /\ \A k \in 1..Len(frames) : frames[k].bb # cur
    /\ pc = "loop" => frames = <<>>
    /\ mode = "Done" => pc = "end" /\ pos = Len(body.rpo)
    /\ mode = "Err" => pc = "end"

(* Who has an environment: exactly join points, each before its body is    *)
(* checked; in the Check phase those that have none still have a shape.    *)
JoinInv ==
    /\ \A bb \in bb_envs \union shapes : Join(bb)
    /\ \A bb \in visited : Join(bb) => bb \in bb_envs
    /\ shapes \intersect bb_envs = {}
    /\ mode = "Inference" => shapes = {}
    /\ mode = "Check" => \A bb \in Blocks : Join(bb) => bb \in bb_envs \union shapes

(* What the walk owes.                                                     *)
OwedInv ==
    /\ \A i \in 1..pos : body.rpo[i] \in visited
    /\ Running => START \in visited \union bb_envs \/ (pc = "goto" /\ target = START)
    /\ Running => \A bb \in visited : \A i \in 1..Len(Targets(bb)) :
          \/ Targets(bb)[i] \in visited \union bb_envs
          \/ pc = "goto" /\ target = Targets(bb)[i]
          \/ pc = "terminator" /\ cur = bb
          \/ PendingBranch(bb, i)

(* The one edge to a checked block that is no join point is behind the walk*)
(* and the one edge to such a block that is a goto's target is in no frame.*)
OnceInv ==
    /\ \A bb \in Blocks : \A i \in 1..Len(Targets(bb)) :
          ~Join(Targets(bb)[i]) /\ Targets(bb)[i] \in visited =>
              /\ bb \in visited
              /\ ~(pc = "terminator" /\ cur = bb)
              /\ ~PendingBranch(bb, i)
    /\ pc = "goto" /\ ~Join(target) =>
          /\ target \notin visited
          /\ \A bb \in Blocks : \A i \in 1..Len(Targets(bb)) :
                Targets(bb)[i] = target => bb \in visited /\ ~PendingBranch(bb, i)

(* A block whose terminator has not run to its end comes no earlier in the *)
(* order than any join point already checked.                              *)
OrderInv ==
    \A j \in visited : Join(j) =>
        \A bb \in Blocks :
            \/ bb \notin visited
            \/ pc \in {"goto", "terminator"} /\ cur = bb
            \/ \E k \in 1..Len(frames) : frames[k].bb = bb
            => NotAfter(j, bb)

IInv == ControlInv /\ JoinInv /\ OwedInv /\ OnceInv /\ OrderInv
-----------------------------------------------------------------------------
(* Facts about one body.                                                   *)

(* What WellFormed says of the body being checked.                         *)
LEMMA BodyFacts ==
    ASSUME ControlInv
    PROVE  /\ START \in Blocks
           /\ body \in BodyType
           /\ body.rpo \in Seq(Blocks)
           /\ Len(body.rpo) \in Nat
           /\ Len(body.rpo) > 0 /\ body.rpo[1] = START
           /\ \A bb \in Blocks : /\ Targets(bb) \in Seq(Blocks)
                                 /\ Len(Targets(bb)) \in Nat
                                 /\ \A i \in 1..Len(Targets(bb)) : Targets(bb)[i] \in Blocks
           /\ \A bb \in Blocks : \E i \in 1..Len(body.rpo) : body.rpo[i] = bb
  <1>1. body \in Bodies
    BY DEF ControlInv
  <1>2. WellFormed(body) /\ START \in Blocks
    BY <1>1, BlockWalkAssumption
  <1>3. body \in BodyType /\ IsWalkOrder(body, body.rpo)
    BY <1>2 DEF WellFormed
  <1>4. /\ body.rpo \in Seq(Blocks)
        /\ body.term \in [Blocks -> [kind : TerminatorKind, targets : Seq(Blocks)]]
    BY <1>3 DEF BodyType
  <1>5. \A bb \in Blocks : Targets(bb) \in Seq(Blocks)
    BY <1>4 DEF Targets, Term
  <1>6. \A bb \in Blocks : /\ Len(Targets(bb)) \in Nat
                          /\ \A i \in 1..Len(Targets(bb)) : Targets(bb)[i] \in Blocks
    BY <1>5
  <1>7. /\ \A bb \in Blocks : \E i \in 1..Len(body.rpo) : body.rpo[i] = bb
        /\ Len(body.rpo) > 0 /\ body.rpo[1] = START
    BY <1>3 DEF IsWalkOrder
  <1>8. Len(body.rpo) \in Nat
    BY <1>4
  <1> QED
    BY <1>2, <1>3, <1>4, <1>5, <1>6, <1>7, <1>8

(* The branches of a block are blocks.                                     *)
LEMMA BranchIndex ==
    ASSUME ControlInv, NEW bb \in Blocks, NEW i \in 1..Len(Targets(bb))
    PROVE  /\ Len(Targets(bb)) \in Nat
           /\ i \in Nat /\ 1 <= i /\ i <= Len(Targets(bb))
           /\ Targets(bb)[i] \in Blocks
  <1>1. Len(Targets(bb)) \in Nat /\ Targets(bb)[i] \in Blocks
    BY BodyFacts
  <1> QED
    BY <1>1

(* A block with one incoming edge, and START_BLOCK with none, is no join   *)
(* point: two occurrences of it as a target are the same occurrence.       *)
LEMMA OneEdge ==
    ASSUME ControlInv,
           NEW b \in Blocks, NEW i \in 1..Len(Targets(b)),
           NEW c \in Blocks, NEW j \in 1..Len(Targets(c)),
           Targets(b)[i] = Targets(c)[j], ~Join(Targets(b)[i])
    PROVE  b = c /\ i = j /\ Targets(b)[i] # START
  <1> DEFINE t == Targets(b)[i]
  <1>1. /\ Targets(b) \in Seq(Blocks) /\ Targets(c) \in Seq(Blocks)
    BY BodyFacts
  <1>2. i \in DOMAIN body.term[b].targets /\ j \in DOMAIN body.term[c].targets
    BY <1>1 DEF Targets, Term
  <1>3. <<b, i>> \in Edges(body) /\ <<c, j>> \in Edges(body)
    BY <1>2 DEF Edges
  <1>4. <<b, i>> \in Predecessors(body, t) /\ <<c, j>> \in Predecessors(body, t)
    BY <1>3 DEF Predecessors, Target, Targets, Term
  <1>5. ~(t = START \/ <<b, i>> # <<c, j>>)
    BY <1>4 DEF Join, IsJoinPoint
  <1> QED
    BY <1>5

(* A block other than START_BLOCK is a target of an earlier block of the   *)
(* order.                                                                  *)
LEMMA EarlierPredecessor ==
    ASSUME ControlInv, NEW n \in 2..Len(body.rpo)
    PROVE  \E m \in 1..(n - 1) : \E i \in 1..Len(Targets(body.rpo[m])) :
              Targets(body.rpo[m])[i] = body.rpo[n]
  <1>1. IsWalkOrder(body, body.rpo) /\ body.rpo \in Seq(Blocks)
    BY BlockWalkAssumption, BodyFacts DEF ControlInv, WellFormed
  <1>2. PICK m \in 1..(n - 1) : \E e \in Predecessors(body, body.rpo[n]) : e[1] = body.rpo[m]
    BY <1>1 DEF IsWalkOrder
  <1>3. PICK e \in Predecessors(body, body.rpo[n]) : e[1] = body.rpo[m]
    BY <1>2
  <1>4. e \in Edges(body) /\ Target(body, e) = body.rpo[n]
    BY <1>3 DEF Predecessors
  <1>5. PICK b \in Blocks : e \in {<<b, i>> : i \in DOMAIN body.term[b].targets}
    BY <1>4 DEF Edges
  <1>6. PICK i \in DOMAIN body.term[b].targets : e = <<b, i>>
    BY <1>5
  <1>7. b = body.rpo[m] /\ e[2] = i
    BY <1>3, <1>6
  <1>8. i \in 1..Len(Targets(b)) /\ Targets(b)[i] = body.rpo[n]
    <2>1. Targets(b) \in Seq(Blocks)
      BY BodyFacts
    <2> QED
      BY <2>1, <1>4, <1>6, <1>7, SMTT(30) DEF Target, Targets, Term
  <1> QED
    BY <1>2, <1>7, <1>8
-----------------------------------------------------------------------------
(* What a goto to a successor does to the frames.                          *)

(* The walk still has to follow branch i of bb.                            *)
Owes(bb, i) == (pc = "terminator" /\ cur = bb) \/ PendingBranch(bb, i)

(* The terminator of bb has not run to its end.                            *)
Busy(bb) ==
    \/ bb \notin visited
    \/ pc \in {"goto", "terminator"} /\ cur = bb
    \/ \E k \in 1..Len(frames) : frames[k].bb = bb

(* Branch i of bb, which was owed, becomes the pending goto; nothing else  *)
(* changes what is owed.                                                   *)
Follows(bb, i) ==
    /\ Owes(bb, i)
    /\ pc' = "goto" /\ cur' = bb /\ target' = Targets(bb)[i]
    /\ \A c \in Blocks : \A j \in 1..Len(Targets(c)) :
          PendingBranch(c, j)' <=> Owes(c, j) /\ ~(c = bb /\ j = i)
    /\ \A c \in Blocks : Busy(c)' => Busy(c)
    /\ UNCHANGED <<body, mode, visited, bb_envs, shapes, pos>>

Successor == OneSuccessor \/ CheckSwitchInt \/ NextBranch

(* The frames after a switch takes branch i of bb, entry by entry.         *)
LEMMA FramesAfterBranch ==
    ASSUME ControlInv, NEW bb \in Blocks, NEW i \in 1..Len(Targets(bb)),
           NEW rest \in Seq(Frame), TakeBranch(bb, i, rest)
    PROVE  /\ frames' \in Seq(Frame)
           /\ \A k \in 1..Len(rest) : frames'[k] = rest[k]
           /\ i = Len(Targets(bb)) => Len(frames') = Len(rest)
           /\ i < Len(Targets(bb)) =>
                 /\ Len(frames') = Len(rest) + 1
                 /\ frames'[Len(rest) + 1] = [bb |-> bb, next |-> i + 1]
  <1>1. Len(Targets(bb)) \in Nat /\ i \in Nat
    BY BodyFacts
  <1>2. frames' = IF i < Len(Targets(bb))
                  THEN Append(rest, [bb |-> bb, next |-> i + 1]) ELSE rest
    BY DEF TakeBranch, Targets
  <1>3. [bb |-> bb, next |-> i + 1] \in Frame
    BY <1>1 DEF Frame
  <1>4. CASE i < Len(Targets(bb))
    <2> DEFINE f == [bb |-> bb, next |-> i + 1]
    <2> HIDE DEF f
    <2>1. frames' = Append(rest, f) /\ f \in Frame
      BY <1>2, <1>3, <1>4 DEF f
    <2>2. /\ Append(rest, f) \in Seq(Frame)
          /\ Len(Append(rest, f)) = Len(rest) + 1
          /\ \A k \in 1..Len(rest) : Append(rest, f)[k] = rest[k]
          /\ Append(rest, f)[Len(rest) + 1] = f
      BY <2>1
    <2>3. ~(i = Len(Targets(bb)))
      BY <1>1, <1>4
    <2> QED
      BY <2>1, <2>2, <2>3 DEF f
  <1>5. CASE i = Len(Targets(bb))
    BY <1>1, <1>2, <1>5
  <1> QED
    BY <1>1, <1>4, <1>5

(* The frames stay distinct switches, each with a branch left.             *)
LEMMA FramesShape ==
    ASSUME ControlInv, NEW bb \in Blocks, NEW i \in 1..Len(Targets(bb)),
           NEW rest \in Seq(Frame), TakeBranch(bb, i, rest), bb \in visited,
           \A k \in 1..Len(rest) :
              /\ rest[k].bb # bb /\ rest[k].bb \in visited
              /\ rest[k].next \in 1..Len(Targets(rest[k].bb))
              /\ \A l \in 1..Len(rest) : rest[k].bb = rest[l].bb => k = l
    PROVE  /\ frames' \in Seq(Frame)
           /\ \A k \in 1..Len(frames') :
                 /\ frames'[k].bb \in visited
                 /\ frames'[k].next \in 1..Len(Targets(frames'[k].bb))
                 /\ \A l \in 1..Len(frames') : frames'[k].bb = frames'[l].bb => k = l
  <1> DEFINE n == Len(rest)
             f == [bb |-> bb, next |-> i + 1]
  <1>1. n \in Nat
    OBVIOUS
  <1>2. Len(Targets(bb)) \in Nat /\ i \in Nat /\ i <= Len(Targets(bb))
    BY BranchIndex
  <1>3. /\ frames' \in Seq(Frame)
        /\ \A k \in 1..n : frames'[k] = rest[k]
        /\ i = Len(Targets(bb)) => Len(frames') = n
        /\ i < Len(Targets(bb)) => Len(frames') = n + 1 /\ frames'[n + 1] = f
    BY FramesAfterBranch
  <1>4. CASE i = Len(Targets(bb))
    BY <1>3, <1>4
  <1>5. CASE i < Len(Targets(bb))
    <2>1. 1..Len(frames') = 1..n \union {n + 1} /\ n + 1 \notin 1..n
      BY <1>1, <1>3, <1>5
    <2>2. f.bb = bb /\ f.next \in 1..Len(Targets(bb))
      BY <1>2, <1>5
    <2> HIDE DEF f
    <2> QED
      BY <1>3, <1>5, <2>1, <2>2
  <1> QED
    BY <1>2, <1>4, <1>5

(* The innermost frame, and the ones below it.                             *)
LEMMA TopFrame ==
    ASSUME ControlInv, frames # <<>>
    PROVE  LET n == Len(frames)
               rest == SubSeq(frames, 1, n - 1)
           IN  /\ n \in Nat \ {0}
               /\ frames[n].bb \in Blocks
               /\ frames[n].bb \in visited
               /\ frames[n].next \in 1..Len(Targets(frames[n].bb))
               /\ rest \in Seq(Frame)
               /\ Len(rest) = n - 1
               /\ \A k \in 1..(n - 1) : rest[k] = frames[k]
  <1>1. frames \in Seq(Frame)
    BY DEF ControlInv, TypeOK
  <1>2. Len(frames) \in Nat \ {0} /\ frames[Len(frames)] \in Frame
    BY <1>1
  <1>3. LET n == Len(frames)
            rest == SubSeq(frames, 1, n - 1)
        IN  /\ rest \in Seq(Frame) /\ Len(rest) = n - 1
            /\ \A k \in 1..(n - 1) : rest[k] = frames[k]
    <2> DEFINE n == Len(frames)
    <2>1. n \in Nat /\ n - 1 \in Int /\ \A k \in 1..(n - 1) : frames[k] \in Frame
      BY <1>1, <1>2
    <2>2. /\ SubSeq(frames, 1, n - 1) \in Seq(Frame)
          /\ Len(SubSeq(frames, 1, n - 1)) = IF 1 <= n - 1 THEN (n - 1) - 1 + 1 ELSE 0
          /\ \A k \in 1..((n - 1) - 1 + 1) : SubSeq(frames, 1, n - 1)[k] = frames[1 + k - 1]
      BY <2>1, SubSeqProperties
    <2>3. Len(SubSeq(frames, 1, n - 1)) = n - 1
      <3>1. n \in Nat \ {0} /\ (n - 1) - 1 + 1 = n - 1 /\ (1 <= n - 1 \/ n - 1 = 0)
        <4>1. n \in Nat /\ n # 0
          BY <1>2
        <4> HIDE DEF n
        <4> QED
          BY <4>1
      <3> QED
        BY <2>2, <3>1
    <2>4. ASSUME NEW k \in 1..(n - 1)
          PROVE  SubSeq(frames, 1, n - 1)[k] = frames[k]
      <3>1. k \in 1..((n - 1) - 1 + 1) /\ 1 + k - 1 = k
        BY <2>1
      <3> QED
        BY <2>2, <3>1
    <2> QED
      BY <2>2, <2>3, <2>4
  <1>4. /\ frames[Len(frames)].bb \in visited
        /\ frames[Len(frames)].next \in 1..Len(Targets(frames[Len(frames)].bb))
    BY <1>2 DEF ControlInv
  <1> QED
    BY <1>2, <1>3, <1>4 DEF Frame

(* Taking branch i of the switch at bb above the frames rest, when what is *)
(* owed is the branches of bb from i on and those of rest.                 *)
LEMMA BranchFollows ==
    ASSUME ControlInv, NEW bb \in Blocks, NEW i \in 1..Len(Targets(bb)),
           NEW rest \in Seq(Frame), TakeBranch(bb, i, rest),
           UNCHANGED <<body, mode, visited, bb_envs, shapes, pos>>,
           \A k \in 1..Len(rest) : rest[k].bb # bb,
           \A c \in Blocks : \A j \in 1..Len(Targets(c)) :
              Owes(c, j) <=> \/ c = bb /\ i <= j
                             \/ \E k \in 1..Len(rest) : rest[k].bb = c /\ rest[k].next <= j,
           Busy(bb), \A k \in 1..Len(rest) : Busy(rest[k].bb)
    PROVE  Follows(bb, i)
  <1> DEFINE n == Len(rest)
             f == [bb |-> bb, next |-> i + 1]
  <1>1. /\ Len(Targets(bb)) \in Nat /\ i \in Nat /\ n \in Nat
        /\ i < Len(Targets(bb)) \/ i = Len(Targets(bb))
    <2>1. n \in Nat
      OBVIOUS
    <2>2. Len(Targets(bb)) \in Nat /\ i \in Nat /\ i <= Len(Targets(bb))
      BY BranchIndex
    <2> QED
      BY <2>1, <2>2
  <1>2. pc' = "goto" /\ cur' = bb /\ target' = Targets(bb)[i]
    BY DEF TakeBranch, Targets
  <1>3. /\ \A k \in 1..n : frames'[k] = rest[k]
        /\ i = Len(Targets(bb)) => Len(frames') = n
        /\ i < Len(Targets(bb)) => Len(frames') = n + 1 /\ frames'[n + 1] = f
    BY FramesAfterBranch
  <1> HIDE DEF f, n
  <1>4. /\ i = Len(Targets(bb)) => 1..Len(frames') = 1..n
        /\ i < Len(Targets(bb)) => 1..Len(frames') = 1..n \union {n + 1}
    BY <1>1, <1>3
  <1>5. f.bb = bb /\ f.next = i + 1
    BY DEF f
  <1>6. ASSUME NEW c \in Blocks, NEW j \in 1..Len(Targets(c))
        PROVE  PendingBranch(c, j)' <=> Owes(c, j) /\ ~(c = bb /\ j = i)
    <2>1. j \in Nat /\ (c = bb => j <= Len(Targets(bb)))
      BY BranchIndex
    <2>2. Owes(c, j) <=> \/ c = bb /\ i <= j
                         \/ \E k \in 1..n : rest[k].bb = c /\ rest[k].next <= j
      BY DEF n
    <2>3. \A k \in 1..n : rest[k].bb # bb
      BY DEF n
    <2>4. PendingBranch(c, j)' <=>
             \/ i < Len(Targets(bb)) /\ c = bb /\ i + 1 <= j
             \/ \E k \in 1..n : rest[k].bb = c /\ rest[k].next <= j
      <3>1. CASE i < Len(Targets(bb))
        BY <1>1, <1>3, <1>4, <1>5, <3>1, SMTT(30) DEF PendingBranch
      <3>2. CASE i = Len(Targets(bb))
        BY <1>1, <1>3, <1>4, <3>2, SMTT(30) DEF PendingBranch
      <3> QED
        BY <1>1, <3>1, <3>2
    <2> QED
      BY <1>1, <2>1, <2>2, <2>3, <2>4
  <1>7. \A c \in Blocks : Busy(c)' => Busy(c)
    <2>1. \A k \in 1..Len(frames') : frames'[k].bb = bb \/ \E l \in 1..n : frames'[k].bb = rest[l].bb
      BY <1>1, <1>3, <1>4, <1>5
    <2>2. \A l \in 1..n : Busy(rest[l].bb)
      BY DEF n
    <2>3. ASSUME NEW c \in Blocks, Busy(c)' PROVE Busy(c)
      <3>1. CASE c \notin visited'
        BY <3>1 DEF Busy
      <3>2. CASE cur' = c
        BY <3>2, <1>2
      <3>3. CASE \E k \in 1..Len(frames') : frames'[k].bb = c
        BY <3>3, <2>1, <2>2
      <3> QED
        BY <2>3, <3>1, <3>2, <3>3 DEF Busy
    <2> QED
      BY <2>3
  <1>8. Owes(bb, i)
    BY <1>1
  <1> QED
    BY <1>2, <1>6, <1>7, <1>8 DEF Follows

(* Each of the three ways to a successor follows one owed branch.          *)
LEMMA SuccessorFollows ==
    ASSUME ControlInv, Successor
    PROVE  \E bb \in Blocks : \E i \in 1..Len(Targets(bb)) : Follows(bb, i)
  <1>1. CASE OneSuccessor
    <2>1. cur \in Blocks /\ Len(Targets(cur)) = 1 /\ 1 \in 1..Len(Targets(cur))
      BY <1>1 DEF OneSuccessor, ControlInv, TypeOK, Targets
    <2>2. \A j \in 1..Len(Targets(cur)) : j = 1 /\ ~PendingBranch(cur, j)
      BY <1>1, <2>1 DEF OneSuccessor, ControlInv, PendingBranch
    <2>3. UNCHANGED <<frames, body>> /\ pc' = "goto" /\ pc = "terminator" /\ cur' = cur
      BY <1>1 DEF OneSuccessor
    <2>4. \A c \in Blocks : \A j \in 1..Len(Targets(c)) :
            PendingBranch(c, j)' <=> Owes(c, j) /\ ~(c = cur /\ j = 1)
      BY <2>2, <2>3 DEF PendingBranch, Owes
    <2>5. Follows(cur, 1)
      BY <1>1, <2>3, <2>4 DEF Follows, Owes, Busy, OneSuccessor, Targets
    <2> QED
      BY <2>1, <2>5
  <1>2. CASE CheckSwitchInt
    <2>1. /\ TakeBranch(cur, 1, frames) /\ pc = "terminator" /\ frames \in Seq(Frame)
          /\ UNCHANGED <<body, mode, visited, bb_envs, shapes, pos>>
          /\ cur \in Blocks /\ body \in Bodies /\ Term(cur).kind = "SwitchInt"
      BY <1>2 DEF CheckSwitchInt, ControlInv, TypeOK
    <2>2. Len(Targets(cur)) > 0
      BY <2>1, BlockWalkAssumption DEF WellFormed, Targets, Term
    <2>3. Len(Targets(cur)) \in Nat /\ 1 \in 1..Len(Targets(cur))
      BY <2>1, <2>2, BodyFacts
    <2>4. \A k \in 1..Len(frames) : frames[k].bb # cur
      BY <2>1 DEF ControlInv
    <2>5. ASSUME NEW c \in Blocks, NEW j \in 1..Len(Targets(c))
          PROVE  Owes(c, j) <=> \/ c = cur /\ 1 <= j
                                \/ \E k \in 1..Len(frames) : frames[k].bb = c /\ frames[k].next <= j
      <3>1. j \in Nat /\ 1 <= j
        BY BranchIndex
      <3> QED
        BY <2>1, <3>1 DEF Owes, PendingBranch
    <2>6. Busy(cur) /\ \A k \in 1..Len(frames) : Busy(frames[k].bb)
      BY <2>1 DEF Busy
    <2>7. Follows(cur, 1)
      BY <2>1, <2>3, <2>4, <2>5, <2>6, BranchFollows
    <2> QED
      BY <2>1, <2>3, <2>7
  <1>3. CASE NextBranch
    <2> DEFINE n    == Len(frames)
               rest == SubSeq(frames, 1, n - 1)
               bb   == frames[n].bb
               i    == frames[n].next
    <2>1. /\ n \in Nat \ {0} /\ bb \in Blocks /\ i \in 1..Len(Targets(bb))
          /\ rest \in Seq(Frame) /\ Len(rest) = n - 1
          /\ \A k \in 1..(n - 1) : rest[k] = frames[k]
      BY <1>3, TopFrame DEF NextBranch
    <2>2. /\ TakeBranch(bb, i, rest) /\ pc = "return"
          /\ UNCHANGED <<body, mode, visited, bb_envs, shapes, pos>>
      BY <1>3 DEF NextBranch
    <2>3. \A k \in 1..Len(rest) : rest[k].bb # bb
      <3>1. \A k, l \in 1..n : frames[k].bb = frames[l].bb => k = l
        BY DEF ControlInv
      <3>2. \A k \in 1..(n - 1) : k \in 1..n /\ n \in 1..n /\ k # n
        BY <2>1
      <3> QED
        BY <2>1, <3>1, <3>2
    <2>4. 1..n = 1..Len(rest) \union {n}
      BY <2>1
    <2>5. ASSUME NEW c \in Blocks, NEW j \in 1..Len(Targets(c))
          PROVE  Owes(c, j) <=> \/ c = bb /\ i <= j
                                \/ \E k \in 1..Len(rest) : rest[k].bb = c /\ rest[k].next <= j
      <3>1. Owes(c, j) <=> \E k \in 1..n : frames[k].bb = c /\ frames[k].next <= j
        BY <2>2 DEF Owes, PendingBranch
      <3> QED
        BY <2>1, <2>4, <3>1
    <2>6. Busy(bb) /\ \A k \in 1..Len(rest) : Busy(rest[k].bb)
      BY <2>1, <2>4 DEF Busy
    <2>7. Follows(bb, i)
      <3> HIDE DEF rest, bb, i
      <3> QED
        BY <2>1, <2>2, <2>3, <2>5, <2>6, BranchFollows, ZenonT(30)
    <2> QED
      BY <2>1, <2>7
  <1> QED
    BY <1>1, <1>2, <1>3 DEF Successor
-----------------------------------------------------------------------------
(* Every step keeps the invariant.                                         *)

(* The walk starts in the invariant.                                       *)
LEMMA InitInv ==
    Init => IInv
  <1> SUFFICES ASSUME Init PROVE IInv
    OBVIOUS
  <1>1. ControlInv
    <2>1. TypeOK /\ body \in Bodies
      BY BlockWalkAssumption DEF Init, TypeOK, Modes
    <2>2. Len(body.rpo) > 0 /\ body.rpo \in Seq(Blocks)
      BY <2>1, BlockWalkAssumption DEF WellFormed, IsWalkOrder, BodyType
    <2>3. pos <= Len(body.rpo)
      BY <2>2 DEF Init
    <2> QED
      BY <2>1, <2>3 DEF Init, ControlInv
  <1>2. JoinInv
    BY DEF Init, JoinInv
  <1>3. OwedInv
    BY DEF Init, OwedInv
  <1>4. OnceInv
    <2>1. ~Join(START) => \A bb \in Blocks : \A i \in 1..Len(Targets(bb)) : Targets(bb)[i] # START
      BY <1>1, OneEdge
    <2> QED
      BY <2>1 DEF Init, OnceInv, PendingBranch
  <1>5. OrderInv
    BY DEF Init, OrderInv
  <1> QED
    BY <1>1, <1>2, <1>3, <1>4, <1>5 DEF IInv

(* A goto to a block with one incoming edge.                               *)
LEMMA GotoBlockInv ==
    ASSUME IInv, GotoBlock
    PROVE  IInv'
  <1> USE DEF IInv
  <1>1. /\ pc = "goto" /\ ~Join(target) /\ target \in Blocks /\ Running
        /\ visited' = visited \union {target} /\ pc' = "terminator" /\ cur' = target
        /\ UNCHANGED <<body, mode, bb_envs, shapes, frames, pos, target>>
    BY DEF GotoBlock, CheckBasicBlock, ControlInv, TypeOK
  <1>2. target \notin visited
    BY <1>1 DEF OnceInv
  <1>3. \A c \in Blocks : Targets(c)' = Targets(c) /\ (Join(c)' <=> Join(c))
    BY <1>1 DEF Targets, Term, Join
  <1>4. \A c, i : PendingBranch(c, i)' <=> PendingBranch(c, i)
    BY <1>1 DEF PendingBranch
  <1>5. ControlInv'
    <2>1. TypeOK'
      BY <1>1 DEF ControlInv, TypeOK
    <2>2. \A k \in 1..Len(frames) : frames[k].bb # target
      BY <1>2 DEF ControlInv
    <2>3. mode # "Done" /\ mode # "Err"
      BY <1>1 DEF Running
    <2>4. \A k \in 1..Len(frames) : frames[k].bb \in Blocks
      BY DEF ControlInv, TypeOK
    <2> QED
      BY <1>1, <1>3, <2>1, <2>2, <2>3, <2>4 DEF ControlInv
  <1>6. JoinInv'
    BY <1>1, <1>3 DEF JoinInv, ControlInv, TypeOK
  <1>7. OwedInv'
    <2>1. visited \subseteq Blocks
      BY DEF ControlInv, TypeOK
    <2>2. \A i \in 1..pos' : body'.rpo[i] \in visited'
      BY <1>1 DEF OwedInv
    <2>3. START \in visited' \union bb_envs'
      BY <1>1 DEF OwedInv
    <2>4. ASSUME NEW c \in visited', NEW i \in 1..Len(Targets(c)')
          PROVE  \/ Targets(c)'[i] \in visited' \union bb_envs'
                 \/ pc' = "terminator" /\ cur' = c
                 \/ PendingBranch(c, i)'
      BY <1>1, <1>3, <1>4, <2>1 DEF OwedInv
    <2> QED
      BY <2>2, <2>3, <2>4 DEF OwedInv
  <1>8. OnceInv'
    <2>1. ASSUME NEW c \in Blocks, NEW i \in 1..Len(Targets(c)),
                 ~Join(Targets(c)[i]), Targets(c)[i] \in visited'
          PROVE  c \in visited' /\ c # target /\ ~PendingBranch(c, i)
      BY <1>1, <1>2, <2>1 DEF OnceInv
    <2> QED
      BY <1>1, <1>3, <1>4, <2>1, BranchIndex DEF OnceInv
  <1>9. OrderInv'
    <2>1. \A j \in visited' : Join(j)' => j \in visited /\ Join(j)
      BY <1>1 DEF Join
    <2>2. \A c \in Blocks : Busy(c)' => Busy(c)
      BY <1>1, <1>2 DEF Busy
    <2>3. \A j, c : NotAfter(j, c)' <=> NotAfter(j, c)
      BY <1>1 DEF NotAfter
    <2> QED
      BY <2>1, <2>2, <2>3 DEF OrderInv, Busy
  <1> QED
    BY <1>5, <1>6, <1>7, <1>8, <1>9

(* A goto to a join point, in either phase.                                *)
LEMMA GotoJoinInv ==
    ASSUME IInv, GotoJoinInfer \/ GotoJoinCheckFirst \/ GotoJoinCheckAgain
    PROVE  IInv'
  <1> USE DEF IInv
  <1>1. /\ pc = "goto" /\ Join(target) /\ target \in Blocks /\ pc' = "return"
        /\ mode \in {"Inference", "Check"}
        /\ bb_envs' = bb_envs \union {target}
        /\ UNCHANGED <<body, mode, visited, frames, pos, cur, target>>
    BY DEF GotoJoinInfer, GotoJoinCheckFirst, GotoJoinCheckAgain, ControlInv, TypeOK
  <1>2. shapes' \subseteq shapes /\ shapes \subseteq Blocks
    BY DEF GotoJoinInfer, GotoJoinCheckFirst, GotoJoinCheckAgain, ControlInv, TypeOK
  <1>3. \A c \in Blocks : Targets(c)' = Targets(c) /\ (Join(c)' <=> Join(c))
    BY <1>1 DEF Targets, Term, Join
  <1>4. \A c, i : PendingBranch(c, i)' <=> PendingBranch(c, i)
    BY <1>1 DEF PendingBranch
  <1>5. bb_envs \subseteq Blocks /\ visited \subseteq Blocks
    BY DEF ControlInv, TypeOK
  <1>6. ControlInv'
    <2>1. TypeOK'
      BY <1>1, <1>2 DEF ControlInv, TypeOK
    <2>2. \A k \in 1..Len(frames) : frames[k].bb \in Blocks
      BY DEF ControlInv, TypeOK
    <2> QED
      BY <1>1, <1>3, <2>1, <2>2 DEF ControlInv
  <1>7. JoinInv'
    <2>1. \A bb \in bb_envs' \union shapes' : Join(bb)'
      BY <1>1, <1>2, <1>3, <1>5 DEF JoinInv
    <2>2. \A bb \in visited' : Join(bb)' => bb \in bb_envs'
      BY <1>1, <1>3, <1>5 DEF JoinInv
    <2>3. CASE GotoJoinInfer
      <3>1. mode = "Inference" /\ shapes = {} /\ shapes' = {}
        BY <2>3 DEF GotoJoinInfer, JoinInv
      <3> QED
        BY <1>1, <2>1, <2>2, <3>1 DEF JoinInv
    <2>4. CASE GotoJoinCheckFirst
      <3>1. mode = "Check" /\ shapes' = shapes \ {target}
        BY <2>4 DEF GotoJoinCheckFirst
      <3> QED
        BY <1>1, <1>3, <2>1, <2>2, <3>1 DEF JoinInv
    <2>5. CASE GotoJoinCheckAgain
      <3>1. mode = "Check" /\ shapes' = shapes /\ target \in bb_envs
        BY <2>5 DEF GotoJoinCheckAgain
      <3> QED
        BY <1>1, <1>3, <2>1, <2>2, <3>1 DEF JoinInv
    <2> QED
      BY <2>3, <2>4, <2>5
  <1>8. OwedInv'
    BY <1>1, <1>3, <1>4, <1>5 DEF OwedInv, Running
  <1>9. OnceInv'
    BY <1>1, <1>3, <1>4, BranchIndex DEF OnceInv
  <1>10. OrderInv'
    <2>1. \A c \in Blocks : Busy(c)' => Busy(c)
      BY <1>1 DEF Busy
    <2>2. \A j, c : NotAfter(j, c)' <=> NotAfter(j, c)
      BY <1>1 DEF NotAfter
    <2> QED
      BY <1>1, <1>3, <1>5, <2>1, <2>2 DEF OrderInv, Busy
  <1> QED
    BY <1>6, <1>7, <1>8, <1>9, <1>10

(* A goto, drop or call with a destination, or a branch of a switch.       *)
LEMMA SuccessorInv ==
    ASSUME IInv, Successor
    PROVE  IInv'
  <1> USE DEF IInv
  <1>1. PICK bb \in Blocks : \E i \in 1..Len(Targets(bb)) : Follows(bb, i)
    BY SuccessorFollows
  <1>2. PICK i \in 1..Len(Targets(bb)) : Follows(bb, i)
    BY <1>1
  <1>3. /\ Owes(bb, i)
        /\ pc' = "goto" /\ cur' = bb /\ target' = Targets(bb)[i]
        /\ UNCHANGED <<body, mode, visited, bb_envs, shapes, pos>>
        /\ pc # "goto"
    BY <1>2 DEF Follows, Successor, OneSuccessor, CheckSwitchInt, NextBranch
  <1>4. \A c \in Blocks : Targets(c)' = Targets(c) /\ (Join(c)' <=> Join(c))
    BY <1>3 DEF Targets, Term, Join
  <1>5. \A c \in Blocks : \A j \in 1..Len(Targets(c)) :
          PendingBranch(c, j)' <=> Owes(c, j) /\ ~(c = bb /\ j = i)
    BY <1>2 DEF Follows
  <1>6. target' \in Blocks /\ Running
    BY <1>3, BranchIndex DEF Successor, OneSuccessor, CheckSwitchInt, NextBranch
  <1>7. visited \subseteq Blocks
    BY DEF ControlInv, TypeOK
  <1>8. JoinInv'
    BY <1>3, <1>4 DEF JoinInv, ControlInv, TypeOK
  <1>9. OwedInv'
    <2>1. \A n \in 1..pos' : body'.rpo[n] \in visited'
      BY <1>3 DEF OwedInv
    <2>2. START \in visited' \union bb_envs'
      BY <1>3, <1>6 DEF OwedInv
    <2>3. ASSUME NEW c \in visited', NEW j \in 1..Len(Targets(c)')
          PROVE  \/ Targets(c)'[j] \in visited' \union bb_envs'
                 \/ pc' = "goto" /\ target' = Targets(c)'[j]
                 \/ PendingBranch(c, j)'
      BY <1>3, <1>4, <1>5, <1>6, <1>7 DEF OwedInv, Owes
    <2> QED
      BY <2>1, <2>2, <2>3 DEF OwedInv
  <1>10. OnceInv'
    <2>1. \A c \in Blocks : \A j \in 1..Len(Targets(c)) :
            ~Join(Targets(c)[j]) /\ Targets(c)[j] \in visited =>
               c \in visited /\ ~Owes(c, j)
      BY DEF OnceInv, Owes
    <2>2. ASSUME ~Join(target')
          PROVE  /\ target' \notin visited
                 /\ \A c \in Blocks : \A j \in 1..Len(Targets(c)) :
                       Targets(c)[j] = target' => c \in visited /\ ~PendingBranch(c, j)'
      <3>1. target' \notin visited
        BY <1>3, <2>1, <2>2
      <3>2. bb \in visited
        BY <1>3 DEF Owes, PendingBranch, ControlInv
      <3>3. \A c \in Blocks : \A j \in 1..Len(Targets(c)) :
              Targets(c)[j] = target' => c = bb /\ j = i
        BY <1>3, <2>2, OneEdge
      <3> QED
        BY <1>5, <3>1, <3>2, <3>3
    <2> QED
      BY <1>3, <1>4, <1>5, <1>6, <2>1, <2>2, BranchIndex DEF OnceInv
  <1>11. OrderInv'
    <2>1. \A c \in Blocks : Busy(c)' => Busy(c)
      BY <1>2 DEF Follows
    <2>2. \A j, c : NotAfter(j, c)' <=> NotAfter(j, c)
      BY <1>3 DEF NotAfter
    <2> QED
      BY <1>3, <1>4, <1>7, <2>1, <2>2 DEF OrderInv, Busy
  <1>12. ControlInv'
    <2>1. /\ frames' \in Seq(Frame)
          /\ \A k \in 1..Len(frames') :
                /\ frames'[k].bb \in visited
                /\ frames'[k].next \in 1..Len(Targets(frames'[k].bb))
                /\ \A l \in 1..Len(frames') : frames'[k].bb = frames'[l].bb => k = l
      <3>1. CASE OneSuccessor
        BY <3>1 DEF OneSuccessor, ControlInv, TypeOK
      <3>2. CASE CheckSwitchInt
        <4>1. /\ TakeBranch(cur, 1, frames) /\ frames \in Seq(Frame) /\ cur \in visited
              /\ \A k \in 1..Len(frames) : frames[k].bb # cur
          BY <3>2 DEF CheckSwitchInt, ControlInv, TypeOK
        <4>2. cur = bb /\ target' = Targets(cur)[1]
          BY <1>3, <4>1 DEF TakeBranch, Targets
        <4>3. 1 \in 1..Len(Targets(cur))
          <5>1. Len(Targets(cur)) > 0 /\ cur \in Blocks
            BY <3>2, BlockWalkAssumption DEF CheckSwitchInt, ControlInv, TypeOK, WellFormed, Targets, Term
          <5> QED
            BY <5>1, BodyFacts
        <4> QED
          BY <4>1, <4>3, <1>7, FramesShape DEF ControlInv
      <3>3. CASE NextBranch
        <4> DEFINE n    == Len(frames)
                   rest == SubSeq(frames, 1, n - 1)
                   top  == frames[n]
        <4>1. /\ n \in Nat \ {0} /\ top.bb \in Blocks /\ top.bb \in visited
              /\ top.next \in 1..Len(Targets(top.bb))
              /\ rest \in Seq(Frame) /\ Len(rest) = n - 1
              /\ \A k \in 1..(n - 1) : rest[k] = frames[k]
          BY <3>3, TopFrame DEF NextBranch
        <4>2. TakeBranch(top.bb, top.next, rest)
          BY <3>3 DEF NextBranch
        <4>3. \A k \in 1..(n - 1) : k \in 1..n /\ n \in 1..n /\ k # n
          BY <4>1
        <4>4. /\ \A k \in 1..n : /\ frames[k].bb \in visited
                                /\ frames[k].next \in 1..Len(Targets(frames[k].bb))
                                /\ \A l \in 1..n : frames[k].bb = frames[l].bb => k = l
          BY DEF ControlInv
        <4>5. \A k \in 1..Len(rest) :
                /\ rest[k].bb # top.bb /\ rest[k].bb \in visited
                /\ rest[k].next \in 1..Len(Targets(rest[k].bb))
                /\ \A l \in 1..Len(rest) : rest[k].bb = rest[l].bb => k = l
          BY <4>1, <4>3, <4>4
        <4> HIDE DEF rest, top
        <4> QED
          BY <4>1, <4>2, <4>5, FramesShape
      <3> QED
        BY <3>1, <3>2, <3>3 DEF Successor
    <2>2. TypeOK'
      BY <1>3, <1>6, <2>1 DEF ControlInv, TypeOK
    <2>3. (\A k \in 1..Len(frames) :
              /\ frames[k].bb \in visited
              /\ frames[k].next \in 1..Len(Targets(frames[k].bb))
              /\ \A l \in 1..Len(frames) : frames[k].bb = frames[l].bb => k = l)'
      BY <1>3, <2>1 DEF Targets, Term
    <2>4. (body \in Bodies /\ pos <= Len(body.rpo))' /\ mode # "Done" /\ mode # "Err"
      BY <1>3, <1>6 DEF ControlInv, Running
    <2> QED
      BY <1>3, <2>2, <2>3, <2>4 DEF ControlInv
  <1> QED
    BY <1>8, <1>9, <1>10, <1>11, <1>12

(* The end of a terminator, and the steps of the loop of run that check no *)
(* block.                                                                  *)
LEMMA ReturnInv ==
    ASSUME IInv, NoSuccessor \/ CallError \/ ReturnToRun \/ RunSkip \/ EndCheck
    PROVE  IInv'
  <1> USE DEF IInv
  <1>1. UNCHANGED <<body, visited, bb_envs, shapes, frames, cur, target>>
    BY DEF NoSuccessor, CallError, ReturnToRun, RunSkip, EndCheck
  <1>2. /\ pc' \in {"return", "loop", "end"}
        /\ pc # "goto" /\ (pc = "terminator" => NoSuccessor \/ CallError)
    BY DEF NoSuccessor, CallError, ReturnToRun, RunSkip, EndCheck
  <1>3. /\ pos' \in Nat /\ pos' <= Len(body.rpo)
        /\ \A i \in 1..pos' : body.rpo[i] \in visited
    <2>1. /\ pos \in Nat /\ pos <= Len(body.rpo) /\ Len(body.rpo) \in Nat
          /\ \A i \in 1..pos : body.rpo[i] \in visited
      BY BodyFacts DEF ControlInv, TypeOK, OwedInv
    <2>2. CASE RunSkip
      <3>1. pos' = pos + 1 /\ pos < Len(body.rpo) /\ body.rpo[pos + 1] \in visited
        BY <2>2 DEF RunSkip
      <3>2. 1..(pos + 1) = 1..pos \union {pos + 1}
        BY <2>1
      <3> QED
        BY <2>1, <3>1, <3>2
    <2>3. CASE NoSuccessor \/ CallError \/ ReturnToRun \/ EndCheck
      BY <2>1, <2>3 DEF NoSuccessor, CallError, ReturnToRun, EndCheck
    <2> QED
      BY <2>2, <2>3
  <1>4. /\ mode' \in Modes
        /\ mode' = "Inference" => mode = "Inference"
        /\ mode' = "Check" => mode = "Check"
        /\ mode' = "Done" => pc' = "end" /\ pos' = Len(body.rpo)
        /\ mode' = "Err" => pc' = "end"
        /\ pc' = "loop" => frames = <<>>
    BY DEF NoSuccessor, CallError, ReturnToRun, RunSkip, EndCheck,
           ControlInv, TypeOK, Modes, Running
  <1>5. \A c \in Blocks : Targets(c)' = Targets(c) /\ (Join(c)' <=> Join(c))
    BY <1>1 DEF Targets, Term, Join
  <1>6. \A c, i : PendingBranch(c, i)' <=> PendingBranch(c, i)
    BY <1>1 DEF PendingBranch
  <1>7. bb_envs \subseteq Blocks /\ visited \subseteq Blocks /\ shapes \subseteq Blocks
    BY DEF ControlInv, TypeOK
  <1>8. ControlInv'
    <2>1. TypeOK'
      BY <1>1, <1>2, <1>3, <1>4 DEF ControlInv, TypeOK
    <2>2. \A k \in 1..Len(frames) : frames[k].bb \in Blocks
      BY DEF ControlInv, TypeOK
    <2> QED
      BY <1>1, <1>2, <1>3, <1>4, <1>5, <2>1, <2>2 DEF ControlInv
  <1>9. JoinInv'
    BY <1>1, <1>4, <1>5, <1>7 DEF JoinInv
  <1>10. OwedInv'
    <2>1. Running' => Running
      BY <1>4 DEF Running
    <2>2. (\A i \in 1..pos : body.rpo[i] \in visited)'
      BY <1>1, <1>3
    <2>3. Running' => START \in visited \union bb_envs
      BY <1>2, <2>1 DEF OwedInv
    <2>4. ASSUME Running', NEW c \in visited, NEW i \in 1..Len(Targets(c))
          PROVE  Targets(c)[i] \in visited \union bb_envs \/ PendingBranch(c, i)
      <3>1. pc = "terminator" => Len(Targets(c)) = 0 \/ c # cur
        BY <1>2, <2>4 DEF NoSuccessor, CallError, Running, Targets
      <3> QED
        BY <1>2, <1>7, <2>1, <2>4, <3>1, BranchIndex DEF OwedInv
    <2> QED
      BY <1>1, <1>5, <1>6, <1>7, <2>2, <2>3, <2>4 DEF OwedInv
  <1>11. OnceInv'
    BY <1>1, <1>2, <1>5, <1>6, BranchIndex DEF OnceInv
  <1>12. OrderInv'
    <2>1. \A c \in Blocks : Busy(c)' => Busy(c)
      BY <1>1, <1>2 DEF Busy
    <2>2. \A j, c : NotAfter(j, c)' <=> NotAfter(j, c)
      BY <1>1 DEF NotAfter
    <2> QED
      BY <1>1, <1>5, <1>7, <2>1, <2>2 DEF OrderInv, Busy
  <1> QED
    BY <1>8, <1>9, <1>10, <1>11, <1>12

(* The loop of run takes a join point whose body was not checked.          *)
LEMMA RunBlockInv ==
    ASSUME IInv, RunBlock
    PROVE  IInv'
  <1> USE DEF IInv
  <1> DEFINE bb == body.rpo[pos + 1]
  <1>1. /\ pc = "loop" /\ pos < Len(body.rpo) /\ bb \notin visited /\ bb \in bb_envs
        /\ visited' = visited \union {bb} /\ pc' = "terminator" /\ cur' = bb
        /\ pos' = pos + 1 /\ Running
        /\ UNCHANGED <<body, mode, bb_envs, shapes, frames, target>>
    BY DEF RunBlock, CheckBasicBlock
  <1>2. bb \in Blocks /\ Join(bb) /\ frames = <<>> /\ visited \subseteq Blocks
    BY <1>1 DEF ControlInv, TypeOK, JoinInv
  <1>3. pos \in Nat /\ Len(body.rpo) \in Nat
    BY BodyFacts DEF ControlInv, TypeOK
  <1>4. \A c \in Blocks : Targets(c)' = Targets(c) /\ (Join(c)' <=> Join(c))
    BY <1>1 DEF Targets, Term, Join
  <1>5. \A c, i : ~PendingBranch(c, i) /\ ~PendingBranch(c, i)'
    BY <1>1, <1>2 DEF PendingBranch
  <1>6. \A i \in 1..pos' : body.rpo[i] \in visited'
    <2>1. 1..(pos + 1) = 1..pos \union {pos + 1}
      BY <1>3
    <2> QED
      BY <1>1, <2>1 DEF OwedInv
  <1>7. ControlInv'
    <2>1. TypeOK'
      BY <1>1, <1>2, <1>3 DEF ControlInv, TypeOK
    <2>2. pos' <= Len(body.rpo) /\ mode # "Done" /\ mode # "Err"
      BY <1>1, <1>3 DEF Running
    <2> HIDE DEF bb
    <2> QED
      BY <1>1, <1>2, <2>1, <2>2 DEF ControlInv
  <1>8. JoinInv'
    <2> HIDE DEF bb
    <2> QED
      BY <1>1, <1>2, <1>4 DEF JoinInv, ControlInv, TypeOK
  <1>9. OwedInv'
    <2>1. ASSUME NEW c \in visited, NEW i \in 1..Len(Targets(c))
          PROVE  Targets(c)[i] \in visited \union bb_envs
      BY <1>1, <1>5 DEF OwedInv
    <2>2. START \in visited \union bb_envs
      BY <1>1 DEF OwedInv
    <2>3. (\A i \in 1..pos : body.rpo[i] \in visited)'
      BY <1>1, <1>6
    <2> HIDE DEF bb
    <2>4. ASSUME NEW c \in visited', NEW i \in 1..Len(Targets(c)')
          PROVE  \/ Targets(c)'[i] \in visited' \union bb_envs'
                 \/ pc' = "terminator" /\ cur' = c
      BY <1>1, <1>2, <1>4, <2>1
    <2> QED
      BY <1>1, <2>2, <2>3, <2>4 DEF OwedInv
  <1>10. OnceInv'
    <2> HIDE DEF bb
    <2>1. ASSUME NEW c \in Blocks, NEW i \in 1..Len(Targets(c)),
                 ~Join(Targets(c)[i]), Targets(c)[i] \in visited'
          PROVE  c \in visited' /\ c # bb
      BY <1>1, <1>2, <2>1 DEF OnceInv
    <2> QED
      BY <1>1, <1>4, <1>5, <2>1, BranchIndex DEF OnceInv
  <1>11. OrderInv'
    <2>1. \A c \in Blocks : Busy(c)' => Busy(c)
      BY <1>1, <1>2 DEF Busy
    <2>2. \A j, c : NotAfter(j, c)' <=> NotAfter(j, c)
      BY <1>1 DEF NotAfter
    <2>3. ASSUME NEW c \in Blocks, c \notin visited PROVE NotAfter(bb, c)
      <3>1. PICK k \in 1..Len(body.rpo) : body.rpo[k] = c
        BY BodyFacts
      <3>2. ~(k <= pos)
        BY <1>3, <2>3, <3>1 DEF OwedInv
      <3>3. pos + 1 \in 1..Len(body.rpo) /\ pos + 1 <= k
        BY <1>1, <1>3, <3>2
      <3> QED
        BY <3>1, <3>3 DEF NotAfter
    <2>4. \A c \in Blocks : Busy(c)' => c \notin visited
      BY <1>1, <1>2 DEF Busy
    <2> HIDE DEF bb
    <2> QED
      BY <1>1, <1>2, <1>4, <2>1, <2>2, <2>3, <2>4 DEF OrderInv, Busy
  <1> QED
    BY <1>7, <1>8, <1>9, <1>10, <1>11

(* When the loop has drawn the whole order every block was checked.        *)
LEMMA WholeOrder ==
    ASSUME IInv, pos = Len(body.rpo)
    PROVE  visited = Blocks
  <1>1. \A bb \in Blocks : \E i \in 1..pos : body.rpo[i] = bb
    BY BodyFacts DEF IInv
  <1>2. visited \subseteq Blocks /\ \A i \in 1..pos : body.rpo[i] \in visited
    BY DEF IInv, OwedInv, ControlInv, TypeOK
  <1> QED
    BY <1>1, <1>2

(* The second phase starts like the first, with a shape for every join     *)
(* point.                                                                  *)
LEMMA EndInferenceInv ==
    ASSUME IInv, EndInference
    PROVE  IInv'
  <1> USE DEF IInv
  <1>1. /\ mode' = "Check" /\ shapes' = bb_envs /\ visited' = {} /\ bb_envs' = {}
        /\ frames' = <<>> /\ pos' = 0 /\ pc' = "goto" /\ cur' = START /\ target' = START
        /\ UNCHANGED body /\ visited = Blocks
    BY WholeOrder DEF EndInference
  <1>2. START \in Blocks /\ Len(body.rpo) \in Nat
    BY BodyFacts
  <1>3. \A c \in Blocks : Targets(c)' = Targets(c) /\ (Join(c)' <=> Join(c))
    BY <1>1 DEF Targets, Term, Join
  <1>4. bb_envs \subseteq Blocks
    BY DEF ControlInv, TypeOK
  <1>5. ControlInv'
    <2>1. TypeOK'
      BY <1>1, <1>2, <1>4 DEF ControlInv, TypeOK, Modes
    <2> QED
      BY <1>1, <1>2, <2>1 DEF ControlInv
  <1>6. JoinInv'
    BY <1>1, <1>3, <1>4 DEF JoinInv
  <1>7. OwedInv'
    BY <1>1 DEF OwedInv
  <1>8. OnceInv'
    <2>1. ~Join(START) => \A c \in Blocks : \A i \in 1..Len(Targets(c)) : Targets(c)[i] # START
      BY OneEdge
    <2> QED
      BY <1>1, <1>2, <1>3, <2>1 DEF OnceInv, PendingBranch
  <1>9. OrderInv'
    BY <1>1 DEF OrderInv
  <1> QED
    BY <1>5, <1>6, <1>7, <1>8, <1>9

(* A finished check stutters.                                              *)
LEMMA StutterInv ==
    ASSUME IInv, UNCHANGED vars
    PROVE  IInv'
  BY DEF IInv, ControlInv, TypeOK, JoinInv, OwedInv, OnceInv, OrderInv, vars,
         Targets, Term, Join, Running, PendingBranch, NotAfter

(* IInv: what the recursion of check_goto and the loop of run owe each     *)
(* other, at every step of both phases.                                    *)
THEOREM InductiveInvariant ==
    Spec => []IInv
  <1>1. Init => IInv
    BY InitInv
  <1>2. IInv /\ [Next]_vars => IInv'
    <2> SUFFICES ASSUME IInv, [Next]_vars PROVE IInv'
      OBVIOUS
    <2>1. CASE GotoBlock
      BY <2>1, GotoBlockInv
    <2>2. CASE GotoJoinInfer \/ GotoJoinCheckFirst \/ GotoJoinCheckAgain
      BY <2>2, GotoJoinInv
    <2>3. CASE OneSuccessor \/ CheckSwitchInt \/ NextBranch
      BY <2>3, SuccessorInv DEF Successor
    <2>4. CASE NoSuccessor \/ CallError \/ ReturnToRun \/ RunSkip \/ EndCheck
      BY <2>4, ReturnInv
    <2>5. CASE RunBlock
      BY <2>5, RunBlockInv
    <2>6. CASE EndInference
      BY <2>6, EndInferenceInv
    <2>7. CASE Terminated \/ UNCHANGED vars
      BY <2>7, StutterInv DEF Terminated
    <2> QED
      BY <2>1, <2>2, <2>3, <2>4, <2>5, <2>6, <2>7
      DEF Next, Step, Goto, CheckTerminator, Return, Loop
  <1> QED
    BY <1>1, <1>2, PTL DEF Spec

-----------------------------------------------------------------------------
(* The properties.                                                         *)

(* An unchecked block that the loop of run reaches has a checked           *)
(* predecessor, and nothing is owed any more: it has an environment.       *)
LEMMA BbEnvFromInv ==
    IInv => BbEnvPresent
  <1> SUFFICES ASSUME IInv, Running, pc = "loop", pos < Len(body.rpo)
               PROVE  body.rpo[pos + 1] \in visited \union bb_envs
    BY DEF BbEnvPresent
  <1>1. /\ ControlInv /\ pos \in Nat /\ Len(body.rpo) \in Nat /\ body.rpo[1] = START
        /\ visited \subseteq Blocks /\ frames = <<>>
    BY BodyFacts DEF IInv, ControlInv, TypeOK
  <1>2. CASE pos = 0
    BY <1>1, <1>2 DEF IInv, OwedInv
  <1>3. CASE pos # 0
    <2>1. pos + 1 \in 2..Len(body.rpo)
      BY <1>1, <1>3
    <2>2. PICK m \in 1..((pos + 1) - 1) : \E i \in 1..Len(Targets(body.rpo[m])) :
             Targets(body.rpo[m])[i] = body.rpo[pos + 1]
      BY <1>1, <2>1, EarlierPredecessor
    <2>3. m \in 1..pos
      BY <1>1
    <2>4. body.rpo[m] \in visited
      BY <2>3 DEF IInv, OwedInv
    <2>5. \A c, i : ~PendingBranch(c, i)
      BY <1>1 DEF PendingBranch
    <2> QED
      BY <2>2, <2>4, <2>5 DEF IInv, OwedInv
  <1> QED
    BY <1>2, <1>3

(* At the end of the order everything is checked and accounted for.        *)
LEMMA AllCheckedFromInv ==
    IInv => AllChecked
  <1> SUFFICES ASSUME IInv, mode = "Done" \/ (Running /\ pc = "loop" /\ pos = Len(body.rpo))
               PROVE  /\ visited = Blocks
                      /\ bb_envs = {bb \in Blocks : Join(bb)}
                      /\ shapes = {}
    BY DEF AllChecked
  <1>1. visited = Blocks
    BY WholeOrder DEF IInv, ControlInv
  <1> QED
    BY <1>1 DEF IInv, JoinInv, ControlInv, TypeOK

(* BbEnvPresent: the lookup of self.bb_envs[&bb] in run never panics.      *)
THEOREM BbEnvAlwaysPresent ==
    Spec => []BbEnvPresent
  BY InductiveInvariant, BbEnvFromInv, PTL

(* ShapePresent: the unwrap of shapes.remove(&target) never panics.        *)
THEOREM ShapeAlwaysPresent ==
    Spec => []ShapePresent
  <1>1. IInv => ShapePresent
    BY DEF IInv, JoinInv, ShapePresent, ControlInv, TypeOK
  <1> QED
    BY <1>1, InductiveInvariant, PTL

(* CheckedOnce: the recursion never enters a block a second time.          *)
THEOREM BlocksCheckedOnce ==
    Spec => []CheckedOnce
  <1>1. IInv => CheckedOnce
    BY DEF IInv, OnceInv, CheckedOnce
  <1> QED
    BY <1>1, InductiveInvariant, PTL

(* AllChecked: no block escapes a phase that ends without an error.        *)
THEOREM EveryBlockChecked ==
    Spec => []AllChecked
  BY InductiveInvariant, AllCheckedFromInv, PTL

(* LateJoinRetreats: only a loop joins into the environment of a block     *)
(* that was already checked.                                               *)
THEOREM LateJoinsRetreat ==
    Spec => []LateJoinRetreats
  <1>1. IInv => LateJoinRetreats
    BY DEF IInv, OrderInv, LateJoinRetreats, ControlInv, TypeOK
  <1> QED
    BY <1>1, InductiveInvariant, PTL

(* TypeOK.                                                                 *)
THEOREM TypeCorrect ==
    Spec => []TypeOK
  <1>1. IInv => TypeOK
    BY DEF IInv, ControlInv
  <1> QED
    BY <1>1, InductiveInvariant, PTL
=============================================================================
