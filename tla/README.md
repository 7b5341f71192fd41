# Liquid Rust: specifications and proofs

TLA+ specifications of `liquid-rust`, a refinement type checker for Rust that
runs as a rustc driver. The modules are translated from the source under
`src/`; `PROJECT.json` names, for every definition, the lines it stands for.

To check a run: `tlc -workers 2 -config <run>.cfg <module>.tla`. To check the
proofs: `tlapm <module>.tla` for `InductionProofs`, `BlockWalkProofs`,
`CheckerProofs`, `ConstraintBuilderProofs`, `PipelineProofs`, `InternerProofs`,
`DisjointSetsProofs` and `SignatureProofs`.

## The system

The parts of the tool, in the order a run goes through them:

| Component | State it keeps | Operations | Talks to |
|---|---|---|---|
| `liquid-rust`, `driver::run_compiler` | arguments | run rustc with callbacks, return the exit status | rustc |
| `driver::collector` (SpecCollector) | `specs`, `error_reported` | visit items, parse `lr` attributes | lexer and parser, the session |
| `driver::callbacks` (check_crate) | two collections of results | resolve and sort every signature, then check every body | resolver, Wf, MIR lowering, typeck |
| `driver::resolve` (Resolver) | scopes of variables, regions, type parameters; a name generator | one per section and form of type or expression | rustc's name resolution, the session |
| `core::wf` (Wf) | one map of sorts per signature | check types, predicates, expressions | the session |
| `driver::lowering` | none | MIR to `core::ir` | rustc's MIR |
| `core::ir` (Body) | the body, its dominators and join points | reverse postorder, `is_join_point` | rustc's graph algorithms |
| `typeck::lib`, `global_env` | the signatures | `check`: infer, check, solve | Checker, fixpoint |
| `typeck::checker` (Checker) | `visited`, `bb_envs`, `mode` with the shapes, per call an environment and a cursor | the walk: run, check_goto, check_switch_int, check_call, statements | all below |
| `typeck::type_env` (TypeEnv) | types of locations, with levels | read, write, move, join, infer_bb_env, transform, unpack | cursor |
| `typeck::constraint_builder` | the tree of nodes, stacks of variables and scopes, kvars | cursor operations: push, snapshot, fresh kvars, subtyping; into_fixpoint | raw pointers from each live cursor into the tree |
| `typeck::lowering` (Subst) | instances of names, locations, type parameters | infer from a call, lower types and expressions | TypeEnv, cursor |
| `typeck::intern` (Interned) | a global sharded map, a reference count per object | new, clone, drop | threads share it |
| `fixpoint` | a child process and two pipes | spawn, write, wait, parse | the `fixpoint` executable |
| `common::disjoint_sets` | `parent`, `size`, `next`, `map` | push, find, union, merge | nothing yet |
| `common::iter` | an accumulator | collect every error and go on | all stages |
| lexer, parser, AST, pretty printing, formatting | none worth a model | | |

What is hard in it:

- **The order of the walk.** A block is entered by the recursion of
  `check_goto`, or, if it is a join point, by the loop of `run` after all gotos
  that come before it in reverse postorder. Whether every index into
  `bb_envs` and every `unwrap` of a shape is safe, and whether each block is
  checked once, depends on how the two agree over every control-flow graph. The
  second phase depends in addition on what the first has left.
- **Shared stacks under nested cursors.** Snapshots share the stacks of
  variables and scopes of one builder and overwrite what lies above their own
  count, and hold raw pointers into growing vectors.
- **Environments that go stale.** An environment is joined into a join point
  that is already checked when the function has a loop. A reference to one of two
  locations, a write through it and a call that changes what it refers to change
  what the environment may say of the others.
- **A verdict three stages away.** What the types say becomes a tree of
  implications under whichever cursor was at hand, then a query with fresh
  variables, then text; only the answer comes back.
- **Signatures.** Names pass through two scopes, two substitutions and one map
  of sorts that is never cleaned. Most of the failures of a call are panics.
- **Threads.** The interner decides without a lock whether a handle is the last.
- **Errors as side effects.** The result of `check_crate` is dropped; the exit
  status depends on whether each failure told the session. The fixpoint process
  can die at any point of the conversation.

`PROJECT.json` lists these as hazards, each at its line.

### What makes each component correct

- Walk: every index is there, every block is checked exactly once per phase, the
  walk ends.
- Checker and TypeEnv: a function whose constraint is safe does not go wrong when
  it runs; nothing panics; the constraint is closed; what the environments say of
  aliases is so; what two paths disagree on is inferred.
- Query: what fixpoint reads says what the constraint says.
- ConstraintBuilder: each live cursor sees exactly the binders on its path, kvars
  range over them only, no pointer dangles.
- Signature: what is accepted is closed and well sorted; after inference a call
  cannot fail; the environment of the caller stays closed.
- Interner: pointer equality is structural equality; nothing in use is removed,
  what is unused is.
- Pipeline: success means verified, of what is read; no error hides another; the run
  ends.
- DisjointSets: it is a partition with an element per class.

## Modules

`MirBody` is shared. The checker is in layers, each of which EXTENDS the one
before: `Types`, `Constraint`, `TypeEnv`, `Calls`, then the state machine
`Checker`, and `Soundness`, which adds `Execution`, `Meaning` and `Query` to judge
it. `Checker` INSTANCEs `ConstraintBuilder` and implements `BlockWalk`;
`DisjointSets` implements `Partition`. `Signature`, `Interner` and `Pipeline` stand
alone: `Pipeline` takes what the others do as a choice of success, error or panic.

### MirBody

`core::ir::Body`: terminators and their targets, predecessors, join points (more
than one predecessor edge, with the start counting one), dominators, and what
rustc guarantees of the lowered MIR (`WellFormed`): the order starts with the
start block, has every block once, and is an order in which a depth-first walk
leaves them (`IsWalkOrder`).

### BlockWalk, BlockWalkProofs

The control of `Checker` without types. `frames` is the recursion: an entry for
each `check_switch_int` with branches left; every other call of `check_goto` is a
tail call. One action for each way a handler goes: `CheckBasicBlock`, `GotoBlock`,
`GotoJoinInfer`, `GotoJoinCheckFirst`, `GotoJoinCheckAgain`, `OneSuccessor`,
`NoSuccessor`, `CheckSwitchInt`, `NextBranch`, `ReturnToRun`, `RunSkip`,
`RunBlock`, `CallError`, and the ends of the two phases. An `unwrap` or an index
is a guard of its action, and that it always holds is a property.

### Types, Constraint, ConstraintBuilder, ConstraintBuilderProofs

`Types` has expressions as terms with their free variables, predicates (an
expression, or a kvar with its arguments), the five kinds of types and the
locations. `Constraint` has the operations of a cursor as functions of a builder
`b` (nodes, stacks of variables and scopes, kvars, next name) and a cursor `c`
(node, number of variables, number of scopes), the predicates included.
`ConstraintBuilder` is the machine that does any sequence of them under nested
snapshots.

### TypeEnv, Calls, Checker, CheckerProofs

The functions of `TypeEnv` work on a record `st`: builder, cursor, environment,
iteration order of the hash map, and the panic that ended the program if there was
one. Every `unwrap`, index, assertion, `unreachable!` and `todo!` of the code that
the types of the model can come to is such a panic, and `NeverPanics` is a property.
A weak reference (`Ref`) is unpacked to a strong one at the block it reaches, to an
abstract location bound weakly.

`Calls` instantiates signatures: `InferFromFnCall`, `Apply` and `WriteDestination`
for a call, `Enter` for the start of a definition, `Leave` for its returns.

The loops of the code over locations, arguments, kvars and the items of a signature
are folds (`Fold`, a recursive function, so that proofs can unfold it), with an
operator of their own for the body of each loop (`UnpackLoc`, `JoinLoc`, `InferLoc`,
`TransformLoc`, `RefreshKVar`, `Ensure` and so on).

`CheckerAssumption` says of a body what rustc and `core::ir` guarantee (`IsBody`):
places are locals, operators have their operands, a call has as many arguments as
the signature of its callee; and of a signature what `Signature` shows of the
accepted ones (`IsFnSig`): its types and predicates are over the names it declares,
a parameter in scope from its own predicate on.

`Checker` is `BlockWalk` with the environment of each join point, the shapes, and
the running environment, cursor and builder; statements are run whole
(`CheckStatements`) at the start of a block, as the code does. Values are ints,
booleans and references to values. There are two or three operators of each form.
The walk that it implements is `BW`: the bodies without their statements
(`Skeleton`), the domains of the environments and of the shapes, and of the frames
those with a branch left (`WalkFrames`), since the loop of `check_switch_int` ends
with its last branch without a step of its own.

### Initialized, Execution, Meaning, Query, Soundness

What the checker promises is about three things outside `src/`: what rustc
guarantees of a body (`Initialized`: nothing is read that may be uninitialized),
what the compiled function does (`Execution`: memory, aliases, calls that do
anything their signature allows), and what the solver answers (`Meaning`: the least
solution of the kvars, over the ints modulo a prime). They are modelled from how
`src/` uses them and marked external. The solver is taken at its strongest: it finds
the least solution over all sets of values, so a constraint that the model refuses
is refused by any set of qualifiers, and one it accepts is accepted by the best set;
`Sound` and `QueryFaithful` do not depend on how good the qualifiers are.

`Query` is `into_fixpoint`, with the fresh variables for arguments of kvars, and the
text of expressions with a parser for it. `Soundness` states `Sound` (safe
constraint, no run goes wrong), `AliasesTrue` and `QueryFaithful`.

### Signature, SignatureProofs

The way of a signature: `ResolveParam` ... `ResolveRet` read it item by item (each
item a choice from a small set), `CheckFnSig` sorts it, and `Call`,
`InferFromFnCall`, `LowerCall`, `Ensure`, `WriteDestination` call it. `Err` is any
reported error; "panicked", "ambiguous" (the `todo!`) and "undetermined" (the
`unwrap` at lowering.rs:53) are the ways it can panic.

Syntax is given by sets of terms up to `MaxDepth`: what the parser makes
(`SurfaceExprs`, `SurfaceTypes`), what the resolver makes of it (`CoreExprs`,
`CoreTypes`), and the types of a caller (`CallerTypes`), which are twice as deep once
the values of a caller are put for parameters. The code's functions on terms are
recursive functions on these sets; a scope, a map of sorts or a substitution that is
built item by item is a recursive function on the number of items.
`SignatureAssumption` says that the items are such terms, that the environment of
the caller is closed, with types that mention only locations it binds (what
`EnvClosed` shows every call to keep), and that the operands have types of it.

### Pipeline, PipelineProofs

The functions of a crate are of three sets: `ItemFns`, free functions and those of
impls, whose attributes the collector reads (`Collect`); `TraitFns`, methods that a
trait provides with a body, and `BodilessFns`, methods it requires and functions of
extern blocks, which it passes over with whatever attributes they have (`PassOver`:
`visit_trait_item` and `visit_foreign_item` are empty). Closures, and items that are no
functions, are not visited or not read either and are left out. `SuccessMeansVerified`
is about `ItemFns` only: a crate whose trait provides a method with a signature is
accepted without that method being verified.

Then the ends of the stages, one action per item of a stage, `typeck::check` step by
step, and the fixpoint process as an environment that answers after the end of its
input or dies whenever it wants.

### Interner, InternerProofs

One `pc` per thread; `lookup` under the lock of a shard, `drop` without it,
`drop_slow` with it. Objects have a label and at most one child, so dropping one
may drop another. Addresses are reused.

### DisjointSets, Partition, DisjointSetsProofs

`Partition` is the promise: classes of indices with an element each.
`DisjointSets` is the forest with sizes, the cyclic lists of members and the path
compression of `find`. `Classes`, what the iterators list from the roots, and
`Value`, what `map` has at the root of each, are the mapping to `Partition`. The
recursions (`Path`, `SetFrom`, the loop of `merge_with`) are recursive functions in
both modules, so that the proofs can unfold them.

The modules that start with `MC` give the constants their values; `MCFunctions` has
the words in which functions are written. Operators that a comment calls a mutant
are wrong variants of the definition after them; they are not used by any
specification, and `PROJECT.json` pairs each with the property that finds it.

## Runs

| Run | Instance | Shows |
|---|---|---|
| walk | every control-flow graph of 4 blocks with at most 2 targets, fair | `BbEnvPresent`, `ShapePresent` (no panic), `CheckedOnce`, `AllChecked`, `LateJoinRetreats`, `Termination` |
| builder | 4 nodes, 3 live cursors, 2 scopes, 1 kvar | `VarsMatchPath`, `PointersValid`, `ScopesNested`, `KVarInScope` |
| checker | 2923 functions of 4 blocks over the return place and one argument | `NeverPanics`, `ConstraintClosed`, `DifferencesInferred`, `Sound`, and that it implements `BlockWalk` |
| references | 575 functions of 7 blocks with references, each in both orders of the hash map | `NeverPanics`, `Sound`, `AliasesTrue`, `QueryFaithful` |
| right_scope | one function of 8 blocks | `RightScope` is violated: finding 1 |
| weak_read | one function of 4 blocks | `Sound` is violated: finding 3 |
| signature | signatures of up to 4 items over 5 forms of parameter, 14 of required location, 12 of argument, 10 of ensured location, 5 of return; 7 operands | `AcceptedIsWellFormed`, `CallsLower`, `EnvClosed` |
| undetermined_location | as above with 2 items | `UndeterminedIsReported` is violated: finding 2 |
| pipeline | 2 functions and a method of a trait, with up to 2 attributes each, fair | `SuccessMeansVerified`, `EveryFunctionJudged`, `Finishes` |
| interner | 2 threads, 3 addresses, 2 labels in 2 shards, 2 handles each | `CountsExact`, `Canonical`, `NotRemovedPrematurely`, `RemovesUnused` |
| interner_single | 1 thread, 4 addresses, 3 handles, fair | `LastDropRemoves`, `LocksReleased` |
| disjoint_sets | 4 indices, elements 0 and 1, merge = implication | `CyclesAreTrees`, `DepthLogarithmic`, `ImplementsPartition` |

Why the bounds are enough:

- *Walk.* Four blocks give every mixture of two nested constructs: a switch with a
  join point, a loop to a join point, to the start, to the middle of a branch, a
  block that names one target twice. The theorems hold for all sizes; the run
  keeps them honest.
- *Builder.* A third cursor is the least that suspends one which itself suspends
  one; a fifth node adds no new overlap of the stacks.
- *Checker.* The functions of the run checker are those over four blocks that rustc
  would accept (`Accepted`), without loops or with one, whose blocks move the
  argument out, or move it and divide by what is left, or do nothing.
  `JoinsOutsideSwitches` leaves out join points inside a branch: they break
  `RightScope`, as the run of that name shows, and their kvars with it. The
  families with loops are ones in which a loop does not change what is initialized:
  the Inference phase does not go round a loop again, so a local that a loop moves
  out leaves the join point inside it with a type, and `transform_into` panics.
  `DifferencesInferred` speaks of functions without loops, for the same reason.
- *References.* Seven blocks are two diamonds one after the other. The families:
  references made in some branches, and writes through them (`Diamonds`); a callee
  that changes what a reference refers to (`Calls`); a definition that is given a
  location and ensures it (`Definitions`); a location that a call makes after a
  loop, which gets other names in the two phases (`Made1`); a loop that changes what
  a reference refers to (`Loops`); boolean switches (`Booleans`); a call that is not
  determined (`Rejected`). No join point is reached by three references to
  different locations, and none by a reference that a block has unpacked from a
  weak one: the code panics there (type_env.rs:306 and 176). Reading through such a
  reference after a write is the finding of weak_read.
- *Modulus.* Two values are the least that tell a refinement from `true`, and
  one expression from its successor. The checker never looks into the arithmetic
  (it compares expressions as syntax), so a wrong implication over the integers that
  comes from the order of the checks or from the scopes shows over two values as
  well. What two values cannot show is in which order differences are grouped: see
  the doubtful places below.
- *Signature.* Four items are a parameter, a required location, an argument that
  refers to it and an ensured location, which is the shape of the signatures in
  `tests/pos`; shadowing, duplicates and forward references need two of one kind.
  Sorts in `requires` and inside the arguments of a path are not checked by the
  code and not claimed by the property.
  `MaxDepth = 1` gives operators over variables, and paths whose arguments are paths
  without any.
- *Interner.* A race needs two threads; a child and its parent need two labels, in
  one shard or in two; three addresses leave one to be reused.
- *Pipeline.* Two functions are enough for one to fail and the other to be hidden; one
  passed over is enough, since nothing depends on it but the calls that panic, and a
  method of a trait and a function without a body are passed over alike.
  Two attributes give duplicates, and an error next to a good signature.
- *DisjointSets.* Implication tells its arguments apart and is neither idempotent
  nor commutative; depth 2, the least with a compression, needs 4 indices.

`CHECK_DEADLOCK FALSE` is set where the system stops: `Signature` ends when a
signature is rejected or a call has returned. Where it is not set, the end of a
run is a step that changes nothing.

### Fairness

- `BlockWalk`: the checker is one thread that never waits, so its next-state
  relation is weakly fair.
- `Pipeline`: the tool is one thread, weakly fair; the answer of fixpoint is
  weakly fair *once it has the end of its input*. Nothing is assumed of when it
  dies. `Finishes` is thus about the two not waiting for each other.
- `Interner`: a thread in the middle of an operation runs on (weak fairness of
  `Continue`), and need not start another. `LocksReleased` is checked for the one
  thread of the tool, whose drops of a chain of children take one lock after another.

## Findings

1. `fresh_kvar_at_last_scope` takes the last scope of the *builder*
   (constraint_builder.rs:114), though `infer_bb_env` says "generate fresh ones in
   the right scope" (type_env.rs:191). After a join point inside a branch, that is
   not the scope of the cursor.
2. `infer_from_fn_call` unwraps a required location before `check_inference`
   (lowering.rs:53) gets to report it as an inference error.
3. `update_loc` (type_env.rs:88) leaves a weakly bound location with the type it was
   unpacked to when it is written: a read after the write has the value from before
   it, and a function that returns 1 is accepted at a type that says 0.

Other doubtful places met on the way are in the hazards without a property: type
arguments lowered with the list being built (lowering.rs:25), `ref_weak_join`
(type_env.rs:343), the attributes of a method that a trait provides, which are dropped
without an error (collector.rs:113), a location missing from `ensures` (checker.rs:280), the two
handles dropped at once that leave an entry in the interner (intern.rs:311).
`x - (y - z)` is printed as `x - y - z` (constraint.rs:113 in liquid-rust-fixpoint:
the precedence of `+` and `-` counts as associative): with three values,
`QueryFaithful` is violated by a function that returns `0 - (0 - x)`.
Of two join points neither of which dominates the other, the second is checked
under the binders of the first (checker.rs:167), which need not hold in the runs
that come to it: `Sound` is stated for join points in sequence.

## Proofs

The theorems hold for all values of the constants that satisfy the assumptions of
the module they are about; TLC evaluates those assumptions in the runs.

`BlockWalkProofs` proves, for every set of blocks, every set of well formed bodies
and every way the walk can go, from `BlockWalkAssumption` alone:

- `TypeCorrect`, `BbEnvAlwaysPresent`, `ShapeAlwaysPresent`, `BlocksCheckedOnce`,
  `EveryBlockChecked`, `LateJoinsRetreat`: the safety invariants of the run walk and the
  action property.

None of them is inductive. `IInv`, whose invariance is `InductiveInvariant`, adds:

- `ControlInv`: what the program counter says of `frames`, `cur` and `mode`; a
  block has at most one frame.
- `JoinInv`: the blocks with an environment are join points, every checked join
  point has one, and in the Check phase every other join point still has its
  shape. It carries the Inference phase over to the Check phase, at whose start
  the environments become the shapes.
- `OwedInv`: for every edge out of a checked block, the target is checked, or has
  an environment, or the edge is the goto, the terminator or a pending branch.
  When the recursion is empty, nothing is pending, so every successor of a
  checked block is reached; with the order of the walk this gives the index
  `bb_envs[bb]` in the loop, by taking the first block of the order that is not.
- `OnceInv`: the only edge into a block that is no join point is used up once the
  block is checked. This is where the definition of a join point matters.
- `OrderInv`: a block whose terminator is running is not before a checked join
  point; from it, only a retreating edge joins late.

One lemma per action proves that it preserves each part it can disturb.

`PipelineProofs` proves, for every crate and every number of attributes, from
`PipelineAssumption` alone, which keeps `ItemFns` apart from the functions passed over:

- `TypeCorrect`, `SuccessIsVerified`, `AllJudged`: the invariants of the run
  pipeline. The last two relate the end of a run to the attributes it started
  from, of the functions whose attributes are read, so its `IInv` carries what a stage
  leaves to the next:
- `ReportedInv`: the run remembers a failure exactly when the session was told of
  one, at the stage that is running.
- `CollectInv`: what was visited has its attributes, every error in those that were
  read is reported, and nothing is asked of fixpoint before the last stage.
- `SpecsInv`: while nothing is reported, every function with a signature that was read
  has a specification with its assume flag.
- `CheckInv`: what has left the iterator of the last stage is assumed, verified,
  reported, or being checked; an output "Safe" of the child is about the function
  being checked.

The steps are sorted into seven kinds (`StepKinds`), two with a frame of their own,
and each part has one lemma over the kinds.

`ConstraintBuilderProofs` proves for any number of nodes, cursors, scopes and
kvars:

- `StackMatchesPath`, `CursorsNotDangling`, `CursorScopesNested` and the action
  property `NewKVarsInScope`: all of the run builder.

Each live cursor alone is not enough, because any of them may write the shared
stacks once the later ones are dropped. `IInv` adds that cursors are nested
(`Within`): a suspended one has no more variables, scopes or depth than the one it
lent the builder to, so that what the innermost overwrites lies above the counts of
all others; that a parent is older than its children; and that no node younger than
a cursor's own has the same parent, which is why a push moves no vector under a
live pointer.

`CheckerProofs` proves that `Checker` implements `BlockWalk`
(`CheckerImplementsWalk`), from `CheckerAssumption` (the bodies are ones rustc
lowers). Every action of the checker is mapped to one of the walk, or to no step
when `check_switch_int` leaves its loop. The theorems of the walk are then theorems
of the checker: `EnvironmentFound`, `ShapeFound`, `NoBlockTwice` and
`NoBlockEscapes` instantiate `BlockWalkProofs` with the mapping. They hold whatever
the types, the environments and the constraint are, so that what is left of
`NeverPanics` to TLC is the panics inside one statement, call or join.

The second part of `CheckerProofs` is about the types and the cursors:

- `TypeCorrect` (`TypeOK` of the runs checker and references), and
  `StackMatchesPath`, `CursorsNotDangling` and `CursorScopesNested`: what
  `ConstraintBuilderProofs` shows of any sequence of cursor operations holds of the
  ones the checker makes, with the cursors of the running switches suspended under
  that of the branch.

They follow from `TypesInv` (`TypesInvariant`): the types of the control variables;
`Typed` of the running environment, cursor and builder, that is, a builder and a
cursor that satisfy the invariant of `ConstraintBuilderProofs`, and an environment
whose types are well formed, with names like those the builder gives (`WellTy`,
`WellEnv`; that they are in scope is `ConstraintClosed`, which is not proved); the same
of every frame, of the environments at join points and of the shapes; and
`Suspended`, that the cursors of the frames are borrowed in turn, down to the
running one. The argument has three layers:

- Each operation of a cursor keeps it usable and only adds to the builder (`Grows`
  of `ConstraintBuilderProofs`), so each operation of `TypeEnv` and of a call leads
  from a typed state to a typed one that has grown from it (`Leads`; `Reaches` when
  no location is lost). This holds of a state that has panicked as well.
- A substitution on the way through a call has a well formed expression for each name
  the signature declares (`Substitutes`, `Carries`): the instances of parameters are
  there because inference made sure (`Determined`) or the definition bound them
  first.
- What a suspended cursor needs is kept by whatever grows from the cursor under it,
  so after a branch the frame continues with a cursor that is as good as before.

A lemma about all folds would have the body of the loop as a parameter. Instead one
operator, `Step`, is the body of each fold by its name; `Values` says that a
function holds the values of a fold, and `FoldReaches` and `FoldCarries` what it
keeps.

`InternerProofs` proves for any number of threads, addresses, labels, shards and
handles, from `InternerAssumption`:

- `TypeCorrect`, `CountsAlwaysExact`, `NeverRemovedPrematurely`, `PointersCanonical`
  and the action property `OnlyUnusedRemoved`: the safety properties of the run
  interner; and `OneThreadRemoves`, that of the run interner_single.

Its `IInv`: the types and the locks (`Types`, `Locks`); the count of an object is
the number of its owners, that is, handles, parents, entries of the map and threads
in the middle of an operation on it (`Counts`); what anybody can get at is in the
map (`InMap`); an object that a thread has found at count two under its lock still
has two (`LastTwo`), which is what makes the unlocked test of `drop` harmless; two
objects of the map with one label and the same *address* of the child are one
(`OneLevel`); and the heap has no cycle (`Acyclic`), by which the last two give
`Canonical`: pointers are equal when whole trees are, by induction on the depth.

`DisjointSetsProofs` proves for any number of indices, any elements and any merge,
from `DisjointSetsAssumption`:

- `TypeCorrect`, `DepthsLogarithmic`, `CyclesListTrees`: the invariants of the run
  disjoint_sets; and `PartitionImplemented`, that `DisjointSets` implements
  `Partition`.

The forest is shown to be one by its own table of sizes: `Forest` says that the
size at least doubles from an index to its parent, *also where the entry is stale*,
because a former root keeps the size it had and a compression only goes further up.
It rules out cycles, bounds depth by a logarithm and gives the induction
(`UpInduction`) by which paths and roots are unfolded. `Tables` adds that the size
of a root is that of its tree and that as many steps of `next` go once through the
tree and back (`Cycle`); `Splice` shows that exchanging the successors of two roots
makes one such cycle of two. A step is either one that shortens paths (`Shortened`:
same roots, same trees), a union (`UnionJoins`) or a push, and the refinement
follows from what these do to the trees (`View`).

`SignatureProofs` proves for any table of names, any parameters, regions, types and
predicates, signatures of any number of items and terms of any depth, any caller and
any operands, from `SignatureAssumption`:

- `TypeCorrect`, `AcceptedWellFormed`, `CallsOnlyLower`, `CallerStaysClosed`: all
  invariants of the run signature.

Each of the four says something of one moment, and what it needs was settled earlier:

- `ResolvedOK`, of the resolver: as long as no section has failed, each item is a
  term over the names declared before it (`Closed`), and the two maps of names lead
  only to names that the signature declares (`InScope`). A variable and a region never
  have the same name (`NamesApart`). By this the index of `wf.rs` into its map is
  always there (`CheckFnSigSorts`).
- `SortedOK`: past Wf, every predicate and refinement has its sort. Wf looks sorts up in
  one map, which keeps the binder of every existential it has passed; the proof
  carries that this map agrees with the parameters on all variables that are not
  bound (`TypeSenvAgrees`), and the resolver has put `Bound` nowhere but under a binder.
- `CallOK`: until the ensures, the environment is the one of the caller; from
  inference on, the substitution has an instance of every parameter and every
  required location (`InstOK`), and each instance is a term or a location of the
  caller; after k ensures also of the first k ensured locations (`EnsOK`), unless one of
  them refers to itself before it is known, which is the exception that `CallsLower`
  makes.

What the recursive functions compute is proved once per function by induction on the
depth: what terms they return (`ResolveTyTyped`, `LowerTyTyped`), where they cannot
fail, and which locations a term mentions (`CoreLocs`, `CallerLocsOf`).

Induction over data: the theorems of the library for it take a predicate as
parameter and cannot be instantiated here. `InductionProofs` states the two facts the
other modules need for sets and functions instead: a set of numbers that has 0 and
is closed under successor has them all (`SetInduction`, from the well-foundedness
of strict inclusion of finite sets), and a function that is defined from its
previous value exists (`Recursion`, the union of its finite parts). What
`WalkFrames`, the trees of the interner, `Path`, `SetFrom`, `PowerOfTwo`, both loops
of `merge_with`, the folds of `TypeEnv` and `Calls`, and the functions on terms of
`Signature` compute is proved with them.

Only model-checked:

- `Termination`, `Finishes` and `LocksReleased`: liveness under fairness, and
  `ENABLED`, are not within the prover's reach.
- `NeverPanics`, `ConstraintClosed` and `DifferencesInferred` of `Checker`. They are
  not true of every function: a join point inside a branch takes its kvars out of
  scope (finding 1), and an unpacked reference or a moved local makes a join panic (see
  the bounds of the runs checker and references). A theorem needs those
  exclusions as hypotheses, and an invariant that relates the environments of the two
  phases at each join point, and these to the initialized locals of the path.
- `Sound`, `AliasesTrue` and `QueryFaithful`: `Meaning`, `Query` and `Execution` are
  recursive operators, and `Sound` holds within the bounds named above, not of every
  function (see the findings).

## Not modelled

- The syntax crate and the printing of types (generated or pure), the translation of
  MIR node by node with its integer conversions, `dump_constraint`, `collect_res`.
- ADTs and type parameters, in types, joins (`bty_join`), subtyping and
  substitutions; sorts and integer types, on which the model has no two rules that
  differ.
- References to references: `walk_place` and `write_place` end in `todo!` for them.
- In the query: sorts, qualifiers and declarations, and all text but that of
  expressions.

## Plan

1. Done: the walk, the builder, the checker with references, calls and definitions,
   the query, the judgement of both against runs of the function; interner, disjoint
   sets, signatures, pipeline.
2. Done: the theorems of the walk, carried over to the checker; of the builder, the
   interner, the disjoint sets with their refinement, the pipeline, the signatures,
   and of the types and cursors of the checker.
3. Next: `ConstraintClosed` for bodies without join points inside branches, by adding
   to `TypesInv` that the names in an environment are bound on the path of its cursor
   or, at a join point, in the scope of its dominator.
