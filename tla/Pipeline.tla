------------------------------ MODULE Pipeline ------------------------------
(***************************************************************************)
(* A run of the tool on one crate, from the attributes of its functions to *)
(* the exit status: SpecCollector (liquid-rust-driver/src/collector.rs),   *)
(* check_crate (callbacks.rs), typeck::check and the fixpoint process      *)
(* (liquid-rust-fixpoint/src/lib.rs).                                      *)
(*                                                                         *)
(* after_analysis discards the result of check_crate, so what the caller   *)
(* of the tool learns depends on the errors the session was told about on  *)
(* the way.  Here a signature is resolved, lowered and checked well or not *)
(* by choice; what those steps do is in Signature and in Checker.          *)
(***************************************************************************)
EXTENDS Naturals

CONSTANTS
    ItemFns,      \* the functions of the crate that are items, or items of an impl
    TraitFns,     \* the methods that a trait of the crate provides with a body
    BodilessFns,  \* the methods a trait requires, and the functions of extern blocks
    NoFn,         \* no function
    MaxAttrs      \* how many lr attributes a function has at most

Fns == ItemFns \union TraitFns \union BodilessFns

ASSUME PipelineAssumption ==
    /\ NoFn \notin Fns /\ MaxAttrs \in Nat
    /\ ItemFns \intersect (TraitFns \union BodilessFns) = {}

\* The lr attributes: a ty with a signature that parses, one that does not,
\* one without delimiters, assume, and any other path.
AttrKinds == {"ty", "badty", "rawty", "assume", "other"}
Stages == {"collect", "resolve", "check"}
Tags == {"Safe", "Unsafe", "Crash"}

VARIABLES
    stage,      \* of check_crate: collect, resolve, check; then done or panicked
    left,       \* what the iterator of the stage has left
    attrs,      \* attributes of the functions visited so far
    specs,      \* annotations, then fn_sigs: the assume flag of a FnSpec
    failed,     \* collector.error_reported, and acc of try_collect_exhaust
    reported,   \* the errors of the session: a function and a stage
    cur, step,  \* the function in typeck::check, and how far it is
    child,      \* the fixpoint process
    answered    \* what fixpoint said of a function's whole constraint

vars == <<stage, left, attrs, specs, failed, reported, cur, step, child, answered>>

\* eof: the pipe to the child is closed, with all of its input in it.
NoChild == [running |-> FALSE, eof |-> FALSE, out |-> {}]

AttrLists == UNION {[1..n -> AttrKinds] : n \in 0..MaxAttrs}
Partial(f, S, T) == DOMAIN f \subseteq S /\ f \in [DOMAIN f -> T]

\* The types of the variables; only functions whose attributes are read have a
\* FnSpec, and a child exists only while typeck::check is between its spawn and its
\* verdict.
TypeOK ==
    /\ stage \in Stages \union {"done", "panicked"}
    /\ left \subseteq Fns
    /\ Partial(attrs, Fns, AttrLists)
    /\ Partial(specs, ItemFns, BOOLEAN)
    /\ failed \in BOOLEAN
    /\ reported \subseteq Fns \X Stages
    /\ cur \in Fns \union {NoFn}
    /\ step \in {"none", "infer", "check", "spawn", "write", "drop", "wait"}
    /\ child \in [running: BOOLEAN, eof: BOOLEAN, out: SUBSET Tags]
    /\ Partial(answered, Fns, Tags)
    /\ cur = NoFn <=> step = "none"
    /\ child # NoChild => step \in {"write", "drop", "wait"}

Empty == [f \in {} |-> FALSE]
\* HashMap::insert
Insert(map, f, v) == [g \in DOMAIN map \union {f} |-> IF g = f THEN v ELSE map[g]]

Init ==
    /\ stage = "collect"
    /\ left = Fns
    /\ attrs = Empty
    /\ specs = Empty
    /\ failed = FALSE
    /\ reported = {}
    /\ cur = NoFn /\ step = "none"
    /\ child = NoChild
    /\ answered = Empty

-----------------------------------------------------------------------------
(* SpecCollector *)

\* The loop of parse_annotations over the attributes as.  A second signature makes
\* it emit an error and return, as every other attribute that is not understood
\* makes it emit one; a signature that does not parse does not count as a first.
SigKinds == {"ty", "badty", "rawty"}
Duplicated(as) == \E i, j \in DOMAIN as : i < j /\ as[i] = "ty" /\ as[j] \in SigKinds
ErrorIn(as) == Duplicated(as) \/ \E i \in DOMAIN as : as[i] \in {"badty", "rawty", "other"}
SpecIn(as) == ~Duplicated(as) /\ \E i \in DOMAIN as : as[i] = "ty"
AssumeIn(as) == \E i \in DOMAIN as : as[i] = "assume"

\* visit_item and visit_impl_item, with parse_annotations and emit_error.
Collect(f, as) ==
    /\ stage = "collect" /\ f \in left \intersect ItemFns
    /\ left' = left \ {f}
    /\ attrs' = Insert(attrs, f, as)
    /\ specs' = IF SpecIn(as) THEN Insert(specs, f, AssumeIn(as)) ELSE specs
    /\ failed' = (failed \/ ErrorIn(as))
    /\ reported' = IF ErrorIn(as) THEN reported \union {<<f, "collect">>} ELSE reported
    /\ UNCHANGED <<stage, cur, step, child, answered>>

\* visit_trait_item and visit_foreign_item have empty bodies: whatever attributes
\* the function has, they are not read.
PassOver(f, as) ==
    /\ stage = "collect" /\ f \in left \ ItemFns
    /\ left' = left \ {f}
    /\ attrs' = Insert(attrs, f, as)
    /\ UNCHANGED <<stage, specs, failed, reported, cur, step, child, answered>>

-----------------------------------------------------------------------------
(* check_crate *)

\* The end of a stage: Err leaves check_crate through the question mark, or as
\* its result, which after_analysis drops either way.
EndStage(from, to) ==
    /\ stage = from /\ left = {} /\ cur = NoFn
    /\ stage' = IF failed THEN "done" ELSE to
    /\ left' = IF failed THEN {} ELSE DOMAIN specs
    /\ UNCHANGED <<attrs, specs, failed, reported, cur, step, child, answered>>

EndCollect == EndStage("collect", "resolve")
EndResolve == EndStage("resolve", "check")
\* Mutant: collect instead of try_collect_exhaust, which stops at an Err.
EndCheckAtFirstErr ==
    /\ stage = "check" /\ (left = {} \/ failed) /\ cur = NoFn
    /\ stage' = "done"
    /\ UNCHANGED <<left, attrs, specs, failed, reported, cur, step, child, answered>>

EndCheck ==
    /\ stage = "check" /\ left = {} /\ cur = NoFn
    /\ stage' = "done"
    /\ UNCHANGED <<left, attrs, specs, failed, reported, cur, step, child, answered>>

\* An item that is an Err: try_collect_exhaust keeps it and goes on, and what
\* made the Err has told the session.
ItemFails(f) ==
    /\ failed' = TRUE
    /\ reported' = reported \union {<<f, stage>>}

\* Resolver::resolve and Wf::check_fn_sig on one annotation.
ResolveOk(f) ==
    /\ stage = "resolve" /\ f \in left
    /\ left' = left \ {f}
    /\ UNCHANGED <<stage, attrs, specs, failed, reported, cur, step, child, answered>>

ResolveErr(f) ==
    /\ stage = "resolve" /\ f \in left
    /\ left' = left \ {f}
    /\ specs' = [g \in DOMAIN specs \ {f} |-> specs[g]]
    /\ ItemFails(f)
    /\ UNCHANGED <<stage, attrs, cur, step, child, answered>>

\* The closure of the second stage, up to the call of typeck::check.
CheckAssumed(f) ==
    /\ stage = "check" /\ cur = NoFn /\ f \in left /\ specs[f]
    /\ left' = left \ {f}
    /\ UNCHANGED <<stage, attrs, specs, failed, reported, cur, step, child, answered>>

LowerOk(f) ==
    /\ stage = "check" /\ cur = NoFn /\ f \in left /\ ~specs[f]
    /\ left' = left \ {f}
    /\ cur' = f /\ step' = "infer"
    /\ UNCHANGED <<stage, attrs, specs, failed, reported, child, answered>>

LowerErr(f) ==
    /\ stage = "check" /\ cur = NoFn /\ f \in left /\ ~specs[f]
    /\ left' = left \ {f}
    /\ ItemFails(f)
    /\ UNCHANGED <<stage, attrs, specs, cur, step, child, answered>>

-----------------------------------------------------------------------------
(* typeck::check *)

Panic ==
    /\ stage' = "panicked"
    /\ UNCHANGED <<left, attrs, specs, failed, reported, cur, step, child, answered>>

\* Mutant: the child is not waited for.
LeaveChild == cur' = NoFn /\ step' = "none" /\ UNCHANGED child

\* The end of typeck::check for cur.
Leave == cur' = NoFn /\ step' = "none" /\ child' = NoChild

\* Checker::infer walks a body that calls callees; NoFn is a function of another
\* crate.  lookup_fn_sig indexes specs, and panics on one it does not have.
InferBody(callees) ==
    /\ step = "infer"
    /\ IF callees \subseteq DOMAIN specs
       THEN /\ step' = "check"
            /\ UNCHANGED <<stage, left, attrs, specs, failed, reported, cur, child, answered>>
       ELSE Panic

CheckBody ==
    /\ step = "check"
    /\ step' = "spawn"
    /\ UNCHANGED <<stage, left, attrs, specs, failed, reported, cur, child, answered>>

\* Either phase meets a call it cannot infer the parameters of.
BodyErr ==
    /\ step \in {"infer", "check"}
    /\ ItemFails(cur) /\ Leave
    /\ UNCHANGED <<stage, left, attrs, specs, answered>>

\* Fixpoint::check: the child, whose stdin is taken from it.
SpawnOk ==
    /\ step = "spawn"
    /\ step' = "write"
    /\ child' = [NoChild EXCEPT !.running = TRUE]
    /\ UNCHANGED <<stage, left, attrs, specs, failed, reported, cur, answered>>

SpawnErr == step = "spawn" /\ Panic

\* The writeln: what does not fit into the buffer is written to the pipe, and
\* fails when the child has gone; typeck::check panics on the error.
Write(fits) ==
    /\ step = "write"
    /\ IF fits \/ child.running
       THEN /\ step' = "drop"
            /\ UNCHANGED <<stage, left, attrs, specs, failed, reported, cur, child, answered>>
       ELSE Panic

\* Mutant: no block around the writer, so the pipe is open during the wait.
DropWriterAtEnd ==
    /\ step = "drop"
    /\ step' = "wait"
    /\ UNCHANGED <<stage, left, attrs, specs, failed, reported, cur, child, answered>>

\* The end of the block drops the writer: it flushes what is left, whether that
\* works or not, and closes the pipe.
DropWriter ==
    /\ step = "drop"
    /\ step' = "wait"
    /\ child' = [child EXCEPT !.eof = child.running]
    /\ UNCHANGED <<stage, left, attrs, specs, failed, reported, cur, answered>>

\* wait_with_output, from_slice, and the match of typeck::check.
Safe ==
    /\ step = "wait" /\ ~child.running /\ child.out = {"Safe"}
    /\ Leave
    /\ UNCHANGED <<stage, left, attrs, specs, failed, reported, answered>>

\* Mutant: the Err is left to the caller to report.
UnsafeUnreported ==
    /\ step = "wait" /\ ~child.running /\ child.out = {"Unsafe"}
    /\ failed' = TRUE /\ UNCHANGED reported /\ Leave
    /\ UNCHANGED <<stage, left, attrs, specs, answered>>

Unsafe ==
    /\ step = "wait" /\ ~child.running /\ child.out = {"Unsafe"}
    /\ ItemFails(cur) /\ Leave
    /\ UNCHANGED <<stage, left, attrs, specs, answered>>

FixpointFailed ==
    /\ step = "wait" /\ ~child.running /\ child.out \in {{}, {"Crash"}}
    /\ Panic

-----------------------------------------------------------------------------
(* The fixpoint executable: it answers once it has read its input to the end, *)
(* and may die before, with or without saying so.                            *)

Answer(tag) ==
    /\ stage = "check" /\ child.running /\ child.eof
    /\ child' = [child EXCEPT !.running = FALSE, !.out = {tag}]
    /\ answered' = Insert(answered, cur, tag)
    /\ UNCHANGED <<stage, left, attrs, specs, failed, reported, cur, step>>

Die(out) ==
    /\ stage = "check" /\ child.running
    /\ child' = [child EXCEPT !.running = FALSE, !.out = out]
    /\ UNCHANGED <<stage, left, attrs, specs, failed, reported, cur, step, answered>>

Fixpoint ==
    \/ \E tag \in Tags : Answer(tag)
    \/ \E out \in {{}, {"Crash"}} : Die(out)

-----------------------------------------------------------------------------

Typeck ==
    /\ stage = "check"
    /\ \/ \E callees \in SUBSET (Fns \union {NoFn}) : InferBody(callees)
       \/ CheckBody
       \/ BodyErr
       \/ SpawnOk
       \/ SpawnErr
       \/ \E fits \in BOOLEAN : Write(fits)
       \/ DropWriter
       \/ Safe
       \/ Unsafe
       \/ FixpointFailed

Tool ==
    \/ \E f \in Fns, as \in AttrLists : Collect(f, as) \/ PassOver(f, as)
    \/ EndCollect
    \/ \E f \in Fns : ResolveOk(f) \/ ResolveErr(f)
    \/ EndResolve
    \/ \E f \in Fns : CheckAssumed(f) \/ LowerOk(f) \/ LowerErr(f)
    \/ Typeck
    \/ EndCheck

Ended == stage \in {"done", "panicked"} /\ UNCHANGED vars

Next == Tool \/ Fixpoint \/ Ended

Spec == Init /\ [][Next]_vars

\* The tool is one thread that runs on; fixpoint answers an input it has got to
\* the end of, and may wait for ever for one that does not end.
FairSpec ==
    /\ Spec
    /\ WF_vars(Tool)
    /\ WF_vars(\E tag \in Tags : Answer(tag))

-----------------------------------------------------------------------------
(* Properties *)

\* The exit status of the process: a panic aborts it, and rustc's driver fails
\* when the session has errors (Compilation::Stop asks for its status).
ExitStatus == IF stage = "panicked" THEN 101 ELSE IF reported # {} THEN 1 ELSE 0

HasSignature(f) == \E i \in DOMAIN attrs[f] : attrs[f][i] \in SigKinds
Assumed(f) == AssumeIn(attrs[f])
Verified(f) == f \in DOMAIN answered /\ answered[f] = "Safe"

\* A run that exits with success has had fixpoint's Safe for the whole constraint
\* of every function with a signature that is not assumed, though after_analysis
\* drops the result of check_crate.  This is about the functions whose attributes
\* the collector reads, items and items of an impl.  It is not true of TraitFns: the
\* signature of a provided method is dropped without an error.
SuccessMeansVerified ==
    stage = "done" /\ ExitStatus = 0 =>
        \A f \in ItemFns : HasSignature(f) => Assumed(f) \/ Verified(f)

\* A run that ends without a panic has judged every function of the stage it
\* ended in, of those whose attributes are read, and of no other stage: one bad
\* function does not hide the errors of the ones after it (try_collect_exhaust), and
\* nothing later runs on bad input.
EveryFunctionJudged ==
    stage = "done" /\ reported # {} =>
        \E s \in Stages :
            /\ \A r \in reported : r[2] = s
            /\ s = "collect" => \A f \in ItemFns : ErrorIn(attrs[f]) => <<f, s>> \in reported
            /\ s # "check" => answered = Empty
            /\ s = "check" =>
                 \A f \in DOMAIN specs : specs[f] \/ Verified(f) \/ <<f, s>> \in reported

\* A run ends: in particular the tool, which waits for fixpoint, and fixpoint,
\* which reads to the end of its input, do not wait for each other.
Finishes == <>(stage \in {"done", "panicked"})

=============================================================================
