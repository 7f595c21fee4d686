---------------------------- MODULE BenchMatrix ----------------------------
(***************************************************************************)
(* moon-pprof bench (cmd_bench.rs): the workloads on every backend, built  *)
(* and timed twice, with the baseline and with the patched toolchain and   *)
(* dependencies, and the table that sets the two side by side.  The trees  *)
(* are PatchedTrees's, and its scripts may run beside a bench.             *)
(*                                                                         *)
(* A time is modelled by the binary that was timed; its milliseconds are   *)
(* left out.                                                               *)
(***************************************************************************)
EXTENDS PatchedTrees

CONSTANTS Workloads,
          TimedOn,    \* --backends
          Runs,       \* --runs
          MaxBenches  \* bound: invocations

VARIABLES
    bench,     \* the invocation that is running
    artifacts, \* <bench-dir>/_build: what each binary was built from
    results,   \* the table of the invocation that is running: the binary that
               \* was timed in each phase
    benches

benchVars == <<bench, artifacts, results, benches>>
vars == <<treeVars, benchVars>>

Cells == SetToSeq(Workloads \X TimedOn)
Kinds == {"baseline", "patched"}
NoCell == [k \in Kinds |-> None]
NoBinary == [core |-> None, deps |-> None]

ASSUME BenchAssumption ==
    /\ IsFiniteSet(Workloads) /\ IsFiniteSet(TimedOn) /\ TimedOn \subseteq Backends
    /\ Runs \in Nat \ {0} /\ MaxBenches \in Nat

NoTable == [c \in Range(Cells) |-> NoCell]

\* Binaries are there from before: those of an earlier bench's patched phase.
Init ==
    /\ TreesInit
    /\ bench = None /\ benches = 0
    /\ artifacts = [b \in Benches |-> [c \in Range(Cells) |->
                       [core |-> Patched(Stock, Diffs), deps |-> Patched(Fetched(b), Diffs)]]]
    /\ results = NoTable

-----------------------------------------------------------------------------
(* run.                                                                    *)

\* What a build of the project uses: moon fetches what is not there.
Deps(b) == IF live[b] = None THEN Fetched(b) ELSE live[b]

\* The dependencies are swapped when both directories are given and exist; a
\* patched toolchain that is missing is replaced by the baseline one.
Start(b, swap, build) ==
    /\ bench = None /\ benches < MaxBenches
    /\ swap => snap[NameOf[b]] # None /\ side[NameOf[b]] # None
    /\ benches' = benches + 1
    /\ bench' = [b |-> b, swap |-> swap, build |-> build,
                 rooted |-> root # None, kind |-> "baseline",
                 step |-> IF swap THEN "swap" ELSE IF build THEN "clean" ELSE "time",
                 todo |-> Cells, timed |-> 0,
                 \* history: the cells each phase's build compiled, and what each
                 \* should measure, None once something else wrote a tree.
                 made |-> [k \in Kinds |-> {}],
                 plan |-> [k \in Kinds |-> [deps |-> Deps(b), root |-> None]]]
    /\ results' = NoTable
    /\ UNCHANGED <<treeVars, artifacts>>

\* bail!, `?`, or the end: the process is over, and its table with it.
Over == bench' = None /\ results' = NoTable /\ UNCHANGED benches

Planned(field, value) ==
    IF bench.plan = None THEN None ELSE [bench.plan EXCEPT ![bench.kind][field] = value]

At(step) == bench # None /\ bench.step = step
Source == IF bench.kind = "baseline" THEN snap[NameOf[bench.b]]
                                     ELSE side[NameOf[bench.b]]

\* swap_mooncakes: remove_dir_all, then cp -r and chmod.
SwapRemove ==
    /\ At("swap")
    /\ live' = [live EXCEPT ![bench.b] = None]
    /\ bench' = [bench EXCEPT !.step = "copy", !.plan = Planned("deps", Source)]
    /\ UNCHANGED <<snap, side, root, cmd, commands, sound, artifacts, results, benches>>

\* A copy into a directory that is there again lands inside it.
SwapCopy ==
    /\ At("copy") /\ Source # None
    /\ live' = [live EXCEPT ![bench.b] = IF @ = None THEN Source ELSE @]
    /\ bench' = [bench EXCEPT !.step = IF bench.build THEN "clean" ELSE "time"]
    /\ UNCHANGED <<snap, side, root, cmd, commands, sound, artifacts, results, benches>>

\* The removal stops in the middle; cp does, or its source is gone; or chmod
\* fails after it.
SwapFails ==
    /\ \/ /\ At("swap") /\ live[bench.b] # None
          /\ live' = [live EXCEPT ![bench.b] = PartOf(@)]
       \/ /\ At("copy")
          /\ \E t \in {None} \cup IF Source = None THEN {} ELSE {PartOf(Source), Source} :
                live' = [live EXCEPT ![bench.b] = IF @ = None THEN t ELSE @]
    /\ Over
    /\ UNCHANGED <<snap, side, root, cmd, commands, sound, artifacts>>

\* Mutant: with a patched toolchain, both phases use it.
PatchingBoth == bench.rooted

Patching == bench.kind = "patched" /\ bench.rooted

Toolchain == IF Patching THEN root ELSE RootOf(Stock)

\* build_all: _build is removed first; what cannot be removed stays, and the
\* error is dropped.
CleanBuild ==
    /\ At("clean")
    /\ \E kept \in SUBSET Range(Cells) :
          artifacts' = [artifacts EXCEPT ![bench.b] =
                           [c \in Range(Cells) |-> IF c \in kept THEN @[c] ELSE NoBinary]]
    /\ bench' = [bench EXCEPT !.step = "build", !.plan = Planned("root", Toolchain)]
    /\ UNCHANGED <<treeVars, results, benches>>

NextCell(step, next) ==
    [bench EXCEPT !.step = IF Len(bench.todo) = 1 THEN next ELSE step,
                  !.todo = IF Len(bench.todo) = 1 THEN Cells ELSE Tail(bench.todo)]

Compiled(c) == [core |-> Toolchain.bundle[c[2]], deps |-> Deps(bench.b)]

\* Mutant: a cell of the first phase is not compiled again.
BuildMissing ==
    /\ At("build") /\ Toolchain # None
    /\ live' = [live EXCEPT ![bench.b] = Deps(bench.b)]
    /\ LET c == Head(bench.todo)  next == NextCell("build", "time") IN
       /\ artifacts' = [artifacts EXCEPT ![bench.b][c] =
                           IF results[c].baseline # None THEN results[c].baseline ELSE Compiled(c)]
       /\ bench' = [next EXCEPT !.made[bench.kind] = @ \cup {c}]
    /\ UNCHANGED <<snap, side, root, cmd, commands, sound, results, benches>>

\* One `moon build` against the bundle of its target.  A binary that is there
\* moon may find up to date and leave.
Build ==
    /\ At("build") /\ Toolchain # None
    /\ live' = [live EXCEPT ![bench.b] = Deps(bench.b)]
    /\ LET c == Head(bench.todo)  next == NextCell("build", "time") IN
       \/ /\ artifacts' = [artifacts EXCEPT ![bench.b][c] = Compiled(c)]
          /\ bench' = [next EXCEPT !.made[bench.kind] = @ \cup {c}]
       \/ /\ artifacts[bench.b][c] # NoBinary
          /\ bench' = next
          /\ UNCHANGED artifacts
    /\ UNCHANGED <<snap, side, root, cmd, commands, sound, results, benches>>

\* A failed build ends the bench, without a table.
BuildFails ==
    /\ At("build")
    /\ Over
    /\ UNCHANGED <<treeVars, artifacts>>

Binary == artifacts[bench.b][Head(bench.todo)]

\* run_once: the process ends well and prints its time.
TimeRun ==
    /\ At("time") /\ bench.timed < Runs /\ Binary # NoBinary
    /\ bench' = [bench EXCEPT !.timed = @ + 1]
    /\ UNCHANGED <<treeVars, artifacts, results, benches>>

\* The last cell of a phase starts the next one, or the table.
NextPhase ==
    LET next == NextCell("time", IF bench.kind = "patched" THEN "print"
                                 ELSE IF bench.swap THEN "swap"
                                 ELSE IF bench.build THEN "clean" ELSE "time")
    IN  bench' = [next EXCEPT !.timed = 0,
                              !.kind = IF Len(bench.todo) = 1 THEN "patched" ELSE @]

\* The runs are through, or one failed: there is no binary, it ended badly, or
\* its output has no time.  The cell gets the median of the runs before, or
\* stays at its default.
CloseCell ==
    /\ At("time")
    /\ results' = [results EXCEPT ![Head(bench.todo)][bench.kind] =
                       IF bench.timed = 0 THEN None ELSE Binary]
    /\ NextPhase
    /\ UNCHANGED <<treeVars, artifacts, benches>>

\* print_markdown.
PrintTable ==
    /\ At("print")
    /\ Over
    /\ UNCHANGED <<treeVars, artifacts>>

\* A script that runs beside the bench, or a user, writes a tree.
Beside ==
    /\ TreesNext
    /\ bench' = IF bench # None /\ <<live, snap, side, root>>' # <<live, snap, side, root>>
                THEN [bench EXCEPT !.plan = None] ELSE bench
    /\ UNCHANGED <<artifacts, results, benches>>

Next ==
    \/ Beside
    \/ \E b \in Benches, swap, build \in BOOLEAN : Start(b, swap, build)
    \/ SwapRemove \/ SwapCopy \/ SwapFails
    \/ CleanBuild \/ Build \/ BuildFails
    \/ TimeRun \/ CloseCell \/ PrintTable

Spec == Init /\ [][Next]_vars

-----------------------------------------------------------------------------
(* Properties.                                                             *)

\* A time in the table is that of a binary compiled from its own phase's
\* dependencies and toolchain bundle, and from the patched sources of the core
\* library where a rebundle went through after the last diff.  Said of the
\* cells whose binary the phase's own build compiled, while no script wrote a
\* tree: with --build=false, or a clean that fails (build_all drops the error)
\* and a binary that moon takes for up to date, it may be an older binary.
CellsAreOfTheirPhase ==
    bench # None /\ bench.plan # None =>
        \A c \in Range(Cells), k \in Kinds :
            LET from == results[c][k]  plan == bench.plan[k] IN
            c \in bench.made[k] /\ from # None =>
                /\ from.deps = plan.deps
                /\ from.core = plan.root.bundle[c[2]]
                /\ plan.root.rebundled => from.core = plan.root.core

\* A row compares what the options change and nothing else.  Of binaries that
\* both phases compiled, the first has the user's own core library, and the
\* second has other dependencies only when they were swapped and another core
\* only when there is a patched toolchain.  A binary that the second phase did
\* not compile (--build=false, or left by a clean that failed) is the one that
\* the first phase timed: the row compares it with itself.
RowsCompareOneChange ==
    bench # None =>
        \A c \in Range(Cells) :
            LET base == results[c].baseline  patched == results[c].patched IN
            base # None /\ patched # None =>
                /\ c \in bench.made.patched \/ patched = base
                /\ bench.plan # None /\ (\A k \in Kinds : c \in bench.made[k]) =>
                      /\ base.core = Stock
                      /\ bench.swap \/ patched.deps = base.deps
                      /\ bench.rooted \/ patched.core = base.core
=============================================================================
