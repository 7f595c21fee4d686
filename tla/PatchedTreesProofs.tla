------------------------- MODULE PatchedTreesProofs -------------------------
(***************************************************************************)
(* Proved of PatchedTrees beside BenchMatrix: for any projects, of any     *)
(* names, any diffs, targets and number of commands and benches.  First    *)
(* that a snapshot is what its project was; then that what a bench prints  *)
(* was measured on what its column says, and what the columns of a row     *)
(* have in common.                                                         *)
(***************************************************************************)
EXTENDS BenchMatrix, FoldLemmas

\* A snapshot is sound for a project that exists, and only an init writes one.
TreesInv ==
    /\ DOMAIN snap = Names
    /\ sound \in [Names -> Benches \cup {None}]
    /\ cmd # None => "op" \in DOMAIN cmd
    /\ cmd # None /\ cmd.op = "init" => cmd.b \in Benches
    /\ cmd # None /\ cmd.op = "reset" => cmd.b \in Benches /\ sound[NameOf[cmd.b]] = None
    /\ BaselineKept

\* An unpatched tree is a tree, and so there.
LEMMA FetchedIsThere == \A b \in Benches : Fetched(b) # None
<1> SUFFICES ASSUME NEW b \in Benches PROVE Fetched(b) # None
  OBVIOUS
<1>1. {} \in SUBSET Diffs
  OBVIOUS
<1>2. Fetched(b) \in Tree
  BY <1>1 DEF Fetched, Tree
<1>3. QED
  BY <1>2, TreesAssumption

\* An action that leaves the snapshots and what runs alone keeps the invariant.
LEMMA Untouched ==
    ASSUME TreesInv, UNCHANGED <<snap, sound>>,
           cmd' = None \/ cmd' = cmd
           \/ ("op" \in DOMAIN cmd' /\ cmd'.op \notin {"init", "reset"})
    PROVE  TreesInv'
BY DEF TreesInv, BaselineKept

\* The command goes on with what is left: it is no init.
LEMMA GoesOn ==
    ASSUME NEW rest, "op" \in DOMAIN cmd, cmd.op \notin {"init", "reset"},
           cmd' = NextDiff(rest)
    PROVE  cmd' = None \/ ("op" \in DOMAIN cmd' /\ cmd'.op \notin {"init", "reset"})
BY DEF NextDiff

LEMMA TreesInitially == Init => TreesInv
BY DEF Init, TreesInit, TreesInv, BaselineKept

\* patched-mooncakes init: it is refused when there is a snapshot, and a sound
\* one is there.
LEMMA InitKeeps == ASSUME TreesInv, NEW b \in Benches, InitSnapshot(b) PROVE TreesInv'
<1>1. NameOf[b] \in Names
  BY TreesAssumption
<1>2. sound[NameOf[b]] = None
  BY <1>1, FetchedIsThere DEF InitSnapshot, TreesInv, BaselineKept
<1>3. /\ cmd' = [op |-> "init", b |-> b, tree |-> live[b]] /\ UNCHANGED sound
      /\ snap' = [snap EXCEPT ![NameOf[b]] = PartOf(live[b])]
  BY DEF InitSnapshot, Invoke
<1>4. BaselineKept'
  BY <1>1, <1>2, <1>3 DEF TreesInv, BaselineKept
<1>5. QED
  BY <1>3, <1>4 DEF TreesInv

\* The snapshot becomes sound only as a whole copy of an unpatched tree.
LEMMA CopiedKeeps == ASSUME TreesInv, SnapshotCopied PROVE TreesInv'
<1>1. cmd.b \in Benches /\ NameOf[cmd.b] \in Names
  BY TreesAssumption DEF SnapshotCopied, TreesInv
<1> DEFINE n == NameOf[cmd.b]
           copy == IF live[cmd.b] = cmd.tree THEN live[cmd.b] ELSE PartOf(live[cmd.b])
           b == IF copy = Fetched(cmd.b) THEN cmd.b ELSE None
<1>2. /\ snap' = [snap EXCEPT ![n] = copy]
      /\ sound' = [sound EXCEPT ![n] = b]
      /\ cmd' = None
  BY DEF SnapshotCopied
<1>3. b # None => copy = Fetched(b)
  OBVIOUS
<1>4. b \in Benches \cup {None}
  BY <1>1
<1> HIDE DEF n, copy, b
<1>5. n \in Names
  BY <1>1 DEF n
<1>6. BaselineKept'
  <2> SUFFICES ASSUME NEW m \in Names, sound'[m] # None
               PROVE  snap'[m] = Fetched(sound'[m])
    BY DEF BaselineKept, Fetched
  <2>1. CASE m = n
    BY <1>2, <1>3, <1>5, <2>1 DEF TreesInv
  <2>2. CASE m # n
    BY <1>2, <2>2 DEF TreesInv, BaselineKept
  <2>3. QED
    BY <2>1, <2>2
<1>7. QED
  BY <1>2, <1>4, <1>6 DEF TreesInv

LEMMA ResetKeeps == ASSUME TreesInv, NEW b \in Benches, ResetSnapshot(b) PROVE TreesInv'
<1>1. NameOf[b] \in Names
  BY TreesAssumption
<1>2. /\ snap' = [snap EXCEPT ![NameOf[b]] = PartOf(@)]
      /\ sound' = [sound EXCEPT ![NameOf[b]] = None]
      /\ cmd' = [op |-> "reset", b |-> b]
  BY DEF ResetSnapshot, Invoke
<1>3. sound'[NameOf[b]] = None
  BY <1>1, <1>2 DEF TreesInv
<1>4. BaselineKept'
  BY <1>2, <1>3 DEF TreesInv, BaselineKept
<1>5. QED
  BY <1>2, <1>3, <1>4 DEF TreesInv

LEMMA RemovedKeeps == ASSUME TreesInv, SnapshotRemoved PROVE TreesInv'
<1>1. /\ cmd.b \in Benches /\ NameOf[cmd.b] \in Names /\ sound[NameOf[cmd.b]] = None
      /\ snap' = [snap EXCEPT ![NameOf[cmd.b]] = None]
      /\ cmd' = None /\ UNCHANGED sound
  BY TreesAssumption DEF SnapshotRemoved, TreesInv
<1>2. BaselineKept'
  BY <1>1 DEF TreesInv, BaselineKept
<1>3. QED
  BY <1>1, <1>2 DEF TreesInv

\* Everything else the scripts do.
LEMMA ScriptsKeep == ASSUME TreesInv, TreesNext PROVE TreesInv'
<1>1. CASE Interrupt
  BY <1>1, Untouched DEF Interrupt
<1>2. CASE SnapshotCopied
  BY <1>2, CopiedKeeps
<1>3. CASE ApplyDiff \/ DiffRejected
  BY <1>3, GoesOn, Untouched DEF ApplyDiff, DiffRejected, TreesInv
<1>4. CASE RestoreRemoves \/ RestoreCopies \/ Restored
  BY <1>4, Untouched DEF RestoreRemoves, RestoreCopies, Restored, Restoring, TreesInv
<1>5. ASSUME NEW b \in Benches,
             InitSnapshot(b) \/ Restore(b) \/ ResetSnapshot(b) \/ Fetch(b)
      PROVE  TreesInv'
  <2>1. CASE InitSnapshot(b)
    BY <2>1, InitKeeps
  <2>2. CASE Restore(b)
    BY <2>2, Untouched DEF Restore, Invoke
  <2>3. CASE ResetSnapshot(b)
    BY <2>3, ResetKeeps
  <2>4. CASE Fetch(b)
    BY <2>4, Untouched DEF Fetch
  <2>5. QED
    BY <1>5, <2>1, <2>2, <2>3, <2>4
<1>6. ASSUME NEW b \in Benches, NEW ds, Apply(b, ds) PROVE TreesInv'
  BY <1>6, Untouched DEF Apply, Invoke
<1>7. ASSUME NEW n \in Names, CopySnapshot(n) \/ \E d \in Diffs : PatchCopy(n, d)
      PROVE  TreesInv'
  BY <1>7, Untouched DEF CopySnapshot, PatchCopy
<1>8. CASE ToolchainInit \/ Rebundle
  BY <1>8, Untouched DEF ToolchainInit, Rebundle, Invoke
<1>9. CASE ToolchainCopied \/ ToolchainReset
  BY <1>9, Untouched DEF ToolchainCopied, ToolchainReset
<1>10. CASE BundleTarget
  BY <1>10, GoesOn, Untouched DEF BundleTarget, TreesInv
<1>11. ASSUME NEW d \in Diffs, ToolchainApply(d) PROVE TreesInv'
  BY <1>11, Untouched DEF ToolchainApply
<1>12. CASE SnapshotRemoved
  BY <1>12, RemovedKeeps
<1>13. QED
  BY <1>1, <1>2, <1>3, <1>4, <1>5, <1>6, <1>7, <1>8, <1>9, <1>10, <1>11, <1>12 DEF TreesNext

\* A bench reads the snapshots and leaves them alone.
LEMMA BenchKeeps == ASSUME TreesInv, [Next]_vars PROVE TreesInv'
<1>1. CASE Beside
  BY <1>1, ScriptsKeep DEF Beside
<1>2. ASSUME NEW b \in Benches, NEW swap \in BOOLEAN, NEW build \in BOOLEAN,
             Start(b, swap, build)
      PROVE  TreesInv'
  BY <1>2, Untouched DEF Start, treeVars
<1>3. CASE SwapRemove \/ SwapCopy \/ SwapFails
  BY <1>3, Untouched DEF SwapRemove, SwapCopy, SwapFails
<1>4. CASE CleanBuild \/ Build \/ BuildFails
  BY <1>4, Untouched DEF CleanBuild, Build, BuildFails, treeVars
<1>5. CASE TimeRun \/ CloseCell \/ PrintTable
  BY <1>5, Untouched DEF TimeRun, CloseCell, PrintTable, treeVars
<1>6. CASE UNCHANGED vars
  BY <1>6, Untouched DEF vars, treeVars
<1>7. QED
  BY <1>1, <1>2, <1>3, <1>4, <1>5, <1>6 DEF Next

\* The snapshot of a project's unpatched dependencies is what it was until it
\* is reset, whatever is patched, restored, measured, cut or fails, and
\* whatever other projects have the same name.
THEOREM BaselinesKept == Spec => []BaselineKept
<1>1. TreesInv /\ [Next]_vars => TreesInv'
  BY BenchKeeps
<1>2. TreesInv => BaselineKept
  BY DEF TreesInv
<1>3. QED
  BY TreesInitially, <1>1, <1>2, PTL DEF Spec

-----------------------------------------------------------------------------
(* The patched toolchain: a rebundle that goes through bundles every target. *)

Root ==
    /\ DOMAIN root = {"core", "bundle", "rebundled"}
    /\ DOMAIN root.bundle = Backends
    /\ root.rebundled => \A t \in Backends : root.bundle[t] = root.core

RootInv ==
    /\ cmd # None => "op" \in DOMAIN cmd
    /\ root # None => Root
    /\ cmd # None /\ cmd.op = "rebundle" =>
          /\ Root
          /\ DOMAIN cmd = {"op", "todo"} /\ cmd.todo \in Seq(Backends) \ {<<>>}
          /\ \A t \in Backends : t \in Range(cmd.todo) \/ root.bundle[t] = root.core

\* A root of one core.
LEMMA RootOfOne ==
    ASSUME NEW core
    PROVE  /\ DOMAIN RootOf(core) = {"core", "bundle", "rebundled"}
           /\ DOMAIN RootOf(core).bundle = Backends
           /\ RootOf(core).core = core
           /\ \A t \in Backends : RootOf(core).bundle[t] = core
BY DEF RootOf

LEMMA RootInitially == Init => RootInv
BY RootOfOne DEF Init, TreesInit, RootInv, Root

LEMMA RootUntouched ==
    ASSUME RootInv, UNCHANGED root,
           cmd' = None \/ cmd' = cmd
           \/ ("op" \in DOMAIN cmd' /\ cmd'.op # "rebundle")
    PROVE  RootInv'
BY DEF RootInv, Root

\* A sequence that is not empty has a head, and the rest in its tail.
LEMMA HeadAndTail ==
    ASSUME NEW S, NEW s \in Seq(S), s # <<>>
    PROVE  /\ Head(s) \in S /\ Tail(s) \in Seq(S)
           /\ Range(s) \subseteq {Head(s)} \cup Range(Tail(s))
<1>1. Len(s) \in Nat /\ Len(s) # 0
  <2>1. Len(s) \in Nat \ {0}
    BY EmptySeq
  <2>2. QED
    BY <2>1
<1>2. /\ Head(s) \in S /\ Tail(s) \in Seq(S) /\ Len(Tail(s)) = Len(s) - 1
      /\ \A i \in 1..(Len(s) - 1) : Tail(s)[i] = s[i + 1]
  BY <1>1
<1>3. Range(s) \subseteq {Head(s)} \cup Range(Tail(s))
  <2> SUFFICES ASSUME NEW i \in 1..Len(s), i # 1 PROVE s[i] \in Range(Tail(s))
    BY <1>1 DEF Range
  <2>1. i - 1 \in DOMAIN Tail(s) /\ Tail(s)[i - 1] = s[i]
    BY <1>1, <1>2
  <2>2. QED
    BY <2>1 DEF Range
<1>4. QED
  BY <1>2, <1>3

LEMMA BundleKeeps == ASSUME RootInv, BundleTarget PROVE RootInv'
<1> DEFINE t == Head(cmd.todo)
           rest == Tail(cmd.todo)
<1>1. /\ DOMAIN root = {"core", "bundle", "rebundled"} /\ DOMAIN root.bundle = Backends
      /\ cmd # None /\ cmd.op = "rebundle" /\ DOMAIN cmd = {"op", "todo"}
      /\ cmd.todo \in Seq(Backends) \ {<<>>}
      /\ root.rebundled => \A u \in Backends : root.bundle[u] = root.core
      /\ \A u \in Backends : u \in Range(cmd.todo) \/ root.bundle[u] = root.core
  BY DEF BundleTarget, RootInv, Root
<1>2. /\ t \in Backends /\ rest \in Seq(Backends)
      /\ Range(cmd.todo) \subseteq {t} \cup Range(rest)
  BY <1>1, HeadAndTail
<1>3. /\ root' = [root EXCEPT !.bundle[t] = root.core, !.rebundled = @ \/ rest = <<>>]
      /\ cmd' = IF rest = <<>> THEN None ELSE [cmd EXCEPT !.todo = rest]
  BY DEF BundleTarget, NextDiff
<1> HIDE DEF t, rest
<1>4. /\ DOMAIN root' = {"core", "bundle", "rebundled"}
      /\ root'.core = root.core /\ DOMAIN root'.bundle = Backends
      /\ root'.rebundled = (root.rebundled \/ rest = <<>>)
      /\ \A u \in Backends : root'.bundle[u] = IF u = t THEN root.core ELSE root.bundle[u]
  BY <1>1, <1>2, <1>3
<1>5. rest = <<>> => Range(rest) = {}
  BY DEF Range
<1>6. \A u \in Backends : u \in Range(rest) \/ root'.bundle[u] = root'.core
  BY <1>1, <1>2, <1>4
<1>7. root'.rebundled => \A u \in Backends : root'.bundle[u] = root'.core
  BY <1>1, <1>4, <1>5, <1>6
<1>8. cmd' # None => /\ rest # <<>> /\ cmd'.op = "rebundle" /\ DOMAIN cmd' = {"op", "todo"}
                     /\ cmd'.todo = rest
  BY <1>1, <1>3
<1>9. QED
  BY <1>2, <1>4, <1>6, <1>7, <1>8 DEF RootInv, Root

\* What else the scripts do to the patched toolchain.
LEMMA ScriptsKeepRoot == ASSUME RootInv, TreesNext PROVE RootInv'
<1>1. CASE Interrupt \/ SnapshotCopied \/ SnapshotRemoved \/ DiffRejected \/ Restored
  BY <1>1, RootUntouched
     DEF Interrupt, SnapshotCopied, SnapshotRemoved, DiffRejected, Restored
<1>2. CASE ApplyDiff
  BY <1>2, RootUntouched DEF ApplyDiff, NextDiff, RootInv
<1>3. CASE RestoreRemoves \/ RestoreCopies
  BY <1>3, RootUntouched DEF RestoreRemoves, RestoreCopies, Restoring, RootInv
<1>4. ASSUME NEW b \in Benches,
             InitSnapshot(b) \/ Restore(b) \/ ResetSnapshot(b) \/ Fetch(b)
      PROVE  RootInv'
  BY <1>4, RootUntouched DEF InitSnapshot, Restore, ResetSnapshot, Fetch, Invoke
<1>5. ASSUME NEW b \in Benches, NEW ds, Apply(b, ds) PROVE RootInv'
  BY <1>5, RootUntouched DEF Apply, Invoke
<1>6. ASSUME NEW n \in Names, CopySnapshot(n) \/ \E d \in Diffs : PatchCopy(n, d)
      PROVE  RootInv'
  BY <1>6, RootUntouched DEF CopySnapshot, PatchCopy
<1>7. CASE ToolchainInit
  <2>1. /\ cmd' = [op |-> "tc_init"] /\ cmd'.op # "rebundle" /\ "op" \in DOMAIN cmd'
        /\ root' = RootOf(Cut)
    BY <1>7 DEF ToolchainInit, Invoke
  <2>2. QED
    BY <2>1, RootOfOne DEF RootInv, Root
<1>8. CASE ToolchainCopied
  BY <1>8, RootOfOne DEF ToolchainCopied, RootInv, Root
<1>9. CASE Rebundle
  <2>1. /\ Root /\ UNCHANGED root
        /\ DOMAIN cmd' = {"op", "todo"} /\ cmd'.todo = Targets /\ cmd'.op = "rebundle"
    BY <1>9 DEF Rebundle, Invoke, RootInv
  <2>2. \A t \in Backends : t \in Range(cmd'.todo)
    BY <2>1 DEF Backends
  <2>3. QED
    BY <2>1, <2>2, TreesAssumption DEF RootInv, Root
<1>10. CASE BundleTarget
  BY <1>10, BundleKeeps
<1>11. ASSUME NEW d \in Diffs, ToolchainApply(d) PROVE RootInv'
  <2>1. PICK core : root' = [root EXCEPT !.core = core, !.rebundled = FALSE]
    BY <1>11 DEF ToolchainApply
  <2>2. Root /\ cmd' = None
    BY <1>11 DEF ToolchainApply, RootInv
  <2>3. Root'
    BY <2>1, <2>2 DEF Root
  <2>4. QED
    BY <2>2, <2>3 DEF RootInv
<1>12. CASE ToolchainReset
  BY <1>12, RootOfOne DEF ToolchainReset, RootInv, Root
<1>13. QED
  BY <1>1, <1>2, <1>3, <1>4, <1>5, <1>6, <1>7, <1>8, <1>9, <1>10, <1>11, <1>12 DEF TreesNext

\* A bench reads the patched toolchain.
LEMMA BenchKeepsRoot == ASSUME RootInv, [Next]_vars PROVE RootInv'
<1>1. CASE Beside
  BY <1>1, ScriptsKeepRoot DEF Beside
<1>2. ASSUME NEW b \in Benches, NEW swap \in BOOLEAN, NEW build \in BOOLEAN,
             Start(b, swap, build)
      PROVE  RootInv'
  BY <1>2, RootUntouched DEF Start, treeVars
<1>3. CASE SwapRemove \/ SwapCopy \/ SwapFails
  BY <1>3, RootUntouched DEF SwapRemove, SwapCopy, SwapFails
<1>4. CASE CleanBuild \/ Build \/ BuildFails
  BY <1>4, RootUntouched DEF CleanBuild, Build, BuildFails, treeVars
<1>5. CASE TimeRun \/ CloseCell \/ PrintTable
  BY <1>5, RootUntouched DEF TimeRun, CloseCell, PrintTable, treeVars
<1>6. CASE UNCHANGED vars
  BY <1>6, RootUntouched DEF vars, treeVars
<1>7. QED
  BY <1>1, <1>2, <1>3, <1>4, <1>5, <1>6 DEF Next

-----------------------------------------------------------------------------
(* The table of a bench.                                                   *)

BenchFields == {"b", "swap", "build", "rooted", "kind", "step", "todo", "timed", "made", "plan"}

\* The binary x is built from what a phase of this plan should measure.
Right(x, plan, c) ==
    /\ x.deps = plan.deps
    /\ x.core = plan.root.bundle[c[2]]
    /\ plan.root.rebundled => x.core = plan.root.core

\* Where the bench is.
BenchShape ==
    /\ DOMAIN bench = BenchFields
    /\ bench.b \in Benches /\ bench.kind \in Kinds
    /\ bench.step \in {"swap", "copy", "clean", "build", "time", "print"}
    /\ bench.todo \in Seq(Range(Cells)) \ {<<>>}
    /\ bench.made \in [Kinds -> SUBSET Range(Cells)]
    /\ bench.kind = "baseline" => bench.made["patched"] = {}
    /\ bench.step \in {"swap", "copy", "clean"} => bench.made[bench.kind] = {}
    /\ bench.step = "print" => bench.kind = "patched"
    /\ bench.timed # 0 => bench.step = "time" /\ Binary # NoBinary

\* While nothing else writes a tree: the project has the dependencies of the
\* phase from the swap on, and each cell that a phase compiled has the binary
\* of its plan.  The baseline, and a bench without a patched toolchain, has
\* the user's own.
PlanKept ==
    /\ DOMAIN bench.plan = Kinds
    /\ \A k \in Kinds : DOMAIN bench.plan[k] = {"deps", "root"}
    /\ bench.swap \/ bench.plan["baseline"].deps = bench.plan["patched"].deps
    /\ ~bench.swap => bench.step \notin {"swap", "copy"}
    /\ bench.step = "copy" => live[bench.b] = None /\ bench.plan[bench.kind].deps = Source
    /\ bench.step \in {"clean", "build", "time", "print"} =>
           Deps(bench.b) = bench.plan[bench.kind].deps
    /\ bench.step = "build" => bench.plan[bench.kind].root = Toolchain
    /\ \A k \in Kinds : bench.made[k] # {} =>
           \/ k = "patched" /\ bench.rooted
           \/ bench.plan[k].root = RootOf(Stock)
    /\ \A c \in bench.made[bench.kind] :
           Right(artifacts[bench.b][c], bench.plan[bench.kind], c)
    /\ \A k \in Kinds : \A c \in bench.made[k] :
           results[c][k] # None => Right(results[c][k], bench.plan[k], c)

\* What the second phase does not compile is what the first phase timed.
RowsKept ==
    /\ bench.kind = "baseline" => \A c \in Range(Cells) : results[c]["patched"] = None
    /\ bench.step \notin {"time", "print"} =>
           \A c \in Range(Cells) : results[c][bench.kind] = None
    /\ \A c \in Range(Cells) \ bench.made["patched"] : results[c]["baseline"] # None =>
           /\ artifacts[bench.b][c] \in {NoBinary, results[c]["baseline"]}
           /\ results[c]["patched"] \in {None, results[c]["baseline"]}

CellsInv ==
    /\ DOMAIN live = Benches
    /\ DOMAIN artifacts = Benches
    /\ \A b \in Benches : DOMAIN artifacts[b] = Range(Cells)
    /\ DOMAIN results = Range(Cells)
    /\ \A c \in Range(Cells) : DOMAIN results[c] = Kinds
    /\ bench # None => BenchShape /\ RowsKept /\ (bench.plan # None => PlanKept)

\* The cells are in a sequence, and their backends are targets of a rebundle.
LEMMA CellsSeq ==
    /\ Cells \in Seq(Range(Cells)) /\ (Range(Cells) # {} => Cells # <<>>)
    /\ \A c \in Range(Cells) : c[2] \in Backends
<1> DEFINE S == Workloads \X TimedOn
           n == Cardinality(S)
<1>1. IsFiniteSet(S)
  BY BenchAssumption, FS_Product
<1>2. n \in Nat /\ ExistsBijection(1..n, S)
  BY <1>1, FS_CardinalityType
<1>3. \E f \in [1..n -> S] : IsInjective(f)
  BY <1>2 DEF ExistsBijection, Bijection, Injection
<1>4. Cells \in [1..n -> S]
  BY <1>3 DEF Cells, SetToSeq
<1>5. \A c \in Range(Cells) : c[2] \in Backends
  BY <1>4, BenchAssumption DEF Range
<1> HIDE DEF S, n
<1>6. Cells \in [1..n -> Range(Cells)]
  BY <1>4 DEF Range
<1>7. Cells \in Seq(Range(Cells))
  BY <1>2, <1>6
<1>8. Cells = <<>> => Range(Cells) = {}
  BY <1>7 DEF Range
<1>9. QED
  BY <1>5, <1>7, <1>8

LEMMA CellsInitially == Init => CellsInv
BY DEF Init, TreesInit, CellsInv, NoTable, NoCell

\* What the end of a cell leaves to do.
LEMMA NextCellValue ==
    ASSUME Range(Cells) # {}, BenchShape, NEW step, NEW next, NEW n, n = NextCell(step, next)
    PROVE  /\ DOMAIN n = BenchFields
           /\ n.todo \in Seq(Range(Cells)) \ {<<>>}
           /\ n.step = IF Len(bench.todo) = 1 THEN next ELSE step
           /\ \A f \in BenchFields \ {"step", "todo"} : n[f] = bench[f]
<1>1. bench.todo \in Seq(Range(Cells)) \ {<<>>} /\ DOMAIN bench = BenchFields
  BY DEF BenchShape
<1>2. n = [bench EXCEPT !.step = IF Len(bench.todo) = 1 THEN next ELSE step,
                        !.todo = IF Len(bench.todo) = 1 THEN Cells ELSE Tail(bench.todo)]
  BY DEF NextCell
<1>3. /\ DOMAIN n = BenchFields
      /\ n.step = IF Len(bench.todo) = 1 THEN next ELSE step
      /\ n.todo = IF Len(bench.todo) = 1 THEN Cells ELSE Tail(bench.todo)
      /\ \A f \in BenchFields \ {"step", "todo"} : n[f] = bench[f]
  BY <1>1, <1>2 DEF BenchFields
<1>4. CASE Len(bench.todo) = 1
  BY <1>3, <1>4, CellsSeq
<1>5. CASE Len(bench.todo) # 1
  <2>1. PICK s \in Seq(Range(Cells)) : s = bench.todo /\ s # <<>>
    BY <1>1
  <2>2. Len(s) \in Nat /\ Len(s) # 0 /\ Len(s) # 1
    <3>1. Len(s) \in Nat \ {0}
      BY <2>1, EmptySeq
    <3>2. QED
      BY <1>5, <2>1, <3>1
  <2>3. Tail(s) \in Seq(Range(Cells)) /\ Len(Tail(s)) # 0
    BY <2>2
  <2>4. Tail(s) # <<>>
    <3>1. Len(<<>>) = 0
      OBVIOUS
    <3>2. QED
      BY <2>3, <3>1, Zenon
  <2>5. n.todo = Tail(s)
    BY <1>3, <1>5, <2>1
  <2>6. QED
    BY <1>3, <2>3, <2>4, <2>5, Zenon
<1>6. QED
  BY <1>4, <1>5

\* The cell at the head is one of the cells.
LEMMA HeadIsCell == ASSUME BenchShape PROVE Head(bench.todo) \in Range(Cells)
BY HeadAndTail DEF BenchShape

\* The scripts keep the projects, whatever they do to a tree.
LEMMA ScriptsKeepProjects == ASSUME DOMAIN live = Benches, TreesNext PROVE DOMAIN live' = Benches
BY DEF TreesNext, Interrupt, SnapshotCopied, SnapshotRemoved, ApplyDiff, DiffRejected,
       RestoreRemoves, RestoreCopies, Restored, InitSnapshot, Restore, ResetSnapshot, Fetch,
       Apply, CopySnapshot, PatchCopy, ToolchainInit, ToolchainCopied, Rebundle, BundleTarget,
       ToolchainApply, ToolchainReset

LEMMA BesideKeeps == ASSUME CellsInv, Beside PROVE CellsInv'
<1>1. UNCHANGED <<artifacts, results, benches>> /\ DOMAIN live' = Benches
  BY ScriptsKeepProjects DEF Beside, CellsInv
<1>2. CASE bench' = bench /\ UNCHANGED <<live, snap, side, root>>
  BY <1>1, <1>2 DEF CellsInv, BenchShape, RowsKept, PlanKept, Source, Toolchain, Patching,
                    Deps, Binary
<1>3. CASE bench = None /\ bench' = bench
  BY <1>1, <1>3 DEF CellsInv
<1>4. CASE bench # None /\ bench' = [bench EXCEPT !.plan = None]
  <2>1. BenchShape /\ RowsKept
    BY <1>4 DEF CellsInv
  <2>2. /\ DOMAIN bench' = BenchFields /\ bench'.plan = None
        /\ \A f \in BenchFields \ {"plan"} : bench'[f] = bench[f]
    BY <1>4, <2>1 DEF BenchShape, BenchFields
  <2>3. BenchShape' /\ RowsKept'
    BY <1>1, <2>1, <2>2 DEF BenchShape, RowsKept, BenchFields, Binary
  <2>4. QED
    BY <1>1, <2>2, <2>3 DEF CellsInv
<1>5. QED
  BY <1>2, <1>3, <1>4 DEF Beside

\* A bench starts with everything to do.
LEMMA BenchStarts ==
    ASSUME Range(Cells) # {}, CellsInv, NEW b \in Benches, NEW swap \in BOOLEAN,
           NEW build \in BOOLEAN, Start(b, swap, build)
    PROVE  CellsInv'
<1>1. /\ UNCHANGED <<live, artifacts>>
      /\ results' = NoTable
      /\ DOMAIN bench' = BenchFields /\ bench'.b = b /\ bench'.kind = "baseline"
      /\ bench'.swap = swap /\ bench'.todo = Cells /\ bench'.timed = 0
      /\ bench'.step = IF swap THEN "swap" ELSE IF build THEN "clean" ELSE "time"
      /\ bench'.made = [k \in Kinds |-> {}]
      /\ bench'.plan = [k \in Kinds |-> [deps |-> Deps(b), root |-> None]]
  BY DEF Start, BenchFields, treeVars
<1>2. BenchShape'
  BY <1>1, CellsSeq DEF BenchShape, Kinds
<1>3. \A c \in Range(Cells) : \A k \in Kinds : results'[c][k] = None
  BY <1>1 DEF NoTable, NoCell
<1>4. RowsKept'
  BY <1>1, <1>3 DEF RowsKept, Kinds
<1>5. PlanKept'
  BY <1>1, <1>3 DEF PlanKept, Kinds, Deps
<1>6. QED
  BY <1>1, <1>2, <1>4, <1>5 DEF CellsInv, NoTable, NoCell

\* The swap: what is copied is what is wanted, unless something else wrote it.
LEMMA SwapKeeps == ASSUME CellsInv, SwapRemove \/ SwapCopy \/ SwapFails PROVE CellsInv'
<1>1. bench # None /\ BenchShape /\ RowsKept /\ bench.b \in Benches /\ DOMAIN live = Benches
      /\ (bench.plan # None => PlanKept)
  BY DEF SwapRemove, SwapCopy, SwapFails, At, CellsInv, BenchShape
<1>2. UNCHANGED <<snap, side, root, artifacts>>
  BY DEF SwapRemove, SwapCopy, SwapFails
<1>3. DOMAIN live' = Benches
  BY <1>1 DEF SwapRemove, SwapCopy, SwapFails
<1>4. CASE SwapRemove
  <2> DEFINE k == bench.kind
             plan == Planned("deps", Source)
  <2>1. /\ DOMAIN bench' = BenchFields /\ bench'.step = "copy" /\ bench'.plan = plan
        /\ \A f \in BenchFields \ {"step", "plan"} : bench'[f] = bench[f]
        /\ bench.step = "swap" /\ live'[bench.b] = None /\ UNCHANGED results
    BY <1>1, <1>4 DEF SwapRemove, At, BenchShape, BenchFields
  <2>2. k \in Kinds /\ bench.made[k] = {} /\ bench.timed = 0
    BY <1>1, <2>1 DEF BenchShape
  <2>3. BenchShape'
    BY <1>1, <2>1, <2>2 DEF BenchShape, BenchFields
  <2>4. RowsKept'
    BY <1>1, <1>2, <2>1 DEF RowsKept, BenchFields
  <2>5. Source' = Source
    BY <1>2, <2>1 DEF Source, BenchFields
  <2>6. bench.plan # None =>
           /\ plan = [bench.plan EXCEPT ![k]["deps"] = Source]
           /\ DOMAIN plan = Kinds
           /\ \A j \in Kinds : DOMAIN plan[j] = {"deps", "root"} /\ plan[j].root = bench.plan[j].root
           /\ \A j \in Kinds : j # k => plan[j] = bench.plan[j]
           /\ plan[k].deps = Source
    BY <1>1, <2>2 DEF Planned, PlanKept
  <2>7. bench.plan = None => plan = None
    BY DEF Planned
  <2> HIDE DEF plan, k
  <2>8. ASSUME bench.plan # None PROVE PlanKept'
    <3>1. bench'.kind = k /\ bench'.made = bench.made /\ bench'.b = bench.b
          /\ bench'.rooted = bench.rooted /\ bench'.swap = bench.swap
      BY <2>1 DEF BenchFields, k
    <3>2. bench.swap
      BY <1>1, <2>1, <2>8 DEF PlanKept
    <3>3. \A j \in Kinds : \A c \in bench.made[j] : j # k
      BY <2>2 DEF k
    <3>4. \A j \in Kinds : \A c \in bench.made[j] :
             results'[c][j] # None => Right(results'[c][j], bench'.plan[j], c)
      BY <1>1, <2>1, <2>6, <2>8, <3>3 DEF PlanKept
    <3>5. QED
      BY <1>1, <1>2, <2>1, <2>2, <2>5, <2>6, <2>8, <3>1, <3>2, <3>4 DEF PlanKept, k
  <2>9. QED
    BY <1>2, <1>3, <2>1, <2>3, <2>4, <2>7, <2>8 DEF CellsInv
<1>5. CASE SwapCopy
  <2>1. /\ DOMAIN bench' = BenchFields
        /\ bench'.step \in {"clean", "time"}
        /\ \A f \in BenchFields \ {"step"} : bench'[f] = bench[f]
        /\ bench.step = "copy" /\ Source # None /\ UNCHANGED results
        /\ live'[bench.b] = IF live[bench.b] = None THEN Source ELSE live[bench.b]
    BY <1>1, <1>5 DEF SwapCopy, At, BenchShape, BenchFields
  <2>2. bench.made[bench.kind] = {} /\ bench.timed = 0
    BY <1>1, <2>1 DEF BenchShape
  <2>3. BenchShape'
    BY <1>1, <2>1, <2>2 DEF BenchShape, BenchFields
  <2>4. RowsKept'
    BY <1>1, <1>2, <2>1 DEF RowsKept, BenchFields
  <2>5. ASSUME bench.plan # None PROVE PlanKept'
    <3>1. live'[bench.b] = Source /\ bench.plan[bench.kind].deps = Source
      BY <1>1, <2>1, <2>5 DEF PlanKept
    <3>2. Deps(bench.b)' = Source
      BY <2>1, <3>1 DEF Deps, BenchFields
    <3>3. QED
      BY <1>1, <1>2, <2>1, <2>2, <2>5, <3>1, <3>2 DEF PlanKept, BenchFields
  <2>6. QED
    BY <1>2, <1>3, <2>1, <2>3, <2>4, <2>5 DEF CellsInv, BenchFields
<1>6. CASE SwapFails
  BY <1>2, <1>3, <1>6 DEF SwapFails, Over, CellsInv, NoTable, NoCell
<1>7. QED
  BY <1>4, <1>5, <1>6

\* _build is removed, or some of it is: what is left is what was there.
LEMMA CleanKeeps == ASSUME CellsInv, CleanBuild PROVE CellsInv'
<1> DEFINE k == bench.kind
           plan == Planned("root", Toolchain)
<1>1. bench # None /\ BenchShape /\ RowsKept /\ bench.b \in Benches /\ DOMAIN live = Benches
      /\ (bench.plan # None => PlanKept)
  BY DEF CleanBuild, At, CellsInv, BenchShape
<1>2. UNCHANGED <<live, snap, side, root, results>>
  BY DEF CleanBuild, treeVars
<1>3. /\ DOMAIN bench' = BenchFields /\ bench'.step = "build" /\ bench'.plan = plan
      /\ \A f \in BenchFields \ {"step", "plan"} : bench'[f] = bench[f]
      /\ bench.step = "clean"
  BY <1>1 DEF CleanBuild, At, BenchShape, BenchFields
<1>4. k \in Kinds /\ bench.made[k] = {} /\ bench.timed = 0
  BY <1>1, <1>3 DEF BenchShape
<1>5. /\ DOMAIN artifacts' = Benches
      /\ \A b \in Benches : DOMAIN artifacts'[b] = Range(Cells)
      /\ \A c \in Range(Cells) : artifacts'[bench.b][c] \in {artifacts[bench.b][c], NoBinary}
  <2>1. PICK kept \in SUBSET Range(Cells) :
           artifacts' = [artifacts EXCEPT ![bench.b] =
                            [c \in Range(Cells) |-> IF c \in kept THEN @[c] ELSE NoBinary]]
    BY DEF CleanBuild
  <2>2. QED
    BY <1>1, <2>1 DEF CellsInv
<1>6. BenchShape'
  BY <1>1, <1>3, <1>4 DEF BenchShape, BenchFields
<1>7. RowsKept'
  BY <1>1, <1>2, <1>3, <1>5 DEF RowsKept, BenchFields
<1>8. Toolchain' = Toolchain
  BY <1>2, <1>3 DEF Toolchain, Patching, BenchFields
<1>9. bench.plan # None =>
         /\ DOMAIN plan = Kinds
         /\ \A j \in Kinds : DOMAIN plan[j] = {"deps", "root"} /\ plan[j].deps = bench.plan[j].deps
         /\ \A j \in Kinds : j # k => plan[j] = bench.plan[j]
         /\ plan[k].root = Toolchain
  BY <1>1, <1>4 DEF Planned, PlanKept
<1>10. bench.plan = None => plan = None
  BY DEF Planned
<1> HIDE DEF plan, k
<1>11. ASSUME bench.plan # None PROVE PlanKept'
  <2>1. bench'.kind = k /\ bench'.made = bench.made /\ bench'.b = bench.b
        /\ bench'.rooted = bench.rooted /\ bench'.swap = bench.swap
    BY <1>3 DEF BenchFields, k
  <2>2. Deps(bench.b)' = Deps(bench.b)
    BY <1>2, <2>1 DEF Deps
  <2>3. "baseline" \in Kinds /\ "patched" \in Kinds
    BY DEF Kinds
  <2>4. \A j \in Kinds : \A c \in bench.made[j] :
           results'[c][j] # None => Right(results'[c][j], bench'.plan[j], c)
    BY <1>1, <1>2, <1>3, <1>4, <1>9, <1>11 DEF PlanKept
  <2>5. QED
    BY <1>1, <1>2, <1>3, <1>4, <1>8, <1>9, <1>11, <2>1, <2>2, <2>3, <2>4 DEF PlanKept, k
<1>12. QED
  BY <1>2, <1>1, <1>3, <1>5, <1>6, <1>7, <1>10, <1>11 DEF CellsInv

\* A cell that the build compiles is made of what the phase should measure.
LEMMA CompiledRight ==
    ASSUME RootInv, BenchShape, PlanKept, bench.step = "build", Toolchain # None,
           NEW c \in Range(Cells)
    PROVE  Right(Compiled(c), bench.plan[bench.kind], c)
<1>1. /\ Compiled(c).deps = Deps(bench.b)
      /\ Compiled(c).core = Toolchain.bundle[c[2]]
  BY DEF Compiled
<1>2. /\ bench.plan[bench.kind].root = Toolchain
      /\ bench.plan[bench.kind].deps = Deps(bench.b)
  BY DEF PlanKept
<1>3. c[2] \in Backends
  BY CellsSeq
<1>4. Toolchain.rebundled => Toolchain.bundle[c[2]] = Toolchain.core
  <2>1. CASE Patching
    BY <1>3, <2>1 DEF Toolchain, RootInv, Root
  <2>2. CASE ~Patching
    BY <1>3, <2>2, RootOfOne DEF Toolchain
  <2>3. QED
    BY <2>1, <2>2
<1>5. QED
  BY <1>1, <1>2, <1>4 DEF Right

LEMMA BuildKeeps ==
    ASSUME Range(Cells) # {}, RootInv, CellsInv, Build
    PROVE  CellsInv'
<1> DEFINE k == bench.kind
           c == Head(bench.todo)
           old == artifacts[bench.b]
           new == artifacts'[bench.b]
           made == bench'.made[k]
<1>1. bench # None /\ BenchShape /\ RowsKept /\ bench.b \in Benches /\ DOMAIN live = Benches
      /\ (bench.plan # None => PlanKept) /\ bench.step = "build" /\ k \in Kinds
      /\ c \in Range(Cells) /\ bench.made \in [Kinds -> SUBSET Range(Cells)]
  BY HeadIsCell DEF Build, At, CellsInv, BenchShape
<1>2. UNCHANGED <<snap, side, root, results>> /\ Toolchain # None
      /\ live' = [live EXCEPT ![bench.b] = Deps(bench.b)]
  BY DEF Build
<1>3. PICK next : /\ next = NextCell("build", "time")
                  /\ \/ /\ artifacts' = [artifacts EXCEPT ![bench.b][c] = Compiled(c)]
                        /\ bench' = [next EXCEPT !.made[bench.kind] = @ \cup {c}]
                     \/ /\ bench' = next
                        /\ UNCHANGED artifacts
  BY DEF Build
<1>4. /\ DOMAIN next = BenchFields
      /\ next.todo \in Seq(Range(Cells)) \ {<<>>}
      /\ next.step \in {"build", "time"}
      /\ \A f \in BenchFields \ {"step", "todo"} : next[f] = bench[f]
  BY <1>1, <1>3, NextCellValue
<1>5. /\ DOMAIN bench' = BenchFields
      /\ bench'.todo \in Seq(Range(Cells)) \ {<<>>}
      /\ bench'.step \in {"build", "time"}
      /\ \A f \in BenchFields \ {"step", "todo", "made"} : bench'[f] = bench[f]
      /\ bench'.made \in [Kinds -> SUBSET Range(Cells)]
      /\ \A j \in Kinds : j # k => bench'.made[j] = bench.made[j]
  BY <1>1, <1>3, <1>4 DEF BenchFields
<1>6. /\ DOMAIN artifacts' = Benches
      /\ \A b \in Benches : DOMAIN artifacts'[b] = Range(Cells)
      /\ \A d \in Range(Cells) : d # c => new[d] = old[d]
      /\ \/ new[c] = Compiled(c) /\ made = bench.made[k] \cup {c}
         \/ new[c] = old[c] /\ made = bench.made[k]
  BY <1>1, <1>3, <1>4 DEF CellsInv, BenchFields
<1>7. Deps(bench.b)' = Deps(bench.b) /\ Toolchain' = Toolchain
      /\ bench'.kind = k /\ bench'.b = bench.b /\ bench'.plan = bench.plan
      /\ bench'.swap = bench.swap /\ bench'.rooted = bench.rooted
      /\ bench'.timed = bench.timed
  BY <1>1, <1>2, <1>5 DEF Deps, Toolchain, Patching, BenchFields
<1>8. \A d \in Range(Cells) : results[d][k] = None
  BY <1>1 DEF RowsKept
<1> HIDE DEF k, c, old, new, made
<1>9. BenchShape'
  <2>1. bench'.timed = 0
    BY <1>1, <1>7 DEF BenchShape
  <2>2. k = "baseline" => bench'.made["patched"] = {}
    BY <1>1, <1>5 DEF BenchShape, Kinds, k
  <2>3. QED
    BY <1>1, <1>5, <1>7, <2>1, <2>2 DEF BenchShape
<1>10. RowsKept'
  <2>1. CASE k = "baseline"
    BY <1>1, <1>2, <1>5, <1>7, <1>8, <2>1 DEF RowsKept, k
  <2>2. CASE k = "patched"
    <3>1. \A d \in Range(Cells) \ bench'.made["patched"] :
             d \notin bench.made["patched"] /\ new[d] = old[d]
      BY <1>6, <2>2 DEF made
    <3>2. QED
      BY <1>1, <1>2, <1>5, <1>7, <1>8, <2>2, <3>1 DEF RowsKept, k, new, old
  <2>3. QED
    BY <1>1, <2>1, <2>2 DEF Kinds
<1>11. ASSUME bench.plan # None PROVE PlanKept'
  <2>1. Right(Compiled(c), bench.plan[k], c)
    BY <1>1, <1>2, <1>11, CompiledRight DEF k
  <2>2. \A d \in made : Right(new[d], bench.plan[k], d)
    BY <1>1, <1>6, <1>11, <2>1 DEF PlanKept, k, old
  <2>3. \A j \in Kinds : bench'.made[j] # {} =>
           \/ j = "patched" /\ bench.rooted
           \/ bench.plan[j].root = RootOf(Stock)
    <3>1. CASE k = "patched" /\ bench.rooted
      BY <1>1, <1>5, <1>11, <3>1 DEF PlanKept, Kinds
    <3>2. CASE ~(k = "patched" /\ bench.rooted)
      <4>1. bench.plan[k].root = RootOf(Stock)
        BY <1>1, <1>11, <3>2 DEF PlanKept, Toolchain, Patching, k
      <4>2. QED
        BY <1>1, <1>5, <1>11, <4>1 DEF PlanKept
    <3>3. QED
      BY <3>1, <3>2
  <2>4. \A j \in Kinds : \A d \in bench'.made[j] :
           results'[d][j] # None => Right(results'[d][j], bench.plan[j], d)
    BY <1>1, <1>2, <1>5, <1>8, <1>11 DEF PlanKept
  <2>5. QED
    BY <1>1, <1>5, <1>7, <1>11, <2>2, <2>3, <2>4 DEF PlanKept, k, made, new
<1>12. QED
  BY <1>1, <1>2, <1>6, <1>7, <1>9, <1>10, <1>11 DEF CellsInv

\* A run adds a time.
LEMMA TimeKeeps == ASSUME CellsInv, TimeRun PROVE CellsInv'
<1>1. bench # None /\ BenchShape /\ RowsKept /\ (bench.plan # None => PlanKept)
      /\ bench.step = "time" /\ Binary # NoBinary
  BY DEF TimeRun, At, CellsInv
<1>2. /\ UNCHANGED <<live, snap, side, root, artifacts, results>>
      /\ DOMAIN bench' = BenchFields
      /\ \A f \in BenchFields \ {"timed"} : bench'[f] = bench[f]
  BY <1>1 DEF TimeRun, treeVars, BenchShape, BenchFields
<1>3. BenchShape' /\ RowsKept'
  BY <1>1, <1>2 DEF BenchShape, RowsKept, BenchFields, Binary
<1>4. bench.plan # None => PlanKept'
  BY <1>1, <1>2 DEF PlanKept, BenchFields, Source, Toolchain, Patching, Deps
<1>5. QED
  BY <1>2, <1>3, <1>4 DEF CellsInv, BenchFields

\* The end of a cell: what it measured goes to its phase's column, and the
\* phase or the bench ends with the last one.
LEMMA CloseKeeps ==
    ASSUME Range(Cells) # {}, CellsInv, CloseCell
    PROVE  CellsInv'
<1> DEFINE k == bench.kind
           c == Head(bench.todo)
           new == IF bench.timed = 0 THEN None ELSE Binary
           after == IF bench.kind = "patched" THEN "print"
                    ELSE IF bench.swap THEN "swap" ELSE IF bench.build THEN "clean" ELSE "time"
           last == Len(bench.todo) = 1
<1>1. bench # None /\ BenchShape /\ RowsKept /\ bench.step = "time" /\ k \in Kinds
      /\ (bench.plan # None => PlanKept) /\ c \in Range(Cells)
      /\ bench.made \in [Kinds -> SUBSET Range(Cells)]
  BY HeadIsCell DEF CloseCell, At, CellsInv, BenchShape
<1>2. UNCHANGED <<live, snap, side, root, artifacts>>
  BY DEF CloseCell, treeVars
<1>3. results' = [results EXCEPT ![c][k] = new]
  BY DEF CloseCell
<1>4. new # None => new = artifacts[bench.b][c] /\ new # NoBinary
  BY <1>1 DEF Binary, BenchShape
<1>5. PICK next : /\ next = NextCell("time", after)
                  /\ bench' = [next EXCEPT !.timed = 0, !.kind = IF last THEN "patched" ELSE @]
  BY DEF CloseCell, NextPhase
<1>6. /\ DOMAIN next = BenchFields
      /\ next.todo \in Seq(Range(Cells)) \ {<<>>}
      /\ next.step = IF last THEN after ELSE "time"
      /\ \A f \in BenchFields \ {"step", "todo"} : next[f] = bench[f]
  BY <1>1, <1>5, NextCellValue
<1> HIDE DEF new, c, last
<1>7. /\ DOMAIN bench' = BenchFields
      /\ bench'.todo \in Seq(Range(Cells)) \ {<<>>}
      /\ bench'.step = IF last THEN after ELSE "time"
      /\ bench'.kind = IF last THEN "patched" ELSE k
      /\ bench'.timed = 0
      /\ \A f \in BenchFields \ {"step", "todo", "timed", "kind"} : bench'[f] = bench[f]
  BY <1>5, <1>6 DEF BenchFields
<1>8. /\ bench'.b = bench.b /\ bench'.made = bench.made /\ bench'.plan = bench.plan
      /\ bench'.swap = bench.swap /\ bench'.rooted = bench.rooted
  BY <1>7 DEF BenchFields
<1>9. /\ DOMAIN results' = Range(Cells)
      /\ \A d \in Range(Cells) : DOMAIN results'[d] = Kinds
      /\ \A d \in Range(Cells) : \A j \in Kinds :
            results'[d][j] = IF d = c /\ j = k THEN new ELSE results[d][j]
  BY <1>1, <1>3 DEF CellsInv
<1>10. k = "baseline" => bench.made["patched"] = {}
  BY <1>1 DEF BenchShape
<1>11. BenchShape'
  BY <1>1, <1>7, <1>8, <1>10 DEF BenchShape, Kinds
<1>12. RowsKept'
  <2>1. "baseline" \in Kinds /\ "patched" \in Kinds
    BY DEF Kinds
  <2>2. k = "baseline" => \A d \in Range(Cells) : results'[d]["patched"] = None
    BY <1>1, <1>9, <2>1 DEF RowsKept
  <2>3. bench'.step \notin {"time", "print"} => k = "baseline" /\ bench'.kind = "patched"
    BY <1>1, <1>7 DEF Kinds
  <2>4. ASSUME NEW d \in Range(Cells) \ bench.made["patched"], results'[d]["baseline"] # None
        PROVE  /\ artifacts[bench.b][d] \in {NoBinary, results'[d]["baseline"]}
               /\ results'[d]["patched"] \in {None, results'[d]["baseline"]}
    <3>1. CASE d # c
      BY <1>1, <1>9, <2>1, <2>4, <3>1 DEF RowsKept
    <3>2. CASE d = c /\ k = "baseline"
      BY <1>1, <1>4, <1>9, <2>1, <2>2, <2>4, <3>2
    <3>3. CASE d = c /\ k = "patched"
      <4>1. results'[d]["baseline"] = results[d]["baseline"] /\ results'[d]["patched"] = new
        BY <1>9, <2>1, <3>3
      <4>2. artifacts[bench.b][d] \in {NoBinary, results[d]["baseline"]}
        BY <1>1, <2>4, <4>1 DEF RowsKept
      <4>3. QED
        BY <1>4, <3>3, <4>1, <4>2
    <3>4. QED
      BY <1>1, <3>1, <3>2, <3>3 DEF Kinds
  <2>5. QED
    BY <1>2, <1>7, <1>8, <2>2, <2>3, <2>4 DEF RowsKept
<1>13. ASSUME bench.plan # None PROVE PlanKept'
  <2>1. Deps(bench.b)' = Deps(bench.b)
    BY <1>2, <1>8 DEF Deps
  <2>2. Deps(bench.b) = bench.plan[k].deps
    BY <1>1, <1>13 DEF PlanKept
  <2>3. bench'.step \in {"swap", "clean", "time", "print"} /\ (bench'.step = "swap" => bench.swap)
    BY <1>7
  <2>4. bench'.step # "swap" => bench.plan[bench'.kind].deps = bench.plan[k].deps
    <3>1. CASE bench'.kind = k
      BY <3>1
    <3>2. CASE bench'.kind # k
      <4>1. k = "baseline" /\ bench'.kind = "patched" /\ last
        BY <1>1, <1>7, <3>2 DEF Kinds
      <4>2. bench'.step # "swap" => ~bench.swap
        BY <1>7, <4>1
      <4>3. QED
        BY <1>1, <1>13, <4>1, <4>2 DEF PlanKept
    <3>3. QED
      BY <3>1, <3>2
  <2>5. \A d \in bench.made[bench'.kind] :
           Right(artifacts[bench.b][d], bench.plan[bench'.kind], d)
    <3>1. CASE bench'.kind = k
      BY <1>1, <1>13, <3>1 DEF PlanKept
    <3>2. CASE bench'.kind # k
      BY <1>1, <1>7, <1>10, <3>2 DEF Kinds
    <3>3. QED
      BY <3>1, <3>2
  <2>6. \A j \in Kinds : \A d \in bench.made[j] :
           results'[d][j] # None => Right(results'[d][j], bench.plan[j], d)
    <3> SUFFICES ASSUME NEW j \in Kinds, NEW d \in bench.made[j], results'[d][j] # None
                 PROVE  Right(results'[d][j], bench.plan[j], d)
      OBVIOUS
    <3>1. CASE d = c /\ j = k
      BY <1>1, <1>4, <1>9, <1>13, <3>1 DEF PlanKept
    <3>2. CASE ~(d = c /\ j = k)
      BY <1>1, <1>9, <1>13, <3>2 DEF PlanKept
    <3>3. QED
      BY <3>1, <3>2
  <2>7. QED
    BY <1>1, <1>2, <1>8, <1>13, <2>1, <2>2, <2>3, <2>4, <2>5, <2>6 DEF PlanKept
<1>14. DOMAIN live' = Benches /\ DOMAIN artifacts' = Benches
       /\ \A b \in Benches : DOMAIN artifacts'[b] = Range(Cells)
  BY <1>2 DEF CellsInv
<1>15. QED
  BY <1>8, <1>9, <1>11, <1>12, <1>13, <1>14 DEF CellsInv

LEMMA CellsKept == ASSUME Range(Cells) # {}, RootInv, CellsInv, [Next]_vars PROVE CellsInv'
<1>1. CASE Beside
  BY <1>1, BesideKeeps
<1>2. ASSUME NEW b \in Benches, NEW swap \in BOOLEAN, NEW build \in BOOLEAN,
             Start(b, swap, build)
      PROVE  CellsInv'
  BY <1>2, BenchStarts
<1>3. CASE SwapRemove \/ SwapCopy \/ SwapFails
  BY <1>3, SwapKeeps
<1>4. CASE CleanBuild
  BY <1>4, CleanKeeps
<1>5. CASE Build
  BY <1>5, BuildKeeps
<1>6. CASE BuildFails \/ PrintTable
  BY <1>6 DEF BuildFails, PrintTable, Over, treeVars, CellsInv, NoTable, NoCell
<1>7. CASE TimeRun
  BY <1>7, TimeKeeps
<1>8. CASE CloseCell
  BY <1>8, CloseKeeps
<1>9. CASE UNCHANGED vars
  BY <1>9 DEF vars, treeVars, benchVars, CellsInv, BenchShape, RowsKept, PlanKept, Source,
              Toolchain, Patching, Deps, Binary
<1>10. QED
  BY <1>1, <1>2, <1>3, <1>4, <1>5, <1>6, <1>7, <1>8, <1>9 DEF Next

\* The cells of a bench are what the invariant says.
LEMMA CellsAlways == Range(Cells) # {} => (Spec => []CellsInv)
<1>1. CASE Range(Cells) = {}
  BY <1>1
<1>2. CASE Range(Cells) # {}
  <2>1. RootInv /\ [Next]_vars => RootInv'
    BY BenchKeepsRoot
  <2>2. RootInv /\ CellsInv /\ [Next]_vars => CellsInv'
    BY <1>2, CellsKept
  <2>3. QED
    BY RootInitially, CellsInitially, <2>1, <2>2, PTL DEF Spec
<1>3. QED
  BY <1>1, <1>2

\* In every reachable state, a time in the table is that of a binary compiled
\* from its own phase's dependencies and bundle, and from the core's sources
\* where a rebundle went through: of the binaries that the phase's own build
\* compiled, while no script wrote a tree (swap_mooncakes, build_all, run).
THEOREM CellsFaithful == Spec => []CellsAreOfTheirPhase
<1>1. CASE Range(Cells) = {}
  <2>1. CellsAreOfTheirPhase
    BY <1>1 DEF CellsAreOfTheirPhase
  <2>2. QED
    BY <2>1, PTL
<1>2. CASE Range(Cells) # {}
  <2>1. CellsInv => CellsAreOfTheirPhase
    BY DEF CellsInv, CellsAreOfTheirPhase, PlanKept, Right
  <2>2. QED
    BY <1>2, <2>1, CellsAlways, PTL
<1>3. QED
  BY <1>1, <1>2

\* In every reachable state, the two binaries of a row that both phases
\* compiled differ only in what the options change, and a binary that the
\* second phase did not compile is the first's (run, build_all, run_once).
THEOREM RowsComparable == Spec => []RowsCompareOneChange
<1>1. CASE Range(Cells) = {}
  <2>1. RowsCompareOneChange
    BY <1>1 DEF RowsCompareOneChange
  <2>2. QED
    BY <2>1, PTL
<1>2. CASE Range(Cells) # {}
  <2>1. ASSUME CellsInv, bench # None, NEW c \in Range(Cells),
               results[c].baseline # None, results[c].patched # None
        PROVE  c \in bench.made.patched \/ results[c].patched = results[c].baseline
    BY <2>1 DEF CellsInv, RowsKept
  <2>2. ASSUME CellsInv, bench # None, bench.plan # None, NEW c \in Range(Cells),
               results[c].baseline # None, results[c].patched # None,
               \A k \in Kinds : c \in bench.made[k]
        PROVE  /\ results[c].baseline.core = Stock
               /\ bench.swap \/ results[c].patched.deps = results[c].baseline.deps
               /\ bench.rooted \/ results[c].patched.core = results[c].baseline.core
    <3>1. PlanKept /\ c[2] \in Backends
      BY <2>2, CellsSeq DEF CellsInv
    <3>2. \A k \in Kinds : Right(results[c][k], bench.plan[k], c)
      BY <2>2, <3>1 DEF PlanKept, Kinds
    <3>3. /\ bench.plan["baseline"].root = RootOf(Stock)
          /\ bench.rooted \/ bench.plan["patched"].root = RootOf(Stock)
          /\ bench.swap \/ bench.plan["baseline"].deps = bench.plan["patched"].deps
      BY <2>2, <3>1 DEF PlanKept, Kinds
    <3>4. RootOf(Stock).bundle[c[2]] = Stock
      BY <3>1, RootOfOne
    <3>5. QED
      BY <3>2, <3>3, <3>4 DEF Right, Kinds
  <2>3. CellsInv => RowsCompareOneChange
    BY <2>1, <2>2 DEF RowsCompareOneChange
  <2>4. QED
    BY <1>2, <2>3, CellsAlways, PTL
<1>3. QED
  BY <1>1, <1>2
=============================================================================
