---------------------------- MODULE PatchedTrees ----------------------------
(***************************************************************************)
(* The two scripts that keep patched copies: patched-mooncakes (a          *)
(* project's dependency tree, patched in place, with a snapshot to go back *)
(* to) and patched-toolchain (a patched copy of the toolchain and its core *)
(* library, bundled once per target).                                      *)
(*                                                                         *)
(* A tree is whose it is, the diffs applied to it, and whether it is       *)
(* whole: a copy, a removal or a diff that stops in the middle leaves part *)
(* of one, of which nothing more is said.  A script stops at its first     *)
(* failing command (set -e) and can be interrupted between any two.        *)
(***************************************************************************)
EXTENDS Integers, SequencesExt

CONSTANTS Benches,      \* project directories
          NameOf,       \* basename: a function on Benches
          Diffs,
          Targets,      \* the order of rebundle, a sequence
          MaxCommands,  \* bound: script invocations
          None

Names == {NameOf[b] : b \in Benches}
Backends == Range(Targets)

Tree == [of : Benches, diffs : SUBSET Diffs, whole : BOOLEAN]

ASSUME TreesAssumption ==
    /\ NameOf \in [Benches -> Names]
    /\ Targets \in Seq(Backends) \ {<<>>}
    /\ MaxCommands \in Nat
    /\ None \notin Benches \cup Tree

Fetched(b) == [of |-> b, diffs |-> {}, whole |-> TRUE]
PartOf(t) == [t EXCEPT !.whole = FALSE]

Stock == [diffs |-> {}, whole |-> TRUE]
Cut == [diffs |-> {}, whole |-> FALSE]

\* Every bundle is of one core.
RootOf(core) == [core |-> core, bundle |-> [t \in Backends |-> core], rebundled |-> core.whole]

VARIABLES
    live,     \* <bench>/.mooncakes
    snap,     \* $SCRATCH_ROOT/<name>
    side,     \* <name>.patched, the second copy of the README's workflow
    root,     \* /tmp/moonbit-patched: its core and one bundle per target;
              \* history: a rebundle went through, and no apply since
    cmd,      \* the script that is running
    commands, \* how many were started
    sound     \* history: the snapshot was a complete copy of this project's
              \* unpatched tree

treeVars == <<live, snap, side, root, cmd, commands, sound>>

\* A patched toolchain may be there from before.
TreesInit ==
    /\ live = [b \in Benches |-> Fetched(b)]
    /\ snap = [n \in Names |-> None]
    /\ side = [n \in Names |-> None]
    /\ root \in {None, RootOf(Stock)}
    /\ cmd = None /\ commands = 0
    /\ sound = [n \in Names |-> None]

Invoke(record) ==
    /\ cmd = None /\ commands < MaxCommands
    /\ commands' = commands + 1
    /\ cmd' = record

\* The script ends: its last command, one that fails, or ^C.
Interrupt ==
    /\ cmd # None
    /\ cmd' = None
    /\ UNCHANGED <<live, snap, side, root, commands, sound>>

-----------------------------------------------------------------------------
(* patched-mooncakes.                                                      *)

\* bench_dir_ok and the test for a snapshot.
HasBoth(b) == live[b] # None /\ snap[NameOf[b]] # None

\* Refused when a snapshot of that name is there, of whatever project.
InitSnapshot(b) ==
    /\ live[b] # None /\ snap[NameOf[b]] = None
    /\ Invoke([op |-> "init", b |-> b, tree |-> live[b]])
    /\ snap' = [snap EXCEPT ![NameOf[b]] = PartOf(live[b])]
    /\ UNCHANGED <<live, side, root, sound>>

\* cp -r is through: of a tree that is not the one it began with, it has a
\* part of each.
SnapshotCopied ==
    /\ cmd # None /\ cmd.op = "init" /\ live[cmd.b] # None
    /\ LET n == NameOf[cmd.b]
           copy == IF live[cmd.b] = cmd.tree THEN live[cmd.b] ELSE PartOf(live[cmd.b])
       IN  /\ snap' = [snap EXCEPT ![n] = copy]
           /\ sound' = [sound EXCEPT ![n] = IF copy = Fetched(cmd.b) THEN cmd.b ELSE None]
    /\ cmd' = None
    /\ UNCHANGED <<live, side, root, commands>>

\* The package it names is one the tree has.
Apply(b, ds) ==
    /\ HasBoth(b)
    /\ Invoke([op |-> "apply", b |-> b, todo |-> ds])
    /\ UNCHANGED <<live, snap, side, root, sound>>

Patchable(tree, d) == tree # None /\ d \notin tree.diffs
Patched(tree, ds) == [tree EXCEPT !.diffs = @ \cup ds]

\* After the last diff, or at the first that does not apply, the script ends.
NextDiff(rest) == IF rest = <<>> THEN None ELSE [cmd EXCEPT !.todo = rest]

\* Mutant: the diff goes into the snapshot.
ApplyDiffToSnapshot ==
    /\ cmd # None /\ cmd.op = "apply"
    /\ Patchable(snap[NameOf[cmd.b]], Head(cmd.todo))
    /\ snap' = [snap EXCEPT ![NameOf[cmd.b]] = Patched(@, {Head(cmd.todo)})]
    /\ cmd' = NextDiff(Tail(cmd.todo))
    /\ UNCHANGED <<live, side, root, commands, sound>>

ApplyDiff ==
    /\ cmd # None /\ cmd.op = "apply"
    /\ Patchable(live[cmd.b], Head(cmd.todo))
    /\ live' = [live EXCEPT ![cmd.b] = Patched(@, {Head(cmd.todo)})]
    /\ cmd' = NextDiff(Tail(cmd.todo))
    /\ UNCHANGED <<snap, side, root, commands, sound>>

\* A hunk is rejected: those before it are in the tree.
DiffRejected ==
    /\ cmd # None /\ cmd.op = "apply" /\ live[cmd.b] # None
    /\ live' = [live EXCEPT ![cmd.b] = PartOf(@)]
    /\ cmd' = None
    /\ UNCHANGED <<snap, side, root, commands, sound>>

\* rm -rf, then cp -r: either can be cut.  A copy into a directory that is
\* there again lands inside it, as if the script ended.
Restore(b) ==
    /\ HasBoth(b)
    /\ Invoke([op |-> "restore", b |-> b, step |-> "rm"])
    /\ live' = [live EXCEPT ![b] = PartOf(@)]
    /\ UNCHANGED <<snap, side, root, sound>>

Restoring(step) == cmd # None /\ cmd.op = "restore" /\ cmd.step = step

RestoreRemoves ==
    /\ Restoring("rm")
    /\ live' = [live EXCEPT ![cmd.b] = None]
    /\ cmd' = [cmd EXCEPT !.step = "cp"]
    /\ UNCHANGED <<snap, side, root, commands, sound>>

RestoreCopies ==
    /\ Restoring("cp") /\ live[cmd.b] = None
    /\ live' = [live EXCEPT ![cmd.b] = PartOf(snap[NameOf[cmd.b]])]
    /\ cmd' = [cmd EXCEPT !.step = "copied"]
    /\ UNCHANGED <<snap, side, root, commands, sound>>

Restored ==
    /\ Restoring("copied") /\ live[cmd.b] = PartOf(snap[NameOf[cmd.b]])
    /\ live' = [live EXCEPT ![cmd.b] = snap[NameOf[cmd.b]]]
    /\ cmd' = None
    /\ UNCHANGED <<snap, side, root, commands, sound>>

ResetSnapshot(b) ==
    /\ snap[NameOf[b]] # None
    /\ Invoke([op |-> "reset", b |-> b])
    /\ snap' = [snap EXCEPT ![NameOf[b]] = PartOf(@)]
    /\ sound' = [sound EXCEPT ![NameOf[b]] = None]
    /\ UNCHANGED <<live, side, root>>

SnapshotRemoved ==
    /\ cmd # None /\ cmd.op = "reset"
    /\ snap' = [snap EXCEPT ![NameOf[cmd.b]] = None]
    /\ cmd' = None
    /\ UNCHANGED <<live, side, root, commands, sound>>

\* What the README has the user do by hand: a second copy, patched.
CopySnapshot(n) ==
    /\ cmd = None /\ snap[n] # None /\ side[n] = None
    /\ side' = [side EXCEPT ![n] = snap[n]]
    /\ UNCHANGED <<live, snap, root, cmd, commands, sound>>

PatchCopy(n, d) ==
    /\ cmd = None /\ Patchable(side[n], d)
    /\ side' = [side EXCEPT ![n] = Patched(@, {d})]
    /\ UNCHANGED <<live, snap, root, cmd, commands, sound>>

\* `moon build` fetches the dependencies of a project that has none.
Fetch(b) ==
    /\ cmd = None /\ live[b] = None
    /\ live' = [live EXCEPT ![b] = Fetched(b)]
    /\ UNCHANGED <<snap, side, root, cmd, commands, sound>>

-----------------------------------------------------------------------------
(* patched-toolchain.  The user's toolchain itself is never patched.       *)

\* rm -rf, cp -r.
ToolchainInit ==
    /\ Invoke([op |-> "tc_init"])
    /\ root' = RootOf(Cut)
    /\ UNCHANGED <<live, snap, side, sound>>

ToolchainCopied ==
    /\ cmd # None /\ cmd.op = "tc_init"
    /\ root' = RootOf(Stock)
    /\ cmd' = None
    /\ UNCHANGED <<live, snap, side, commands, sound>>

\* One diff; it goes in, or some of its hunks do.
ToolchainApply(d) ==
    /\ root # None /\ d \notin root.core.diffs
    /\ cmd = None /\ commands < MaxCommands
    /\ commands' = commands + 1
    /\ \E core \in {Patched(root.core, {d}), PartOf(root.core)} :
          root' = [root EXCEPT !.core = core, !.rebundled = FALSE]
    /\ UNCHANGED <<live, snap, side, cmd, sound>>

Rebundle ==
    /\ root # None
    /\ Invoke([op |-> "rebundle", todo |-> Targets])
    /\ UNCHANGED <<live, snap, side, root, sound>>

\* A bundle that fails ends the script, with the targets after it as they were.
BundleTarget ==
    /\ cmd # None /\ cmd.op = "rebundle"
    /\ root' = [root EXCEPT !.bundle[Head(cmd.todo)] = root.core,
                            !.rebundled = @ \/ Tail(cmd.todo) = <<>>]
    /\ cmd' = NextDiff(Tail(cmd.todo))
    /\ UNCHANGED <<live, snap, side, commands, sound>>

ToolchainReset ==
    /\ root # None /\ cmd = None /\ commands < MaxCommands
    /\ commands' = commands + 1
    /\ root' \in {None, RootOf(Cut)}
    /\ UNCHANGED <<live, snap, side, cmd, sound>>

TreesNext ==
    \/ Interrupt \/ SnapshotCopied \/ SnapshotRemoved
    \/ ApplyDiff \/ DiffRejected
    \/ RestoreRemoves \/ RestoreCopies \/ Restored
    \/ \E b \in Benches :
          \/ InitSnapshot(b) \/ Restore(b) \/ ResetSnapshot(b) \/ Fetch(b)
          \/ \E ds \in SetToSeqs(Diffs) : Apply(b, ds)
    \/ \E n \in Names : CopySnapshot(n) \/ \E d \in Diffs : PatchCopy(n, d)
    \/ ToolchainInit \/ ToolchainCopied \/ Rebundle \/ BundleTarget
    \/ \E d \in Diffs : ToolchainApply(d)
    \/ ToolchainReset

-----------------------------------------------------------------------------
(* Properties.                                                             *)

\* A snapshot that was a complete copy of the project's unpatched tree stays
\* one until it is reset, through every patch, cut restore and measurement
\* in between: there is always a tree to revert to.  A cut init, an init after
\* a patch, or the name of another project is what it takes to lose it.
BaselineKept ==
    \A n \in Names : sound[n] # None => snap[n] = Fetched(sound[n])
=============================================================================
