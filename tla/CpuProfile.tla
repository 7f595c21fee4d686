----------------------------- MODULE CpuProfile -----------------------------
(***************************************************************************)
(* cpuprofile-to-pprof: V8's .cpuprofile.  A profile is [nodes, samples,   *)
(* deltas], a node [id, fn, children], its fn [name, url, script, line].   *)
(* Time is in microseconds and, in pprof, in thousandths of them.          *)
(***************************************************************************)
EXTENDS Pprof, MoonbitDemangle

\* Where a child has two parents, the one listed last.
Parent(profile, id) ==
    LET of == SelectLastInSeq(profile.nodes, LAMBDA n : id \in Range(n.children)) IN
    IF of = 0 THEN 0 ELSE profile.nodes[of].id

\* Where two nodes have the same id, the one listed last.
NodeOf(profile, id) == SelectLastInSeq(profile.nodes, LAMBDA n : n.id = id)

\* intern_location by node id, intern_function by name, url and script.
CpuFrame(node) ==
    LET raw == IF node.fn.name = <<>> THEN <<"(anonymous)">> ELSE node.fn.name
        line == IF node.fn.line >= 0 THEN node.fn.line + 1 ELSE 0
    IN  [key |-> node.id, mapping |-> 1,
         lines |-> <<[fn |-> [key |-> <<raw, node.fn.url, node.fn.script>>,
                              name |-> Demangle(raw), file |-> node.fn.url, start |-> line],
                      line |-> line]>>]

\* From the leaf up; a leaf that is not there has no stack.  Children that
\* form a cycle, which V8 does not write, would loop for ever.
StackForNode(profile, leaf) ==
    LET Ids == {profile.nodes[i].id : i \in DOMAIN profile.nodes}
        stack[d \in 0..Len(profile.nodes)] == [id \in Ids \cup {0} |->
            IF d = 0 \/ id = 0 THEN <<>>
            ELSE <<CpuFrame(profile.nodes[NodeOf(profile, id)])>> \o stack[d - 1][Parent(profile, id)]]
    IN  IF leaf \in Ids THEN stack[Len(profile.nodes)][leaf] ELSE <<>>

\* Mutant: a delta that is missing is the last one again.
BuildCpuHeld(profile) ==
    LET Delta(i) == IF profile.deltas = <<>> THEN 0 ELSE profile.deltas[Min({i, Len(profile.deltas)})]
        hits == [i \in DOMAIN profile.samples |->
                    [frames |-> StackForNode(profile, profile.samples[i]),
                     value |-> <<1, 1000 * Delta(i)>>]]
    IN  Profile(<<<<"samples", "count">>, <<"cpu", "nanoseconds">>>>, {1}, Merge(hits))

\* A sample for each leaf, with its hits and the time before them; a delta
\* that is missing is 0.  (Leaves that are not there have no stack, and are one
\* sample here where the code has one for each.)
BuildCpu(profile) ==
    LET Delta(i) == IF i \in DOMAIN profile.deltas THEN profile.deltas[i] ELSE 0
        hits == [i \in DOMAIN profile.samples |->
                    [frames |-> StackForNode(profile, profile.samples[i]),
                     value |-> <<1, 1000 * Delta(i)>>]]
    IN  Profile(<<<<"samples", "count">>, <<"cpu", "nanoseconds">>>>, {1}, Merge(hits))
=============================================================================
