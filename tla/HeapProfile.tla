---------------------------- MODULE HeapProfile ----------------------------
(***************************************************************************)
(* heapprofile-to-pprof: V8's .heapprofile.  The tree is a sequence of     *)
(* nodes [id, parent, fn, size], a parent (0 for the head's) before its    *)
(* children; the flat list of samples is the sequence of their node ids.   *)
(***************************************************************************)
EXTENDS Pprof, MoonbitDemangle

HeapFrame(node) ==
    LET raw == IF node.fn.name = <<>> THEN <<"(anonymous)">> ELSE node.fn.name
        line == IF node.fn.line >= 0 THEN node.fn.line + 1 ELSE 0
    IN  [key |-> node.id, mapping |-> 1,
         lines |-> <<[fn |-> [key |-> <<raw, node.fn.url, node.fn.script>>,
                              name |-> Demangle(raw), file |-> node.fn.url, start |-> line],
                      line |-> line]>>]

\* Hits of a node in the flat list, or one each when there is no list.
ObjectsOf(profile, id) ==
    IF profile.samples = <<>> THEN 1
    ELSE Cardinality({i \in DOMAIN profile.samples : profile.samples[i] = id})

\* Its own sample, if a node has bytes.
Own(profile, node, here) ==
    IF node.size > 0 THEN <<[frames |-> here, value |-> <<ObjectsOf(profile, node.id), node.size>>]>>
    ELSE <<>>

Kids(profile, node) ==
    InOrder({c \in DOMAIN profile.nodes : profile.nodes[c].parent = node.id})

\* Mutant: the path is not popped after a child.
WalkUnpopped(profile) ==
    LET Frames == {HeapFrame(profile.nodes[n]) : n \in DOMAIN profile.nodes}
        walk[n \in DOMAIN profile.nodes] == [path \in Seq(Frames) |->
            LET node == profile.nodes[n]
                here == <<HeapFrame(node)>> \o path
                kids == Kids(profile, node)
                Left(k) == Reverse([i \in 1..(k - 1) |-> HeapFrame(profile.nodes[kids[i]])])
            IN  Own(profile, node, here) \o
                FlattenSeq([k \in DOMAIN kids |-> walk[kids[k]][Left(k) \o here]])]
    IN  walk[1][<<>>]

\* Depth first, with the path from the node to the head.
Walk(profile) ==
    LET Frames == {HeapFrame(profile.nodes[n]) : n \in DOMAIN profile.nodes}
        walk[n \in DOMAIN profile.nodes] == [path \in Seq(Frames) |->
            LET node == profile.nodes[n]
                here == <<HeapFrame(node)>> \o path
                kids == Kids(profile, node)
            IN  Own(profile, node, here) \o FlattenSeq([k \in DOMAIN kids |-> walk[kids[k]][here]])]
    IN  walk[1][<<>>]

BuildHeap(profile) ==
    Profile(<<<<"alloc_objects", "count">>, <<"alloc_space", "bytes">>>>, {1}, Walk(profile))
=============================================================================
