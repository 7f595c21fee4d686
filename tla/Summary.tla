------------------------------ MODULE Summary ------------------------------
(***************************************************************************)
(* moon-pprof summary: a profile by function, and two profiles compared.   *)
(* A profile here has a set `drop`, the names its drop_frames matches.     *)
(***************************************************************************)
EXTENDS Pprof

CONSTANT MemNames \* the names that --mem-pattern matches

Value(s, axis) == IF axis \in DOMAIN s.value THEN s.value[axis] ELSE 0

\* Bytes before objects before time; else the first axis.
ValueAxis(p) ==
    LET space == SelectInSeq(p.types, LAMBDA t : t[1] \in {"alloc_space", "inuse_space", "space"})
        objects == SelectInSeq(p.types, LAMBDA t : t[1] \in {"alloc_objects", "inuse_objects", "objects"})
        time == SelectInSeq(p.types, LAMBDA t :
                    /\ t[1] \in {"cpu", "wall", "delay", "latency", "block", "blocked", "off_cpu", "wait"}
                    /\ t[2] \in {"nanoseconds", "microseconds", "milliseconds", "count"})
    IN  CASE space # 0 -> [idx |-> space, second |-> objects, heap |-> TRUE]
          [] space = 0 /\ objects # 0 -> [idx |-> objects, second |-> 0, heap |-> TRUE]
          [] space = 0 /\ objects = 0 /\ time # 0 -> [idx |-> time, second |-> 0, heap |-> FALSE]
          [] OTHER -> [idx |-> 1, second |-> 0, heap |-> FALSE]

\* resolve_top_lines: the name of a location is that of its first line.
TopLine(p, id) ==
    IF p.locations[id].lines = <<>> THEN <<"(unknown)">>
    ELSE p.functions[p.locations[id].lines[1].fn].name

TopLines(p, s) == [i \in DOMAIN s.location |-> TopLine(p, s.location[i])]

\* The first frame that is not dropped.
PickLeaf(p, s) ==
    LET at == SelectInSeq(TopLines(p, s), LAMBDA n : n \notin p.drop) IN
    IF at = 0 THEN <<"(unknown)">> ELSE TopLines(p, s)[at]

SumOf(p, f(_)) == FoldLeft(LAMBDA a, s : a + f(s), 0, p.samples)

\* Mutant: the frame that is dropped decides.
RawLeafIsMem(p, s) ==
    ~ValueAxis(p).heap /\ s.location # <<>> /\ TopLines(p, s)[1] \in MemNames

LeafIsMem(p, s) == ~ValueAxis(p).heap /\ PickLeaf(p, s) \in MemNames

\* compute_summary.  A function is credited once more for each of its frames
\* in a stack whose leaf manages memory.
ComputeSummary(p) ==
    LET axis == ValueAxis(p)
        V(s) == Value(s, axis.idx)
        names == UNION {Range(TopLines(p, s)) \cup {PickLeaf(p, s)} : s \in Range(p.samples)}
        Frames(s, n) == Len(SelectSeq(TopLines(p, s), LAMBDA m : m = n))
    IN  [axis |-> axis, names |-> names,
         total |-> SumOf(p, V),
         total2 |-> SumOf(p, LAMBDA s : Value(s, axis.second)),
         mem |-> SumOf(p, LAMBDA s : IF LeafIsMem(p, s) THEN V(s) ELSE 0),
         self |-> [n \in names |-> SumOf(p, LAMBDA s : IF PickLeaf(p, s) = n THEN V(s) ELSE 0)],
         self2 |-> [n \in names |->
            SumOf(p, LAMBDA s : IF PickLeaf(p, s) = n THEN Value(s, axis.second) ELSE 0)],
         memCum |-> [n \in names |->
            SumOf(p, LAMBDA s : IF LeafIsMem(p, s) /\ n \notin MemNames
                                THEN Frames(s, n) * V(s) ELSE 0)]]

-----------------------------------------------------------------------------

SelfOf(s, n) == IF n \in s.names THEN s.self[n] ELSE 0

\* run_diff refuses a heap profile against another kind, and only that.
Comparable(b, p) == b.axis.heap = p.axis.heap

\* Mutant: what is gone is listed as improved, too.
ImprovedOrGone(b, p) == {n \in b.names \cup p.names : SelfOf(p, n) < SelfOf(b, n) /\ SelfOf(b, n) > 0}

\* The four lists of run_diff.
Improved(b, p) ==
    {n \in b.names \cup p.names : SelfOf(p, n) < SelfOf(b, n) /\ SelfOf(b, n) > 0 /\ SelfOf(p, n) > 0}
Regressed(b, p) ==
    {n \in b.names \cup p.names : SelfOf(p, n) > SelfOf(b, n) /\ SelfOf(b, n) > 0 /\ SelfOf(p, n) > 0}
Gone(b, p) == {n \in b.names \cup p.names : SelfOf(b, n) > 0 /\ SelfOf(p, n) = 0}
New(b, p) == {n \in b.names \cup p.names : SelfOf(b, n) = 0 /\ SelfOf(p, n) > 0}
=============================================================================
