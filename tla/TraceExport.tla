---------------------------- MODULE TraceExport ----------------------------
(***************************************************************************)
(* pprof-to-chrome-trace: a pprof profile as the V8 CPU profile of a       *)
(* Chrome trace, its stacks as a tree of nodes and its values as the times *)
(* between samples.                                                        *)
(***************************************************************************)
EXTENDS StackFormats

CONSTANT MaxExpanded \* samples that one of pprof may become, 10,000,000

SelectValueAxis(p, explicit) == SelectAxis(p, explicit, TimeUnits)

\* --count-index, or the first axis of sample counts; 0 for none.
FindCountAxis(p, explicit) ==
    IF explicit = None THEN SelectInSeq(p.types, LAMBDA t : t = Sampled) ELSE explicit

\* Rounded to the nearest microsecond, but not to none.
ValueToUs(raw, unit) ==
    CASE unit = "nanoseconds" -> Max({1, (raw + 500) \div 1000})
      [] unit = "milliseconds" -> raw * 1000
      [] unit = "seconds" -> raw * 1000000
      [] OTHER -> raw

\* Mutant: every one of the samples has the same time.
PushEqual(us, count) == [i \in 1..count |-> us \div count]

\* The time of a sample over its count, the remainder to the first ones.
PushExpanded(us, count) ==
    [i \in 1..count |-> us \div count + (IF i <= us % count THEN 1 ELSE 0)]

CallFrame(p, id) ==
    LET f == FrameForLocation(p, id) IN
    [name |-> f.name, url |-> f.file, script |-> "0", line |-> f.line - 1]

NewNode(id, fn) == [id |-> id, fn |-> fn, children |-> <<>>, parent |-> 0]
Root == NewNode(1, [name |-> <<"(root)">>, url |-> "", script |-> "0", line |-> -1])

\* TreeBuilder::intern_stack: a node for each frame under each parent.
InternFrame(st, fn) ==
    LET here == SelectInSeq(st.nodes, LAMBDA n : n.id \in Range(st.nodes[st.at].children) /\ n.fn = fn)
        new == Len(st.nodes) + 1
    IN  IF here # 0 THEN [st EXCEPT !.at = here]
        ELSE [nodes |-> Append([st.nodes EXCEPT ![st.at].children = Append(@, new)], NewNode(new, fn)),
              at |-> new]

\* convert_profile: the events, None when it fails.
ConvertProfile(p, index, countIndex, expand) ==
    LET axis == SelectValueAxis(p, index)
        kept == Exported(p, axis)
        count == FindCountAxis(p, countIndex)
        Count(s) == IF expand /\ count \in DOMAIN s.value THEN Max({1, s.value[count]}) ELSE 1
        Add(st, s) ==
            LET at == FoldLeft(LAMBDA w, id : InternFrame(w, CallFrame(p, id)),
                               [nodes |-> st.nodes, at |-> 1], Reverse(s.location))
                us == PushExpanded(ValueToUs(s.value[axis], p.types[axis][2]), Count(s))
            IN  [nodes |-> at.nodes, samples |-> st.samples \o [i \in DOMAIN us |-> at.at],
                 deltas |-> st.deltas \o us]
        Event(name, data) == [name |-> name, key |-> 1, ts |-> 0, data |-> data]
    IN  IF axis = None THEN None
        ELSE IF kept = <<>> \/ \E i \in DOMAIN kept : Count(kept[i]) > MaxExpanded THEN None
        ELSE <<Event("process_name", None), Event("thread_name", None), Event("Profile", None),
               Event("ProfileChunk",
                     FoldLeft(Add, [nodes |-> <<Root>>, samples |-> <<>>, deltas |-> <<>>], kept))>>
=============================================================================
