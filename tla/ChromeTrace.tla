---------------------------- MODULE ChromeTrace ----------------------------
(***************************************************************************)
(* chrome-trace-to-pprof: the V8 CPU profiles in a Chrome trace, each in   *)
(* chunks, put together and converted as a .cpuprofile.                    *)
(*                                                                         *)
(* An event is [name, key, ts, data]; its key stands for pid, tid and id.  *)
(* The data of a profile event is None or [nodes, samples, deltas], a node *)
(* [id, fn, children, parent] with 0 for no parent.                        *)
(***************************************************************************)
EXTENDS CpuProfile

CONSTANT DefaultDelta \* --default-sample-delta-us

IsProfileEvent(e) == e.name \in {"Profile", "ProfileChunk"}

\* ingest_profile_event, for the events of one key: an event without a
\* profile has no chunk.  (The samples and the timeDeltas of an event may be its
\* own or its cpuProfile's; here they are the chunk's.  What does not parse, and
\* refuses the file, is left out.)
Chunks(events, key) ==
    SelectSeq(events, LAMBDA e : IsProfileEvent(e) /\ e.key = key /\ e.data # None)

PushUnique(children, c) == IF c \in Range(children) THEN children ELSE Append(children, c)

\* A node that comes again adds to its children.
AddNode(nodes, node) ==
    LET at == SelectInSeq(nodes, LAMBDA n : n.id = node.id) IN
    IF at = 0 THEN Append(nodes, node)
    ELSE [nodes EXCEPT ![at].children = FoldLeft(PushUnique, @, node.children)]

\* A parent that is in no chunk is ignored.
Link(nodes, node) ==
    LET at == SelectInSeq(nodes, LAMBDA n : n.id = node.parent) IN
    IF at = 0 THEN nodes ELSE [nodes EXCEPT ![at].children = PushUnique(@, node.id)]

\* Times that are missing are missing at the end.
Resize(deltas, n) ==
    [i \in 1..n |-> IF i <= Len(deltas) THEN deltas[i] ELSE Max({DefaultDelta, 1})]

\* Mutant: the chunks are taken in the order of the file.
ArrivalOrder(chunks) == chunks

\* By time, and in the order of the file at one time.
TimeOrder(chunks) ==
    LET Index == SortSeq([i \in DOMAIN chunks |-> i], LAMBDA i, j :
                     chunks[i].ts < chunks[j].ts \/ (chunks[i].ts = chunks[j].ts /\ i < j))
    IN  [n \in DOMAIN chunks |-> chunks[Index[n]]]

IntoProfile(chunks) ==
    LET seq == TimeOrder(chunks)
        nodes == FlattenSeq([i \in DOMAIN seq |-> seq[i].data.nodes])
        samples == FlattenSeq([i \in DOMAIN seq |-> seq[i].data.samples])
        deltas == FlattenSeq([i \in DOMAIN seq |-> seq[i].data.deltas])
    IN  [nodes |-> FoldLeft(Link, FoldLeft(AddNode, <<>>, nodes), nodes),
         samples |-> samples, deltas |-> Resize(deltas, Len(samples))]

\* extract_cpu_profiles: the keys of the profiles, in a fixed order.
Keys(events) ==
    LET keys == {events[i].key : i \in {j \in DOMAIN events : Chunks(events, events[j].key) # <<>>}}
    IN  SetToSortSeq(keys, LAMBDA a, b : a < b)

\* convert: --profile-index, None when there is no such profile.
ConvertTrace(events, index) ==
    IF index \notin DOMAIN Keys(events) THEN None
    ELSE BuildCpu(IntoProfile(Chunks(events, Keys(events)[index])))
=============================================================================
