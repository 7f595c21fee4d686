------------------------------- MODULE Ingest -------------------------------
(***************************************************************************)
(* Every capture that becomes a pprof profile: an input of some kind is    *)
(* put together element by element, and converted.  The converters are in  *)
(* the modules named here; this one states what each must keep, against    *)
(* the input itself.                                                       *)
(***************************************************************************)
EXTENDS PerfScript, FirefoxProfile, HeapProfile, ChromeTrace

CONSTANTS Elements,    \* kind -> what an input of it is made of
          MaxInput,    \* bound: kind -> elements in an input
          Threads,     \* the tables of the wasmtime profile's threads
          SamplyProfile, SamplyLib  \* a samply profile; the library looked up

\* What the readers of the inputs yield: numbers, or None for what is not
\* there.
CpuElement(e) ==
    /\ e.t \in {"node", "sample", "delta"}
    /\ e.t = "node" => e.parent \in Nat
    /\ e.t = "delta" => e.us \in Int

HeapElement(e) == e.t = "node" => e.size \in Int

PerfElement(e) == e.t = "header" => e.period \in {None} \cup Nat

\* The samples that lines can make; None is not among them.
PerfSamples(lines) ==
    [stack : Seq({ParseFrame(e) : e \in {l \in lines : l.t = "frame"}}), period : Nat]

GuestElement(e) ==
    /\ e.thread \in DOMAIN Threads /\ e.stack \in {None} \cup DOMAIN Threads[e.thread].stacks
    /\ e.weight \in {None} \cup Int /\ e.dt \in {None} \cup Int

\* A prefix comes before its stack.
Table(thread) ==
    \A s \in 1..Len(thread.stacks) : thread.stacks[s].prefix \in {None} \cup 1..(s - 1)

ASSUME IngestAssumption ==
    /\ "cpu" \in DOMAIN Elements => \A e \in Elements["cpu"] : CpuElement(e)
    /\ "heap" \in DOMAIN Elements => \A e \in Elements["heap"] : HeapElement(e)
    /\ "perf" \in DOMAIN Elements =>
          (\A e \in Elements["perf"] : PerfElement(e)) /\ None \notin PerfSamples(Elements["perf"])
    /\ "guest" \in DOMAIN Elements => \A e \in Elements["guest"] : GuestElement(e)
    /\ Threads \in Seq(Range(Threads)) /\ IntervalNs \in Int
    /\ \A ti \in DOMAIN Threads :
          Threads[ti].stacks \in Seq(Range(Threads[ti].stacks)) /\ Table(Threads[ti])

VARIABLES kind, input, out

vars == <<kind, input, out>>

Of(t) ==
    LET at == InOrder({i \in DOMAIN input : input[i].t = t}) IN [n \in DOMAIN at |-> input[at[n]]]
Field(t, f) == [i \in DOMAIN Of(t) |-> Of(t)[i][f]]

\* A node comes after its parent; its id is its position.
Numbered(nodes) ==
    [i \in DOMAIN nodes |->
        [id |-> i, parent |-> nodes[i].parent, fn |-> nodes[i].fn, size |-> nodes[i].size,
         children |-> InOrder({c \in DOMAIN nodes : nodes[c].parent = i})]]

HeapInput == [nodes |-> Numbered(Of("node")), samples |-> Field("sample", "id")]
CpuInput == [nodes |-> Numbered(Of("node")), samples |-> Field("sample", "id"),
             deltas |-> Field("delta", "us")]
\* A thread's samples keep their places in the input.
GuestInput ==
    [libs |-> <<"wasm">>,
     threads |-> [ti \in DOMAIN Threads |->
        [frames |-> Threads[ti].frames, funcs |-> Threads[ti].funcs, stacks |-> Threads[ti].stacks,
         samples |-> [i \in {j \in DOMAIN input : input[j].thread = ti} |-> input[i]]]]]
SamplyInput == (SamplyLib :> input)

Convertible ==
    CASE kind \in {"heap", "cpu"} -> Of("node") # <<>>
      [] OTHER -> input # <<>>

Converted(index) ==
    CASE kind = "symbol" -> Demangle(Mangle(input))
      [] kind = "perf" -> ConvertPerf(input)
      [] kind = "guest" -> FromGuest(GuestInput)
      [] kind = "samply" -> FromSamply(SamplyInput, SamplyProfile)
      [] kind = "heap" -> BuildHeap(HeapInput)
      [] kind = "cpu" -> BuildCpu(CpuInput)
      [] OTHER -> ConvertTrace(input, index)

-----------------------------------------------------------------------------

Init == kind \in DOMAIN Elements /\ input = <<>> /\ out = None

\* A tree has one head, and a symbol table one symbol at an address.
Fits(e) ==
    CASE kind \in {"heap", "cpu"} /\ e.t = "node" ->
            IF Of("node") = <<>> THEN e.parent = 0 ELSE e.parent \in 1..Len(Of("node"))
      [] kind = "samply" -> \A i \in DOMAIN input : input[i].rva # e.rva
      [] OTHER -> TRUE

Capture ==
    /\ out = None /\ Len(input) < MaxInput[kind]
    /\ \E e \in Elements[kind] : Fits(e) /\ input' = Append(input, e)
    /\ UNCHANGED <<kind, out>>

Run(index) ==
    /\ out = None /\ Convertible
    /\ out' = [index |-> index, result |-> Converted(index)]
    /\ UNCHANGED <<kind, input>>

Next == Capture \/ \E index \in IF kind = "trace" THEN 1..2 ELSE {1} : Run(index)

Spec == Init /\ [][Next]_vars

-----------------------------------------------------------------------------
(* Properties.                                                             *)

Is(k) == kind = k /\ out # None /\ out.result # None
Result == out.result

\* A path comes back from its symbol exactly when no name in it can be read as a
\* longer one and none is above the cap; digits that end a name count, as they
\* may be part of the next length: x1::f::ackermann, _M0FP22x11f9ackermann, is
\* f9ackermann for demangle.
PathsReadBack == Is("symbol") => (Result = Join(input) <=> ~Ambiguous(input))

\* perf script: each header and the frames under it are one hit of one stack,
\* with its period, whatever lines come between the samples; symbols that read
\* the same are one function.  The warning that the periods are missing looks at
\* their sum alone: it is given when no header has a period but 1, and else only
\* if one of them is 0.
PerfSamplesKept ==
    Is("perf") =>
        LET warned == PeriodLikelyMissing(StatsOf(Parse(input)))
            periods == Range(Field("header", "period"))
            missing == periods # {} /\ periods \subseteq {None, 1}
        IN  /\ ByStack(Result) = Expected(input)
            /\ missing => warned
            /\ warned => missing \/ 0 \in periods

\* wasmtime's profile: each sample is credited, with its time, to the names
\* that its own thread's tables have for its stack.
GuestSamplesKept ==
    Is("guest") =>
        LET timed == {i \in DOMAIN input : input[i].stack # None}
            Names(thread, fs) ==
                [j \in DOMAIN fs |-> Demangle(thread.funcs[thread.frames[fs[j]].func].name)]
        IN  ByStack(Result) = Tally([i \in timed |->
                LET thread == Threads[input[i].thread] IN
                [stack |-> Names(thread, StackFrames(thread, input[i].stack)),
                 value |-> Weigh("wasmtime-guest", input[i])]])

\* samply: an address gets the name of the one symbol of its library whose
\* range has it, in whatever order the sidecar lists them, and else none of
\* their names.
AddressesContained ==
    Is("samply") => \A n \in DOMAIN Result.samples :
        LET s == Result.samples[n]
            frame == SamplyProfile.threads[1].frames[n]
            names == NamesOf(Result, s)
            own == SamplyProfile.libs[SamplyProfile.threads[1].funcs[frame.func].lib] = SamplyLib
            has == {e \in Range(input) : own /\ e.rva <= frame.address /\ frame.address < e.rva + e.size}
        IN  /\ \A e \in has : Last(names) = Demangle(
                                  IF e.inlined = <<>> THEN e.name ELSE e.inlined[1].name)
            /\ has = {} => Len(names) = 1 /\ Demangle(names[1]) \notin {Demangle(e.name) : e \in Range(input)}

\* The names on the way from a node up to the head.
NodePath(nodes, id) ==
    LET Shown(fn) == Demangle(IF fn.name = <<>> THEN <<"(anonymous)">> ELSE fn.name)
        path[d \in 0..Len(nodes)] == [n \in 0..Len(nodes) |->
            IF d = 0 \/ n = 0 THEN <<>> ELSE <<Shown(nodes[n].fn)>> \o path[d - 1][nodes[n].parent]]
    IN  path[Len(nodes)][id]

\* V8's heap: every node's own bytes are credited to the path to it, and its
\* objects are its entries in the list, or one when there is no list.
HeapBytesKept ==
    Is("heap") =>
        LET nodes == HeapInput.nodes
            sized == {n \in DOMAIN nodes : nodes[n].size > 0}
        IN  ByStack(Result) = Tally([n \in sized |->
                [stack |-> NodePath(nodes, n),
                 value |-> <<IF Of("sample") = <<>> THEN 1
                             ELSE Cardinality({j \in DOMAIN input :
                                      input[j].t = "sample" /\ input[j].id = n}),
                             nodes[n].size>>]])

\* V8's CPU profile: every sample is one hit of the path to its node, with the
\* delta of its own position; without a delta, with no time.
CpuSamplesKept ==
    Is("cpu") =>
        LET ids == Field("sample", "id")
            us == Field("delta", "us")
        IN  ByStack(Result) = Tally([i \in DOMAIN ids |->
                [stack |-> IF ids[i] \in DOMAIN Of("node") THEN NodePath(Of("node"), ids[i]) ELSE <<>>,
                 value |-> <<1, IF i \in DOMAIN us THEN 1000 * us[i] ELSE 0>>]])

\* A trace: the profile of one key has the samples of that key's chunks and no
\* other's, under the parents that any of its chunks names, in whatever order
\* the chunks are in the file.  The times are each sample's own when no chunk
\* but the last lacks any.
ChunksJoined ==
    Is("trace") =>
        LET key == Keys(input)[out.index]
            own == {i \in DOMAIN input : input[i].key = key /\ input[i].name = "ProfileChunk"}
            Nodes == UNION {Range(input[i].data.nodes) : i \in own}
            Up(id) == {n.parent : n \in {m \in Nodes : m.id = id}} \cup
                      {n.id : n \in {m \in Nodes : id \in Range(m.children)}}
            name[id \in {n.id : n \in Nodes}] == (CHOOSE n \in Nodes : n.id = id).fn.name
            path[d \in 0..Cardinality(Nodes), id \in 0..9] ==
                IF d = 0 \/ id \notin DOMAIN name THEN <<>>
                ELSE <<Demangle(name[id])>> \o path[d - 1, Max(Up(id) \cup {0})]
            Late(i) == \A j \in own : input[j].ts <= input[i].ts
            timed == \A i \in own : \/ Len(input[i].data.deltas) = Len(input[i].data.samples)
                                    \/ \A j \in own \ {i} : input[j].ts < input[i].ts
            hits == FlattenSeq([i \in DOMAIN input |-> IF i \notin own THEN <<>> ELSE
                        [k \in DOMAIN input[i].data.samples |->
                            [stack |-> path[Cardinality(Nodes), input[i].data.samples[k]],
                             value |-> <<1, 1000 * IF k \in DOMAIN input[i].data.deltas
                                                   THEN input[i].data.deltas[k] ELSE DefaultDelta>>]]])
            Seen == ByStack(Result)
        IN  /\ DOMAIN Seen = DOMAIN Tally(hits)
            /\ \A st \in DOMAIN Seen : Seen[st][1] = Tally(hits)[st][1]
            /\ timed => Seen = Tally(hits)
=============================================================================
