--------------------------- MODULE FirefoxProfile ---------------------------
(***************************************************************************)
(* firefox-to-pprof: the processed profiles of wasmtime's guest profiler,  *)
(* whose function table has the names, and of samply, whose addresses are  *)
(* looked up in a .syms.json sidecar.                                      *)
(*                                                                         *)
(* A profile is [libs, threads]; a thread [frames, funcs, stacks, samples] *)
(* with frames [func, line, address], funcs [name, file, lib], stacks      *)
(* [frame, prefix] and samples [stack, weight, dt]; None is a null.        *)
(***************************************************************************)
EXTENDS Pprof, MoonbitDemangle

CONSTANT IntervalNs

-----------------------------------------------------------------------------
(* FrameResolver.                                                          *)

Resolved(name, file, line, lib, address) ==
    [name |-> name, file |-> file, line |-> line, lib |-> lib, address |-> address]

FuncTable(profile, thread, f) ==
    LET frame == thread.frames[f]
        func == thread.funcs[frame.func]
    IN  <<Resolved(func.name, func.file, frame.line, 1, frame.address)>>

\* SamplySyms::load sorts each table.
Load(syms) == [lib \in DOMAIN syms |-> SortSeq(syms[lib], LAMBDA a, b : a.rva < b.rva)]

\* Mutant: the end of a symbol belongs to it.
LookupPastEnd(table, rva) ==
    LET below == {i \in DOMAIN table : table[i].rva <= rva} IN
    IF below = {} \/ rva > table[Max(below)].rva + table[Max(below)].size THEN None
    ELSE table[Max(below)]

\* The last symbol at or below the address, if it reaches it; the binary
\* search needs the table sorted.
Lookup(table, rva) ==
    LET below == {i \in DOMAIN table : table[i].rva <= rva} IN
    IF below = {} \/ rva >= table[Max(below)].rva + table[Max(below)].size THEN None
    ELSE table[Max(below)]

\* Inlined frames innermost first; a symbol or, where there is none, the
\* library and the address for a name.
SamplySyms(syms, profile, thread, f) ==
    LET frame == thread.frames[f]
        lib == IF thread.funcs[frame.func].lib = None THEN 1 ELSE thread.funcs[frame.func].lib
        sym == IF lib \in DOMAIN profile.libs /\ profile.libs[lib] \in DOMAIN syms
               THEN Lookup(Load(syms)[profile.libs[lib]], frame.address) ELSE None
    IN  IF sym = None
        THEN <<Resolved(<<IF lib \in DOMAIN profile.libs THEN profile.libs[lib] ELSE "??",
                          "+0x", ToString(frame.address)>>, "", 0, lib, frame.address)>>
        ELSE IF sym.inlined = <<>> THEN <<Resolved(sym.name, "", 0, lib, frame.address)>>
        ELSE [i \in DOMAIN sym.inlined |->
                 LET g == sym.inlined[Len(sym.inlined) - i + 1] IN
                 Resolved(IF g.name = <<>> THEN sym.name ELSE g.name, g.file, g.line, lib, frame.address)]

-----------------------------------------------------------------------------
(* SampleResolver.                                                         *)

\* wasmtime-guest weighs a sample by its time, samply by the interval.
Weigh(source, s) ==
    LET count == IF s.weight = None THEN 1 ELSE Max({1, s.weight}) IN
    <<count, IF source = "samply" THEN count * IntervalNs
             ELSE IF s.dt # None /\ s.dt > 0 THEN s.dt ELSE IntervalNs>>

-----------------------------------------------------------------------------
(* Builder.                                                                *)

\* A stack of a thread, leaf first.  A prefix comes before its stack.
StackFrames(thread, stack) ==
    LET chain[s \in 0..Len(thread.stacks)] ==
            IF s = 0 THEN <<>>
            ELSE <<thread.stacks[s].frame>> \o
                 chain[IF thread.stacks[s].prefix = None THEN 0 ELSE thread.stacks[s].prefix]
    IN  chain[stack]

\* Mutant: frames are cached by their index alone, for all threads.
FrameByIndex(ti, f, lines) ==
    [key |-> f, mapping |-> IF lines = <<>> THEN 1 ELSE lines[1].lib,
     lines |-> [i \in DOMAIN lines |->
        [fn |-> [key |-> <<lines[i].name, lines[i].file>>,
                 name |-> Demangle(lines[i].name), file |-> lines[i].file],
         line |-> lines[i].line]]]

\* Frames with the same resolved lines are one location, whichever thread's
\* they are.  The file is no part of that key, and the mapping is the index of
\* the library.
FrameOf(ti, f, lines) ==
    [key |-> [i \in DOMAIN lines |->
                 <<lines[i].lib, lines[i].address, lines[i].name, lines[i].line>>],
     mapping |-> IF lines = <<>> THEN 1 ELSE lines[1].lib,
     lines |-> [i \in DOMAIN lines |->
        [fn |-> [key |-> <<lines[i].name, lines[i].file>>,
                 name |-> Demangle(lines[i].name), file |-> lines[i].file],
         line |-> lines[i].line]]]

\* Each thread's samples, summed by stack, a sample without a stack left out.
\* (The code sums by stack index: stacks of one thread with the same frames are
\* two samples there.  What a frame resolves to it keeps in a cache, by the key
\* that FrameOf has.)
BuildFirefox(source, syms, profile) ==
    LET Resolve(thread, fr) ==
            IF source = "samply" THEN SamplySyms(syms, profile, thread, fr)
            ELSE FuncTable(profile, thread, fr)
        Items(ti) ==
            LET thread == profile.threads[ti]
                timed == {i \in DOMAIN thread.samples : thread.samples[i].stack # None}
            IN  Merge([i \in timed |->
                    LET fs == StackFrames(thread, thread.samples[i].stack) IN
                    [frames |-> [j \in DOMAIN fs |-> FrameOf(ti, fs[j], Resolve(thread, fs[j]))],
                     value |-> Weigh(source, thread.samples[i])]])
    IN  Profile(<<<<"samples", "count">>, <<"cpu", "nanoseconds">>>>, {1},
                FlattenSeq([ti \in DOMAIN profile.threads |-> Items(ti)]))

\* firefox2pprof --source.
FromGuest(profile) == BuildFirefox("wasmtime-guest", None, profile)
FromSamply(syms, profile) == BuildFirefox("samply", syms, profile)
=============================================================================
