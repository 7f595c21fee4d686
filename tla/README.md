# TLA+ models of moon-pprof

moon-pprof profiles MoonBit programs on every backend and converts between
profile formats. This directory holds TLA+ modules of its stateful parts, the
TLC configurations that check them on small instances, and proofs checked by
TLAPS. `PROJECT.json` maps every definition to the source lines it models.

## Inventory

Paths are relative to the repository; `mp/` stands for `runners/moon-pprof/`.

| component | state | operations | what is hard |
|---|---|---|---|
| native allocation hook `mp/assets/native_alloc_hook.c` | the output FILE and its buffer, the mutex, the sampling counter, `mpprof_finished`, a reentrancy guard per thread | constructor, allocation hooks, free hook, signal handler, destructor | threads, signals in the middle of anything, three ways to end, SIGKILL |
| native driver `mp/src/cmd_memprofile_native.rs` `run` | the relinked executable, the child, the timer thread, the raw file | build, patch, relink, spawn, time out, reap, parse, write, clean up | process numbers and files outlive a driver; the timer races the child's end |
| raw stream parser and encoder, same file 648-946 | map of live addresses, samples by stack | one step per record | order of records, truncated tail |
| wasm allocation profiler `mp/src/cmd_memprofile.rs` | the rewritten module; counter, samples and trace of the hook | rewrite, hook, `_start` again, write | operands of allocations inside expressions; sizes that wrap; traps |
| wasm guest profiler `crates/wasmtime-guest-pprof`, `mp/src/cmd_profile.rs` | the session in the store, the epoch, the stop flag | tick, sample, finish, drop | a ticker thread against the guest |
| wasm host `crates/moonbit-wasm-host`, `packages/moonbit-wasm-host` | line buffers, string and array handles, environment overrides | print_char, fd_write, string, array and environment imports | two representations of text; positions in handles; three views of one environment |
| bench matrix `mp/src/cmd_bench.rs` | result cells, the project's `.mooncakes` and `_build` | two phases over workloads and backends | one step of several failing, trees left swapped |
| scripts `runners/patched-mooncakes`, `runners/patched-toolchain` | live tree, snapshot, patched toolchain and its bundles | init, apply, restore, rebundle, reset | interruption between remove and copy; snapshots shared by name |
| firefox / samply to pprof | interning tables, caches per thread, symbol tables | build a profile | caches and keys that leave something out |
| cpuprofile, heapprofile to pprof | interning tables, node maps | walks of node trees | every weight to one path |
| chrome trace to pprof | merged chunks per profile | ingest an event | chunks in any order, arrays of different length |
| pprof to chrome trace | tree of nodes, expanded samples | expand weights | sums conserved, limits |
| folded and speedscope formats | frame tables | conversions both ways | what each format cannot say |
| perf script to pprof | current sample | one line at a time | lines out of place |
| demangler | none | segmentation from the end | ambiguous lengths |
| summary and diff | weights per function | self, memory management, diff | dropped frames, recursion |
| V8 runners, http server, MoonBit workloads, command line | — | — | not part of the core logic |

How they interact. The driver rewrites the generated C so that
`moonbit_malloc` and `moonbit_free` call the hook, relinks, and starts the
program with environment variables that name the raw file, the rate and the
mode. The hook appends records to the file; with `--duration` a timer thread
of the driver sends SIGTERM, whose handler in the hook closes the file and
ends the process. The driver then parses the file and writes a pprof. The two
meet only through the file, the signal and the exit status. The wasm profilers
run the program inside the driver's process, over the wasm host's imports. The
bench builds and times workloads against trees that the scripts keep. All
other components are converters from file to file, which meet in pprof.

What makes each correct: the hook, that a profile names what the program
really holds, whatever interrupts it; the driver, that a profile comes from
the run it was asked for and that a bounded run ends; the wasm profilers, that
no sample is lost, torn or late; the bench and the scripts, that "baseline"
and "patched" measure what they say; the converters, that weights are
conserved and distinct frames stay distinct. `PROJECT.json` lists each hazard
at its line.

## Modules

| module | what it is |
|---|---|
| `NativeHook` | the hook with the patched malloc and free around it, and the retained-stream parser run in step with the records |
| `NativeHookInv` | its inductive invariant, and its refinement mapping to `RetainedHeap` |
| `NativeHookProofs` | the proofs |
| `RetainedHeap` | the abstract promise of retained mode |
| `NativeDriver` | driver, child, timer thread, raw file, process numbers |
| `NativeDriverProofs` | its inductive invariant and proofs |
| `RawStream` | the bytes of the raw stream: the hook's record buffer, both parsers, a file that ends anywhere |
| `RawStreamProofs` | proofs about the record buffer, the layout of the file and what the parsers make of it |
| `GuestProfile` | the wasm guest profiler: owner thread, ticker thread, epoch, session |
| `GuestProfileProofs` | its proofs |
| `PatchedTrees` | the two scripts: live trees, snapshots, the patched toolchain |
| `BenchMatrix` | `moon-pprof bench`, beside the scripts |
| `PatchedTreesProofs` | proofs about the snapshots, the cells and the rows of the table |
| `WasmHost` | the imports of a wasm guest |
| `WasmMemprofile` | the rewriting of a guest, its run with the hook and the host, its profile |
| `WasmProofs` | proofs about guest, hook and host |
| `FoldLemmas` | what `FlattenSeq`, `FoldLeft`, `SetToSeq` and `SumFunction` of the community modules return, from their recursive definitions |
| `Pprof` | tables, interning and sums by stack, as all converters build them and readers see them |
| `MoonbitDemangle` | `demangle` on sequences of characters |
| `PerfScript`, `CpuProfile`, `HeapProfile`, `FirefoxProfile`, `ChromeTrace` | a converter to pprof each, as operators |
| `Ingest` | inputs of all kinds grown element by element through those converters |
| `IngestProofs` | proofs about interning, merging and the converters |
| `StackFormats`, `TraceExport`, `Summary` | folded text and Speedscope both ways; pprof to trace; summary and diff, as operators |
| `Exchange` | profiles that go out through a format and come back, any number of times |
| `MC...` | instances for TLC: `MCNativeHook`, `MCNativeDriver`, `MCRawStream`, `MCGuestProfile`, `MCBenchMatrix`, `MCWasmMemprofile`, `MCIngest`, `MCExchange` |

No module declares a RECURSIVE operator: what the code does by recursion
(`Walk`, `StackForNode`, `StackFrames`) is a recursive function here, so that it
can be proved about.

### NativeHook

`Threads` run the program. A thread's `pc` follows the C text: `Malloc` /
`LibcMalloc` / `HandOver` and `FreeCall` / `LibcFree` are the patched macros,
the steps between are the hook. In retained mode `libc_malloc` comes first and
the hook gets its pointer; in alloc mode the hook runs first. `FreeCall` enters
the hook before `LibcFree`, as the comma expression of the patched macro does.

| variable | code |
|---|---|
| `out`, `finished`, `mu`, `counter` | `mpprof_out` (is it non-NULL), `mpprof_finished`, `mpprof_mu`, `mpprof_counter` |
| `inHook[t]` | `mpprof_in_hook`, thread-local |
| `fileOpen`, `fileOwner` | the FILE and its (recursive) lock |
| `stream`, `flushed` | what was fwritten, and how much of it reached the file |
| `live` | the parser's map of addresses after all of `stream` |
| `heap`, `held` | the allocator: who owns an address, and which the program holds |
| `fate[g]` | what the hook did with allocation `g`: skipped, sampled, missed |
| `frames[t]` | finalizers running on `t`: handlers on top of what they interrupted |
| `proc`, `sent` | the process; signals already delivered |

A record is written as two halves, so that a tear shows. `recording` is the
outcome of fopen. A signal may be delivered on any thread between any two
steps; sigaction without SA_NODEFER masks the signal inside its own handler,
so a thread runs one handler per signal. `Signals` are each delivered at most
once. Using a closed FILE is undefined behaviour: the step goes on, or the
process crashes (`OnClosedFile`).

### RetainedHeap

Addresses are owned, used by the program and tracked by the profile.
Allocating, handing out, tracking and giving back are four actions, and the
promise is that a tracked address names its present owner. `NativeHook`
implements it with `owner <- heap, used <- held, tracked <- live`. The mapping
applies in retained mode; in alloc mode there is no address in a record.

### NativeDriver

One action per step of `run`, each with its failure exit; drivers follow one
another, any of them may be killed anywhere, and its child then lives on as an
orphan that keeps writing. A file is an inode plus a name, so unlinking and
re-creating differ from truncating. Process numbers are reused once reaped.

Child and driver are separate processes. A child's life is in the terms of
`NativeHook`, without its threads: the destructor (`ChildReturns`) or the
handler of a signal (`ChildHandles`) sets `mpprof_finished`; `ChildFlushes` is
the end of either, with the stream whole; a signal that comes before that finds
the flag set and `_exit(0)`s (`ChildCut`), as in `native_exit_complete`: status
0, and records lost. `ChildCrashes` is every other end. Signals are the timer's
or somebody else's (`Disturb`).

### RawStream

`NativeHook` writes a record as two abstract halves; here it is bytes, and
threads are left out. A byte is a number below `Base`; `Word`, `BufSize`,
`NameCap` and `MaxFrames` are the 8, 8192, 250 and 64 of the code.

| variable | code |
|---|---|
| `retained` | `--retained`, which the driver passes to the hook by the environment and uses to choose the parser |
| `draft` | `buf`, `pos` and `n_kept` of the hook while a record is being laid out |
| `buf`, `p` | the file's bytes and the parser's offset |
| `cur` | the record the parser has read the header of, and some frames |
| `live`, `samples` | the locals of the same names |
| `recs` | history: what was written, with the offset where each record ends |

`BeginAlloc`, `AddFrame` (one turn of the loop over the backtrace, with its
exit when a longest name may not fit) and `WriteAlloc` (which fills in the
count) are the hook; `WriteFree` the free hook. `Cut` leaves any prefix of the
file: SIGKILL, `_exit`, a tear at any byte. Then the parser runs, one action
per turn of its loops and one per way to leave them. In alloc mode there is no
tag and no address. `Tracked` keeps a second 'A' for a tracked address from
being written, which is what `NativeHook` shows. `LE` is the shifting and
masking of the hook, `FromLE` is `from_le_bytes`; `RawAssumption` says that
addresses and sizes fit a word, as a `u64` does.

### GuestProfile

The owner thread runs `cmd_profile::run`: it makes the store, starts the
ticker, calls `_start` `Iterations` times, drops the ticker and consumes the
session. Compiled guest code compares `epoch` with `deadline`; past it the
callback takes the profiler (`session = "out"`), samples, puts it back and sets
the deadline one past the epoch of that moment. Ticks happen between any two of
these steps. The guest may trap, and every fallible call may fail; `failing` is
the error on its way out, through the drop of the ticker. `samples` records the
epoch of each sample, which no code looks at. The ticker thread tests the flag,
sleeps, and increments whatever the flag says by then.

### PatchedTrees and BenchMatrix

A tree is whose it is, its diffs, and whether it is whole: a copy, a removal or
a diff that is cut leaves part of a tree, of which nothing more is said, such
as which of its packages are there. A script (`cmd`) stops at its first failing
command or is interrupted between any two (`Interrupt`): `init` copies in
`InitSnapshot` / `SnapshotCopied`, `apply` patches with one diff in each
`ApplyDiff` or stops at a hunk that does not fit (`DiffRejected`), `restore`
removes in `Restore` / `RestoreRemoves` and copies in `RestoreCopies` /
`Restored`, `rebundle` builds one target in each `BundleTarget`. `snap` is keyed
by the last component of the project's path, as in the script. `sound` is
history: for whom the snapshot is a whole copy of the unpatched tree;
`rebundled` too: no diff has come since a rebundle that went through.

`bench` is the invocation at its step: swap (`SwapRemove`, `SwapCopy`), build
(`CleanBuild`, `Build` once for each cell), time (`TimeRun`, `CloseCell`), and
the same for the patched phase; then `PrintTable`. `SwapFails` and `BuildFails`
end it. `--mooncakes-baseline`
with `--mooncakes-patched`, and `--build=false`, are chosen at `Start`.
`CleanBuild` leaves any set of old binaries behind, since the error of
`remove_dir_all` is dropped; `Build` may take such a binary for up to date, and
fetches dependencies that are missing (`Deps`). Binaries of an earlier bench's
patched phase are there at first. A time is the binary that was timed: its
milliseconds, their median and the percentage of a row are formatting and left
out. `made` and `plan` are history: the cells that each phase's own build
compiled, and what each phase was to measure, `None` once something else
wrote a tree (`Beside`).

### WasmMemprofile over WasmHost

The guest is a stack machine over `I32` integers. As in walrus, the module is
a table of instruction sequences by id (`Seqs`), of which blocks, branches,
tries, calls and `_start` name one. `Collected` is what `collect_seq_ids` finds:
the bodies of functions, and from there through blocks, loops and both branches
of an if, but not through a try; `Instrument` rewrites those and leaves the
others as they are. `NestingAssumption` says that sequences nest, as the text of
a module does. The added instructions (`Added`, `CallHook`) use the `scratch`
local; `moonbit.malloc` is hooked at its own head, wherever it is called
(`Malloc`). `Finds` is what the validation
of the rewritten module in `Module::new` has made sure of: an instruction finds
its operands, and i32s where it takes those. `pure` is the operand stack of the original code, which the rewritten
code has to have at every original instruction. `AllocHook` counts, samples and
records; `Again` is the next of `--iterations`; `Trap` ends everything;
`WriteProfile` is what follows the last
return: the profile, then the trace, either of which may fail. `made` is history,
the sizes allocated outside of tries. Branches and exceptions thrown within the
module, which only cut a sequence short, are left out. `Host` is any import of
`WasmHost`, chosen within the group of its instruction.

In `WasmHost` a string is a sequence of characters, one of which (`Pair`) is
two UTF-16 units for the guest; `Replacement` is what `from_utf16_lossy` makes
of half of it. `h` and `arr` are the guest's handles, with their positions;
`wrote`, `got`, `list` and `sent` are history. `GuestEnvVar` and `GuestEnvVars`
are the two views of the environment.

### Ingest and its converters

`input` is put together element by element by `Capture` - identifiers of
a path, lines of perf text, samples of wasmtime's profiler, symbols of samply's
sidecar, nodes, samples and deltas of V8, chunks of a trace - and `Run` converts
it. `Pprof!Intern` interns by each converter's own key, and `ByStack` is the
profile as a reader sees it: for every stack of names the sum of the values.
Each property compares that with the same sums taken from the input directly,
without the converter's tables, caches and walks.

### Exchange

`profile` goes out by `Pprof2Folded`, `Pprof2Speedscope` or
`Pprof2ChromeTrace`, for any axis and option, and `file` comes back by
`Folded2Pprof`, `Speedscope2Pprof` or `ChromeTrace2Pprof`, up to `MaxTrips`
times; a behaviour may also begin with a foreign file. `past` is the profile
that went out last. The properties relate the profile that comes back to that
one; `Summary` is evaluated on both at every moment. `ToFolded` joins the
frames of a stack by the separator and `FromFolded` splits the text, names are
sequences of characters there, so that a separator inside a name is the real
thing.

## Runs

| run | question | bounds |
|---|---|---|
| `native_retained` | are the stream and the parser's map right at every step? | retained mode, 2 threads, 2 addresses, 2 allocations, SIGTERM |
| `native_alloc` | is the scaled sample the number of allocations, and does a finalizer always end the process? | alloc mode, rate 2, 2 threads, 2 allocations, 2 signals, exit() |
| `native_exit_complete` | violation: is the file complete when the process has exited with 0? | 2 threads, 1 allocation, SIGTERM, exit() |
| `native_write_after_close` | violation: is the FILE used only while open? | 2 threads, 1 allocation, SIGTERM |
| `driver_runs` | is the profile the run's own, when can it be short, does `--duration` end it? | 2 drivers, 3 process numbers |
| `driver_kill` | violation: is the number the timer signals the child's? | 1 driver |
| `raw_stream` | does a stream cut anywhere yield exactly its whole records? | 3 records, 2 frames, words of 2 bytes, a buffer that one long name fills |
| `guest_profile` | is a tick sampled at most once, the profiler back at the end, the ticker gone? | 2 calls, 4 ticks |
| `bench_matrix` | is there always an unpatched tree to go back to, is a cell of its phase, what does a row compare? | 2 projects of one name, 1 diff, 2 cells, 2 script invocations beside one bench, 1 timed run |
| `wasm_memprofile` | is the guest's computation intact, every allocation outside of a try hooked, every host import's answer right? | 8 programs, up to 7 host calls, 4-bit integers, rates 1 to 3 |
| `ingest` | does each converter credit every sample to its own stack? | 3 to 5 elements of 7 kinds |
| `exchange` | does what goes out come back; do summary and diff add up? | 547 starts (1 or 2 samples, 3 axes, 5 files), 2 trips, 3 expanded samples |

Why the bounds are enough to meet the cases. Two threads are what a race
needs; two addresses and two allocations let one thread reuse an address that
another has just given back while the first record is still unwritten, which
is the order the refinement is about; a signal can hit each of these steps, on
either thread. Two allocations at rate 2 draw each residue, on one thread or
two. Two signals and exit() give three finalizers, on top of one another or
beside one another. Two drivers give a predecessor and its orphan; three
process numbers hold a driver, a child and an orphan or a stranger at once, and
being few they are reused soon. Three records are an allocation, its free and a
reuse of the address, or records before and after the cut one; bytes in base 8
and words of two bytes keep the carry of the encoding, one name is longer than
the cap, and the tags are also legal bytes of addresses, sizes and names. Four
ticks let ticks fall before, in and after a callback, twice. Two invocations
are an init, without which there is nothing to swap, and a script that runs
beside the bench, of either project, with the user's own copy and patch of the
snapshot in between, which are not counted; one bench swaps twice, builds twice
over the binaries of an earlier one, and leaves a cell at each way to fail; two
cells are one that is compiled again and one that is not. Four bits wrap the
product of an array of three elements of six; six calls make a string of two units, one of them half a pair, and read it back.
Five perf lines are two samples with something between their frames; two
threads use equal indices for different functions; three symbols have a gap and
two ends; four chunks are two of one profile that depend on each other, one of
another key and an event that is none. Two samples share frames, differ in one
file or separator, or recurse; two trips bring a profile back from a format
that another one wrote. The proofs below have no bounds.

The bound names: `MaxAllocs` (allocations in a behaviour), `MaxRuns` (drivers
in a behaviour), `MaxRecs` (records in a stream), `MaxTicks` (ticks before the
ticker is told to stop, after which it adds one more at most), `MaxCommands`
(script invocations), `MaxBenches`, `MaxInput` (elements of an input), `MaxTrips`
(imports). `MaxExpanded` is a constant of the code, MAX_EXPANDED_SAMPLES, made
small.
`Gone`, `Idle` and the last disjunct of `RawStream!Next` let a finished system
stutter, and deadlock checking stays on there: for `raw_stream` it says that
the parser never meets an unknown tag, since no action has one. `GuestProfile`
ends when `run` returns, so its runs do not check for deadlock, and `DropEnds`
shows that it does not block. The other systems are commands that end, and their
runs do not check either. In the native models, since a process can be killed
at any time, blocking is shown by the liveness properties, not by the absence
of deadlock.

### Fairness

`NativeHook!FairSpec`: every thread that can take a hook or finalizer step
eventually does; nothing is assumed about the program, signals or SIGKILL.
This is the scheduler's promise to threads of a running process.
`NativeDriver!FairSpec`: the driver and its timer thread are scheduled, a signal
that was sent is delivered and acted on (`SignalActs`), and a handler that runs
comes to its end (`HandlerEnds`; this is `FinalizerEnds` of the hook). A child
that was not signalled need not end, nor a destructor.
`GuestProfile!FairSpec`: the owner and the ticker thread are scheduled and a
sleep ends; a call of the guest need not return (`Guest` has no fairness).

### What the violations show

- `mpprof_finished` is set before the flush. A signal during the destructor's
  flush, or a second signal on another thread, finds it set and calls
  `_exit(0)`: records are lost with status 0, although the driver's comment
  says that the file is complete when `wait()` returns.
- The finalizer does not take the mutex: a thread that has seen `mpprof_out`
  can write to a closed FILE. The comment expects at worst a partial last
  record.
- The timer thread outlives the child: SIGTERM may go to a stranger, although a
  comment says that the number is still the driver's.

### Met while modelling, without a run of its own

- A failed program without `--duration` ends the run before its stream is
  parsed; the comment at `cmd_memprofile_native.rs:285` says it is still worth
  parsing. `run` joins the timer for the whole `--duration`, although the
  comment at :276 says it does not wait for it.
- Ticks before the guest's next check, or during a callback, are merged into
  one sample, where `wasmtime-guest-pprof/src/lib.rs:108` speaks of one for
  each.
- `perf2pprof` says that every sample has period 1 when the periods add up to the
  number of samples, so also for periods 0 and 2
  (`perf-to-pprof/src/lib.rs:105` and :110).
- The wasm host keeps one line buffer for both file descriptors; a guest that
  ends by `sys.exit(0)` is a trap for `memprofile`, which then writes nothing.
- A workload that fails in the patched phase is -100% in the table
  (`cmd_bench.rs:412`), the default of its cell being 0.0 ms.
- `bench` goes on when it cannot remove `_build` (`cmd_bench.rs:224`), and may
  then set the times of one old binary side by side (`RowsCompareOneChange`
  says which cells). A snapshot is found by the last component of the project's
  path, so a project of the same name is measured with another's dependencies;
  an `init` that was cut leaves a snapshot that looks whole.
- `README.md:105` has `memprofile` rewrite every `struct.new` and `array.new*`;
  those within a try are not (`collect_seq_ids`, `cmd_memprofile.rs:650-669`), and
  `HookSeesAllOutsideTry` says that they are missing from the profile.
- `memprofile` that fails to write `--trace-out` has written the profile already.
- `_M0FP15bench9ackermann` has two readings, of which `demangle` takes one
  that the compiler did not mean, and so has `_M0FP22x11f9ackermann`, by the
  digit that ends a name; a last name like `PAGE` loses its end. `PathsReadBack`
  is an equivalence: `Ambiguous` has exactly the paths that do not come back.
- samply profiles give a location the number of its library for a mapping,
  and the profile has one mapping, where pprof's `profile.proto` has the number
  refer to one.
- Folded text has no unit, so that nanoseconds come back as microseconds
  unless told; names that begin with `#` or have blank ends do not survive. A
  Speedscope file with an evented profile anywhere is refused. Outer frames of
  inlined calls are dropped by every exporter, and each trip through a trace
  adds a frame `(root)`.
- `summary` charges a recursive function memory-management time once for each
  of its frames, and a comparison subtracts numbers whatever their units.

## Proofs

`NativeHookProofs` proves, for any threads, addresses, rate, signals and bound
on allocations (`NativeHook`'s named assumption only says that these are
sensible: `Main` is a thread, the rate is at least 1), that `Spec` implies:

| theorem | property |
|---|---|
| `TypeCorrect` | `TypeOK` |
| `StreamFramed` | `Framing` |
| `NoStaleEntries` | `NoStaleEntry` |
| `NoMissingEntries` | `NoMissingEntry` |
| `HooksRearmed` | `HookRearmed` |
| `Sealed` | `SealedStream` |
| `Refinement` | `Retained => ImplementsRetainedHeap` |

None of the safety properties is inductive: `NoStaleEntry` needs to know which
thread owns an address between libc_malloc and the return to the program, and
that a record about to be written is still true. `IInv` (in `NativeHookInv`)
adds `JobShape` (what a hook call is about, and at which point), `Ownership`
(an address in a call is in no other hands), `Locks` (the mutex and the FILE's
lock belong to the thread whose pc says so), `Finalizing` (the destructor runs
below every handler; a record cut by the handler that closed the FILE is never
resumed), `Guard` (the reentrancy guard is set exactly inside the hook) and
`Tracking` (the parser's map agrees with the allocator except for addresses
about to be recorded or released). `Invariance` has one step per action. Two
more conjuncts are proved on top of it: `Framed` (the stream is whole records,
plus a first half exactly while a thread is inside fwrite) and `Recorded` (a
sampled allocation is in the map from the end of its hook call to the record of
its free). `Sealed` and `Refinement` are facts about steps that use `IInv` in
the state before. `TrueOwners` is about `RetainedHeap` itself, from its own
invariant.

`RawStreamProofs` proves, for any base, word, buffer and names that satisfy
`RawAssumption` (a header and one longest name fit in the buffer; the limit of
frames, the cap on names, addresses and sizes fit the bytes that store them):

| theorem | property |
|---|---|
| `RecordsFit` | `RecordFits`: the hook never writes past its stack buffer |
| `FrameCountsFit` | the number of frames fits the byte it is stored in |
| `StreamIsLaidOut` | `LayoutInv`: the file is the layouts of its records |
| `WholeRecordsAreCounted` | `WholeRecordsCount`: both parsers yield the whole records, no more and no less |
| `TagsAreKnown` | the error about an unknown tag is never reached |

The first two follow from `DraftInv`, which relates the length of the draft to
the test before each frame: the test counts the cap and not the name, so
whatever name follows it fits.

For the others, `Laid` says where the bytes of each record are: the tag and the
address, the size, the count, and frame after frame, at offsets that some
function `at` gives. It speaks only of bytes the file still has, so it
survives a cut at any byte; `LaidWhole` adds, while the program runs, that the
file ends with its last record, and `Untracked` that an 'A' about to be written
is of no tracked address. `DraftAt` is the same layout for the record in the
stack buffer, without its count, which the hook fills in last.

`ParseInv` then says where the parser is. `After` so many records read whole it
is at the end of the last of them or, `MidRecord`, after the header and some
frames of the next; its map of live allocations is that of the records that no
later 'F' cancels (`LiveIs`), its samples are the totals of what was `Given`.
The conclusion holds because the parser stops only where the next record is
not whole in the file. `WholeRecordsCount` itself says nothing until the parser
is done, which is why it is not inductive. Three groups of lemmas carry it:
`ReadsBack`, that decoding undoes encoding for a number that fits (by induction
over the bytes); `FramesGrow`, `LaidMore`, `LaidCut` and others, that a layout
is kept by what is written after it, by the count that is filled in and by a
cut; `TotalsAdd` and `TotalsRenamed`, that `Credit` adds one allocation to the
totals, and that totals do not depend on whether allocations are listed by
address, as the parser does, or by record, as the property does.

`GuestProfileProofs` proves, for any number of calls and ticks,
`SamplesDiffer` (`OneSamplePerTick`), `ProfilerIsReturned`
(`ProfilerReturned`), `DropIsFinal` (`NoTickAfterDrop`) and `GuestInvariance`
(`GuestInv`). `OneSamplePerTick` is not inductive: `GuestInv` adds that the
deadline is past every sample except between the sample and the update of the
deadline, where the profiler is out.

`PatchedTreesProofs` proves `BaselinesKept` (`Spec => []BaselineKept` of
`BenchMatrix`) for any projects and names, any diffs, targets, workloads and
numbers of commands and benches. `TreesInv` adds that a running init is of a
project, and what `sound` and `snap` are functions on: an init is only begun
when there is no snapshot, and a sound snapshot is a tree and so there; the
assumption that `None` is no tree is what makes that a step of logic. It also
proves `CellsFaithful` (`CellsAreOfTheirPhase`) and `RowsComparable`
(`RowsCompareOneChange`). `CellsInv` has two parts. `PlanKept`, as long as no
script writes a tree beside the bench (`bench.plan # None`): the dependencies are
the phase's from the swap on, and every binary the phase's own build compiled is
of them and of its toolchain (`Right`), as is what was timed of it. `RowsKept`,
whatever scripts do: a cell that the second phase did not compile has the
binary that the first one timed, or none. `RootInv` says that a rebundle that
went through has every target. Nothing is assumed of the removal of `_build`. The
cells are finitely many, which `BenchAssumption` says.

`NativeDriverProofs` proves, for any process numbers and number of drivers:

| theorem | property |
|---|---|
| `OwnProfile` | `ProfileIsOwn` |
| `ShortProfiles` | `ShortProfilesExplained` |
| `OwnSignal` | as long as the driver waits for its child, its timer signals that child and no other process |

`OwnSignal` is the part of the comment at `cmd_memprofile_native.rs:268` that
is true: `driver_kill` refutes it only after the child was reaped. `DriverInv`
adds `ChildKept` (the station of `run` says whether there is a child, and which
program it executes), `FilesKept` (an inode is opened by one run's child; a
name left over in the temporary directory is of a file its own child opened),
`StatusKept` (a child that ended "ok" or "error" leaves a whole stream, and "cut"
comes of a signal of the timer's or of somebody else's) and `NumbersKept` (a
process number in use is used once).

`NativeHookProofs` also proves `OneFinalizerLeavesAll`
(`OneFinalizerCompletes`) and `EstimateScaled` (`ScaledEstimate`), each from an
invariant beside `IInv`. `OneFinalizer` follows the one finalizer that ran
through flush, close and `_exit`, and knows that with no other signal nobody
can find `mpprof_finished` set. For the estimate, `Sampling` relates the counter
to the sets of allocations `Counted` and `Chosen` so far: each was counted
once, in whatever order the threads came, and the rate times the number chosen
is the first multiple of the rate that covers those counted, because the next
one is chosen exactly when the two are equal.

`WasmProofs` proves, for any program, nesting, number of values of an i32,
rate, environment and arguments (`MemprofileAssumption` says that sequences
hold instructions and name sequences, `NestingAssumption` that they nest, which
is needed because a sequence both within a try and outside of one would be
rewritten, `HostAssumption` that strings are sequences):

| theorem | property | from |
|---|---|---|
| `ReadBackKept` | `HandlesReadBack` | `HostInv` |
| `EnvironmentAgrees` | `EnvironmentsAgree` | `HostInv` |
| `OutputOrdered` | `OutputInOrder` | `HostInv` |
| `OperandsIntact` | `StackIntact` | `GuestInv` |
| `AllOutsideTryHooked` | `HookSeesAllOutsideTry` | `GuestInv` |
| `AccountsAlwaysAgree` | `AccountsAgree` | `AccountsInv` and `GuestInv` |

`HostInv` relates every handle to the history of what the guest fed to it: a
reader at position `pos` has handed out the first `pos` elements, the drained
lines and the rest of the buffer are the bytes sent. `GuestInv` says where in
the original code the rewritten code is. The rest of every frame is
`Aligned`: the rewriting of some rest of the original; only the last may be
`Around` an allocation, with `todo` still to run of its expansion, and then
`AtStatic` and `AtDynamic` give the operand stack, the scratch local and what
the hook has seen at each of its instructions, in terms of the original stack
`pure`, or unchanged within a try. `StackIntact` and `HookSeesAllOutsideTry` are
the two ends of that.
`AccountsInv` adds the hook's state: both accounts have the same sums, and
objects are `rate * k` for the least `k` that covers the counter; that no
sample has an empty stack, which `encode_pprof` would drop, is because the
first frame is a function's (`BacktraceFound`).

`IngestProofs` proves, for any captures, trees, tables, threads and lines,

| theorem | property |
|---|---|
| `CpuSamplesAlwaysKept` | `CpuSamplesKept` |
| `GuestSamplesAlwaysKept` | `GuestSamplesKept` |
| `PerfSamplesAlwaysKept` | `PerfSamplesKept` |
| `HeapBytesAlwaysKept` | `HeapBytesKept` |

`IngestAssumption` says what the readers of the inputs yield: an id, a
time, a size or a period is a number, what is not there is `None`, which no sample is,
and a stack of wasmtime's table comes after its prefix. The invariant,
`CapturesWellFormed`, is small: V8's nodes are a tree with one head (`Planted`),
and the result is the conversion of the input. The rest is about that conversion, and
holds for every input:

- `ProfileReads`: a reader of a profile sees the sums by stack of what was added
  to it. `Coherent` is what a converter has to know of its keys: frames with one
  key have the same names, functions with one key one name. `TablesInv` is what
  interning keeps: every location says the names of every frame that has its
  key, and ids once given stay (`Grows`).
- `MergeKeeps`: merging samples whose stacks have equal keys keeps those sums.
  `Gathers` says that each merged sample is the sum of its part of the samples,
  all of one stack, and `TallyParts`, over `SumParts`, that sums of sums are sums;
  `JoinedGathers` does the same for threads that are merged one by one.
- `StackForNodeIs`: the stack of a V8 node reads as the path to it; the two
  recursions are both `Upward`, and what one has reads as what the other has.
  `StackFramesIs`: a chain of prefixes ends, each being before its stack.
- `CpuCoherent`, `GuestCoherent` and `PerfCoherent`: the keys by which the
  three converters intern do tell the names, whichever thread, node or line they
  come from.
- `ParseIs`: the parser of perf's text finds a sample for each header. Its
  invariant, `ParsedTo`, is about the lines read so far: the samples are those of
  the headers among them, one to one, each with the frames that
  follow its header up to the next blank line or header, and the last is the
  one that is still open, if any. `SampleMore` is what one more line does to a
  sample. `TallyMatched` then compares the two tallies entry by entry.
- `WalkLists`: the walk down V8's heap emits every node with bytes once, with the
  path to it. The walk is `Downward`, a recursion from a node to its children,
  which has a solution because children come after their node
  (`DownwardExists`). `DownwardLists` follows it from the last node back: what is
  emitted under a node are the nodes `Below` it, and those are the node and what
  is below its children, no two of which share a node (`BelowSplits`); every node
  is below the head (`BelowAll`). `FramesName` says that the frames which the walk
  collects on its way down are named as the path upwards is.
- `PeriodsOfOne`: periods that are all 1 add up to their number, and periods that
  add up to their number are all 1 unless one is 0.

Facts about folds come from `FoldLemmas`: the community modules define
`FlattenSeq`, `FoldLeft`, `SetToSeq` and `SumFunction` by recursive functions and
CHOOSE. A
recursive function exists and is unique by induction, which is applied here to
the set of numbers where the claim fails, whose least element is impossible
(`Induction`, without an operator as a parameter). So `FlattenAppend` and
`FlattenTail` give a concatenation from either end, `SumChange` the sum after
one element was added or changed, `SetInOrder` an ordering of a finite set.

Only model-checked:

- `PathsReadBack`, `AddressesContained` and `ChunksJoined` of `Ingest`, and the
  properties of `Exchange`: each is an induction over what a converter reads
  (text, addresses, chunks, the tables of another profile) that is not done
  here, except that what they say of interning and merging is
  `ProfileReads` and `MergeKeeps`;
- all liveness (`FinalizerEnds`, `DurationEndsRun`, `DropEnds` and the others),
  which needs ENABLED.

## What is left out, and assumptions

- `fclose` in a handler may meet the allocator's lock and hang; the allocator's
  own lock is not modelled, so `FinalizerEnds` is about the locks of the hook.
- A program that installs its own SIGTERM handler replaces the hook's.
- Frame capture (`backtrace`, `dladdr`) only succeeds or fails in `NativeHook`;
  names and layout are in `RawStream`, one thread at a time. There, names are
  nonempty, a cut name is compared as bytes (the parser replaces a name that is
  not UTF-8 by one fixed name), and products of size and rate do not overflow.
- `remove_file` in the driver succeeds when the file exists (its error is
  ignored; another user's file of that name would stay).
- The constructor of a child that has lost its driver has run before a later
  driver with the same number gets as far as its own spawn.
- Drivers that run at the same time on one executable overwrite each other's
  `{cmd}.memprof.*`; runs in the model follow one another.
- Text handling of the native driver (cc command lines, C rewriting) appears as
  success or failure. The encoder of native profiles interns as `Pprof` does
  and is not run on `RawStream`'s samples.
- Strings are short sequences of characters; durations, periods, columns and
  layout of the output are left out of the converters, as are errors of parsing
  their input, as are profiles no profiler writes
  (a node that is its own ancestor, a prefix chain with a cycle).
- The wasm binary format and its validation are walrus's and wasmtime's; clocks
  and file imports of the host answer from outside.

### Not modelled

The V8 runners (sequential scripts whose state is in V8), the http baseline
server (no state), the MoonBit workloads (what is measured, not the tool), the
command line (dispatch), the JavaScript wasm host (the same imports as
`WasmHost` in another language), `status` of the scripts (it only reads).

## Plan

What is left, in order of importance; every module follows the layout above
(constants with a named assumption, one action per operation, no RECURSIVE
where a theorem is planned).

1. The remaining converters of `Ingest` on top of `ProfileReads` and
   `MergeKeeps`; the conversions of `Exchange` whose sums are those of
   `SumFunction`: `SummaryAddsUp` and `DiffAddsUp`.
2. Two drivers at once on one executable; the encoder of native profiles on
   `RawStream`'s samples; the JavaScript host against `WasmHost`.
