----------------------------- MODULE NativeHook -----------------------------
(***************************************************************************)
(* The allocation hook that `moon-pprof memprofile-native` links into a    *)
(* MoonBit native binary (runners/moon-pprof/assets/native_alloc_hook.c),  *)
(* called from the patched moonbit_malloc_inlined and moonbit_free that    *)
(* cmd_memprofile_native.rs writes into the generated C.                   *)
(*                                                                         *)
(* Threads allocate and free.  Each hook call appends one record to one    *)
(* stdio stream under a mutex; a signal handler or the destructor flushes  *)
(* and closes that stream, without the mutex, from whatever thread it runs *)
(* on.  Two halves stand for the bytes of a record, so that a record can   *)
(* be torn; the stream is the file followed by the stdio buffer.           *)
(***************************************************************************)
EXTENDS Naturals, Sequences, FiniteSets

CONSTANTS Threads,    \* the threads of the profiled program
          Main,       \* the thread that runs main() and the destructors
          Ptrs,       \* the addresses libc_malloc can return
          Signals,    \* the signals with a handler, each delivered at most once
          MaxAllocs,  \* bound: allocations in one behaviour
          Rate,       \* MOON_PPROF_SAMPLE_RATE
          Retained,   \* MOON_PPROF_RETAINED, and the patch that goes with it
          None        \* no thread, no address

ASSUME HookAssumption ==
    /\ Main \in Threads
    /\ None \notin Threads \cup Ptrs
    /\ MaxAllocs \in Nat
    /\ Rate \in Nat \ {0}
    /\ Retained \in BOOLEAN

VARIABLES
    proc,       \* the process: loading, running, exited, killed or crashed
    recording,  \* MOON_PPROF_RAW_OUTPUT was set and fopen succeeded
    out,        \* mpprof_out # NULL
    fileOpen,   \* the FILE behind mpprof_out has not been closed
    finished,   \* mpprof_finished
    mu,         \* the holder of mpprof_mu
    fileOwner,  \* the holder of the FILE's own lock, in the middle of fwrite
    stream,     \* the halves of records written so far
    flushed,    \* how many of them are in the file, the rest is in the buffer
    counter,    \* mpprof_counter
    gens,       \* allocations requested so far; the last one has this number
    fate,       \* what the hook decided for each allocation
    heap,       \* the allocation that owns an address, 0 if it is free
    held,       \* the addresses the program may use and free
    live,       \* the parser's map, had it read the whole stream up to now
    pc,         \* where each thread is in its own code
    job,        \* the record the thread's current hook call is about
    inHook,     \* mpprof_in_hook, thread-local
    frames,     \* the finalizers running on top of each thread's own code
    sent        \* the signals delivered so far

procVars == <<proc, recording>>
fileVars == <<out, fileOpen, finished, fileOwner, stream, flushed, live>>
sampleVars == <<counter, gens, fate>>
heapVars == <<heap, held>>
threadVars == <<pc, job, inHook>>
signalVars == <<frames, sent>>
vars == <<procVars, fileVars, mu, sampleVars, heapVars, threadVars, signalVars>>

Gens == 1..MaxAllocs
Ops == {"A", "F", "none"}
Jobs == [op: Ops, ptr: Ptrs \cup {None}, gen: 0..MaxAllocs]
Halves == [rec: Jobs, half: {1, 2}]
NoJob == [op |-> "none", ptr |-> None, gen |-> 0]

\* Fates: not decided, left out by 1/N sampling, no backtrace, to be written.
Fates == {"open", "skipped", "missed", "wanted"}

PCs == {"user", "gate", "count", "capture", "lock", "test", "write", "tail",
        "unlock", "hand", "malloc", "free", "fini", "exit"}
FramePCs == {"check", "set", "flush", "close", "null", "return"}
FrameKinds == {"signal", "fini"}
Frames == [kind: FrameKinds, at: FramePCs]

\* A thread runs its own code when no finalizer is on top of it.
Runs(t) == proc = "running" /\ frames[t] = <<>>

At(t, l) == Runs(t) /\ pc[t] = l

Goto(t, l) == pc' = [pc EXCEPT ![t] = l]

\* What the patched caller does once the hook returns.
AfterHook(t) ==
    IF job[t].op = "F" THEN "free" ELSE IF Retained THEN "hand" ELSE "malloc"

-----------------------------------------------------------------------------
Init ==
    /\ proc = "loading"
    /\ recording = FALSE
    /\ out = FALSE
    /\ fileOpen = FALSE
    /\ finished = FALSE
    /\ mu = None
    /\ fileOwner = None
    /\ stream = <<>>
    /\ flushed = 0
    /\ counter = 0
    /\ gens = 0
    /\ fate = [g \in Gens |-> "open"]
    /\ heap = [p \in Ptrs |-> 0]
    /\ held = {}
    /\ live = [p \in Ptrs |-> 0]
    /\ pc = [t \in Threads |-> "user"]
    /\ job = [t \in Threads |-> NoJob]
    /\ inHook = [t \in Threads |-> FALSE]
    /\ frames = [t \in Threads |-> <<>>]
    /\ sent = {}

\* mpprof_init, before main: open the raw output if the environment names one
\* and only then install the two signal handlers.
Construct ==
    /\ proc = "loading"
    /\ proc' = "running"
    /\ recording' \in BOOLEAN
    /\ out' = recording'
    /\ fileOpen' = recording'
    /\ UNCHANGED <<finished, fileOwner, stream, flushed, live, mu, sampleVars,
                   heapVars, threadVars, signalVars>>

-----------------------------------------------------------------------------
(* The patched moonbit_malloc_inlined and moonbit_free.                    *)

\* Retained mode allocates first and calls the hook with the address; alloc
\* mode calls the hook first.
Malloc(t) ==
    /\ At(t, "user")
    /\ gens < MaxAllocs
    /\ gens' = gens + 1
    /\ Goto(t, "gate")
    /\ \/ /\ Retained
          /\ \E p \in Ptrs :
                /\ heap[p] = 0
                /\ heap' = [heap EXCEPT ![p] = gens + 1]
                /\ job' = [job EXCEPT ![t] = [op |-> "A", ptr |-> p, gen |-> gens + 1]]
       \/ /\ ~Retained
          /\ job' = [job EXCEPT ![t] = [op |-> "A", ptr |-> None, gen |-> gens + 1]]
          /\ UNCHANGED heap
    /\ UNCHANGED <<procVars, fileVars, mu, counter, fate, held, inHook, signalVars>>

\* Retained mode: `return obj` after the hook.
HandOver(t) ==
    /\ At(t, "hand")
    /\ held' = held \cup {job[t].ptr}
    /\ job' = [job EXCEPT ![t] = NoJob]
    /\ Goto(t, "user")
    /\ UNCHANGED <<procVars, fileVars, mu, sampleVars, heap, inHook, signalVars>>

\* Alloc mode: libc_malloc and `return ptr + 1` after the hook.
LibcMalloc(t) ==
    /\ At(t, "malloc")
    /\ \E p \in Ptrs :
          /\ heap[p] = 0
          /\ heap' = [heap EXCEPT ![p] = job[t].gen]
          /\ held' = held \cup {p}
    /\ job' = [job EXCEPT ![t] = NoJob]
    /\ Goto(t, "user")
    /\ UNCHANGED <<procVars, fileVars, mu, sampleVars, inHook, signalVars>>

\* Mutant: the patch finds no moonbit_free to hook.
FreeNotHooked(t) ==
    /\ At(t, "user")
    /\ \E p \in held :
          /\ held' = held \ {p}
          /\ job' = [job EXCEPT ![t] = [op |-> "F", ptr |-> p, gen |-> heap[p]]]
    /\ Goto(t, "free")
    /\ UNCHANGED <<procVars, fileVars, mu, sampleVars, heap, inHook, signalVars>>

\* Mutant: the macro calls libc_free first and the hook second.
FreeBeforeHook(t) ==
    /\ At(t, "user")
    /\ \E p \in held :
          /\ held' = held \ {p}
          /\ heap' = [heap EXCEPT ![p] = 0]
          /\ job' = [job EXCEPT ![t] = [op |-> "F", ptr |-> p, gen |-> heap[p]]]
    /\ Goto(t, "gate")
    /\ UNCHANGED <<procVars, fileVars, mu, sampleVars, inHook, signalVars>>

\* moonbit_free(obj): any thread may drop the last reference.  Retained mode
\* calls the free hook before libc_free, alloc mode does not hook free.
FreeCall(t) ==
    /\ At(t, "user")
    /\ \E p \in held :
          /\ held' = held \ {p}
          /\ job' = [job EXCEPT ![t] = [op |-> "F", ptr |-> p, gen |-> heap[p]]]
    /\ Goto(t, IF Retained THEN "gate" ELSE "free")
    /\ UNCHANGED <<procVars, fileVars, mu, sampleVars, heap, inHook, signalVars>>

LibcFree(t) ==
    /\ At(t, "free")
    /\ heap' = [heap EXCEPT ![job[t].ptr] = 0]
    /\ job' = [job EXCEPT ![t] = NoJob]
    /\ Goto(t, "user")
    /\ UNCHANGED <<procVars, fileVars, mu, sampleVars, held, inHook, signalVars>>

-----------------------------------------------------------------------------
(* __moon_pprof_alloc_hook, __moon_pprof_alloc_ptr_hook and                *)
(* __moon_pprof_free_hook.                                                 *)

\* The early returns, mpprof_out read without the mutex.
Gate(t) ==
    /\ At(t, "gate")
    /\ IF inHook[t] \/ ~out
         THEN /\ Goto(t, AfterHook(t))
              /\ UNCHANGED inHook
         ELSE /\ Goto(t, IF job[t].op = "A" THEN "count" ELSE "lock")
              /\ inHook' = [inHook EXCEPT ![t] = TRUE]
    /\ UNCHANGED <<procVars, fileVars, mu, sampleVars, heapVars, job, signalVars>>

\* Mutant: off by one, the first of every N is not the one sampled.
SampleLast(n) == Rate <= 1 \/ n % Rate = 0

DoSample(n) == Rate <= 1 \/ (n - 1) % Rate = 0

\* The first critical section: n = ++mpprof_counter and the 1/N decision.
Count(t) ==
    /\ At(t, "count")
    /\ mu = None
    /\ counter' = counter + 1
    /\ IF DoSample(counter + 1)
         THEN /\ Goto(t, "capture")
              /\ UNCHANGED <<fate, inHook>>
         ELSE /\ Goto(t, AfterHook(t))
              /\ fate' = [fate EXCEPT ![job[t].gen] = "skipped"]
              /\ inHook' = [inHook EXCEPT ![t] = FALSE]
    /\ UNCHANGED <<procVars, fileVars, mu, gens, heapVars, job, signalVars>>

\* Mutant: the return without frames does not clear mpprof_in_hook.
CaptureLeavesGuard(t) ==
    /\ At(t, "capture")
    /\ \/ /\ Goto(t, "lock")
          /\ fate' = [fate EXCEPT ![job[t].gen] = "wanted"]
       \/ /\ Goto(t, AfterHook(t))
          /\ fate' = [fate EXCEPT ![job[t].gen] = "missed"]
    /\ UNCHANGED <<procVars, fileVars, mu, counter, gens, heapVars, job, inHook, signalVars>>

\* backtrace() and dladdr() into a stack buffer; no frames, no record.
Capture(t) ==
    /\ At(t, "capture")
    /\ \/ /\ Goto(t, "lock")
          /\ fate' = [fate EXCEPT ![job[t].gen] = "wanted"]
          /\ UNCHANGED inHook
       \/ /\ Goto(t, AfterHook(t))
          /\ fate' = [fate EXCEPT ![job[t].gen] = "missed"]
          /\ inHook' = [inHook EXCEPT ![t] = FALSE]
    /\ UNCHANGED <<procVars, fileVars, mu, counter, gens, heapVars, job, signalVars>>

Lock(t) ==
    /\ At(t, "lock")
    /\ mu = None
    /\ mu' = t
    /\ Goto(t, "test")
    /\ UNCHANGED <<procVars, fileVars, sampleVars, heapVars, job, inHook, signalVars>>

\* Mutant: the record is dropped as soon as a finalizer has started.
TestFinished(t) ==
    /\ At(t, "test")
    /\ Goto(t, IF finished THEN "unlock" ELSE "write")
    /\ UNCHANGED <<procVars, fileVars, mu, sampleVars, heapVars, job, inHook, signalVars>>

\* if (mpprof_out): the value tested may be gone when fwrite uses it.
Test(t) ==
    /\ At(t, "test")
    /\ Goto(t, IF out THEN "write" ELSE "unlock")
    /\ UNCHANGED <<procVars, fileVars, mu, sampleVars, heapVars, job, inHook, signalVars>>

\* Mutant: fwrite counts one item too many as written out.
DrainOneMore(n) == flushed' \in {flushed, n + 1}

\* stdio keeps what fwrite adds in its buffer or drains the buffer.
Drain(n) == flushed' \in {flushed, n}

\* fwrite takes the FILE's lock and copies; on a closed FILE the behaviour is
\* undefined: the record vanishes or the process crashes.
WriteHead(t) ==
    /\ At(t, "write")
    /\ \/ /\ fileOpen
          /\ fileOwner = None
          /\ fileOwner' = t
          /\ stream' = Append(stream, [rec |-> job[t], half |-> 1])
          /\ Drain(Len(stream) + 1)
          /\ Goto(t, "tail")
          /\ UNCHANGED proc
       \/ /\ ~fileOpen
          /\ \/ Goto(t, "unlock") /\ UNCHANGED proc
             \/ proc' = "crashed" /\ UNCHANGED pc
          /\ UNCHANGED <<fileOwner, stream, flushed>>
    /\ UNCHANGED <<recording, out, fileOpen, finished, live, mu, sampleVars,
                   heapVars, job, inHook, signalVars>>

\* One complete record as parse_retained_raw_stream takes it into its map.
Apply(m, r) ==
    CASE r.op = "A" /\ r.ptr # None -> [m EXCEPT ![r.ptr] = r.gen]
      [] r.op = "F" -> [m EXCEPT ![r.ptr] = 0]
      [] OTHER -> m

\* Mutant: `static unsigned char buf[]`, filled by each thread before the lock.
WriteTailOfSharedBuffer(t) ==
    /\ At(t, "tail")
    /\ fileOwner' = None
    /\ \E u \in Threads :
          /\ u = t \/ pc[u] = "lock"
          /\ stream' = Append(stream, [rec |-> job[u], half |-> 2])
          /\ live' = Apply(live, job[u])
    /\ Drain(Len(stream) + 1)
    /\ Goto(t, "unlock")
    /\ UNCHANGED <<procVars, out, fileOpen, finished, mu, sampleVars, heapVars,
                   job, inHook, signalVars>>

WriteTail(t) ==
    /\ At(t, "tail")
    /\ fileOwner' = None
    /\ stream' = Append(stream, [rec |-> job[t], half |-> 2])
    /\ Drain(Len(stream) + 1)
    /\ live' = Apply(live, job[t])
    /\ Goto(t, "unlock")
    /\ UNCHANGED <<procVars, out, fileOpen, finished, mu, sampleVars, heapVars,
                   job, inHook, signalVars>>

Unlock(t) ==
    /\ At(t, "unlock")
    /\ mu' = None
    /\ inHook' = [inHook EXCEPT ![t] = FALSE]
    /\ Goto(t, AfterHook(t))
    /\ UNCHANGED <<procVars, fileVars, sampleVars, heapVars, job, signalVars>>

-----------------------------------------------------------------------------
(* mpprof_finalize_once, from the destructor or from the signal handler.   *)

\* Mutant: the handler and the destructor do not finalize.
PushNothing(t, kind) ==
    frames' = [frames EXCEPT ![t] = Append(@, [kind |-> kind, at |-> "return"])]

Push(t, kind) ==
    frames' = [frames EXCEPT ![t] = Append(@, [kind |-> kind, at |-> "check"])]

\* main returns and exit() runs mpprof_fini; other threads keep running.
MainReturns ==
    /\ At(Main, "user")
    /\ Goto(Main, "fini")
    /\ Push(Main, "fini")
    /\ UNCHANGED <<procVars, fileVars, mu, sampleVars, heapVars, job, inHook, sent>>

\* A signal arrives on a thread.  Without a recording no handler is installed.
Deliver(t, s) ==
    /\ proc = "running"
    /\ s \notin sent
    /\ sent' = sent \cup {s}
    /\ \/ recording /\ Push(t, "signal") /\ UNCHANGED proc
       \/ ~recording /\ proc' = "killed" /\ UNCHANGED frames
    /\ UNCHANGED <<recording, fileVars, mu, sampleVars, heapVars, threadVars>>

FrameAt(t, l) ==
    /\ proc = "running"
    /\ frames[t] # <<>>
    /\ frames[t][Len(frames[t])].at = l

FrameGoto(t, l) == frames' = [frames EXCEPT ![t][Len(frames[t])].at = l]

CheckFinished(t) ==
    /\ FrameAt(t, "check")
    /\ FrameGoto(t, IF finished THEN "return" ELSE "set")
    /\ UNCHANGED <<procVars, fileVars, mu, sampleVars, heapVars, threadVars, sent>>

SetFinished(t) ==
    /\ FrameAt(t, "set")
    /\ finished' = TRUE
    /\ FrameGoto(t, IF out THEN "flush" ELSE "return")
    /\ UNCHANGED <<procVars, out, fileOpen, fileOwner, stream, flushed, live, mu,
                   sampleVars, heapVars, threadVars, sent>>

\* The FILE's lock is recursive: the thread interrupted inside fwrite has it.
FileLockFree(t) == fileOwner \in {None, t}

\* A stdio call on a FILE that is already closed: nothing, or a crash.
OnClosedFile(t, next) ==
    /\ ~fileOpen
    /\ \/ FrameGoto(t, next) /\ UNCHANGED proc
       \/ proc' = "crashed" /\ UNCHANGED frames
    /\ UNCHANGED <<fileOpen, flushed>>

\* Mutant: the finalizer takes mpprof_mu, as every other user of the FILE does.
FlushUnderMutex(t) ==
    /\ FrameAt(t, "flush")
    /\ mu = None
    /\ \/ /\ fileOpen
          /\ FileLockFree(t)
          /\ flushed' = Len(stream)
          /\ FrameGoto(t, "close")
          /\ UNCHANGED <<proc, fileOpen>>
       \/ OnClosedFile(t, "close")
    /\ UNCHANGED <<recording, out, finished, fileOwner, stream, live, mu,
                   sampleVars, heapVars, threadVars, sent>>

Flush(t) ==
    /\ FrameAt(t, "flush")
    /\ \/ /\ fileOpen
          /\ FileLockFree(t)
          /\ flushed' = Len(stream)
          /\ FrameGoto(t, "close")
          /\ UNCHANGED <<proc, fileOpen>>
       \/ OnClosedFile(t, "close")
    /\ UNCHANGED <<recording, out, finished, fileOwner, stream, live, mu,
                   sampleVars, heapVars, threadVars, sent>>

Close(t) ==
    /\ FrameAt(t, "close")
    /\ \/ /\ fileOpen
          /\ FileLockFree(t)
          /\ flushed' = Len(stream)
          /\ fileOpen' = FALSE
          /\ FrameGoto(t, "null")
          /\ UNCHANGED proc
       \/ OnClosedFile(t, "null")
    /\ UNCHANGED <<recording, out, finished, fileOwner, stream, live, mu,
                   sampleVars, heapVars, threadVars, sent>>

ClearOut(t) ==
    /\ FrameAt(t, "null")
    /\ out' = FALSE
    /\ FrameGoto(t, "return")
    /\ UNCHANGED <<procVars, fileOpen, finished, fileOwner, stream, flushed, live,
                   mu, sampleVars, heapVars, threadVars, sent>>

\* Mutant: the handler returns to what it interrupted instead of _exit(0).
FrameReturnAlways(t) ==
    /\ FrameAt(t, "return")
    /\ frames' = [frames EXCEPT ![t] = SubSeq(@, 1, Len(@) - 1)]
    /\ IF frames[t][Len(frames[t])].kind = "fini" THEN Goto(t, "exit") ELSE UNCHANGED pc
    /\ UNCHANGED <<procVars, fileVars, mu, sampleVars, heapVars, job, inHook, sent>>

\* The handler ends in _exit(0), which leaves a stdio buffer unwritten; the
\* destructor returns to exit().
FrameReturn(t) ==
    /\ FrameAt(t, "return")
    /\ IF frames[t][Len(frames[t])].kind = "signal"
         THEN /\ proc' = "exited"
              /\ UNCHANGED <<frames, pc>>
         ELSE /\ frames' = [frames EXCEPT ![t] = SubSeq(@, 1, Len(@) - 1)]
              /\ Goto(t, "exit")
              /\ UNCHANGED proc
    /\ UNCHANGED <<recording, fileVars, mu, sampleVars, heapVars, job, inHook, sent>>

\* The end of exit(): libc writes out every FILE still open, then the process
\* is gone with all its threads.
ExitProcess ==
    /\ At(Main, "exit")
    /\ proc' = "exited"
    /\ flushed' = IF fileOpen THEN Len(stream) ELSE flushed
    /\ UNCHANGED <<recording, out, fileOpen, finished, fileOwner, stream, live, mu,
                   sampleVars, heapVars, threadVars, signalVars>>

\* SIGKILL, or a signal without a handler: the buffer is lost.
Kill ==
    /\ proc \in {"loading", "running"}
    /\ proc' = "killed"
    /\ UNCHANGED <<recording, fileVars, mu, sampleVars, heapVars, threadVars, signalVars>>

Gone == proc \in {"exited", "killed", "crashed"} /\ UNCHANGED vars

-----------------------------------------------------------------------------
Program(t) == Malloc(t) \/ FreeCall(t)

HookStep(t) ==
    \/ Gate(t) \/ Count(t) \/ Capture(t) \/ Lock(t) \/ Test(t)
    \/ WriteHead(t) \/ WriteTail(t) \/ Unlock(t)
    \/ HandOver(t) \/ LibcMalloc(t) \/ LibcFree(t)

FinalizeStep(t) ==
    \/ CheckFinished(t) \/ SetFinished(t) \/ Flush(t) \/ Close(t)
    \/ ClearOut(t) \/ FrameReturn(t)

Next ==
    \/ Construct
    \/ \E t \in Threads : Program(t) \/ HookStep(t) \/ FinalizeStep(t)
    \/ \E t \in Threads, s \in Signals : Deliver(t, s)
    \/ MainReturns
    \/ ExitProcess
    \/ Kill
    \/ Gone

Spec == Init /\ [][Next]_vars

\* The scheduler runs every thread that can run; what the program, its user
\* or the driver may do is not fair.
Fairness ==
    /\ WF_vars(Construct)
    /\ WF_vars(ExitProcess)
    /\ \A t \in Threads : WF_vars(HookStep(t)) /\ WF_vars(FinalizeStep(t))

FairSpec == Spec /\ Fairness
-----------------------------------------------------------------------------
(* Properties.                                                             *)

\* Every variable has a value of its type.
TypeOK ==
    /\ proc \in {"loading", "running", "exited", "killed", "crashed"}
    /\ recording \in BOOLEAN
    /\ out \in BOOLEAN
    /\ fileOpen \in BOOLEAN
    /\ finished \in BOOLEAN
    /\ mu \in Threads \cup {None}
    /\ fileOwner \in Threads \cup {None}
    /\ stream \in Seq(Halves)
    /\ flushed \in 0..Len(stream)
    /\ counter \in Nat
    /\ gens \in 0..MaxAllocs
    /\ fate \in [Gens -> Fates]
    /\ heap \in [Ptrs -> 0..MaxAllocs]
    /\ held \subseteq Ptrs
    /\ live \in [Ptrs -> 0..MaxAllocs]
    /\ pc \in [Threads -> PCs]
    /\ job \in [Threads -> Jobs]
    /\ inHook \in [Threads -> BOOLEAN]
    /\ frames \in [Threads -> Seq(Frames)]
    /\ sent \subseteq Signals

\* The stream is a sequence of whole records, each in one piece, but for the
\* last: what the parser, which cannot resynchronize, relies on, however many
\* threads append and whoever they are interrupted by.
Framing ==
    \A i \in 1..Len(stream) :
        /\ stream[i].half = IF i % 2 = 1 THEN 1 ELSE 2
        /\ i % 2 = 0 => stream[i].rec = stream[i - 1].rec

\* While the file is open, the parser's map never holds an address for an
\* allocation that no longer owns it: the 'F' record is written before the
\* address can be handed out again.
NoStaleEntry ==
    fileOpen => \A p \in Ptrs : live[p] # 0 => heap[p] = live[p]

\* While the file is open, every sampled allocation the program still holds is
\* in the parser's map: no 'F' record of an earlier owner overtakes its 'A'.
NoMissingEntry ==
    (Retained /\ fileOpen) =>
        \A p \in held, g \in Gens : heap[p] = g /\ fate[g] = "wanted" => live[p] = g

\* No early return leaves the reentrancy guard set in a thread that is back in
\* its own code: the rest of its allocations would go unrecorded.
HookRearmed ==
    \A t \in Threads : pc[t] \in {"user", "hand", "malloc", "free"} => ~inHook[t]

\* With every thread between two calls, the sampled allocations times the
\* rate (what the parser reports) are the allocations made, rounded up to a
\* multiple of the rate.
Sampled == {g \in 1..gens : fate[g] \in {"wanted", "missed"}}

ScaledEstimate ==
    (fileOpen /\ \A t \in Threads : pc[t] = "user") =>
        /\ gens <= Rate * Cardinality(Sampled)
        /\ Rate * Cardinality(Sampled) < gens + Rate

\* What has started to finalize: one for each signal and one for exit().
Finalizers == Cardinality(sent) + IF pc[Main] \in {"fini", "exit"} THEN 1 ELSE 0

\* A process that ended in one signal or one return from main has left every
\* record in the file.
OneFinalizerCompletes ==
    (proc = "exited" /\ Finalizers = 1) => flushed = Len(stream)

\* Once the FILE is closed no thread adds to it: a thread interrupted in the
\* middle of a record is never resumed.
SealedStream == [][~fileOpen => stream' = stream /\ live' = live]_vars

\* Once a finalizer has started, the process ends: the finalizer waits for no
\* lock of the hook's that the code it interrupted holds.  Not said of the
\* allocator's own lock, which fclose in a handler may meet as well and which
\* the model leaves out.
FinalizerEnds == (\E t \in Threads : frames[t] # <<>>) ~> proc # "running"

-----------------------------------------------------------------------------
(* What the comments of the code say and the code does not keep.           *)

\* "the hook's signal handler flushes the raw stream and then _exit(0)s, so
\* the file is complete by the time wait() returns".
ExitComplete == proc = "exited" => flushed = Len(stream)

\* "our FILE* is touched only from inside the mutex and from this handler, and
\* the worst case is a partial last record": no fwrite meets a closed FILE.
NoWriteAfterClose == \A t \in Threads : At(t, "write") => fileOpen
=============================================================================
