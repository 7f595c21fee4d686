--------------------------- MODULE WasmMemprofile ---------------------------
(***************************************************************************)
(* moon-pprof memprofile (cmd_memprofile.rs): a wasm module is rewritten   *)
(* so that every allocation calls a hook with its size, run, and the       *)
(* stacks the hook saw are written as a profile.                           *)
(*                                                                         *)
(* The guest is a module of instruction sequences, each with an id, on a   *)
(* stack machine.  Blocks, loops, the arms of an if and the try blocks of  *)
(* exception handling name sequences; calls and moonbit.malloc push a      *)
(* frame.  The instruction "host" is any import of WasmHost.  Control      *)
(* enters a sequence at its head and leaves it at its end: br and a throw  *)
(* caught within the module are left out.                                  *)
(***************************************************************************)
EXTENDS WasmHost

CONSTANTS I32,         \* 2^32: how many values an i32 has
          Seqs,        \* InstrSeqId -> the instructions of the sequence
          Programs,    \* sequences of _start, each with --iterations
          SampleRates  \* --sample-rate

Word == 0..(I32 - 1)

Code == UNION {Range(Seqs[s]) : s \in DOMAIN Seqs}

IsInstr(i) ==
    \/ i.op = "const" /\ i.v \in Word
    \/ i.op = "struct" /\ i.n \in Nat /\ i.size \in Nat
    \/ i.op = "fixed" /\ i.n \in Nat /\ i.elem \in Nat
    \/ i.op = "array" /\ i.below \in Nat /\ i.elem \in Nat
    \/ i.op = "malloc"
    \/ i.op \in {"block", "try", "call"} /\ i.seq \in DOMAIN Seqs
    \/ i.op = "if" /\ {i.consequent, i.alternative} \subseteq DOMAIN Seqs
    \/ i.op = "host"

\* The sequences an instruction has within it.
Inner(i) ==
    CASE i.op \in {"block", "try"} -> {i.seq}
      [] i.op = "if" -> {i.consequent, i.alternative}
      [] OTHER -> {}

\* The entry blocks of the functions.
Bodies == {c.entry : c \in Programs} \cup {i.seq : i \in {j \in Code : j.op = "call"}}

ASSUME MemprofileAssumption ==
    /\ I32 \in Nat \ {0}
    /\ \A s \in DOMAIN Seqs :
          Seqs[s] \in Seq(Range(Seqs[s])) /\ \A i \in Range(Seqs[s]) : IsInstr(i)
    /\ \A c \in Programs : c.entry \in DOMAIN Seqs /\ c.iterations \in Nat \ {0}
    /\ SampleRates \subseteq Nat \ {0}

\* Sequences are nested as the text of the module is: each is the body of a
\* function or within one instruction.
ASSUME NestingAssumption ==
    /\ \A i \in Code : Inner(i) \cap Bodies = {}
    /\ \A s, t \in DOMAIN Seqs : \A i \in Range(Seqs[s]), j \in Range(Seqs[t]) :
          Inner(i) \cap Inner(j) # {} => s = t /\ i = j

VARIABLES
    status,     \* run, ok, failed
    code, rate, \* the arguments
    round,      \* which call of _start
    frames,     \* the call stack: function, sequence and what is left of it
    stack,      \* the operand stack
    scratch,    \* the local that the rewriting adds
    counter, samples, trace,   \* HostState
    file,       \* what is at --out
    pure,       \* history: the operand stack of the original code
    made, asked \* history: sizes allocated outside of tries, and hooked ones

hookVars == <<counter, samples, trace, asked>>
runVars == <<status, code, rate, round, file>>
vars == <<runVars, frames, stack, scratch, hookVars, pure, made, hostVars>>

Wrap(n) == n % I32
Signed(n) == IF n >= I32 \div 2 THEN n - I32 ELSE n
Ref == "ref"

-----------------------------------------------------------------------------
(* instrument.                                                             *)

\* Mutant: the length is not pushed back.
DynamicHookPops(elem) ==
    <<[op |-> "set"], [op |-> "push", v |-> elem], [op |-> "get"],
      [op |-> "mul"], [op |-> "hook"]>>

\* len is on the top: save it, multiply, hook, put it back.
DynamicHook(elem) ==
    <<[op |-> "set"], [op |-> "push", v |-> elem], [op |-> "get"],
      [op |-> "mul"], [op |-> "hook"], [op |-> "get"]>>

StaticHook(size) == <<[op |-> "push", v |-> Wrap(size)], [op |-> "hook"]>>

\* The size of a struct is the sum of its fields', of array.new_fixed the
\* product; both in i32.
StaticSize(i) == IF i.op = "struct" THEN i.size ELSE i.elem * i.n

\* One instruction; moonbit.malloc is hooked at its head, not where it is called.
RewriteOne(i) ==
    CASE i.op \in {"struct", "fixed"} ->
            Append(IF Signed(Wrap(StaticSize(i))) > 0 THEN StaticHook(StaticSize(i)) ELSE <<>>, i)
      [] i.op = "array" -> Append(IF i.elem > 0 THEN DynamicHook(i.elem) ELSE <<>>, i)
      [] OTHER -> <<i>>

Rewritten(instrs) == FlattenSeq([n \in DOMAIN instrs |-> RewriteOne(instrs[n])])

\* Mutant: the else branch is forgotten.
FollowedConsequent(i) ==
    IF i.op = "block" THEN {i.seq} ELSE IF i.op = "if" THEN {i.consequent} ELSE {}

\* The sequences collect_seq_ids goes on to from an instruction: it knows
\* blocks, loops and both branches of an if, and passes over a try.
Followed(i) == IF i.op \in {"block", "if"} THEN Inner(i) ELSE {}

\* What it finds in all functions, the least set it could have found.
Collected ==
    {s \in DOMAIN Seqs : \A X \in SUBSET (DOMAIN Seqs \ Bodies) :
        (\A t \in Bodies \cup X : \A i \in Range(Seqs[t]) : Followed(i) \subseteq Bodies \cup X)
        => s \in Bodies \cup X}

\* A sequence that is not found is left as it is.
Instrument == [s \in DOMAIN Seqs |-> IF s \in Collected THEN Rewritten(Seqs[s]) ELSE Seqs[s]]

-----------------------------------------------------------------------------
(* The run.                                                                *)

\* A sequence begun; tried: within a try of the same function.
Begin(fn, s, block, tried) ==
    [fn |-> fn, seq |-> s, todo |-> Instrument[s], block |-> block, tried |-> tried]

Entry == <<Begin("start", code.entry, FALSE, FALSE)>>

Init ==
    /\ HostInit
    /\ code \in Programs /\ rate \in SampleRates
    /\ status = "run" /\ round = 1
    /\ frames = Entry /\ stack = <<>> /\ scratch = 0
    /\ counter = 0 /\ samples = [s \in {} |-> None]
    /\ trace = [objects |-> 0, bytes |-> 0, events |-> 0]
    /\ file = None
    /\ pure = <<>> /\ made = <<>> /\ asked = <<>>

Running == status = "run" /\ frames # <<>> /\ Last(frames).todo # <<>>
Instr == Head(Last(frames).todo)
Advance == [frames EXCEPT ![Len(frames)].todo = Tail(@)]
Push(s, v) == Append(s, v)
Drop(s, n) == SubSeq(s, 1, Len(s) - n)

\* Module::new has validated the rewritten module: an instruction finds its
\* operands, the last ones i32.
Finds(n, i32s) ==
    /\ Len(stack) >= n
    /\ \A k \in (Len(stack) - i32s + 1)..Len(stack) : stack[k] \in Word

Const ==
    /\ Running /\ Instr.op = "const"
    /\ stack' = Push(stack, Instr.v) /\ pure' = Push(pure, Instr.v)
    /\ frames' = Advance
    /\ UNCHANGED <<runVars, scratch, hookVars, made, hostVars>>

\* struct.new, array.new_fixed and the array.new with a length on top of what
\* it takes: operands popped, a reference pushed.
Operands == IF Instr.op = "array" THEN Instr.below + 1 ELSE Instr.n

\* The logical size, of the length the original code has on its stack.
LogicalSize == IF Instr.op = "array" THEN Instr.elem * Last(pure) ELSE StaticSize(Instr)

Allocate ==
    /\ Running /\ Instr.op \in {"struct", "fixed", "array"}
    /\ Finds(Operands, IF Instr.op = "array" THEN 1 ELSE 0)
    /\ stack' = Push(Drop(stack, Operands), Ref)
    /\ pure' = Push(Drop(pure, Operands), Ref)
    /\ made' = IF Last(frames).tried THEN made ELSE Append(made, LogicalSize)
    /\ frames' = Advance
    /\ UNCHANGED <<runVars, scratch, hookVars, hostVars>>

Enter ==
    /\ Running
    /\ \/ /\ Instr.op = "call"
          /\ frames' = Append(Advance, Begin(Instr.fn, Instr.seq, FALSE, FALSE))
       \/ \E s \in Inner(Instr) :
             frames' = Append(Advance, Begin(Last(frames).fn, s, TRUE,
                                             Last(frames).tried \/ Instr.op = "try"))
    /\ UNCHANGED <<runVars, stack, scratch, hookVars, pure, made, hostVars>>

Leave ==
    /\ status = "run" /\ Len(frames) > 1 /\ Last(frames).todo = <<>>
    /\ frames' = Front(frames)
    /\ UNCHANGED <<runVars, stack, scratch, hookVars, pure, made, hostVars>>

\* What the rewriting added, but for the hook.
Added ==
    /\ Running /\ Instr.op \in {"push", "set", "get", "mul"}
    /\ CASE Instr.op = "set" -> Finds(1, 1)
         [] Instr.op = "mul" -> Finds(2, 2)
         [] OTHER -> TRUE
    /\ CASE Instr.op = "push" -> stack' = Push(stack, Instr.v) /\ UNCHANGED scratch
         [] Instr.op = "set" -> stack' = Front(stack) /\ scratch' = Last(stack)
         [] Instr.op = "get" -> stack' = Push(stack, scratch) /\ UNCHANGED scratch
         [] OTHER -> /\ stack' = Push(Drop(stack, 2),
                                      Wrap(stack[Len(stack)] * stack[Len(stack) - 1]))
                     /\ UNCHANGED scratch
    /\ frames' = Advance
    /\ UNCHANGED <<runVars, hookVars, pure, made, hostVars>>

-----------------------------------------------------------------------------
(* The hook.                                                               *)

\* WasmBacktrace, leaf first; a block is not a frame.
Backtrace(fs) ==
    Reverse(FlattenSeq([i \in DOMAIN fs |-> IF fs[i].block THEN <<>> ELSE <<fs[i].fn>>]))

Scale == IF rate <= 1 THEN 1 ELSE IF counter % rate = 0 THEN rate ELSE 0

Credit(map, key, scale, size) ==
    [s \in DOMAIN map \cup {key} |->
        LET old == IF s \in DOMAIN map THEN map[s] ELSE [count |-> 0, bytes |-> 0] IN
        IF s = key THEN [count |-> old.count + scale, bytes |-> old.bytes + size * scale]
        ELSE old]

\* Mutant: the trace has the sampled size as it is.
RecordUnscaled(scale, size) ==
    [trace EXCEPT !.objects = @ + scale, !.bytes = @ + size, !.events = @ + 1]

\* AllocationTraceState::record.
Record(scale, size) ==
    [trace EXCEPT !.objects = @ + scale, !.bytes = @ + size * scale, !.events = @ + 1]

\* alloc_hook(size) with the call stack fs.
AllocHook(size, fs) ==
    IF Signed(size) <= 0 THEN UNCHANGED hookVars
    ELSE /\ counter' = counter + 1
         /\ asked' = Append(asked, Signed(size))
         /\ IF Scale = 0 THEN UNCHANGED <<samples, trace>>
            ELSE /\ samples' = Credit(samples, Backtrace(fs), Scale, Signed(size))
                 /\ trace' = Record(Scale, Signed(size))

CallHook ==
    /\ Running /\ Instr.op = "hook" /\ Finds(1, 1)
    /\ AllocHook(Last(stack), frames)
    /\ stack' = Front(stack)
    /\ frames' = Advance
    /\ UNCHANGED <<runVars, scratch, pure, made, hostVars>>

\* moonbit.malloc(n), whose first instructions are the hook's.
Malloc ==
    /\ Running /\ Instr.op = "malloc" /\ Finds(1, 1)
    /\ AllocHook(Last(stack), Append(frames, [fn |-> "moonbit.malloc", block |-> FALSE]))
    /\ made' = Append(made, Last(pure))
    /\ stack' = Push(Front(stack), Ref) /\ pure' = Push(Front(pure), Ref)
    /\ frames' = Advance
    /\ UNCHANGED <<runVars, scratch, hostVars>>

Host ==
    /\ Running /\ Instr.op = "host"
    /\ HostCall(Instr.group)
    /\ frames' = Advance
    /\ UNCHANGED <<runVars, stack, scratch, hookVars, pure, made>>

-----------------------------------------------------------------------------
(* run.                                                                    *)

\* Mutant: a trap ends the loop, not the command.
TrapKept ==
    /\ status = "run" /\ Running /\ Instr.op = "host"
    /\ HostTrap
    /\ status' = "failed" /\ file' = samples
    /\ UNCHANGED <<code, rate, round, frames, stack, scratch, hookVars, pure, made>>

\* start.call(..)? : a trap, sys.exit(0) included, ends the command, and what
\* was recorded is lost.
Trap ==
    /\ status = "run" /\ Running /\ Instr.op = "host"
    /\ HostTrap
    /\ status' = "failed"
    /\ UNCHANGED <<code, rate, round, file, frames, stack, scratch, hookVars, pure, made>>

Returned == status = "run" /\ Len(frames) = 1 /\ Last(frames).todo = <<>>

\* Mutant: the counter starts anew with every call of _start.
AgainFromZero ==
    /\ Returned /\ round < code.iterations
    /\ round' = round + 1
    /\ frames' = Entry /\ stack' = <<>> /\ pure' = <<>>
    /\ counter' = 0
    /\ UNCHANGED <<status, code, rate, file, scratch, samples, trace, asked, made, hostVars>>

Again ==
    /\ Returned /\ round < code.iterations
    /\ round' = round + 1
    /\ frames' = Entry /\ stack' = <<>> /\ pure' = <<>>
    /\ UNCHANGED <<status, code, rate, file, scratch, hookVars, made, hostVars>>

\* encode_pprof: a sample for each non-empty stack.  No stack is empty here:
\* the hook is called by the guest.
Encode(map) == [s \in {t \in DOMAIN map : t # <<>>} |-> map[s]]

\* Either write may fail, that of --trace-out when the profile is there
\* already.
WriteProfile ==
    /\ Returned /\ round = code.iterations
    /\ \/ status' = "ok" /\ file' = Encode(samples)
       \/ status' = "failed" /\ file' \in {None, Encode(samples)}
    /\ UNCHANGED <<code, rate, round, frames, stack, scratch, hookVars, pure, made, hostVars>>

Next ==
    \/ Const \/ Allocate \/ Enter \/ Leave \/ Added
    \/ CallHook \/ Malloc \/ Host \/ Trap \/ Again \/ WriteProfile
    \/ status # "run" /\ UNCHANGED vars

Spec == Init /\ [][Next]_vars

-----------------------------------------------------------------------------
(* Properties.                                                             *)

\* Before every instruction of the original code, the operands are the ones
\* the original code would have: what is added around allocations leaves the
\* guest's computation alone.
StackIntact ==
    Running /\ Instr.op \notin {"push", "set", "get", "mul", "hook"}
    => stack = pure

Logical(sizes) ==
    FlattenSeq([i \in DOMAIN sizes |-> LET n == Signed(Wrap(sizes[i])) IN
                                      IF n > 0 THEN <<n>> ELSE <<>>])

\* The hook has seen every allocation that was made outside of a try, nested at
\* any depth in blocks, branches and calls, also calls from within a try, with
\* its logical size as an i32; only those of no or negative size are missing.
\* It has seen no other: what is allocated in a try is not in the profile at
\* all, but for moonbit.malloc.
HookSeesAllOutsideTry ==
    Returned => asked = Logical(made)

\* The totals of the allocation trace are those of the profile, although the
\* two are kept apart, and with --sample-rate r the number of objects is
\* estimated to within r, over all calls of _start together.
\* A profile is there only when every call has returned, with all samples, but
\* then also when the command fails after it.
AccountsAgree ==
    /\ trace.objects = SumFunction([s \in DOMAIN samples |-> samples[s].count])
    /\ trace.bytes = SumFunction([s \in DOMAIN samples |-> samples[s].bytes])
    /\ Len(asked) <= trace.objects /\ trace.objects < Len(asked) + rate
    /\ file # None => /\ file = samples /\ round = code.iterations
                      /\ Len(frames) = 1 /\ Last(frames).todo = <<>>
    /\ status = "ok" => file = samples
=============================================================================
