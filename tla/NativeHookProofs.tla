-------------------------- MODULE NativeHookProofs --------------------------
(***************************************************************************)
(* Theorems about NativeHook for any threads, addresses, signals, rate and *)
(* number of allocations.                                                  *)
(***************************************************************************)
EXTENDS NativeHookInv, SequenceTheorems, FiniteSetTheorems, TLAPS

(***************************************************************************)
(* Typing.                                                                 *)
(***************************************************************************)

\* The initial state is well typed.
LEMMA TypeInit == Init => TypeOK
<1> SUFFICES ASSUME Init PROVE TypeOK
  OBVIOUS
<1> USE DEF Init
<1>1. stream \in Seq(Halves) /\ flushed \in 0..Len(stream)
  OBVIOUS
<1>2. frames \in [Threads -> Seq(Frames)]
  OBVIOUS
<1>3. job \in [Threads -> Jobs] /\ pc \in [Threads -> PCs]
  BY HookAssumption DEF HookAssumption, NoJob, Jobs, Ops, PCs
<1>4. /\ heap \in [Ptrs -> 0..MaxAllocs] /\ live \in [Ptrs -> 0..MaxAllocs]
      /\ gens \in 0..MaxAllocs /\ counter \in Nat
  BY HookAssumption DEF HookAssumption
<1>5. fate \in [Gens -> Fates] /\ inHook \in [Threads -> BOOLEAN]
  BY DEF Fates
<1>6. QED
  BY <1>1, <1>2, <1>3, <1>4, <1>5 DEF TypeOK

\* Moving the top finalizer of a thread keeps the stacks of finalizers typed.
LEMMA FrameGotoType ==
    ASSUME TypeOK, NEW t \in Threads, NEW l \in FramePCs,
           frames[t] # <<>>, FrameGoto(t, l)
    PROVE  frames' \in [Threads -> Seq(Frames)]
<1> DEFINE n == Len(frames[t])
           f == [frames[t][n] EXCEPT !.at = l]
<1>1. frames[t] \in Seq(Frames) /\ n \in Nat \ {0} /\ frames[t][n] \in Frames
  BY DEF TypeOK
<1>2. f \in Frames
  BY <1>1 DEF Frames
<1>3. [frames[t] EXCEPT ![n] = f] \in Seq(Frames)
  BY <1>1, <1>2, ExceptSeq
<1>4. frames' = [frames EXCEPT ![t] = [frames[t] EXCEPT ![n] = f]]
  BY DEF FrameGoto
<1>5. QED
  BY <1>3, <1>4 DEF TypeOK

\* Starting a finalizer keeps them typed.
LEMMA PushType ==
    ASSUME TypeOK, NEW t \in Threads, NEW k \in FrameKinds, Push(t, k)
    PROVE  frames' \in [Threads -> Seq(Frames)]
<1>1. [kind |-> k, at |-> "check"] \in Frames
  BY DEF Frames, FramePCs
<1>2. Append(frames[t], [kind |-> k, at |-> "check"]) \in Seq(Frames)
  BY <1>1 DEF TypeOK
<1>3. QED
  BY <1>2 DEF TypeOK, Push

\* A half of a record appended to the stream keeps the stream typed, and the
\* file a prefix of it.
LEMMA AppendType ==
    ASSUME TypeOK, NEW t \in Threads, NEW h \in {1, 2},
           stream' = Append(stream, [rec |-> job[t], half |-> h]),
           Drain(Len(stream) + 1)
    PROVE  stream' \in Seq(Halves) /\ flushed' \in 0..Len(stream')
<1>1. [rec |-> job[t], half |-> h] \in Halves
  BY DEF TypeOK, Halves
<1>2. stream' \in Seq(Halves) /\ Len(stream') = Len(stream) + 1
  BY <1>1 DEF TypeOK
<1>3. QED
  BY <1>2 DEF Drain, TypeOK

\* Changing a function at one argument keeps it a function between its sets.
LEMMA ExceptType ==
    ASSUME NEW S, NEW T, NEW f \in [S -> T], NEW x, NEW v \in T
    PROVE  [f EXCEPT ![x] = v] \in [S -> T]
OBVIOUS

\* Every step of the program and of the hook keeps the types.
LEMMA TypeHook ==
    ASSUME TypeOK, JobShape, NEW t \in Threads, Program(t) \/ HookStep(t)
    PROVE  TypeOK'
<1> USE HookAssumption
    DEF HookAssumption, TypeOK, At, Goto, procVars, fileVars, sampleVars,
        heapVars, threadVars, signalVars
<1>1. CASE Malloc(t)
  <2>1. gens' \in 0..MaxAllocs /\ gens + 1 \in 0..MaxAllocs
    BY <1>1 DEF Malloc
  <2>2. pc' \in [Threads -> PCs]
    BY <1>1 DEF Malloc, PCs
  <2>3. job' \in [Threads -> Jobs] /\ heap' \in [Ptrs -> 0..MaxAllocs]
    <3>1. \A p \in Ptrs \cup {None} : [op |-> "A", ptr |-> p, gen |-> gens + 1] \in Jobs
      BY <2>1 DEF Jobs, Ops
    <3>2. job' \in [Threads -> Jobs]
      <4>1. PICK p \in Ptrs \cup {None} :
               job' = [job EXCEPT ![t] = [op |-> "A", ptr |-> p, gen |-> gens + 1]]
        BY <1>1 DEF Malloc
      <4>2. QED
        BY <3>1, <4>1, ExceptType
    <3>3. \A p : [heap EXCEPT ![p] = gens + 1] \in [Ptrs -> 0..MaxAllocs]
      BY <2>1, ExceptType
    <3>4. QED
      BY <1>1, <3>2, <3>3 DEF Malloc
  <2>4. QED
    BY <1>1, <2>1, <2>2, <2>3 DEF Malloc
<1>2. CASE FreeCall(t)
  BY <1>2 DEF FreeCall, Jobs, Ops, PCs
<1>3. CASE Gate(t)
  BY <1>3 DEF Gate, AfterHook, PCs
<1>4. CASE Count(t)
  <2>1. pc' \in [Threads -> PCs]
    BY <1>4 DEF Count, AfterHook, PCs
  <2>4. counter' \in Nat
    BY <1>4 DEF Count
  <2>2. fate' \in [Gens -> Fates] /\ inHook' \in [Threads -> BOOLEAN]
    BY <1>4 DEF Count, Fates
  <2>3. QED
    BY <1>4, <2>1, <2>2, <2>4 DEF Count
<1>5. CASE Capture(t)
  BY <1>5 DEF Capture, AfterHook, PCs, Fates
<1>6. CASE Lock(t)
  BY <1>6 DEF Lock, PCs
<1>7. CASE Test(t)
  BY <1>7 DEF Test, PCs
<1>8. CASE WriteHead(t)
  <2>1. stream' \in Seq(Halves) /\ flushed' \in 0..Len(stream')
    BY <1>8, AppendType DEF WriteHead
  <2>2. QED
    BY <1>8, <2>1 DEF WriteHead, PCs
<1>9. CASE WriteTail(t)
  <2>1. stream' \in Seq(Halves) /\ flushed' \in 0..Len(stream')
    BY <1>9, AppendType DEF WriteTail
  <2>2. live' \in [Ptrs -> 0..MaxAllocs]
    <3>1. job[t].gen \in 0..MaxAllocs /\ job[t] \in Jobs
      BY DEF Jobs
    <3>2. Apply(live, job[t]) \in [Ptrs -> 0..MaxAllocs]
      <4>1. /\ [live EXCEPT ![job[t].ptr] = job[t].gen] \in [Ptrs -> 0..MaxAllocs]
            /\ [live EXCEPT ![job[t].ptr] = 0] \in [Ptrs -> 0..MaxAllocs]
        <5>1. 0 \in 0..MaxAllocs
          OBVIOUS
        <5>2. QED
          BY <3>1, <5>1, ExceptType
      <4>2. QED
        BY <4>1 DEF Apply
    <3>3. QED
      BY <1>9, <3>2 DEF WriteTail
  <2>3. QED
    BY <1>9, <2>1, <2>2 DEF WriteTail, PCs
<1>10. CASE Unlock(t)
  BY <1>10 DEF Unlock, AfterHook, PCs
<1>11. CASE HandOver(t)
  <2>1. job[t].ptr \in Ptrs
    BY <1>11 DEF HandOver, JobShape
  <2>2. pc' \in [Threads -> PCs] /\ job' \in [Threads -> Jobs]
    <3>1. NoJob \in Jobs
      BY DEF Jobs, Ops, NoJob
    <3>2. QED
      BY <1>11, <3>1 DEF HandOver, PCs
  <2>3. held' \subseteq Ptrs
    BY <1>11, <2>1 DEF HandOver
  <2>4. QED
    BY <1>11, <2>2, <2>3 DEF HandOver
<1>12. CASE LibcMalloc(t)
  BY <1>12 DEF LibcMalloc, PCs, Jobs, Ops, NoJob
<1>13. CASE LibcFree(t)
  <2>1. heap' \in [Ptrs -> 0..MaxAllocs]
    <3>1. 0 \in 0..MaxAllocs
      OBVIOUS
    <3>2. QED
      BY <1>13, <3>1, ExceptType DEF LibcFree
  <2>2. job' \in [Threads -> Jobs] /\ pc' \in [Threads -> PCs]
    BY <1>13 DEF LibcFree, PCs, Jobs, Ops, NoJob
  <2>3. QED
    BY <1>13, <2>1, <2>2 DEF LibcFree
<1>14. QED
  BY <1>1, <1>2, <1>3, <1>4, <1>5, <1>6, <1>7, <1>8, <1>9, <1>10, <1>11,
     <1>12, <1>13 DEF Program, HookStep

\* Every step of a finalizer keeps the types.
LEMMA TypeFinalize ==
    ASSUME TypeOK, NEW t \in Threads, FinalizeStep(t)
    PROVE  TypeOK'
<1> USE DEF procVars, fileVars, sampleVars, heapVars, threadVars, signalVars
<1>1. CASE CheckFinished(t)
  <2>1. frames' \in [Threads -> Seq(Frames)]
    BY <1>1, FrameGotoType DEF CheckFinished, FrameAt, FramePCs
  <2>2. QED
    BY <1>1, <2>1 DEF CheckFinished, TypeOK
<1>2. CASE SetFinished(t)
  <2>1. frames' \in [Threads -> Seq(Frames)]
    BY <1>2, FrameGotoType DEF SetFinished, FrameAt, FramePCs
  <2>2. QED
    BY <1>2, <2>1 DEF SetFinished, TypeOK
<1>3. CASE Flush(t)
  <2>1. frames' \in [Threads -> Seq(Frames)]
    BY <1>3, FrameGotoType DEF Flush, OnClosedFile, FrameAt, FramePCs, TypeOK
  <2>2. proc' \in {"loading", "running", "exited", "killed", "crashed"}
    BY <1>3 DEF Flush, OnClosedFile, TypeOK
  <2>3. QED
    BY <1>3, <2>1, <2>2 DEF Flush, OnClosedFile, TypeOK
<1>4. CASE Close(t)
  <2>1. frames' \in [Threads -> Seq(Frames)]
    BY <1>4, FrameGotoType DEF Close, OnClosedFile, FrameAt, FramePCs, TypeOK
  <2>2. proc' \in {"loading", "running", "exited", "killed", "crashed"}
    BY <1>4 DEF Close, OnClosedFile, TypeOK
  <2>3. fileOpen' \in BOOLEAN /\ flushed' \in 0..Len(stream')
    <3>1. stream' = stream /\ Len(stream) \in 0..Len(stream)
      BY <1>4 DEF Close, TypeOK
    <3>2. flushed' \in {flushed, Len(stream)} /\ fileOpen' \in {fileOpen, FALSE}
      BY <1>4 DEF Close, OnClosedFile
    <3>3. QED
      BY <3>1, <3>2 DEF TypeOK
  <2>4. QED
    BY <1>4, <2>1, <2>2, <2>3 DEF Close, TypeOK
<1>5. CASE ClearOut(t)
  <2>1. frames' \in [Threads -> Seq(Frames)]
    BY <1>5, FrameGotoType DEF ClearOut, FrameAt, FramePCs
  <2>2. QED
    BY <1>5, <2>1 DEF ClearOut, TypeOK
<1>6. CASE FrameReturn(t)
  <2> DEFINE n == Len(frames[t])
  <2>1. frames[t] \in Seq(Frames) /\ n \in Nat
    BY DEF TypeOK
  <2>2. SubSeq(frames[t], 1, n - 1) \in Seq(Frames)
    BY <2>1, SubSeqProperties
  <2>3. frames' \in [Threads -> Seq(Frames)]
    BY <1>6, <2>2 DEF FrameReturn, TypeOK
  <2>4. pc' \in [Threads -> PCs] /\ proc' \in {"loading", "running", "exited", "killed", "crashed"}
    BY <1>6 DEF FrameReturn, TypeOK, Goto, PCs
  <2>5. QED
    BY <1>6, <2>3, <2>4 DEF FrameReturn, TypeOK
<1>7. QED
  BY <1>1, <1>2, <1>3, <1>4, <1>5, <1>6 DEF FinalizeStep

\* Every step of the system keeps the types.
LEMMA TypeStep == TypeOK /\ JobShape /\ [Next]_vars => TypeOK'
<1> SUFFICES ASSUME TypeOK, JobShape, [Next]_vars PROVE TypeOK'
  OBVIOUS
<1> USE DEF procVars, fileVars, sampleVars, heapVars, threadVars, signalVars
<1>1. CASE Construct
  BY <1>1 DEF Construct, TypeOK
<1>2. ASSUME NEW t \in Threads, Program(t) \/ HookStep(t) PROVE TypeOK'
  BY <1>2, TypeHook
<1>3. ASSUME NEW t \in Threads, FinalizeStep(t) PROVE TypeOK'
  BY <1>3, TypeFinalize
<1>4. ASSUME NEW t \in Threads, NEW s \in Signals, Deliver(t, s) PROVE TypeOK'
  <2>1. frames' \in [Threads -> Seq(Frames)]
    BY <1>4, PushType DEF Deliver, FrameKinds, TypeOK
  <2>2. QED
    BY <1>4, <2>1 DEF Deliver, TypeOK
<1>5. CASE MainReturns
  <2>1. frames' \in [Threads -> Seq(Frames)]
    BY <1>5, PushType, HookAssumption DEF HookAssumption, MainReturns, FrameKinds
  <2>2. QED
    BY <1>5, <2>1 DEF MainReturns, Goto, PCs, TypeOK
<1>6. CASE ExitProcess
  BY <1>6 DEF ExitProcess, TypeOK
<1>7. CASE Kill
  BY <1>7 DEF Kill, TypeOK
<1>8. CASE UNCHANGED vars
  BY <1>8 DEF vars, TypeOK
<1>9. QED
  BY <1>1, <1>2, <1>3, <1>4, <1>5, <1>6, <1>7, <1>8 DEF Next, Gone

(***************************************************************************)
(* The parts of the inductive invariant, one step lemma each.              *)
(***************************************************************************)

\* A finalizer changes the FILE, the flags and the stacks, never what a hook
\* call or the program owns; only the destructor's return moves a thread.
LEMMA FinalizeFrame ==
    ASSUME TypeOK, Finalizing, NEW t \in Threads, FinalizeStep(t)
    PROVE  /\ UNCHANGED <<recording, mu, sampleVars, heapVars, job, inHook, sent,
                          stream, live, fileOwner>>
           /\ fileOpen' => fileOpen
           /\ \/ pc' = pc
              \/ pc[t] = "fini" /\ pc' = [pc EXCEPT ![t] = "exit"]
<1> USE DEF procVars, fileVars, sampleVars, heapVars, threadVars, signalVars
<1>1. CASE CheckFinished(t) \/ SetFinished(t) \/ ClearOut(t)
  BY <1>1 DEF CheckFinished, SetFinished, ClearOut
<1>2. CASE Flush(t) \/ Close(t)
  BY <1>2 DEF Flush, Close, OnClosedFile
<1>3. CASE FrameReturn(t)
  <2>1. frames[t] # <<>> /\ frames[t] \in Seq(Frames)
    BY <1>3 DEF FrameReturn, FrameAt, TypeOK
  <2>2. Len(frames[t]) \in 1..Len(frames[t]) /\ frames[t][Len(frames[t])] \in Frames
    BY <2>1
  <2>3. frames[t][Len(frames[t])].kind # "signal" => pc[t] = "fini"
    BY <2>2 DEF Finalizing, Frames, FrameKinds
  <2>4. QED
    BY <1>3, <2>3 DEF FrameReturn, Goto
<1>4. QED
  BY <1>1, <1>2, <1>3 DEF FinalizeStep

\* The steps that concern the process as a whole.
Environment ==
    \/ Construct \/ ExitProcess \/ Kill \/ UNCHANGED vars
    \/ \E t \in Threads, s \in Signals : Deliver(t, s)

LEMMA EnvironmentFrame ==
    ASSUME Environment
    PROVE  UNCHANGED <<out, recording, mu, sampleVars, heapVars, job, inHook, pc,
                       stream, live, fileOwner>> \/ Construct
BY DEF Environment, ExitProcess, Kill, Deliver, vars, procVars, fileVars,
       sampleVars, heapVars, threadVars, signalVars

LEMMA ConstructFrame ==
    ASSUME Construct
    PROVE  UNCHANGED <<finished, fileOwner, stream, flushed, live, mu, counter, gens,
                       fate, heap, held, pc, job, inHook, frames, sent>>
BY DEF Construct, sampleVars, heapVars, threadVars, signalVars

\* What can happen in a step, as the lemmas below split it.
LEMMA StepCases ==
    ASSUME [Next]_vars
    PROVE  \/ Environment
           \/ MainReturns
           \/ \E t \in Threads : FinalizeStep(t)
           \/ \E t \in Threads : Program(t) \/ HookStep(t)
BY DEF Next, Environment, Gone

\* Where a call goes when the hook is done with it.
LEMMA AfterHookValue ==
    ASSUME JobShape, NEW t \in Threads, job[t] # NoJob
    PROVE  \/ job[t].op = "F" /\ AfterHook(t) = "free"
           \/ job[t].op = "A" /\ Retained /\ AfterHook(t) = "hand"
           \/ job[t].op = "A" /\ ~Retained /\ AfterHook(t) = "malloc"
BY DEF JobShape, AfterHook

\* JobShape is preserved.
LEMMA JobShapeStep ==
    ASSUME TypeOK, JobShape, Ownership, Finalizing, [Next]_vars
    PROVE  JobShape'
<1> USE DEF procVars, fileVars, sampleVars, heapVars, threadVars, signalVars
<1>1. CASE Environment
  BY <1>1, EnvironmentFrame, ConstructFrame DEF JobShape
<1>2. CASE MainReturns
  BY <1>2, HookAssumption DEF HookAssumption, MainReturns, At, Goto, JobShape, TypeOK
<1>3. ASSUME NEW t \in Threads, FinalizeStep(t) PROVE JobShape'
  BY <1>3, FinalizeFrame DEF JobShape, TypeOK
<1>4. ASSUME NEW t \in Threads, Program(t) \/ HookStep(t) PROVE JobShape'
  <2> USE DEF JobShape, At, Goto, TypeOK
  <2>1. CASE Malloc(t)
    BY <2>1, HookAssumption DEF HookAssumption, Malloc, NoJob
  <2>2. CASE FreeCall(t)
    <3>1. PICK p \in held :
             job' = [job EXCEPT ![t] = [op |-> "F", ptr |-> p, gen |-> heap[p]]]
      BY <2>2 DEF FreeCall
    <3>2. heap[p] \in 1..gens
      BY HookAssumption DEF HookAssumption, Ownership
    <3>3. pc' = [pc EXCEPT ![t] = IF Retained THEN "gate" ELSE "free"] /\ gens' = gens
      BY <2>2 DEF FreeCall
    <3>4. QED
      BY <3>1, <3>2, <3>3 DEF NoJob
  <2>3. CASE Gate(t)
    BY <2>3 DEF Gate, AfterHook
  <2>4. CASE Count(t)
    <3>1. job[t].op = "A" /\ job[t] # NoJob /\ job' = job /\ gens' = gens
      BY <2>4 DEF Count
    <3>2. \E l \in {"capture", AfterHook(t)} : pc' = [pc EXCEPT ![t] = l]
      BY <2>4 DEF Count
    <3>3. QED
      BY <3>1, <3>2, AfterHookValue
  <2>5. CASE Capture(t)
    <3>1. job[t].op = "A" /\ job[t] # NoJob /\ job' = job /\ gens' = gens
      BY <2>5 DEF Capture
    <3>2. \E l \in {"lock", AfterHook(t)} : pc' = [pc EXCEPT ![t] = l]
      BY <2>5 DEF Capture
    <3>3. QED
      BY <3>1, <3>2, AfterHookValue
  <2>6. CASE Lock(t) \/ Test(t) \/ WriteHead(t) \/ WriteTail(t)
    BY <2>6 DEF Lock, Test, WriteHead, WriteTail
  <2>7. CASE Unlock(t)
    BY <2>7 DEF Unlock, AfterHook
  <2>8. CASE HandOver(t) \/ LibcMalloc(t) \/ LibcFree(t)
    BY <2>8 DEF HandOver, LibcMalloc, LibcFree, NoJob
  <2>9. QED
    BY <1>4, <2>1, <2>2, <2>3, <2>4, <2>5, <2>6, <2>7, <2>8 DEF Program, HookStep
<1>5. QED
  BY <1>1, <1>2, <1>3, <1>4, StepCases

\* A free address is in nobody's hands.
LEMMA FreeAddress ==
    ASSUME TypeOK, JobShape, Ownership, NEW p \in Ptrs, heap[p] = 0
    PROVE  p \notin held /\ \A u \in Threads : job[u].ptr # p
<1>1. p \notin held
  BY DEF Ownership
<1>2. ASSUME NEW u \in Threads, job[u].ptr = p PROVE FALSE
  <2>1. job[u] # NoJob
    BY <1>2, HookAssumption DEF HookAssumption, NoJob
  <2>2. job[u].gen \in 1..gens /\ heap[p] = job[u].gen
    BY <1>2, <2>1 DEF JobShape, Ownership
  <2>3. QED
    BY <2>2
<1>3. QED
  BY <1>1, <1>2

\* Ownership is preserved.
LEMMA OwnershipStep ==
    ASSUME TypeOK, JobShape, Ownership, Finalizing, [Next]_vars
    PROVE  Ownership'
<1> USE DEF procVars, fileVars, sampleVars, heapVars, threadVars, signalVars
<1>1. CASE Environment
  BY <1>1, EnvironmentFrame, ConstructFrame DEF Ownership, sampleVars, heapVars
<1>2. CASE MainReturns
  BY <1>2 DEF MainReturns, Ownership
<1>3. ASSUME NEW t \in Threads, FinalizeStep(t) PROVE Ownership'
  BY <1>3, FinalizeFrame DEF Ownership, sampleVars, heapVars
<1>4. ASSUME NEW t \in Threads, Program(t) \/ HookStep(t) PROVE Ownership'
  <2> USE DEF At
  <2>1. CASE Malloc(t)
    <3>1. CASE Retained
      <4>1. PICK p \in Ptrs :
               /\ heap[p] = 0 /\ heap' = [heap EXCEPT ![p] = gens + 1]
               /\ job' = [job EXCEPT ![t] = [op |-> "A", ptr |-> p, gen |-> gens + 1]]
        BY <2>1, <3>1 DEF Malloc
      <4>2. held' = held /\ live' = live /\ gens' = gens + 1
        BY <2>1 DEF Malloc
      <4>3. p \notin held /\ \A u \in Threads : job[u].ptr # p
        BY <4>1, FreeAddress
      <4>4. QED
        BY <4>1, <4>2, <4>3 DEF Ownership, TypeOK
    <3>2. CASE ~Retained
      <4>1. /\ heap' = heap /\ held' = held /\ live' = live /\ gens' = gens + 1
            /\ job' = [job EXCEPT ![t] = [op |-> "A", ptr |-> None, gen |-> gens + 1]]
        BY <2>1, <3>2 DEF Malloc
      <4>2. QED
        BY <4>1, HookAssumption DEF HookAssumption, Ownership, TypeOK
    <3>3. QED
      BY <3>1, <3>2
  <2>2. CASE FreeCall(t)
    <3>1. PICK p \in held :
             /\ held' = held \ {p}
             /\ job' = [job EXCEPT ![t] = [op |-> "F", ptr |-> p, gen |-> heap[p]]]
      BY <2>2 DEF FreeCall
    <3>2. heap' = heap /\ live' = live /\ gens' = gens
      BY <2>2 DEF FreeCall
    <3>3. \A u \in Threads : job[u].ptr # p
      BY DEF Ownership, TypeOK
    <3>4. QED
      BY <3>1, <3>2, <3>3 DEF Ownership, TypeOK
  <2>3. CASE Gate(t) \/ Count(t) \/ Capture(t) \/ Lock(t) \/ Test(t) \/ WriteHead(t) \/ Unlock(t)
    BY <2>3 DEF Gate, Count, Capture, Lock, Test, WriteHead, Unlock, Ownership
  <2>4. CASE WriteTail(t)
    <3>1. heap' = heap /\ held' = held /\ job' = job /\ gens' = gens
      BY <2>4 DEF WriteTail
    <3>2. live' = Apply(live, job[t]) /\ job[t].gen <= gens /\ gens \in Nat
      <4>1. job[t] # NoJob /\ live' = Apply(live, job[t])
        BY <2>4 DEF WriteTail, JobShape
      <4>2. job[t].gen \in 1..gens /\ gens \in Nat
        BY <4>1, HookAssumption DEF HookAssumption, JobShape, TypeOK
      <4>3. QED
        BY <4>1, <4>2
    <3>3. \A p \in Ptrs : live'[p] <= gens
      BY <3>2 DEF Apply, TypeOK, Ownership
    <3>4. QED
      BY <3>1, <3>3 DEF Ownership
  <2>5. CASE HandOver(t)
    <3>1. /\ held' = held \cup {job[t].ptr} /\ job' = [job EXCEPT ![t] = NoJob]
          /\ heap' = heap /\ live' = live /\ gens' = gens
      BY <2>5 DEF HandOver
    <3>2. job[t].ptr \in Ptrs /\ heap[job[t].ptr] # 0
      BY <2>5 DEF HandOver, JobShape, Ownership, NoJob
    <3>3. QED
      BY <3>1, <3>2, HookAssumption DEF HookAssumption, Ownership, NoJob, TypeOK
  <2>6. CASE LibcMalloc(t)
    <3>1. PICK p \in Ptrs : heap[p] = 0 /\ heap' = [heap EXCEPT ![p] = job[t].gen] /\ held' = held \cup {p}
      BY <2>6 DEF LibcMalloc
    <3>2. job' = [job EXCEPT ![t] = NoJob] /\ live' = live /\ gens' = gens
      BY <2>6 DEF LibcMalloc
    <3>3. job[t].gen \in 1..gens /\ \A u \in Threads : job[u].ptr # p
      <4>1. job[t] # NoJob
        BY <2>6 DEF LibcMalloc, JobShape
      <4>2. QED
        BY <3>1, <4>1, FreeAddress DEF JobShape
    <3>4. QED
      BY <3>1, <3>2, <3>3, HookAssumption DEF HookAssumption, Ownership, NoJob, TypeOK
  <2>7. CASE LibcFree(t)
    <3>1. /\ heap' = [heap EXCEPT ![job[t].ptr] = 0] /\ job' = [job EXCEPT ![t] = NoJob]
          /\ held' = held /\ live' = live /\ gens' = gens
      BY <2>7 DEF LibcFree
    <3>2. job[t].ptr \in Ptrs /\ job[t].ptr \notin held
      BY <2>7 DEF LibcFree, JobShape, Ownership
    <3>3. QED
      BY <3>1, <3>2, HookAssumption DEF HookAssumption, Ownership, NoJob, TypeOK
  <2>8. QED
    BY <1>4, <2>1, <2>2, <2>3, <2>4, <2>5, <2>6, <2>7 DEF Program, HookStep
<1>5. QED
  BY <1>1, <1>2, <1>3, <1>4, StepCases

\* Locks is preserved: nobody but its holder gives a lock up.
LEMMA LocksStep ==
    ASSUME TypeOK, JobShape, Locks, Finalizing, [Next]_vars
    PROVE  Locks'
<1> USE DEF procVars, fileVars, sampleVars, heapVars, threadVars, signalVars
<1>1. CASE Environment
  BY <1>1, EnvironmentFrame, ConstructFrame DEF Locks
<1>2. CASE MainReturns
  BY <1>2, HookAssumption DEF HookAssumption, MainReturns, At, Goto, Locks, InCritical, TypeOK
<1>3. ASSUME NEW t \in Threads, FinalizeStep(t) PROVE Locks'
  BY <1>3, FinalizeFrame DEF Locks, InCritical, TypeOK
<1>4. ASSUME NEW t \in Threads, Program(t) \/ HookStep(t) PROVE Locks'
  <2> USE HookAssumption DEF HookAssumption, Locks, InCritical, At, Goto, TypeOK
  <2>1. CASE Malloc(t) \/ FreeCall(t)
    BY <2>1 DEF Malloc, FreeCall
  <2>2. CASE Gate(t)
    BY <2>2 DEF Gate, AfterHook
  <2>3. CASE Count(t)
    BY <2>3 DEF Count, AfterHook
  <2>4. CASE Capture(t)
    BY <2>4 DEF Capture, AfterHook
  <2>5. CASE Lock(t)
    BY <2>5 DEF Lock
  <2>6. CASE Test(t)
    BY <2>6 DEF Test
  <2>7. CASE WriteHead(t)
    BY <2>7 DEF WriteHead
  <2>8. CASE WriteTail(t)
    BY <2>8 DEF WriteTail
  <2>9. CASE Unlock(t)
    BY <2>9 DEF Unlock, AfterHook
  <2>10. CASE HandOver(t) \/ LibcMalloc(t) \/ LibcFree(t)
    BY <2>10 DEF HandOver, LibcMalloc, LibcFree
  <2>11. QED
    BY <1>4, <2>1, <2>2, <2>3, <2>4, <2>5, <2>6, <2>7, <2>8, <2>9, <2>10
    DEF Program, HookStep
<1>5. QED
  BY <1>1, <1>2, <1>3, <1>4, StepCases

\* Guard is preserved.
LEMMA GuardStep ==
    ASSUME TypeOK, JobShape, Guard, Finalizing, [Next]_vars
    PROVE  Guard'
<1> USE DEF procVars, fileVars, sampleVars, heapVars, threadVars, signalVars
<1>1. CASE Environment
  BY <1>1, EnvironmentFrame, ConstructFrame DEF Guard, InCritical
<1>2. CASE MainReturns
  BY <1>2, HookAssumption DEF HookAssumption, MainReturns, At, Goto, Guard, InCritical, TypeOK
<1>3. ASSUME NEW t \in Threads, FinalizeStep(t) PROVE Guard'
  BY <1>3, FinalizeFrame DEF Guard, InCritical, TypeOK
<1>4. ASSUME NEW t \in Threads, Program(t) \/ HookStep(t) PROVE Guard'
  <2> USE DEF Guard, InCritical, At, Goto, TypeOK
  <2>1. CASE Malloc(t) \/ FreeCall(t)
    BY <2>1 DEF Malloc, FreeCall
  <2>2. CASE Gate(t)
    BY <2>2 DEF Gate, AfterHook
  <2>3. CASE Count(t)
    BY <2>3 DEF Count, AfterHook
  <2>4. CASE Capture(t)
    BY <2>4 DEF Capture, AfterHook
  <2>5. CASE Lock(t) \/ Test(t) \/ WriteHead(t) \/ WriteTail(t)
    BY <2>5 DEF Lock, Test, WriteHead, WriteTail
  <2>6. CASE Unlock(t)
    BY <2>6 DEF Unlock, AfterHook
  <2>7. CASE HandOver(t) \/ LibcMalloc(t) \/ LibcFree(t)
    BY <2>7 DEF HandOver, LibcMalloc, LibcFree
  <2>8. QED
    BY <1>4, <2>1, <2>2, <2>3, <2>4, <2>5, <2>6, <2>7 DEF Program, HookStep
<1>5. QED
  BY <1>1, <1>2, <1>3, <1>4, StepCases

\* Moving the top finalizer of a thread changes where it is and nothing else.
LEMMA FrameGotoValue ==
    ASSUME TypeOK, NEW t \in Threads, NEW l, frames[t] # <<>>, FrameGoto(t, l)
    PROVE  \A u \in Threads :
              /\ Len(frames'[u]) = Len(frames[u])
              /\ \A i \in 1..Len(frames[u]) :
                    /\ frames'[u][i].kind = frames[u][i].kind
                    /\ frames'[u][i].at \in {frames[u][i].at, l}
<1> DEFINE n == Len(frames[t])
<1>1. /\ \A u \in Threads : frames[u] \in Seq(Frames)
      /\ frames \in [Threads -> Seq(Frames)]
      /\ n \in Nat \ {0} /\ frames[t][n] \in Frames
  BY DEF TypeOK
<1> DEFINE f == [frames[t][n] EXCEPT !.at = l]
<1>2. f.kind = frames[t][n].kind /\ f.at = l
  BY <1>1 DEF Frames
<1>3. frames' = [frames EXCEPT ![t] = [frames[t] EXCEPT ![n] = f]]
  BY DEF FrameGoto
<1>4. /\ Len([frames[t] EXCEPT ![n] = f]) = n
      /\ \A i \in 1..n : [frames[t] EXCEPT ![n] = f][i] = IF i = n THEN f ELSE frames[t][i]
  BY <1>1
<1> HIDE DEF f
<1>5. QED
  BY <1>1, <1>2, <1>3, <1>4

\* Starting a finalizer adds one at the beginning of its code.
LEMMA PushValue ==
    ASSUME TypeOK, NEW t \in Threads, NEW k \in FrameKinds, Push(t, k)
    PROVE  /\ \A u \in Threads : u # t => frames'[u] = frames[u]
           /\ Len(frames'[t]) = Len(frames[t]) + 1
           /\ \A i \in 1..Len(frames[t]) : frames'[t][i] = frames[t][i]
           /\ frames'[t][Len(frames[t]) + 1] = [kind |-> k, at |-> "check"]
           /\ frames'[t] # <<>>
<1> DEFINE f == [kind |-> k, at |-> "check"]
<1>1. frames[t] \in Seq(Frames) /\ f \in Frames /\ frames \in [Threads -> Seq(Frames)]
  BY DEF TypeOK, Frames, FramePCs
<1>2. frames' = [frames EXCEPT ![t] = Append(frames[t], f)]
  BY DEF Push
<1> HIDE DEF f
<1>3. /\ Len(Append(frames[t], f)) = Len(frames[t]) + 1
      /\ \A i \in 1..Len(frames[t]) : Append(frames[t], f)[i] = frames[t][i]
      /\ Append(frames[t], f)[Len(frames[t]) + 1] = f
      /\ Append(frames[t], f) # <<>>
  BY <1>1, AppendProperties
<1>4. QED
  BY <1>1, <1>2, <1>3 DEF f

\* Finalizing is preserved by the finalizers.
LEMMA FinalizingFinalize ==
    ASSUME TypeOK, Locks, Finalizing, NEW t \in Threads, FinalizeStep(t)
    PROVE  Finalizing'
<1> USE DEF procVars, fileVars, sampleVars, heapVars, threadVars, signalVars
<1> DEFINE n == Len(frames[t])
<1>1. frames[t] # <<>> /\ proc = "running" /\ frames[t] \in Seq(Frames) /\ n \in 1..n
      /\ frames[t][n] \in Frames
  BY DEF FinalizeStep, CheckFinished, SetFinished, Flush, Close, ClearOut, FrameReturn,
         FrameAt, TypeOK
<1>2. proc' # "loading"
  BY <1>1 DEF FinalizeStep, CheckFinished, SetFinished, Flush, Close, ClearOut,
              FrameReturn, OnClosedFile
<1>3. CASE CheckFinished(t) \/ SetFinished(t)
  <2>1. /\ fileOpen' = fileOpen /\ out' = out /\ pc' = pc
        /\ \E l \in {"set", "return", "flush"} : FrameGoto(t, l)
    BY <1>3 DEF CheckFinished, SetFinished
  <2>2. QED
    BY <1>1, <1>2, <2>1, FrameGotoValue DEF Finalizing
<1>4. CASE Flush(t)
  <2>1. fileOpen' = fileOpen /\ out' = out /\ pc' = pc
    BY <1>4 DEF Flush, OnClosedFile
  <2>2. FrameGoto(t, "close") \/ frames' = frames
    BY <1>4 DEF Flush, OnClosedFile
  <2>3. QED
    BY <1>1, <1>2, <2>1, <2>2, FrameGotoValue DEF Finalizing
<1>5. CASE Close(t)
  <2>1. fileOpen' = FALSE /\ out' = out /\ pc' = pc
    BY <1>5 DEF Close, OnClosedFile
  <2>2. FrameGoto(t, "null") \/ frames' = frames
    BY <1>5 DEF Close, OnClosedFile
  <2>3. fileOpen => fileOwner \in {None, t}
    BY <1>5 DEF Close, OnClosedFile, FileLockFree
  <2>4. \A u \in Threads : pc[u] = "tail" => frames[u] # <<>>
    BY <1>1, <2>3, HookAssumption DEF HookAssumption, Locks, Finalizing
  <2>5. \A u \in Threads : frames'[u] = <<>> => frames[u] = <<>>
    BY <1>1, <2>2, FrameGotoValue DEF TypeOK
  <2>6. QED
    BY <1>1, <1>2, <2>1, <2>2, <2>4, <2>5, FrameGotoValue DEF Finalizing
<1>6. CASE ClearOut(t)
  <2>1. fileOpen' = fileOpen /\ pc' = pc /\ FrameGoto(t, "return")
    BY <1>6 DEF ClearOut
  <2>2. ~fileOpen
    BY <1>1, <1>6 DEF ClearOut, FrameAt, Finalizing
  <2>3. QED
    BY <1>1, <1>2, <2>1, <2>2, FrameGotoValue DEF Finalizing
<1>7. CASE FrameReturn(t)
  <2>1. fileOpen' = fileOpen /\ out' = out
    BY <1>7 DEF FrameReturn
  <2>2. CASE frames[t][n].kind = "signal"
    <3>1. frames' = frames /\ pc' = pc
      BY <1>7, <2>2 DEF FrameReturn
    <3>2. QED
      BY <1>1, <1>2, <2>1, <3>1 DEF Finalizing
  <2>3. CASE frames[t][n].kind # "signal"
    <3>1. n = 1 /\ pc[t] = "fini"
      BY <1>1, <2>3 DEF Finalizing, Frames, FrameKinds
    <3>2. /\ frames' = [frames EXCEPT ![t] = SubSeq(frames[t], 1, n - 1)]
          /\ pc' = [pc EXCEPT ![t] = "exit"]
      BY <1>7, <2>3 DEF FrameReturn, Goto
    <3>3. SubSeq(frames[t], 1, n - 1) = <<>>
      BY <3>1, SubSeqEmpty
    <3>4. /\ pc'[t] = "exit" /\ Len(frames'[t]) = 0
          /\ \A u \in Threads : u # t => frames'[u] = frames[u] /\ pc'[u] = pc[u]
      BY <3>2, <3>3 DEF TypeOK
    <3>5. QED
      BY <1>1, <1>2, <2>1, <3>4 DEF Finalizing
  <2>4. QED
    BY <2>2, <2>3
<1>8. QED
  BY <1>3, <1>4, <1>5, <1>6, <1>7 DEF FinalizeStep

\* Finalizing is preserved by every step.
LEMMA FinalizingStep ==
    ASSUME TypeOK, Locks, Finalizing, [Next]_vars
    PROVE  Finalizing'
<1> USE DEF procVars, fileVars, sampleVars, heapVars, threadVars, signalVars
<1>1. CASE Construct
  BY <1>1 DEF Construct, Finalizing
<1>2. CASE ExitProcess \/ Kill \/ UNCHANGED vars
  BY <1>2 DEF ExitProcess, Kill, vars, Finalizing
<1>3. ASSUME NEW t \in Threads, NEW s \in Signals, Deliver(t, s) PROVE Finalizing'
  <2>1. fileOpen' = fileOpen /\ out' = out /\ pc' = pc /\ proc' # "loading"
    BY <1>3 DEF Deliver
  <2>2. Push(t, "signal") \/ frames' = frames
    BY <1>3 DEF Deliver
  <2>3. CASE Push(t, "signal")
    <3>1. \A u \in Threads : frames'[u] = <<>> => frames[u] = <<>>
      BY <2>3, PushValue DEF FrameKinds
    <3>2. \A u \in Threads : \A i \in 1..Len(frames'[u]) :
             \/ i \in 1..Len(frames[u]) /\ frames'[u][i] = frames[u][i]
             \/ frames'[u][i] = [kind |-> "signal", at |-> "check"]
      BY <2>3, PushValue DEF FrameKinds, TypeOK
    <3>3. QED
      BY <2>1, <3>1, <3>2 DEF Finalizing
  <2>4. CASE frames' = frames
    BY <2>1, <2>4 DEF Finalizing
  <2>5. QED
    BY <2>2, <2>3, <2>4
<1>4. CASE MainReturns
  <2>1. /\ fileOpen' = fileOpen /\ out' = out /\ proc' # "loading" /\ frames[Main] = <<>>
        /\ pc' = [pc EXCEPT ![Main] = "fini"] /\ Push(Main, "fini") /\ Main \in Threads
    BY <1>4, HookAssumption DEF HookAssumption, MainReturns, At, Runs, Goto
  <2>2. /\ \A u \in Threads : u # Main => frames'[u] = frames[u] /\ pc'[u] = pc[u]
        /\ Len(frames'[Main]) = 1 /\ pc'[Main] = "fini"
        /\ frames'[Main][1] = [kind |-> "fini", at |-> "check"]
    <3>1. "fini" \in FrameKinds /\ Len(frames[Main]) = 0
      BY <2>1 DEF FrameKinds
    <3>2. \A u \in Threads : u # Main => pc'[u] = pc[u]
      BY <2>1 DEF TypeOK
    <3>3. pc'[Main] = "fini"
      BY <2>1 DEF TypeOK
    <3>4. /\ \A u \in Threads : u # Main => frames'[u] = frames[u]
          /\ Len(frames'[Main]) = 1
          /\ frames'[Main][1] = [kind |-> "fini", at |-> "check"]
      <4>1. /\ \A u \in Threads : u # Main => frames'[u] = frames[u]
            /\ Len(frames'[Main]) = Len(frames[Main]) + 1
            /\ frames'[Main][Len(frames[Main]) + 1] = [kind |-> "fini", at |-> "check"]
        BY <2>1, <3>1, PushValue
      <4>2. Len(frames[Main]) + 1 = 1
        BY <3>1
      <4>3. QED
        BY <4>1, <4>2
    <3>5. QED
      BY <3>2, <3>3, <3>4
  <2>3. QED
    BY <2>1, <2>2 DEF Finalizing
<1>5. ASSUME NEW t \in Threads, FinalizeStep(t) PROVE Finalizing'
  BY <1>5, FinalizingFinalize
<1>6. ASSUME NEW t \in Threads, Program(t) \/ HookStep(t) PROVE Finalizing'
  <2>1. /\ frames' = frames /\ frames[t] = <<>> /\ fileOpen' = fileOpen /\ out' = out
        /\ proc' # "loading"
    BY <1>6 DEF Program, HookStep, Malloc, FreeCall, Gate, Count, Capture, Lock, Test,
                WriteHead, WriteTail, Unlock, HandOver, LibcMalloc, LibcFree, At, Runs
  <2>2. \A u \in Threads : u # t => pc'[u] = pc[u]
    BY <1>6 DEF Program, HookStep, Malloc, FreeCall, Gate, Count, Capture, Lock, Test,
                WriteHead, WriteTail, Unlock, HandOver, LibcMalloc, LibcFree, Goto, TypeOK
  <2>3. pc'[t] = "tail" => fileOpen
    BY <1>6 DEF Program, HookStep, Malloc, FreeCall, Gate, Count, Capture, Lock, Test,
                WriteHead, WriteTail, Unlock, HandOver, LibcMalloc, LibcFree, Goto, At,
                AfterHook, TypeOK
  <2>4. QED
    BY <2>1, <2>2, <2>3 DEF Finalizing
<1>7. QED
  BY <1>1, <1>2, <1>3, <1>4, <1>5, <1>6, StepCases DEF Environment

\* While the FILE is open, no address in a call about to be recorded and none
\* about to be released is in the parser's map; so Tracking is preserved.
LEMMA TrackingStep ==
    ASSUME TypeOK, JobShape, Ownership, Finalizing, Guard, Tracking, [Next]_vars
    PROVE  Tracking'
<1> USE DEF procVars, fileVars, sampleVars, heapVars, threadVars, signalVars
<1>1. CASE Construct
  BY <1>1, ConstructFrame, HookAssumption
  DEF HookAssumption, Construct, Finalizing, Tracking, JobShape, NoJob
<1>2. CASE Environment /\ ~Construct
  <2>1. /\ UNCHANGED <<heap, job, pc, live>>
        /\ fileOpen' = fileOpen
    BY <1>2 DEF Environment, ExitProcess, Kill, Deliver, vars
  <2>2. QED
    BY <2>1 DEF Tracking
<1>3. CASE MainReturns
  <2>1. /\ UNCHANGED <<heap, job, live, fileOpen>>
        /\ pc' = [pc EXCEPT ![Main] = "fini"] /\ pc[Main] = "user"
    BY <1>3 DEF MainReturns, At, Goto
  <2>2. QED
    BY <2>1, HookAssumption DEF HookAssumption, Tracking, JobShape, NoJob, TypeOK
<1>4. ASSUME NEW t \in Threads, FinalizeStep(t) PROVE Tracking'
  <2>1. /\ UNCHANGED <<heap, job, live>> /\ (fileOpen' => fileOpen)
        /\ pc' = pc \/ (pc[t] = "fini" /\ pc' = [pc EXCEPT ![t] = "exit"])
    BY <1>4, FinalizeFrame
  <2>2. QED
    BY <2>1, HookAssumption DEF HookAssumption, Tracking, JobShape, NoJob, TypeOK
<1>5. ASSUME NEW t \in Threads, Program(t) \/ HookStep(t), fileOpen PROVE Tracking'
  <2>1. fileOpen' = fileOpen /\ out
    BY <1>5 DEF Program, HookStep, Malloc, FreeCall, Gate, Count, Capture, Lock, Test,
                WriteHead, WriteTail, Unlock, HandOver, LibcMalloc, LibcFree, Finalizing
  <2> USE <1>5, <2>1 DEF At
  <2>2. CASE Malloc(t)
    <3>1. CASE Retained
      <4>1. PICK p \in Ptrs :
               /\ heap[p] = 0 /\ heap' = [heap EXCEPT ![p] = gens + 1]
               /\ job' = [job EXCEPT ![t] = [op |-> "A", ptr |-> p, gen |-> gens + 1]]
        BY <2>2, <3>1 DEF Malloc
      <4>2. live' = live /\ pc' = [pc EXCEPT ![t] = "gate"] /\ live[p] = 0
        BY <2>2, <4>1 DEF Malloc, Goto, Tracking
      <4>3. QED
        BY <3>1, <4>1, <4>2 DEF Tracking, TypeOK
    <3>2. CASE ~Retained
      <4>1. /\ heap' = heap /\ live' = live /\ pc' = [pc EXCEPT ![t] = "gate"]
            /\ job' = [job EXCEPT ![t] = [op |-> "A", ptr |-> None, gen |-> gens + 1]]
        BY <2>2, <3>2 DEF Malloc, Goto
      <4>2. QED
        BY <3>2, <4>1, HookAssumption DEF HookAssumption, Tracking, TypeOK
    <3>3. QED
      BY <3>1, <3>2
  <2>3. CASE FreeCall(t)
    <3>1. PICK p \in held :
             job' = [job EXCEPT ![t] = [op |-> "F", ptr |-> p, gen |-> heap[p]]]
      BY <2>3 DEF FreeCall
    <3>2. /\ heap' = heap /\ live' = live
          /\ pc' = [pc EXCEPT ![t] = IF Retained THEN "gate" ELSE "free"]
      BY <2>3 DEF FreeCall, Goto
    <3>3. QED
      BY <3>1, <3>2 DEF Tracking, TypeOK
  <2>4. CASE Gate(t)
    <3>1. UNCHANGED <<heap, job, live>>
      BY <2>4 DEF Gate
    <3>2. /\ pc[t] = "gate"
          /\ pc' = [pc EXCEPT ![t] = IF job[t].op = "A" THEN "count" ELSE "lock"]
      BY <2>4 DEF Gate, Goto, Guard, InCritical
    <3>3. QED
      BY <3>1, <3>2 DEF Tracking, JobShape, NoJob, TypeOK
  <2>5. CASE Count(t) \/ Capture(t)
    <3>1. UNCHANGED <<heap, job, live>> /\ pc[t] \in {"count", "capture"}
      BY <2>5 DEF Count, Capture
    <3>2. \E l \in {"capture", "lock", AfterHook(t)} : pc' = [pc EXCEPT ![t] = l]
      BY <2>5 DEF Count, Capture, Goto
    <3>3. job[t].op = "A"
      BY <3>1 DEF JobShape
    <3>4. job[t].ptr \in Ptrs => live[job[t].ptr] = 0
      BY <3>1, <3>3 DEF Tracking
    <3>5. QED
      BY <3>1, <3>2, <3>3, <3>4 DEF Tracking, TypeOK
  <2>6. CASE Lock(t) \/ Test(t) \/ WriteHead(t)
    <3>1. UNCHANGED <<heap, job, live>> /\ pc[t] \in {"lock", "test", "write"}
      BY <2>6 DEF Lock, Test, WriteHead
    <3>2. pc' = pc \/ \E l \in {"test", "write", "tail"} : pc' = [pc EXCEPT ![t] = l]
      BY <2>6 DEF Lock, Test, WriteHead, Goto
    <3>3. QED
      BY <3>1, <3>2 DEF Tracking, TypeOK
  <2>7. CASE WriteTail(t)
    <3>1. /\ heap' = heap /\ job' = job /\ live' = Apply(live, job[t])
          /\ pc[t] = "tail" /\ pc' = [pc EXCEPT ![t] = "unlock"]
      BY <2>7 DEF WriteTail, Goto
    <3>2. job[t] # NoJob /\ job[t].op \in {"A", "F"}
      BY <3>1 DEF JobShape
    <3>3. CASE job[t].ptr \notin Ptrs
      <4>1. job[t].op = "A" /\ job[t].ptr = None
        BY <3>2, <3>3 DEF JobShape, TypeOK, Jobs
      <4>2. live' = live
        BY <3>1, <4>1 DEF Apply
      <4>3. QED
        BY <3>1, <3>3, <4>2 DEF Tracking, TypeOK
    <3>4. CASE job[t].ptr \in Ptrs
      <4>1. heap[job[t].ptr] = job[t].gen /\ Retained
        BY <3>1, <3>2, <3>4 DEF Ownership, JobShape
      <4>2. \A u \in Threads : u # t => job[u].ptr # job[t].ptr
        BY <3>4 DEF Ownership
      <4>3. live' = [live EXCEPT ![job[t].ptr] = IF job[t].op = "A" THEN job[t].gen ELSE 0]
        BY <3>1, <3>2, <3>4, HookAssumption DEF HookAssumption, Apply
      <4>4. \A p \in Ptrs : live'[p] # 0 => heap'[p] = live'[p] /\ Retained
        BY <3>1, <3>4, <4>1, <4>3 DEF Tracking, TypeOK
      <4>5. ASSUME NEW u \in Threads, job'[u].ptr \in Ptrs, live'[job'[u].ptr] # 0
            PROVE  IF job'[u].op = "A" THEN pc'[u] \in {"unlock", "hand"}
                                       ELSE pc'[u] \notin {"unlock", "free"}
        <5>1. CASE u = t
          BY <3>1, <3>2, <3>4, <4>3, <4>5, <5>1 DEF TypeOK
        <5>2. CASE u # t
          BY <3>1, <4>2, <4>3, <4>5, <5>2 DEF Tracking, TypeOK
        <5>3. QED
          BY <5>1, <5>2
      <4>6. QED
        BY <4>4, <4>5 DEF Tracking
    <3>5. QED
      BY <3>3, <3>4
  <2>8. CASE Unlock(t)
    <3>1. /\ UNCHANGED <<heap, job, live>> /\ pc[t] = "unlock" /\ job[t] # NoJob
          /\ pc' = [pc EXCEPT ![t] = AfterHook(t)]
      BY <2>8 DEF Unlock, Goto, JobShape
    <3>2. job[t].op = "A" /\ job[t].ptr \in Ptrs => AfterHook(t) = "hand"
      BY <3>1, AfterHookValue DEF JobShape
    <3>3. QED
      BY <3>1, <3>2 DEF Tracking, JobShape, TypeOK
  <2>9. CASE HandOver(t)
    <3>1. /\ UNCHANGED <<heap, live>> /\ job' = [job EXCEPT ![t] = NoJob]
          /\ pc' = [pc EXCEPT ![t] = "user"]
      BY <2>9 DEF HandOver, Goto
    <3>2. QED
      BY <3>1, HookAssumption DEF HookAssumption, Tracking, NoJob, TypeOK
  <2>10. CASE LibcMalloc(t)
    <3>1. PICK p \in Ptrs : heap[p] = 0 /\ heap' = [heap EXCEPT ![p] = job[t].gen]
      BY <2>10 DEF LibcMalloc
    <3>2. /\ live' = live /\ job' = [job EXCEPT ![t] = NoJob]
          /\ pc' = [pc EXCEPT ![t] = "user"] /\ ~Retained
      BY <2>10 DEF LibcMalloc, Goto, JobShape
    <3>3. QED
      BY <3>1, <3>2, HookAssumption DEF HookAssumption, Tracking, NoJob, TypeOK
  <2>11. CASE LibcFree(t)
    <3>1. /\ live' = live /\ job' = [job EXCEPT ![t] = NoJob] /\ pc[t] = "free"
          /\ pc' = [pc EXCEPT ![t] = "user"] /\ heap' = [heap EXCEPT ![job[t].ptr] = 0]
      BY <2>11 DEF LibcFree, Goto
    <3>2. job[t].ptr \in Ptrs /\ live[job[t].ptr] = 0
      BY <3>1 DEF JobShape, Tracking
    <3>3. QED
      BY <3>1, <3>2, HookAssumption DEF HookAssumption, Tracking, NoJob, TypeOK
  <2>12. QED
    BY <2>2, <2>3, <2>4, <2>5, <2>6, <2>7, <2>8, <2>9, <2>10, <2>11 DEF Program, HookStep
<1>6. ASSUME NEW t \in Threads, Program(t) \/ HookStep(t), ~fileOpen PROVE Tracking'
  <2>1. fileOpen' = fileOpen
    BY <1>6 DEF Program, HookStep, Malloc, FreeCall, Gate, Count, Capture, Lock, Test,
                WriteHead, WriteTail, Unlock, HandOver, LibcMalloc, LibcFree
  <2>2. QED
    BY <1>6, <2>1 DEF Tracking
<1>7. QED
  BY <1>1, <1>2, <1>3, <1>4, <1>5, <1>6, StepCases

(***************************************************************************)
(* The theorems.                                                           *)
(***************************************************************************)

\* The invariant holds at the start and is inductive.
LEMMA InitIInv == Init => IInv
<1> SUFFICES ASSUME Init PROVE IInv
  OBVIOUS
<1>1. TypeOK
  BY TypeInit
<1>2. JobShape /\ Ownership
  BY HookAssumption DEF HookAssumption, Init, JobShape, Ownership, NoJob
<1>3. Locks /\ Guard
  BY HookAssumption DEF HookAssumption, Init, Locks, Guard, InCritical
<1>4. Finalizing /\ Tracking
  BY DEF Init, Finalizing, Tracking
<1>5. QED
  BY <1>1, <1>2, <1>3, <1>4 DEF IInv

LEMMA NextIInv == IInv /\ [Next]_vars => IInv'
BY TypeStep, JobShapeStep, OwnershipStep, LocksStep, FinalizingStep, GuardStep,
   TrackingStep DEF IInv

\* The hook keeps its invariant.
THEOREM Invariance == Spec => []IInv
<1>1. Init => IInv
  BY InitIInv
<1>2. IInv /\ [Next]_vars => IInv'
  BY NextIInv
<1>3. QED
  BY <1>1, <1>2, PTL DEF Spec

\* Every variable keeps its type.
THEOREM TypeCorrect == Spec => []TypeOK
<1>1. IInv => TypeOK
  BY DEF IInv
<1>2. QED
  BY <1>1, Invariance, PTL

\* For any number of threads, addresses and signals, the parser's map never
\* holds an address for an allocation that no longer owns it.
THEOREM NoStaleEntries == Spec => []NoStaleEntry
<1>1. IInv => NoStaleEntry
  BY DEF IInv, Tracking, NoStaleEntry
<1>2. QED
  BY <1>1, Invariance, PTL

\* No path through the hooks leaves the reentrancy guard set.
THEOREM HooksRearmed == Spec => []HookRearmed
<1>1. IInv => HookRearmed
  BY DEF IInv, Guard, InCritical, HookRearmed
<1>2. QED
  BY <1>1, Invariance, PTL

\* Once the FILE is closed the stream and the parser's map are final.
THEOREM Sealed == Spec => SealedStream
<1>1. IInv /\ [Next]_vars => [~fileOpen => stream' = stream /\ live' = live]_vars
  <2> SUFFICES ASSUME IInv, [Next]_vars, ~fileOpen
               PROVE  stream' = stream /\ live' = live
    OBVIOUS
  <2> USE DEF procVars, fileVars, sampleVars, heapVars, threadVars, signalVars
  <2>1. CASE Environment
    BY <2>1, EnvironmentFrame, ConstructFrame
  <2>2. CASE MainReturns
    BY <2>2 DEF MainReturns
  <2>3. CASE \E t \in Threads : FinalizeStep(t)
    BY <2>3, FinalizeFrame DEF IInv
  <2>4. ASSUME NEW t \in Threads, Program(t) \/ HookStep(t)
        PROVE  stream' = stream /\ live' = live
    <3>1. ~WriteTail(t)
      BY DEF WriteTail, At, Runs, IInv, Finalizing
    <3>2. QED
      BY <2>4, <3>1 DEF Program, HookStep, Malloc, FreeCall, Gate, Count, Capture, Lock,
                        Test, WriteHead, Unlock, HandOver, LibcMalloc, LibcFree
  <2>5. QED
    BY <2>1, <2>2, <2>3, <2>4, StepCases
<1>2. QED
  BY <1>1, Invariance, PTL DEF Spec, SealedStream

(***************************************************************************)
(* Records are written in one piece.                                       *)
(***************************************************************************)

\* The next number has the other parity.
LEMMA Parity ==
    ASSUME NEW n \in Nat
    PROVE  /\ n % 2 = 0 => (n + 1) % 2 = 1
           /\ n % 2 = 1 => (n + 1) % 2 = 0
OBVIOUS

\* Appending the half that comes next keeps the halves in order.
LEMMA FramingAppend ==
    ASSUME Framing, NEW h \in {1, 2}, NEW r, Len(stream) \in Nat,
           Len(stream') = Len(stream) + 1,
           stream'[Len(stream) + 1] = [rec |-> r, half |-> h],
           \A i \in 1..Len(stream) : stream'[i] = stream[i],
           h = 1 <=> Len(stream) % 2 = 0,
           h = 2 <=> Len(stream) % 2 = 1 /\ stream[Len(stream)].rec = r
    PROVE  Framing'
<1> SUFFICES ASSUME NEW i \in 1..Len(stream')
             PROVE  /\ stream'[i].half = IF i % 2 = 1 THEN 1 ELSE 2
                    /\ i % 2 = 0 => stream'[i].rec = stream'[i - 1].rec
  BY DEF Framing
<1>1. CASE i \in 1..Len(stream)
  <2>1. /\ stream[i].half = IF i % 2 = 1 THEN 1 ELSE 2
        /\ i % 2 = 0 => stream[i].rec = stream[i - 1].rec
    BY <1>1 DEF Framing
  <2>2. i % 2 = 0 => i - 1 \in 1..Len(stream)
    BY <1>1
  <2>3. QED
    BY <1>1, <2>1, <2>2
<1>2. CASE i = Len(stream) + 1
  <2>1. CASE h = 1
    BY <1>2, <2>1, Parity
  <2>2. CASE h = 2
    <3>1. Len(stream) % 2 = 1 /\ stream[Len(stream)].rec = r /\ i % 2 = 0
      BY <1>2, <2>2, Parity
    <3>2. Len(stream) \in 1..Len(stream) /\ i - 1 = Len(stream)
      BY <1>2, <3>1
    <3>3. stream'[i - 1].rec = r
      BY <3>1, <3>2
    <3>4. QED
      BY <1>2, <2>2, <3>1, <3>3
  <2>3. QED
    BY <2>1, <2>2
<1>3. QED
  BY <1>1, <1>2

LEMMA FramedInit == Init => Framed
BY HookAssumption DEF HookAssumption, Init, Framed, Framing

LEMMA FramedStep ==
    ASSUME IInv, Framed, [Next]_vars
    PROVE  Framed'
<1> USE DEF procVars, fileVars, sampleVars, heapVars, threadVars, signalVars
<1>1. CASE Environment \/ MainReturns \/ \E t \in Threads : FinalizeStep(t)
  <2>1. UNCHANGED <<stream, fileOwner, job>>
    BY <1>1, EnvironmentFrame, ConstructFrame, FinalizeFrame DEF MainReturns, IInv
  <2>2. QED
    BY <2>1 DEF Framed, Framing
<1>2. ASSUME NEW t \in Threads, WriteHead(t) PROVE Framed'
  <2>1. job' = job
    BY <1>2 DEF WriteHead
  <2>2. CASE fileOpen
    <3>1. /\ fileOwner = None /\ fileOwner' = t /\ t # None
          /\ stream' = Append(stream, [rec |-> job[t], half |-> 1])
      BY <1>2, <2>2, HookAssumption DEF HookAssumption, WriteHead
    <3>2. stream \in Seq(Halves) /\ [rec |-> job[t], half |-> 1] \in Halves
      BY DEF IInv, TypeOK, Halves
    <3>3. /\ Len(stream') = Len(stream) + 1 /\ Len(stream) \in Nat
          /\ stream'[Len(stream) + 1] = [rec |-> job[t], half |-> 1]
          /\ \A i \in 1..Len(stream) : stream'[i] = stream[i]
      BY <3>1, <3>2, AppendProperties
    <3>4. Len(stream) % 2 = 0
      BY <3>1, <3>3 DEF Framed
    <3>5. Framing'
      BY <3>3, <3>4, FramingAppend DEF Framed
    <3>6. Len(stream') % 2 = 1 /\ stream'[Len(stream')].rec = job[t]
      BY <3>3, <3>4, Parity
    <3>7. QED
      BY <2>1, <3>1, <3>5, <3>6 DEF Framed
  <2>3. CASE ~fileOpen
    BY <1>2, <2>1, <2>3 DEF WriteHead, Framed, Framing
  <2>4. QED
    BY <2>2, <2>3
<1>3. ASSUME NEW t \in Threads, WriteTail(t) PROVE Framed'
  <2>1. /\ fileOwner = t /\ fileOwner' = None /\ t # None /\ job' = job
        /\ stream' = Append(stream, [rec |-> job[t], half |-> 2])
    BY <1>3, HookAssumption DEF HookAssumption, WriteTail, At, IInv, Locks
  <2>2. stream \in Seq(Halves) /\ [rec |-> job[t], half |-> 2] \in Halves
    BY DEF IInv, TypeOK, Halves
  <2>3. /\ Len(stream') = Len(stream) + 1 /\ Len(stream) \in Nat
        /\ stream'[Len(stream) + 1] = [rec |-> job[t], half |-> 2]
        /\ \A i \in 1..Len(stream) : stream'[i] = stream[i]
    BY <2>1, <2>2, AppendProperties
  <2>4. Len(stream) % 2 = 1 /\ stream[Len(stream)].rec = job[t]
    BY <2>1 DEF Framed
  <2>5. Framing'
    BY <2>3, <2>4, FramingAppend DEF Framed
  <2>6. Len(stream') % 2 = 0
    BY <2>3, <2>4, Parity
  <2>7. QED
    BY <2>1, <2>5, <2>6, HookAssumption DEF HookAssumption, Framed
<1>4. ASSUME NEW t \in Threads, Program(t) \/ HookStep(t), ~WriteHead(t), ~WriteTail(t)
      PROVE  Framed'
  <2>1. stream' = stream /\ fileOwner' = fileOwner
    BY <1>4 DEF Program, HookStep, Malloc, FreeCall, Gate, Count, Capture, Lock, Test,
                Unlock, HandOver, LibcMalloc, LibcFree
  <2>2. \A u \in Threads : pc[u] = "tail" => job'[u] = job[u]
    BY <1>4 DEF Program, HookStep, Malloc, FreeCall, Gate, Count, Capture, Lock, Test,
                Unlock, HandOver, LibcMalloc, LibcFree, At, IInv, TypeOK
  <2>3. \A u \in Threads : fileOwner = u => job'[u] = job[u]
    BY <2>2 DEF IInv, Locks
  <2>4. QED
    BY <2>1, <2>3 DEF Framed, Framing
<1>5. QED
  BY <1>1, <1>2, <1>3, <1>4, StepCases

\* However many threads append and wherever they are interrupted, the stream
\* is whole records but for the last.
THEOREM StreamFramed == Spec => []Framing
<1>1. Init => IInv /\ Framed
  BY InitIInv, FramedInit
<1>2. IInv /\ Framed /\ [Next]_vars => IInv' /\ Framed'
  BY NextIInv, FramedStep
<1>3. Framed => Framing
  BY DEF Framed
<1>4. QED
  BY <1>1, <1>2, <1>3, PTL DEF Spec

(***************************************************************************)
(* What is sampled and still held is in the parser's map.                  *)
(***************************************************************************)

LEMMA RecordedInit == Init => Recorded
BY DEF Init, Recorded

\* A step that leaves the map, the addresses, the fates and the calls alone
\* and moves a thread only to points about which Recorded says nothing.
LEMMA RecordedFrame ==
    ASSUME Recorded, UNCHANGED <<heap, held, live, fate, job, gens>>,
           fileOpen' => fileOpen,
           \A t \in Threads :
              /\ pc'[t] \in {"unlock", "hand"} => pc[t] \in {"unlock", "hand"}
              /\ pc'[t] \in {"gate", "count", "capture"} =>
                     pc[t] \in {"gate", "count", "capture"} \/ job[t].op # "A"
    PROVE  Recorded'
BY DEF Recorded

LEMMA RecordedStep ==
    ASSUME IInv, Recorded, [Next]_vars
    PROVE  Recorded'
<1> SUFFICES ASSUME Retained PROVE Recorded'
  BY DEF Recorded
<1> USE DEF procVars, fileVars, sampleVars, heapVars, threadVars, signalVars
<1>1. CASE Construct
  BY <1>1, ConstructFrame DEF Construct, Recorded, IInv, Finalizing, Ownership, TypeOK
<1>2. CASE Environment /\ ~Construct
  <2>1. UNCHANGED <<heap, held, live, fate, job, gens, pc, fileOpen>>
    BY <1>2 DEF Environment, ExitProcess, Kill, Deliver, vars
  <2>2. QED
    BY <2>1, RecordedFrame
<1>3. CASE MainReturns
  <2>1. UNCHANGED <<heap, held, live, fate, job, gens, fileOpen>>
        /\ pc' = [pc EXCEPT ![Main] = "fini"]
    BY <1>3 DEF MainReturns, Goto
  <2>2. QED
    BY <2>1, RecordedFrame DEF IInv, TypeOK
<1>4. ASSUME NEW t \in Threads, FinalizeStep(t) PROVE Recorded'
  <2>1. UNCHANGED <<heap, held, live, fate, job, gens>> /\ (fileOpen' => fileOpen)
        /\ (pc' = pc \/ pc' = [pc EXCEPT ![t] = "exit"])
    BY <1>4, FinalizeFrame DEF IInv
  <2>2. QED
    BY <2>1, RecordedFrame DEF IInv, TypeOK
<1>5. ASSUME NEW t \in Threads, Program(t) \/ HookStep(t) PROVE Recorded'
  <2>1. fileOpen' = fileOpen /\ (fileOpen => out)
    BY <1>5 DEF Program, HookStep, Malloc, FreeCall, Gate, Count, Capture, Lock, Test,
                WriteHead, WriteTail, Unlock, HandOver, LibcMalloc, LibcFree, IInv, Finalizing
  <2> USE <1>5, <2>1 DEF At
  <2>2. CASE Malloc(t)
    <3>1. PICK p \in Ptrs :
             /\ heap[p] = 0 /\ heap' = [heap EXCEPT ![p] = gens + 1]
             /\ job' = [job EXCEPT ![t] = [op |-> "A", ptr |-> p, gen |-> gens + 1]]
      BY <2>2 DEF Malloc
    <3>2. /\ UNCHANGED <<held, live, fate>> /\ pc' = [pc EXCEPT ![t] = "gate"]
          /\ gens' = gens + 1 /\ gens + 1 \in Gens /\ gens \in Nat
      BY <2>2, HookAssumption DEF HookAssumption, Malloc, Goto, Gens, IInv, TypeOK
    <3>3. /\ \A q \in Ptrs : heap[q] \in Nat /\ heap[q] <= gens
          /\ p \notin held
      BY <3>1, HookAssumption DEF HookAssumption, IInv, Ownership, TypeOK
    <3>4. \A q, r \in Ptrs : heap'[q] = heap'[r] /\ heap'[q] # 0 => q = r
      BY <3>1, <3>2, <3>3 DEF Recorded, IInv, TypeOK
    <3>5. \A q \in held : fate[heap'[q]] = "wanted" /\ fileOpen => live[q] = heap'[q]
      BY <3>1, <3>3 DEF Recorded, IInv, TypeOK
    <3>6. fate[gens + 1] = "open" /\ \A g \in Gens : g > gens + 1 => fate[g] = "open"
      BY <3>2 DEF Recorded, Gens
    <3>7. QED
      BY <3>1, <3>2, <3>4, <3>5, <3>6 DEF Recorded, IInv, TypeOK
  <2>3. CASE FreeCall(t)
    <3>1. PICK p \in held :
             /\ held' = held \ {p}
             /\ job' = [job EXCEPT ![t] = [op |-> "F", ptr |-> p, gen |-> heap[p]]]
      BY <2>3 DEF FreeCall
    <3>2. UNCHANGED <<heap, live, fate, gens>> /\ pc' = [pc EXCEPT ![t] = "gate"]
      BY <2>3 DEF FreeCall, Goto
    <3>3. QED
      BY <3>1, <3>2 DEF Recorded, IInv, TypeOK
  <2>4. CASE Gate(t)
    <3>1. UNCHANGED <<heap, held, live, fate, job, gens>> /\ pc[t] = "gate"
      BY <2>4 DEF Gate
    <3>2. pc' = [pc EXCEPT ![t] = IF ~out THEN AfterHook(t)
                                  ELSE IF job[t].op = "A" THEN "count" ELSE "lock"]
      BY <2>4 DEF Gate, Goto, IInv, Guard, InCritical
    <3>3. QED
      BY <3>1, <3>2 DEF Recorded, AfterHook, IInv, TypeOK
  <2>5. CASE Count(t) \/ Capture(t)
    <3> DEFINE g == job[t].gen
    <3>1. /\ UNCHANGED <<heap, held, live, job, gens>> /\ pc[t] \in {"count", "capture"}
          /\ job[t].op = "A" /\ job[t] # NoJob
      BY <2>5 DEF Count, Capture, IInv, JobShape
    <3>2. \/ \E l \in {"capture", "lock"} : pc' = [pc EXCEPT ![t] = l]
          \/ pc' = [pc EXCEPT ![t] = "hand"]
      BY <2>5, <3>1 DEF Count, Capture, Goto, AfterHook
    <3>3. /\ fate' = fate \/ \E f \in {"skipped", "missed", "wanted"} : fate' = [fate EXCEPT ![g] = f]
          /\ pc'[t] = "capture" => fate' = fate
          /\ pc'[t] = "hand" => fate'[g] # "wanted"
      BY <2>5, <3>1 DEF Count, Capture, Goto, AfterHook, IInv, TypeOK, Recorded, JobShape
    <3>4. /\ job[t].ptr \in Ptrs /\ heap[job[t].ptr] = g /\ job[t].ptr \notin held
          /\ g \in 1..gens /\ g \in Gens
      BY <3>1 DEF IInv, JobShape, Ownership, TypeOK, Gens
    <3>5. \A p \in held : heap[p] # g
      <4>1. ASSUME NEW p \in held, heap[p] = g PROVE FALSE
        <5>1. p \in Ptrs /\ heap[p] # 0 /\ heap[p] = heap[job[t].ptr]
          BY <3>4, <4>1 DEF IInv, TypeOK, Ownership
        <5>2. p = job[t].ptr
          BY <3>4, <5>1 DEF Recorded
        <5>3. QED
          BY <3>4, <4>1, <5>2
      <4>2. QED
        BY <4>1
    <3>6. \A u \in Threads : u # t /\ job[u].op = "A" => job[u].gen # g
      <4>1. ASSUME NEW u \in Threads, u # t, job[u].op = "A" PROVE job[u].gen # g
        <5>1. job[u].ptr \in Ptrs /\ heap[job[u].ptr] = job[u].gen /\ job[u].ptr # job[t].ptr
          BY <4>1 DEF IInv, JobShape, Ownership
        <5>2. QED
          BY <3>4, <5>1 DEF Recorded
      <4>2. QED
        BY <4>1
    <3>7. /\ \A p \in held : fate'[heap[p]] = fate[heap[p]]
          /\ \A u \in Threads : u # t /\ job[u].op = "A" => fate'[job[u].gen] = fate[job[u].gen]
          /\ \A h \in Gens : h > gens => fate'[h] = fate[h]
      <4>1. \A h \in Gens : h # g => fate'[h] = fate[h]
        BY <3>3, <3>4 DEF IInv, TypeOK
      <4>4. \A p \in held : heap[p] \in Gens
        BY HookAssumption DEF HookAssumption, IInv, TypeOK, Ownership, Gens
      <4>5. \A u \in Threads : job[u].op = "A" => job[u].gen \in Gens
        BY HookAssumption DEF HookAssumption, IInv, TypeOK, JobShape, Gens, NoJob
      <4>2. \A h \in Gens : h > gens => h # g
        BY <3>4, HookAssumption DEF HookAssumption, Gens, IInv, TypeOK
      <4>3. QED
        BY <3>5, <3>6, <4>1, <4>2, <4>4, <4>5
    <3>8. /\ \A u \in Threads : u # t => pc'[u] = pc[u]
          /\ pc'[t] \in {"capture", "lock", "hand"}
      BY <3>2 DEF IInv, TypeOK
    <3>9. pc'[t] = "capture" => fate'[g] = "open"
      BY <3>1, <3>3 DEF Recorded
    <3>10. \A u \in Threads :
              pc'[u] \in {"gate", "count", "capture"} /\ job[u].op = "A" =>
                  fate'[job[u].gen] = "open"
      <4>1. ASSUME NEW u \in Threads, pc'[u] \in {"gate", "count", "capture"}, job[u].op = "A"
            PROVE  fate'[job[u].gen] = "open"
        <5>1. CASE u = t
          BY <3>8, <3>9, <4>1, <5>1
        <5>2. CASE u # t
          BY <3>7, <3>8, <4>1, <5>2 DEF Recorded
        <5>3. QED
          BY <5>1, <5>2
      <4>2. QED
        BY <4>1
    <3>11. \A u \in Threads :
              /\ fileOpen
              /\ pc'[u] \in {"unlock", "hand"} /\ job[u].op = "A"
              /\ fate'[job[u].gen] = "wanted"
              => live[job[u].ptr] = job[u].gen
      BY <3>3, <3>7, <3>8 DEF Recorded
    <3>12. \A p \in held : fate'[heap[p]] = "wanted" /\ fileOpen => live[p] = heap[p]
      BY <3>7 DEF Recorded
    <3>13. \A h \in Gens : h > gens => fate'[h] = "open"
      BY <3>7 DEF Recorded
    <3>14. QED
      BY <3>1, <3>10, <3>11, <3>12, <3>13 DEF Recorded
  <2>6. CASE Lock(t) \/ Test(t) \/ WriteHead(t)
    <3>1. UNCHANGED <<heap, held, live, fate, job, gens>> /\ pc[t] \in {"lock", "test", "write"}
      BY <2>6 DEF Lock, Test, WriteHead
    <3>2. \/ pc' = pc
          \/ \E l \in {"test", "write", "tail"} : pc' = [pc EXCEPT ![t] = l]
          \/ pc' = [pc EXCEPT ![t] = "unlock"] /\ ~fileOpen
      BY <2>6 DEF Lock, Test, WriteHead, Goto
    <3>3. QED
      BY <3>1, <3>2 DEF Recorded, IInv, TypeOK
  <2>7. CASE WriteTail(t)
    <3>1. /\ UNCHANGED <<heap, held, fate, job, gens>> /\ live' = Apply(live, job[t])
          /\ pc[t] = "tail" /\ pc' = [pc EXCEPT ![t] = "unlock"]
      BY <2>7 DEF WriteTail, Goto
    <3>2. /\ job[t] # NoJob /\ job[t].op \in {"A", "F"} /\ job[t].ptr \in Ptrs
      BY <3>1 DEF IInv, JobShape
    <3>3. /\ job[t].ptr \notin held
          /\ \A u \in Threads : u # t => job[u].ptr # job[t].ptr
      BY <3>2 DEF IInv, Ownership
    <3>4. live' = [live EXCEPT ![job[t].ptr] = IF job[t].op = "A" THEN job[t].gen ELSE 0]
      BY <3>1, <3>2, HookAssumption DEF HookAssumption, Apply
    <3>5. /\ \A p \in held : live'[p] = live[p]
          /\ \A u \in Threads : u # t /\ job[u].op = "A" => live'[job[u].ptr] = live[job[u].ptr]
          /\ job[t].op = "A" => live'[job[t].ptr] = job[t].gen
      BY <3>2, <3>3, <3>4 DEF IInv, TypeOK, JobShape
    <3>6. QED
      BY <3>1, <3>5 DEF Recorded, IInv, TypeOK
  <2>8. CASE Unlock(t)
    <3>1. /\ UNCHANGED <<heap, held, live, fate, job, gens>> /\ pc[t] = "unlock"
          /\ pc' = [pc EXCEPT ![t] = IF job[t].op = "F" THEN "free" ELSE "hand"]
      BY <2>8 DEF Unlock, Goto, AfterHook
    <3>2. QED
      BY <3>1 DEF Recorded, IInv, TypeOK
  <2>9. CASE HandOver(t)
    <3>1. /\ UNCHANGED <<heap, live, fate, gens>> /\ held' = held \cup {job[t].ptr}
          /\ job' = [job EXCEPT ![t] = NoJob] /\ pc[t] = "hand"
          /\ pc' = [pc EXCEPT ![t] = "user"]
      BY <2>9 DEF HandOver, Goto
    <3>2. job[t].ptr \in Ptrs /\ heap[job[t].ptr] = job[t].gen /\ job[t].op = "A"
      BY <3>1 DEF IInv, JobShape, Ownership
    <3>3. QED
      BY <3>1, <3>2 DEF Recorded, IInv, TypeOK, NoJob
  <2>10. CASE LibcMalloc(t)
    BY <2>10 DEF LibcMalloc, IInv, JobShape
  <2>11. CASE LibcFree(t)
    <3>1. /\ UNCHANGED <<held, live, fate, gens>> /\ heap' = [heap EXCEPT ![job[t].ptr] = 0]
          /\ job' = [job EXCEPT ![t] = NoJob] /\ pc[t] = "free"
          /\ pc' = [pc EXCEPT ![t] = "user"]
      BY <2>11 DEF LibcFree, Goto
    <3>2. job[t].ptr \in Ptrs /\ job[t].ptr \notin held
      BY <3>1 DEF IInv, JobShape, Ownership
    <3>3. QED
      BY <3>1, <3>2 DEF Recorded, IInv, TypeOK, NoJob
  <2>12. QED
    BY <2>2, <2>3, <2>4, <2>5, <2>6, <2>7, <2>8, <2>9, <2>10, <2>11 DEF Program, HookStep
<1>6. QED
  BY <1>1, <1>2, <1>3, <1>4, <1>5, StepCases

\* While the FILE is open, every sampled allocation the program holds is in
\* the parser's map, for any number of threads and addresses.
THEOREM NoMissingEntries == Spec => []NoMissingEntry
<1>1. Init => IInv /\ Recorded
  BY InitIInv, RecordedInit
<1>2. IInv /\ Recorded /\ [Next]_vars => IInv' /\ Recorded'
  BY NextIInv, RecordedStep
<1>3. Recorded => NoMissingEntry
  BY DEF Recorded, NoMissingEntry
<1>4. QED
  BY <1>1, <1>2, <1>3, PTL DEF Spec

(***************************************************************************)
(* A process that ends in one finalizer leaves a complete file.            *)
(***************************************************************************)

\* A step of the program or of the hook leaves the finalizers alone, and moves
\* no thread into or out of exit().
LEMMA ProgramFrame ==
    ASSUME TypeOK, NEW t \in Threads, Program(t) \/ HookStep(t)
    PROVE  /\ UNCHANGED <<recording, out, fileOpen, finished, frames, sent>>
           /\ proc = "running" /\ frames[t] = <<>> /\ proc' \in {"running", "crashed"}
           /\ \A u \in Threads, l \in {"fini", "exit"} : pc'[u] = l <=> pc[u] = l
<1> USE DEF procVars, fileVars, sampleVars, heapVars, threadVars, signalVars
<1>1. /\ UNCHANGED <<recording, out, fileOpen, finished, frames, sent>>
      /\ proc = "running" /\ frames[t] = <<>> /\ proc' \in {"running", "crashed"}
  BY DEF Program, HookStep, Malloc, FreeCall, Gate, Count, Capture, Lock, Test, WriteHead,
         WriteTail, Unlock, HandOver, LibcMalloc, LibcFree, At, Runs
<1>2. /\ pc[t] \notin {"fini", "exit"}
      /\ pc' = pc \/ \E l \in PCs \ {"fini", "exit"} : pc' = [pc EXCEPT ![t] = l]
  BY DEF Program, HookStep, Malloc, FreeCall, Gate, Count, Capture, Lock, Test, WriteHead,
         WriteTail, Unlock, HandOver, LibcMalloc, LibcFree, At, Goto, AfterHook, PCs
<1>3. QED
  BY <1>1, <1>2 DEF TypeOK

\* Nothing is written to or flushed from a FILE that is closed.
LEMMA ClosedStays ==
    ASSUME IInv, [Next]_vars, ~fileOpen
    PROVE  stream' = stream /\ flushed' = flushed
<1> USE DEF procVars, fileVars, sampleVars, heapVars, threadVars, signalVars
<1>1. CASE Environment
  BY <1>1 DEF Environment, Construct, ExitProcess, Kill, Deliver, vars
<1>2. CASE MainReturns
  BY <1>2 DEF MainReturns
<1>3. CASE \E t \in Threads : FinalizeStep(t)
  BY <1>3 DEF FinalizeStep, CheckFinished, SetFinished, Flush, Close, ClearOut, FrameReturn,
              OnClosedFile
<1>4. ASSUME NEW t \in Threads, Program(t) \/ HookStep(t)
      PROVE  stream' = stream /\ flushed' = flushed
  <2>1. ~WriteTail(t)
    BY DEF WriteTail, At, Runs, IInv, Finalizing
  <2>2. QED
    BY <1>4, <2>1 DEF Program, HookStep, Malloc, FreeCall, Gate, Count, Capture, Lock,
                      Test, WriteHead, Unlock, HandOver, LibcMalloc, LibcFree
<1>5. QED
  BY <1>1, <1>2, <1>3, <1>4, StepCases

\* The one finalizer there is goes a step further, ends the process, or, being
\* the destructor's, returns to exit().
LEMMA LoneStep ==
    ASSUME IInv, [Next]_vars, ~recording => ~out /\ stream = <<>>,
           NEW t \in Threads, NEW k \in FrameKinds, Lone(t, k), FinalizeStep(t)
    PROVE  \/ /\ Lone(t, k)' /\ pc' = pc
              /\ proc' = "exited" => k = "signal" /\ frames'[t][1].at = "return"
           \/ /\ k = "fini" /\ pc' = [pc EXCEPT ![t] = "exit"] /\ proc' # "exited"
              /\ \A u \in Threads : frames'[u] = <<>>
              /\ Progress("return")'
<1> USE DEF procVars, fileVars, sampleVars, heapVars, threadVars, signalVars
<1> DEFINE l == frames[t][1].at
<1>1. /\ frames[t] # <<>> /\ Len(frames[t]) = 1 /\ frames[t][1] \in Frames
      /\ frames[t][1].kind = k /\ Progress(l) /\ FrameAt(t, l) /\ proc = "running"
      /\ \A u \in Threads \ {t} : frames[u] = <<>>
  BY DEF FinalizeStep, CheckFinished, SetFinished, Flush, Close, ClearOut, FrameReturn,
         FrameAt, IInv, TypeOK, Lone
<1>2. recording' = recording /\ stream' = stream
  BY DEF FinalizeStep, CheckFinished, SetFinished, Flush, Close, ClearOut, FrameReturn
<1>3. ASSUME NEW m \in FramePCs, FrameGoto(t, m)
      PROVE  /\ \A u \in Threads \ {t} : frames'[u] = <<>>
             /\ Len(frames'[t]) = 1 /\ frames'[t][1] = [kind |-> k, at |-> m]
  <2>1. /\ frames[t] \in Seq(Frames) /\ frames \in [Threads -> Seq(Frames)]
        /\ frames' = [frames EXCEPT ![t] = [frames[t] EXCEPT ![1] = [frames[t][1] EXCEPT !.at = m]]]
    BY <1>1, <1>3 DEF FrameGoto, IInv, TypeOK
  <2>2. [frames[t][1] EXCEPT !.at = m] = [kind |-> k, at |-> m]
    BY <1>1 DEF Frames
  <2>3. QED
    BY <1>1, <2>1, <2>2
<1>4. CASE CheckFinished(t)
  <2>1. l = "check" /\ FrameGoto(t, "set")
        /\ UNCHANGED <<finished, out, fileOpen, pc, proc>>
    BY <1>1, <1>4 DEF CheckFinished, FrameAt, Progress
  <2>2. QED
    BY <1>1, <1>2, <1>3, <2>1 DEF Lone, Progress, FramePCs
<1>5. CASE SetFinished(t)
  <2>1. l = "set" /\ FrameGoto(t, IF out THEN "flush" ELSE "return")
        /\ UNCHANGED <<out, fileOpen, flushed, pc, proc>>
    BY <1>1, <1>5 DEF SetFinished, FrameAt
  <2>2. out = recording /\ fileOpen = recording
    BY <1>1, <2>1 DEF Progress
  <2>3. CASE recording
    BY <1>1, <1>2, <1>3, <2>1, <2>2, <2>3 DEF Lone, Progress, FramePCs
  <2>4. CASE ~recording
    <3>1. flushed = Len(stream)
      BY <2>4 DEF IInv, TypeOK
    <3>2. QED
      BY <1>1, <1>2, <1>3, <2>1, <2>2, <2>4, <3>1 DEF Lone, Progress, FramePCs
  <2>5. QED
    BY <2>3, <2>4
<1>6. CASE Flush(t)
  <2>1. l = "flush" /\ fileOpen
    BY <1>1, <1>6 DEF Flush, FrameAt, Progress
  <2>2. FrameGoto(t, "close") /\ UNCHANGED <<out, fileOpen, pc, proc>>
    BY <1>6, <2>1 DEF Flush, OnClosedFile
  <2>3. out
    BY <1>1, <2>1 DEF Progress
  <2>4. out' /\ fileOpen'
    BY <2>1, <2>2, <2>3, Zenon
  <2>5. Progress("close")'
    BY <2>4 DEF Progress
  <2>6. /\ \A u \in Threads \ {t} : frames'[u] = <<>>
        /\ Len(frames'[t]) = 1 /\ frames'[t][1] = [kind |-> k, at |-> "close"]
    BY <1>3, <2>2 DEF FramePCs
  <2>7. Lone(t, k)'
    BY <2>5, <2>6 DEF Lone
  <2>8. QED
    BY <1>1, <2>2, <2>7
<1>7. CASE Close(t)
  <2>1. l = "close" /\ fileOpen
    BY <1>1, <1>7 DEF Close, FrameAt, Progress
  <2>2. /\ FrameGoto(t, "null") /\ UNCHANGED <<pc, proc>> /\ ~fileOpen'
        /\ flushed' = Len(stream)
    BY <1>7, <2>1 DEF Close, OnClosedFile
  <2>3. QED
    BY <1>1, <1>2, <1>3, <2>2 DEF Lone, Progress, FramePCs
<1>8. CASE ClearOut(t)
  <2>1. l = "null" /\ FrameGoto(t, "return")
        /\ UNCHANGED <<fileOpen, flushed, pc, proc>>
    BY <1>1, <1>8 DEF ClearOut, FrameAt
  <2>2. QED
    BY <1>1, <1>2, <1>3, <2>1 DEF Lone, Progress, FramePCs
<1>9. CASE FrameReturn(t)
  <2>1. l = "return" /\ UNCHANGED <<fileOpen, flushed>>
    BY <1>1, <1>9 DEF FrameReturn, FrameAt
  <2>2. CASE k = "signal"
    <3>1. frames' = frames /\ pc' = pc
      BY <1>1, <1>9, <2>2 DEF FrameReturn
    <3>2. Lone(t, k)'
      BY <1>1, <1>2, <2>1, <3>1 DEF Lone, Progress
    <3>3. QED
      BY <2>1, <2>2, <3>1, <3>2
  <2>3. CASE k # "signal"
    <3>1. k = "fini" /\ pc' = [pc EXCEPT ![t] = "exit"] /\ proc' = proc
          /\ frames' = [frames EXCEPT ![t] = SubSeq(frames[t], 1, 0)]
      BY <1>1, <1>9, <2>3 DEF FrameReturn, FrameKinds, Goto
    <3>2. SubSeq(frames[t], 1, 0) = <<>>
      BY SubSeqEmpty
    <3>3. \A u \in Threads : frames'[u] = <<>>
      BY <1>1, <3>1, <3>2 DEF IInv, TypeOK
    <3>4. QED
      BY <1>1, <1>2, <2>1, <3>1, <3>3 DEF Progress
  <2>4. QED
    BY <2>2, <2>3
<1>10. QED
  BY <1>4, <1>5, <1>6, <1>7, <1>8, <1>9 DEF FinalizeStep

\* A finalizer that starts when none has is alone.
LEMMA LonePush ==
    ASSUME IInv, NEW t \in Threads, NEW k \in FrameKinds, Push(t, k),
           \A u \in Threads : frames[u] = <<>>,
           ~finished' /\ out' = recording' /\ fileOpen' = recording'
    PROVE  Lone(t, k)'
<1>1. /\ \A u \in Threads : u # t => frames'[u] = frames[u]
      /\ Len(frames'[t]) = Len(frames[t]) + 1
      /\ frames'[t][Len(frames[t]) + 1] = [kind |-> k, at |-> "check"]
  BY PushValue DEF IInv
<1>2. Len(frames[t]) + 1 = 1
  OBVIOUS
<1>3. QED
  BY <1>1, <1>2 DEF Lone, Progress

LEMMA OneFinalizerInit == Init => OneFinalizer
<1>1. ASSUME Init PROVE OneFinalizer
  <2>1. pc[Main] = "user"
    BY <1>1, HookAssumption DEF HookAssumption, Init
  <2>2. QED
    BY <1>1, <2>1, FS_EmptySet DEF Init, OneFinalizer, Leaving
<1>2. QED
  BY <1>1

LEMMA OneFinalizerStep ==
    ASSUME IInv, OneFinalizer, [Next]_vars
    PROVE  OneFinalizer'
<1> USE HookAssumption
    DEF HookAssumption, procVars, fileVars, sampleVars, heapVars, threadVars, signalVars
<1>1. CASE Construct
  BY <1>1 DEF Construct, OneFinalizer, Leaving, Lone, Progress, IInv, Finalizing
<1>2. CASE ExitProcess
  <2>1. /\ pc[Main] = "exit" /\ frames[Main] = <<>> /\ proc = "running"
        /\ UNCHANGED <<recording, out, fileOpen, finished, frames, sent, pc, stream>>
        /\ ~fileOpen => flushed' = flushed
    BY <1>2 DEF ExitProcess, At, Runs
  <2>2. QED
    BY <1>2, <2>1 DEF ExitProcess, OneFinalizer, Leaving, Progress
<1>3. CASE Kill
  BY <1>3 DEF Kill, OneFinalizer, Leaving, Lone, Progress
<1>4. CASE UNCHANGED vars
  BY <1>4 DEF vars, OneFinalizer, Leaving, Lone, Progress
<1>5. ASSUME NEW t \in Threads, NEW s \in Signals, Deliver(t, s) PROVE OneFinalizer'
  <2>1. /\ sent' = sent \cup {s} /\ s \notin sent /\ proc = "running"
        /\ UNCHANGED <<recording, out, fileOpen, finished, stream, flushed, pc>>
        /\ \/ recording /\ Push(t, "signal") /\ proc' = proc
           \/ ~recording /\ proc' = "killed"
    BY <1>5 DEF Deliver
  <2>2. IsFiniteSet(sent')
    BY <2>1, FS_AddElement DEF OneFinalizer
  <2>3. ASSUME NEW r \in Signals, sent' = {r}, ~Leaving
        PROVE  proc' = "killed" \/ \E u \in Threads : Lone(u, "signal")'
    <3>1. sent = {}
      BY <2>1, <2>3
    <3>2. /\ \A u \in Threads : frames[u] = <<>>
          /\ ~finished /\ out = recording /\ fileOpen = recording
      BY <2>3, <3>1 DEF OneFinalizer
    <3>3. CASE ~recording
      BY <2>1, <3>3
    <3>4. CASE recording
      <4>1. Push(t, "signal") /\ "signal" \in FrameKinds
        BY <2>1, <3>4 DEF FrameKinds
      <4>2. ~finished' /\ out' = recording' /\ fileOpen' = recording'
        BY <2>1, <3>2
      <4>3. Lone(t, "signal")'
        BY <3>2, <4>1, <4>2, LonePush
      <4>4. QED
        BY <4>3
    <3>5. QED
      BY <3>3, <3>4
  <2>4. QED
    BY <2>1, <2>2, <2>3 DEF OneFinalizer, Leaving
<1>6. CASE MainReturns
  <2>1. /\ pc[Main] = "user" /\ pc' = [pc EXCEPT ![Main] = "fini"] /\ Push(Main, "fini")
        /\ UNCHANGED <<recording, out, fileOpen, finished, stream, sent, proc>>
        /\ proc = "running"
    BY <1>6 DEF MainReturns, At, Runs, Goto
  <2>2. pc'[Main] = "fini"
    BY <2>1 DEF IInv, TypeOK
  <2>3. ASSUME sent = {} PROVE Lone(Main, "fini")'
    <3>1. /\ \A u \in Threads : frames[u] = <<>>
          /\ ~finished' /\ out' = recording' /\ fileOpen' = recording'
      BY <2>1, <2>3 DEF OneFinalizer, Leaving
    <3>2. QED
      BY <2>1, <3>1, LonePush DEF FrameKinds
  <2>4. QED
    BY <2>1, <2>2, <2>3 DEF OneFinalizer, Leaving
<1>7. ASSUME NEW t \in Threads, FinalizeStep(t) PROVE OneFinalizer'
  <2>1. /\ UNCHANGED <<recording, sent, stream>> /\ proc = "running" /\ frames[t] # <<>>
        /\ (out' => out) /\ proc' # "loading"
        /\ \/ pc' = pc
           \/ pc[t] = "fini" /\ pc' = [pc EXCEPT ![t] = "exit"]
    <3>1. /\ UNCHANGED <<recording, sent, stream>>
          /\ \/ pc' = pc
             \/ pc[t] = "fini" /\ pc' = [pc EXCEPT ![t] = "exit"]
      BY <1>7, FinalizeFrame DEF IInv
    <3>2. proc = "running" /\ frames[t] # <<>> /\ (out' => out) /\ proc' # "loading"
      BY <1>7 DEF FinalizeStep, CheckFinished, SetFinished, Flush, Close, ClearOut,
                  FrameReturn, FrameAt, OnClosedFile
    <3>3. QED
      BY <3>1, <3>2
  <2>2. /\ pc'[Main] = "fini" => pc[Main] = "fini"
        /\ pc'[Main] = "exit" => pc[Main] \in {"fini", "exit"}
        /\ ~Leaving' => ~Leaving
    BY <2>1 DEF IInv, TypeOK, Leaving
  <2>3. proc' = "exited" => frames'[t] # <<>> /\ frames'[t][Len(frames'[t])].at = "return"
    BY <1>7, <2>1 DEF FinalizeStep, CheckFinished, SetFinished, Flush, Close, ClearOut,
                FrameReturn, FrameAt, OnClosedFile
  <2>4. ~(sent = {} /\ ~Leaving)
    BY <2>1 DEF OneFinalizer
  <2>5. CASE sent = {}
    <3>1. pc[Main] = "fini"
      BY <2>1, <2>4, <2>5 DEF OneFinalizer, Leaving
    <3>2. Lone(Main, "fini") /\ t = Main
      BY <2>1, <2>5, <3>1 DEF OneFinalizer, Lone
    <3>3. \/ Lone(Main, "fini")' /\ pc' = pc
          \/ /\ pc' = [pc EXCEPT ![Main] = "exit"]
             /\ \A u \in Threads : frames'[u] = <<>>
             /\ Progress("return")'
      BY <1>7, <3>2, LoneStep DEF OneFinalizer, FrameKinds
    <3>4. pc'[Main] = "fini" \/ pc'[Main] = "exit"
      BY <3>1, <3>3 DEF IInv, TypeOK
    <3>5. pc'[Main] = "fini" => pc' # [pc EXCEPT ![Main] = "exit"]
      BY DEF IInv, TypeOK
    <3>6. QED
      BY <2>1, <2>3, <2>5, <3>1, <3>3, <3>4, <3>5 DEF OneFinalizer, Leaving
  <2>6. CASE sent # {}
    <3>1. ASSUME NEW s \in Signals, sent = {s}, ~Leaving'
          PROVE  \E u \in Threads : Lone(u, "signal")'
      <4>1. PICK u \in Threads : Lone(u, "signal")
        BY <2>1, <2>2, <3>1 DEF OneFinalizer
      <4>2. u = t
        BY <2>1, <4>1 DEF Lone
      <4>3. Lone(t, "signal")'
        BY <1>7, <4>1, <4>2, LoneStep DEF OneFinalizer, FrameKinds
      <4>4. QED
        BY <4>3
    <3>2. ~recording => ~out' /\ stream' = <<>>
      BY <2>1 DEF OneFinalizer
    <3>3. QED
      BY <2>1, <2>3, <2>6, <3>1, <3>2 DEF OneFinalizer
  <2>7. QED
    BY <2>5, <2>6
<1>8. ASSUME NEW t \in Threads, Program(t) \/ HookStep(t) PROVE OneFinalizer'
  <2>1. /\ UNCHANGED <<recording, out, fileOpen, finished, frames, sent>>
        /\ proc = "running" /\ proc' \in {"running", "crashed"}
        /\ pc'[Main] = "fini" <=> pc[Main] = "fini"
        /\ pc'[Main] = "exit" <=> pc[Main] = "exit"
    BY <1>8, ProgramFrame DEF IInv
  <2>2. ~fileOpen => stream' = stream /\ flushed' = flushed
    BY ClosedStays
  <2>3. ~recording => ~out' /\ stream' = <<>>
    BY <2>1, <2>2 DEF OneFinalizer, IInv, Finalizing
  <2>4. Leaving' = Leaving
    BY <2>1 DEF Leaving
  <2>5. QED
    BY <2>1, <2>2, <2>3, <2>4 DEF OneFinalizer, Lone, Progress
<1>9. QED
  BY <1>1, <1>2, <1>3, <1>4, <1>5, <1>6, <1>7, <1>8, StepCases DEF Environment

\* "the hook's signal handler flushes the raw stream and then _exit(0)s": a
\* process that ends in one signal, or in one return from main, has left every
\* record in the file, whatever its other threads did meanwhile.
THEOREM OneFinalizerLeavesAll == Spec => []OneFinalizerCompletes
<1>1. Init => IInv /\ OneFinalizer
  BY InitIInv, OneFinalizerInit
<1>2. IInv /\ OneFinalizer /\ [Next]_vars => IInv' /\ OneFinalizer'
  BY NextIInv, OneFinalizerStep
<1>3. IInv /\ OneFinalizer => OneFinalizerCompletes
  <2> SUFFICES ASSUME IInv, OneFinalizer, proc = "exited", Finalizers = 1
               PROVE  flushed = Len(stream)
    BY DEF OneFinalizerCompletes
  <2>1. IsFiniteSet(sent) /\ Cardinality(sent) \in Nat
    BY FS_CardinalityType DEF OneFinalizer
  <2>2. CASE Leaving
    <3>1. sent = {}
      BY <2>1, <2>2, FS_EmptySet DEF Finalizers, Leaving
    <3>2. CASE pc[Main] = "fini"
      <4>1. PICK u \in Threads : frames[u] # <<>> /\ frames[u][Len(frames[u])].at = "return"
        BY <3>2 DEF OneFinalizer
      <4>2. Lone(Main, "fini") /\ u = Main
        BY <3>1, <3>2, <4>1 DEF OneFinalizer, Lone
      <4>3. QED
        BY <4>1, <4>2 DEF Lone, Progress
    <3>3. CASE pc[Main] = "exit"
      BY <3>1, <3>3 DEF OneFinalizer, Progress
    <3>4. QED
      BY <2>2, <3>2, <3>3 DEF Leaving
  <2>3. CASE ~Leaving
    <3>1. Cardinality(sent) = 1
      BY <2>1, <2>3 DEF Finalizers, Leaving
    <3>2. PICK s : sent = {s}
      BY <2>1, <3>1, FS_Singleton
    <3>3. PICK t \in Threads : Lone(t, "signal")
      BY <2>3, <3>2 DEF OneFinalizer, IInv, TypeOK
    <3>4. PICK u \in Threads : frames[u] # <<>> /\ frames[u][Len(frames[u])].at = "return"
      BY <2>3 DEF OneFinalizer, Leaving
    <3>5. u = t
      BY <3>3, <3>4 DEF Lone
    <3>6. QED
      BY <3>3, <3>4, <3>5 DEF Lone, Progress
  <2>4. QED
    BY <2>2, <2>3
<1>4. QED
  BY <1>1, <1>2, <1>3, PTL DEF Spec

(***************************************************************************)
(* 1/N sampling.                                                           *)
(***************************************************************************)

\* A number in 1..n leaves the remainder it should.
LEMMA Residue ==
    ASSUME NEW n \in Nat, NEW q \in Nat, NEW R \in Nat \ {0}, NEW r \in 0..(R - 1),
           n = R * q + r
    PROVE  n % R = r
OBVIOUS

\* The next allocation is chosen exactly when those chosen so far stand for no
\* more than those counted so far.
LEMMA NextSampled ==
    ASSUME NEW n \in Nat, NEW k \in Nat, n <= Rate * k, Rate * k < n + Rate
    PROVE  DoSample(n + 1) <=> n = Rate * k
<1> USE HookAssumption DEF HookAssumption
<1>1. CASE Rate = 1
  BY <1>1 DEF DoSample
<1>2. CASE Rate > 1
  <2>1. DoSample(n + 1) <=> n % Rate = 0
    <3>1. (n + 1) - 1 = n
      OBVIOUS
    <3>2. QED
      BY <1>2, <3>1 DEF DoSample
  <2>2. CASE n = Rate * k
    <3>1. n % Rate = 0
      BY <2>2, Residue
    <3>2. QED
      BY <2>1, <2>2, <3>1
  <2>3. CASE n # Rate * k
    <3> DEFINE r == n + Rate - Rate * k
    <3>1. Rate * k \in Nat
      OBVIOUS
    <3>2. r \in 1..(Rate - 1)
      BY <2>3, <3>1
    <3>3. k # 0
      BY <2>3
    <3>4. k - 1 \in Nat /\ Rate * (k - 1) = Rate * k - Rate
      BY <3>3
    <3>5. n = Rate * (k - 1) + r
      BY <3>1, <3>4
    <3> HIDE DEF r
    <3>6. n % Rate = r
      BY <3>2, <3>4, <3>5, Residue
    <3>7. QED
      BY <2>1, <2>3, <3>2, <3>6
  <2>4. QED
    BY <2>2, <2>3
<1>3. QED
  BY <1>1, <1>2

\* The sets that are counted are finite.
LEMMA CountedFinite ==
    ASSUME TypeOK
    PROVE  /\ IsFiniteSet(Counted) /\ Cardinality(Counted) \in Nat
           /\ IsFiniteSet(Chosen) /\ Cardinality(Chosen) \in Nat
<1>1. IsFiniteSet(1..gens)
  BY HookAssumption, FS_Interval DEF TypeOK, HookAssumption
<1>2. IsFiniteSet(Counted) /\ IsFiniteSet(Chosen)
  BY <1>1, FS_Subset DEF Counted, Chosen
<1>3. QED
  BY <1>2, FS_CardinalityType

LEMMA SamplingInit == Init => Sampling
<1> SUFFICES ASSUME Init PROVE Sampling
  OBVIOUS
<1>1. Counted = {} /\ Chosen = {}
  BY DEF Init, Counted, Chosen
<1>2. Cardinality({}) = 0
  BY FS_EmptySet
<1>3. counter = 0 /\ Rate * 0 = 0 /\ Rate > 0
  BY HookAssumption DEF HookAssumption, Init
<1>4. /\ Cardinality(Counted) = counter
      /\ counter <= Rate * Cardinality(Chosen)
      /\ Rate * Cardinality(Chosen) < counter + Rate
  <2>1. Cardinality(Counted) = 0 /\ Cardinality(Chosen) = 0
    BY <1>1, <1>2, Zenon
  <2>2. Rate * Cardinality(Chosen) = 0
    BY <1>3, <2>1, Zenon
  <2>3. QED
    BY <1>3, <2>1, <2>2, HookAssumption DEF HookAssumption
<1>5. gens = 0 /\ ~fileOpen /\ \A t \in Threads : job[t].op = "none"
  BY DEF Init, NoJob
<1>6. \A g \in Gens : fate[g] = "open"
  BY DEF Init
<1>7. QED
  BY ONLY <1>4, <1>5, <1>6 DEF Sampling

\* A step that leaves the counter and the decisions alone, and that takes no
\* allocation past the hook without a decision, keeps the counts.
LEMMA SamplingFrame ==
    ASSUME TypeOK, Sampling, UNCHANGED <<counter, gens, fate>>,
           \A t \in Threads :
              /\ job'[t].op = "A" => job[t].op = "A" /\ job'[t].gen = job[t].gen
              /\ pc'[t] = "capture" <=> pc[t] = "capture"
              /\ pc[t] = "capture" => job'[t] = job[t]
              /\ pc'[t] \in {"gate", "count"} /\ job'[t].op = "A" =>
                     pc[t] \in {"gate", "count"}
              /\ fileOpen' /\ pc[t] \in {"gate", "count"} /\ job[t].op = "A" =>
                     pc'[t] \in {"gate", "count"} /\ job'[t] = job[t],
           fileOpen' => fileOpen \/ gens = 0
    PROVE  Sampling'
<1>1. \A g : BeingCaptured(g)' <=> BeingCaptured(g)
  BY DEF BeingCaptured
<1>2. Counted' = Counted /\ Chosen' = Chosen
  BY <1>1 DEF Counted, Chosen
<1>3. \A t, u \in Threads :
         t # u /\ job'[t].op = "A" /\ job'[u].op = "A" => job'[t].gen # job'[u].gen
  BY DEF Sampling
<1>4. \A t \in Threads :
         pc'[t] \in {"gate", "count", "capture"} /\ job'[t].op = "A" =>
             fate'[job'[t].gen] = "open"
  BY DEF Sampling
<1>5. fileOpen' =>
         \A g \in 1..gens' : fate'[g] = "open" =>
             \E t \in Threads : /\ pc'[t] \in {"gate", "count", "capture"}
                                /\ job'[t].op = "A" /\ job'[t].gen = g
  <2> SUFFICES ASSUME fileOpen', NEW g \in 1..gens, fate[g] = "open"
               PROVE  \E t \in Threads : /\ pc'[t] \in {"gate", "count", "capture"}
                                         /\ job'[t].op = "A" /\ job'[t].gen = g
    OBVIOUS
  <2>1. fileOpen
    BY HookAssumption DEF TypeOK, HookAssumption
  <2>2. PICK t \in Threads : /\ pc[t] \in {"gate", "count", "capture"}
                             /\ job[t].op = "A" /\ job[t].gen = g
    BY <2>1 DEF Sampling
  <2>3. QED
    BY <2>2
<1>6. QED
  BY <1>2, <1>3, <1>4, <1>5 DEF Sampling

\* A new allocation is neither counted nor decided.
LEMMA SamplingMalloc ==
    ASSUME IInv, Sampling, NEW t \in Threads, Malloc(t)
    PROVE  Sampling'
<1> USE HookAssumption DEF HookAssumption
<1>1. /\ gens < MaxAllocs /\ gens' = gens + 1 /\ UNCHANGED <<counter, fate, fileOpen>>
      /\ pc[t] = "user" /\ pc' = [pc EXCEPT ![t] = "gate"]
  BY DEF Malloc, At, Goto, fileVars
<1>2. /\ \A u \in Threads \ {t} : job'[u] = job[u] /\ pc'[u] = pc[u]
      /\ pc'[t] = "gate" /\ job'[t].op = "A" /\ job'[t].gen = gens + 1
  BY <1>1 DEF Malloc, IInv, TypeOK
<1>3. gens \in Nat /\ gens + 1 \in Gens
  BY <1>1 DEF IInv, TypeOK, Gens
<1>4. \A u \in Threads : job[u].op = "A" => job[u].gen \in 1..gens
  BY DEF IInv, JobShape, NoJob
<1>5. fate[gens + 1] = "open"
  BY <1>3 DEF Sampling
<1>6. \A u \in Threads : pc[u] = "capture" => job[u].op = "A"
  BY DEF IInv, JobShape
<1>7. \A g : g = gens + 1 => ~BeingCaptured(g)'
  BY <1>1, <1>2, <1>3, <1>4, <1>6 DEF BeingCaptured
<1>8. \A g \in 1..gens : BeingCaptured(g)' <=> BeingCaptured(g)
  BY <1>1, <1>2, <1>3 DEF BeingCaptured
<1>9. Counted' = Counted /\ Chosen' = Chosen
  <2>1. 1..gens' = 1..gens \cup {gens + 1}
    BY <1>1, <1>3
  <2>2. gens + 1 \notin Counted' /\ gens + 1 \notin Chosen'
    BY <1>1, <1>5, <1>7 DEF Counted, Chosen
  <2>3. QED
    BY <1>1, <1>8, <2>1, <2>2 DEF Counted, Chosen
<1>10. \A u, v \in Threads :
         u # v /\ job'[u].op = "A" /\ job'[v].op = "A" => job'[u].gen # job'[v].gen
  BY <1>2, <1>3, <1>4 DEF Sampling
<1>11. \A g \in Gens : g > gens' => fate'[g] = "open"
  BY <1>1, <1>3 DEF Sampling, Gens
<1>12. \A u \in Threads :
         pc'[u] \in {"gate", "count", "capture"} /\ job'[u].op = "A" =>
             fate'[job'[u].gen] = "open"
  BY <1>1, <1>2, <1>5 DEF Sampling
<1>13. fileOpen' =>
         \A g \in 1..gens' : fate'[g] = "open" =>
             \E u \in Threads : /\ pc'[u] \in {"gate", "count", "capture"}
                                /\ job'[u].op = "A" /\ job'[u].gen = g
  <2> SUFFICES ASSUME fileOpen, NEW g \in 1..gens', fate[g] = "open"
               PROVE  \E u \in Threads : /\ pc'[u] \in {"gate", "count", "capture"}
                                         /\ job'[u].op = "A" /\ job'[u].gen = g
    BY <1>1
  <2>1. CASE g = gens + 1
    BY <1>2, <2>1
  <2>2. CASE g # gens + 1
    <3>1. g \in 1..gens
      BY <1>1, <1>3, <2>2
    <3>2. PICK u \in Threads : /\ pc[u] \in {"gate", "count", "capture"}
                               /\ job[u].op = "A" /\ job[u].gen = g
      BY <3>1 DEF Sampling
    <3>3. u # t
      BY <1>1, <3>2
    <3>4. QED
      BY <1>2, <3>2, <3>3
  <2>3. QED
    BY <2>1, <2>2
<1>14. QED
  BY <1>1, <1>9, <1>10, <1>11, <1>12, <1>13 DEF Sampling

\* The critical section counts one allocation more, one nobody has counted.
LEMMA SamplingCount ==
    ASSUME IInv, Sampling, NEW t \in Threads, Count(t)
    PROVE  Sampling'
<1> USE HookAssumption DEF HookAssumption
<1> DEFINE g == job[t].gen
           chosen == DoSample(counter + 1)
<1>1. /\ pc[t] = "count" /\ counter' = counter + 1
      /\ UNCHANGED <<gens, job, fileOpen>>
      /\ chosen => pc' = [pc EXCEPT ![t] = "capture"] /\ fate' = fate
      /\ ~chosen => /\ pc' = [pc EXCEPT ![t] = AfterHook(t)]
                    /\ fate' = [fate EXCEPT ![g] = "skipped"]
  BY DEF Count, At, Goto, fileVars
<1>2. job[t].op = "A" /\ g \in 1..gens /\ g \in Gens /\ AfterHook(t) \in {"hand", "malloc"}
  BY <1>1 DEF IInv, JobShape, TypeOK, Gens, NoJob, AfterHook
<1>3. fate[g] = "open"
  BY <1>1, <1>2 DEF Sampling
<1>4. \A u \in Threads : pc[u] = "capture" => job[u].op = "A"
  BY DEF IInv, JobShape
<1>5. \A u \in Threads \ {t} : job[u].op = "A" => job[u].gen # g
  BY <1>2 DEF Sampling
<1>6. ~BeingCaptured(g)
  BY <1>1, <1>4, <1>5 DEF BeingCaptured
<1>7. g \notin Counted /\ g \notin Chosen
  BY <1>3, <1>6 DEF Counted, Chosen
<1>8. /\ \A u \in Threads \ {t} : pc'[u] = pc[u]
      /\ pc'[t] = IF chosen THEN "capture" ELSE AfterHook(t)
      /\ \A h \in Gens \ {g} : fate'[h] = fate[h]
      /\ fate'[g] = IF chosen THEN "open" ELSE "skipped"
  <2>1. pc \in [Threads -> PCs] /\ fate \in [Gens -> Fates]
    BY DEF IInv, TypeOK
  <2>2. CASE chosen
    BY <1>1, <1>2, <1>3, <2>1, <2>2
  <2>3. CASE ~chosen
    BY <1>1, <1>2, <1>3, <2>1, <2>3
  <2>4. QED
    BY <2>2, <2>3
<1> HIDE DEF chosen
<1>9. /\ \A h : h # g => (BeingCaptured(h)' <=> BeingCaptured(h))
      /\ BeingCaptured(g)' <=> chosen
  <2>1. \A h : h # g => (BeingCaptured(h)' <=> BeingCaptured(h))
    BY <1>1, <1>8 DEF BeingCaptured
  <2>2. ASSUME chosen PROVE BeingCaptured(g)'
    BY <1>1, <1>8, <2>2 DEF BeingCaptured
  <2>3. ASSUME ~chosen PROVE ~BeingCaptured(g)'
    BY <1>1, <1>2, <1>4, <1>5, <1>8, <2>3 DEF BeingCaptured
  <2>4. QED
    BY <2>1, <2>2, <2>3
<1>10. \A h \in 1..gens : h \in Gens
  BY DEF IInv, TypeOK, Gens
<1>11. Counted' = Counted \cup {g}
  BY <1>1, <1>2, <1>8, <1>9, <1>10 DEF Counted
<1>12. Chosen' = IF chosen THEN Chosen \cup {g} ELSE Chosen
  BY <1>1, <1>2, <1>7, <1>8, <1>9, <1>10 DEF Chosen
<1>13. Cardinality(Counted') = counter'
  BY <1>1, <1>7, <1>11, CountedFinite, FS_AddElement DEF Sampling, IInv
<1> DEFINE k == Cardinality(Chosen)
<1>14. k \in Nat /\ counter \in Nat /\ counter <= Rate * k /\ Rate * k < counter + Rate
  BY CountedFinite DEF Sampling, IInv, TypeOK
<1>15. chosen <=> counter = Rate * k
  BY <1>14, NextSampled DEF chosen
<1>16. Cardinality(Chosen') = IF chosen THEN k + 1 ELSE k
  BY <1>7, <1>12, CountedFinite, FS_AddElement DEF IInv
<1> HIDE DEF k
<1>17. counter' <= Rate * Cardinality(Chosen') /\ Rate * Cardinality(Chosen') < counter' + Rate
  <2>1. Rate * (k + 1) = Rate * k + Rate /\ Rate * k \in Nat
    BY <1>14
  <2>2. CASE chosen
    BY <1>1, <1>14, <1>15, <1>16, <2>1, <2>2
  <2>3. CASE ~chosen
    BY <1>1, <1>14, <1>15, <1>16, <2>1, <2>3
  <2>4. QED
    BY <2>2, <2>3
<1>18. \A u \in Threads :
         pc'[u] \in {"gate", "count", "capture"} /\ job'[u].op = "A" =>
             fate'[job'[u].gen] = "open"
  <2> SUFFICES ASSUME NEW u \in Threads,
                      pc'[u] \in {"gate", "count", "capture"}, job[u].op = "A"
               PROVE  fate'[job[u].gen] = "open"
    BY <1>1
  <2>1. CASE u = t
    BY <1>2, <1>8, <2>1
  <2>2. CASE u # t
    <3>1. job[u].gen # g /\ fate[job[u].gen] = "open"
      BY <1>5, <1>8, <2>2 DEF Sampling
    <3>2. job[u].gen \in Gens
      BY <1>10 DEF IInv, JobShape, NoJob
    <3>3. QED
      BY <1>8, <3>1, <3>2
  <2>3. QED
    BY <2>1, <2>2
<1>19. fileOpen' =>
         \A h \in 1..gens' : fate'[h] = "open" =>
             \E u \in Threads : /\ pc'[u] \in {"gate", "count", "capture"}
                                /\ job'[u].op = "A" /\ job'[u].gen = h
  <2> SUFFICES ASSUME fileOpen, NEW h \in 1..gens, fate'[h] = "open"
               PROVE  \E u \in Threads : /\ pc'[u] \in {"gate", "count", "capture"}
                                         /\ job[u].op = "A" /\ job[u].gen = h
    BY <1>1
  <2>1. CASE h = g
    BY <1>2, <1>8, <2>1
  <2>2. CASE h # g
    <3>1. fate[h] = "open"
      BY <1>8, <1>10, <2>2
    <3>2. PICK u \in Threads : /\ pc[u] \in {"gate", "count", "capture"}
                               /\ job[u].op = "A" /\ job[u].gen = h
      BY <3>1 DEF Sampling
    <3>3. u # t
      BY <2>2, <3>2
    <3>4. QED
      BY <1>8, <3>2, <3>3
  <2>3. QED
    BY <2>1, <2>2
<1>20. \A h \in Gens : h > gens' => fate'[h] = "open"
  BY <1>1, <1>2, <1>8 DEF Sampling, IInv, TypeOK, Gens
<1>21. QED
  BY <1>1, <1>13, <1>17, <1>18, <1>19, <1>20 DEF Sampling

\* The capture decides on an allocation that has been counted and chosen.
LEMMA SamplingCapture ==
    ASSUME IInv, Sampling, NEW t \in Threads, Capture(t)
    PROVE  Sampling'
<1> USE HookAssumption DEF HookAssumption
<1> DEFINE g == job[t].gen
<1>1. pc[t] = "capture" /\ UNCHANGED <<counter, gens, job, fileOpen>>
  BY DEF Capture, At, fileVars
<1>2. job[t].op = "A" /\ g \in 1..gens /\ g \in Gens /\ AfterHook(t) \in {"hand", "malloc"}
  BY <1>1 DEF IInv, JobShape, TypeOK, Gens, NoJob, AfterHook
<1>3. /\ \A u \in Threads \ {t} : pc'[u] = pc[u]
      /\ pc'[t] \in {"lock", "hand", "malloc"}
      /\ \A h \in Gens \ {g} : fate'[h] = fate[h]
      /\ fate'[g] \in {"wanted", "missed"}
  BY <1>2 DEF Capture, Goto, IInv, TypeOK
<1>4. \A u \in Threads : pc[u] = "capture" => job[u].op = "A"
  BY DEF IInv, JobShape
<1>5. \A u \in Threads \ {t} : job[u].op = "A" => job[u].gen # g
  BY <1>2 DEF Sampling
<1>6. /\ \A h : h # g => (BeingCaptured(h)' <=> BeingCaptured(h))
      /\ BeingCaptured(g)
  BY <1>1, <1>3 DEF BeingCaptured
<1>7. \A h \in 1..gens : h \in Gens
  BY DEF IInv, TypeOK, Gens
<1>8. Counted' = Counted /\ Chosen' = Chosen
  BY <1>1, <1>2, <1>3, <1>6, <1>7 DEF Counted, Chosen
<1>9. \A u \in Threads :
         pc'[u] \in {"gate", "count", "capture"} /\ job'[u].op = "A" =>
             fate'[job'[u].gen] = "open"
  <2> SUFFICES ASSUME NEW u \in Threads,
                      pc'[u] \in {"gate", "count", "capture"}, job[u].op = "A"
               PROVE  fate'[job[u].gen] = "open"
    BY <1>1
  <2>1. u # t
    BY <1>3
  <2>2. job[u].gen # g /\ fate[job[u].gen] = "open" /\ job[u].gen \in Gens
    BY <1>3, <1>5, <1>7, <2>1 DEF Sampling, IInv, JobShape, NoJob
  <2>3. QED
    BY <1>3, <2>2
<1>10. fileOpen' =>
         \A h \in 1..gens' : fate'[h] = "open" =>
             \E u \in Threads : /\ pc'[u] \in {"gate", "count", "capture"}
                                /\ job'[u].op = "A" /\ job'[u].gen = h
  <2> SUFFICES ASSUME fileOpen, NEW h \in 1..gens, fate'[h] = "open"
               PROVE  \E u \in Threads : /\ pc'[u] \in {"gate", "count", "capture"}
                                         /\ job[u].op = "A" /\ job[u].gen = h
    BY <1>1
  <2>1. h # g /\ fate[h] = "open"
    BY <1>3, <1>7
  <2>2. PICK u \in Threads : /\ pc[u] \in {"gate", "count", "capture"}
                             /\ job[u].op = "A" /\ job[u].gen = h
    BY <2>1 DEF Sampling
  <2>3. u # t
    BY <2>1, <2>2
  <2>4. QED
    BY <1>3, <2>2, <2>3
<1>11. \A h \in Gens : h > gens' => fate'[h] = "open"
  BY <1>1, <1>2, <1>3 DEF Sampling, IInv, TypeOK, Gens
<1>12. QED
  BY <1>1, <1>8, <1>9, <1>10, <1>11 DEF Sampling

LEMMA SamplingStep ==
    ASSUME IInv, Sampling, [Next]_vars
    PROVE  Sampling'
<1> USE DEF procVars, fileVars, sampleVars, heapVars, threadVars, signalVars
<1>1. CASE Environment
  <2>1. UNCHANGED <<counter, gens, fate, job, pc>>
    BY <1>1, EnvironmentFrame, ConstructFrame
  <2>2. fileOpen' => fileOpen \/ gens = 0
    BY <1>1 DEF Environment, Construct, ExitProcess, Kill, Deliver, vars, IInv, Finalizing
  <2>3. QED
    BY <2>1, <2>2, SamplingFrame DEF IInv
<1>2. CASE MainReturns
  <2>1. UNCHANGED <<counter, gens, fate, job, fileOpen>>
    BY <1>2 DEF MainReturns
  <2>2. pc[Main] = "user" /\ pc' = [pc EXCEPT ![Main] = "fini"]
    BY <1>2 DEF MainReturns, At, Goto
  <2>3. QED
    BY <2>1, <2>2, SamplingFrame DEF IInv, TypeOK
<1>3. ASSUME NEW t \in Threads, FinalizeStep(t) PROVE Sampling'
  <2>1. /\ UNCHANGED <<counter, gens, fate, job>> /\ (fileOpen' => fileOpen)
        /\ \/ pc' = pc
           \/ pc[t] = "fini" /\ pc' = [pc EXCEPT ![t] = "exit"]
    BY <1>3, FinalizeFrame DEF IInv
  <2>2. QED
    BY <2>1, SamplingFrame DEF IInv, TypeOK
<1>4. ASSUME NEW t \in Threads, Program(t) \/ HookStep(t) PROVE Sampling'
  <2>1. CASE Malloc(t)
    BY <2>1, SamplingMalloc
  <2>2. CASE Count(t)
    BY <2>2, SamplingCount
  <2>3. CASE Capture(t)
    BY <2>3, SamplingCapture
  <2>4. CASE Gate(t)
    <3>1. UNCHANGED <<counter, gens, fate, job, fileOpen>> /\ pc[t] = "gate"
      BY <2>4 DEF Gate, At
    <3>2. pc' = [pc EXCEPT ![t] = IF ~out THEN AfterHook(t)
                                  ELSE IF job[t].op = "A" THEN "count" ELSE "lock"]
      BY <2>4 DEF Gate, At, Goto, IInv, Guard, InCritical
    <3>3. AfterHook(t) \in {"free", "hand", "malloc"} /\ (fileOpen => out)
      BY DEF AfterHook, IInv, Finalizing
    <3>4. QED
      BY <3>1, <3>2, <3>3, SamplingFrame DEF IInv, TypeOK
  <2>5. CASE FreeCall(t)
    <3>1. UNCHANGED <<counter, gens, fate, fileOpen>> /\ pc[t] = "user"
      BY <2>5 DEF FreeCall, At
    <3>2. /\ pc' = [pc EXCEPT ![t] = IF Retained THEN "gate" ELSE "free"]
          /\ \E p \in held : job' = [job EXCEPT ![t] = [op |-> "F", ptr |-> p, gen |-> heap[p]]]
      BY <2>5 DEF FreeCall, Goto
    <3>3. QED
      BY <3>1, <3>2, SamplingFrame DEF IInv, TypeOK
  <2>6. CASE Lock(t) \/ Test(t) \/ WriteHead(t) \/ WriteTail(t) \/ Unlock(t)
    <3>1. /\ UNCHANGED <<counter, gens, fate, job, fileOpen>>
          /\ pc[t] \in {"lock", "test", "write", "tail", "unlock"}
          /\ \/ pc' = pc
             \/ \E l \in {"test", "write", "tail", "unlock", "free", "hand", "malloc"} :
                   pc' = [pc EXCEPT ![t] = l]
      BY <2>6 DEF Lock, Test, WriteHead, WriteTail, Unlock, At, Goto, AfterHook
    <3>2. QED
      BY <3>1, SamplingFrame DEF IInv, TypeOK
  <2>7. CASE HandOver(t) \/ LibcMalloc(t) \/ LibcFree(t)
    <3>1. /\ UNCHANGED <<counter, gens, fate, fileOpen>>
          /\ pc[t] \in {"hand", "malloc", "free"} /\ pc' = [pc EXCEPT ![t] = "user"]
          /\ job' = [job EXCEPT ![t] = NoJob]
      BY <2>7 DEF HandOver, LibcMalloc, LibcFree, At, Goto
    <3>2. QED
      BY <3>1, SamplingFrame DEF IInv, TypeOK, NoJob
  <2>8. QED
    BY <1>4, <2>1, <2>2, <2>3, <2>4, <2>5, <2>6, <2>7 DEF Program, HookStep
<1>5. QED
  BY <1>1, <1>2, <1>3, <1>4, StepCases

\* do_sample and parse_raw_stream: with every thread between two calls, what
\* the parser reports is the number of allocations, rounded up to a multiple of
\* the rate, for any rate and whatever the order of the threads.
THEOREM EstimateScaled == Spec => []ScaledEstimate
<1>1. Init => IInv /\ Sampling
  BY InitIInv, SamplingInit
<1>2. IInv /\ Sampling /\ [Next]_vars => IInv' /\ Sampling'
  BY NextIInv, SamplingStep
<1>3. IInv /\ Sampling => ScaledEstimate
  <2> SUFFICES ASSUME IInv, Sampling, fileOpen, \A t \in Threads : pc[t] = "user"
               PROVE  /\ gens <= Rate * Cardinality(Sampled)
                      /\ Rate * Cardinality(Sampled) < gens + Rate
    BY DEF ScaledEstimate
  <2>1. \A g : ~BeingCaptured(g)
    BY DEF BeingCaptured
  <2>2. Sampled = Chosen
    BY <2>1 DEF Sampled, Chosen
  <2>3. \A g \in 1..gens : fate[g] # "open"
    BY DEF Sampling
  <2>4. Counted = 1..gens
    BY <2>3 DEF Counted
  <2>5. Cardinality(1..gens) = gens
    BY FS_Interval, HookAssumption DEF HookAssumption, IInv, TypeOK
  <2>6. QED
    BY <2>2, <2>4, <2>5 DEF Sampling
<1>4. QED
  BY <1>1, <1>2, <1>3, PTL DEF Spec

(***************************************************************************)
(* Refinement of RetainedHeap.                                             *)
(***************************************************************************)

\* A step outside the hook and the patch starts or ends the recording, or is
\* invisible.
LEMMA PhaseStep ==
    ASSUME IInv, UNCHANGED <<heap, held, live>>,
           \/ Construct
           \/ /\ proc = "loading" /\ proc' # "loading" /\ fileOpen' = fileOpen
           \/ /\ proc # "loading" /\ proc' # "loading" /\ (fileOpen' => fileOpen)
           \/ /\ proc' = proc /\ fileOpen' = fileOpen
    PROVE  RH!Begin \/ RH!End \/ UNCHANGED RH!rhVars
BY DEF Construct, IInv, Finalizing, TypeOK, RH!Begin, RH!End, RH!rhVars, phase

\* A step of the program or of the hook does what the abstract heap allows.
LEMMA HeapStep ==
    ASSUME IInv, Retained, NEW t \in Threads, Program(t) \/ HookStep(t)
    PROVE  RH!RHNext \/ UNCHANGED RH!rhVars
<1> USE DEF procVars, fileVars, sampleVars, heapVars, threadVars, signalVars
<1>1. phase' = phase
  BY DEF Program, HookStep, Malloc, FreeCall, Gate, Count, Capture, Lock, Test, WriteHead,
         WriteTail, Unlock, HandOver, LibcMalloc, LibcFree, At, Runs, phase
<1>2. proc = "running"
  BY DEF Program, HookStep, Malloc, FreeCall, Gate, Count, Capture, Lock, Test, WriteHead,
         WriteTail, Unlock, HandOver, LibcMalloc, LibcFree, At, Runs
<1>3. CASE Malloc(t)
  <2>1. PICK p \in Ptrs : heap[p] = 0 /\ heap' = [heap EXCEPT ![p] = gens + 1]
    BY <1>3 DEF Malloc
  <2>2. held' = held /\ live' = live /\ gens + 1 \in 1..MaxAllocs
    BY <1>3, HookAssumption DEF HookAssumption, Malloc, IInv, TypeOK
  <2>3. \A q \in Ptrs : heap[q] < gens + 1 /\ live[q] < gens + 1
    BY HookAssumption DEF HookAssumption, IInv, Ownership, TypeOK
  <2>4. RH!Acquire(p, gens + 1)
    BY <1>1, <2>1, <2>2, <2>3 DEF RH!Acquire
  <2>5. QED
    BY <2>2, <2>4 DEF RH!RHNext
<1>4. CASE FreeCall(t)
  <2>1. PICK p \in held : held' = held \ {p} /\ heap' = heap /\ live' = live
    BY <1>4 DEF FreeCall
  <2>2. p \in Ptrs /\ RH!Retire(p)
    BY <1>1, <2>1 DEF RH!Retire, IInv, TypeOK
  <2>3. QED
    BY <2>2 DEF RH!RHNext
<1>5. CASE Gate(t) \/ Count(t) \/ Capture(t) \/ Lock(t) \/ Test(t) \/ WriteHead(t) \/ Unlock(t)
  <2>1. UNCHANGED <<heap, held, live>>
    BY <1>5 DEF Gate, Count, Capture, Lock, Test, WriteHead, Unlock
  <2>2. QED
    BY <1>1, <2>1 DEF RH!rhVars
<1>6. CASE WriteTail(t)
  <2> DEFINE p == job[t].ptr
  <2>1. /\ heap' = heap /\ held' = held /\ live' = Apply(live, job[t])
        /\ pc[t] = "tail" /\ frames[t] = <<>>
    BY <1>6 DEF WriteTail, At, Runs
  <2>2. fileOpen
    BY <2>1 DEF IInv, Finalizing
  <2>3. phase = "during"
    BY <1>2, <2>2 DEF phase
  <2>4. job[t] # NoJob /\ job[t].op \in {"A", "F"} /\ p \in Ptrs
    BY <2>1 DEF IInv, JobShape
  <2>5. heap[p] = job[t].gen /\ job[t].gen \in 1..gens /\ p \notin held
    BY <2>4 DEF IInv, Ownership, JobShape
  <2>6. heap[p] # 0
    BY <2>5, HookAssumption DEF HookAssumption, IInv, TypeOK
  <2>7. CASE job[t].op = "A"
    <3>1. live[p] = 0
      BY <2>1, <2>2, <2>4, <2>7 DEF IInv, Tracking
    <3>2. live' = [live EXCEPT ![p] = heap[p]]
      BY <2>1, <2>4, <2>5, <2>7, HookAssumption DEF HookAssumption, Apply
    <3>3. RH!Track(p)
      BY <1>1, <2>1, <2>3, <2>5, <2>6, <3>1, <3>2 DEF RH!Track
    <3>4. QED
      BY <2>4, <3>3 DEF RH!RHNext
  <2>8. CASE job[t].op = "F"
    <3>1. live' = [live EXCEPT ![p] = 0]
      BY <2>1, <2>8 DEF Apply
    <3>2. RH!Untrack(p)
      BY <1>1, <2>1, <2>3, <2>5, <2>6, <3>1 DEF RH!Untrack
    <3>3. QED
      BY <2>4, <3>2 DEF RH!RHNext
  <2>9. QED
    BY <2>4, <2>7, <2>8
<1>7. CASE HandOver(t)
  <2> DEFINE p == job[t].ptr
  <2>1. /\ heap' = heap /\ live' = live /\ held' = held \cup {p} /\ pc[t] = "hand"
    BY <1>7 DEF HandOver, At
  <2>2. p \in Ptrs /\ p \notin held /\ heap[p] = job[t].gen /\ job[t].gen \in 1..gens
    BY <2>1 DEF IInv, JobShape, Ownership, NoJob
  <2>3. RH!Use(p)
    BY <1>1, <2>1, <2>2, HookAssumption DEF HookAssumption, RH!Use, IInv, TypeOK
  <2>4. QED
    BY <2>2, <2>3 DEF RH!RHNext
<1>8. CASE LibcMalloc(t)
  BY <1>8 DEF LibcMalloc, At, IInv, JobShape
<1>9. CASE LibcFree(t)
  <2> DEFINE p == job[t].ptr
  <2>1. held' = held /\ live' = live /\ heap' = [heap EXCEPT ![p] = 0] /\ pc[t] = "free"
    BY <1>9 DEF LibcFree, At
  <2>2. p \in Ptrs /\ p \notin held /\ heap[p] = job[t].gen /\ job[t].gen \in 1..gens
    BY <2>1 DEF IInv, JobShape, Ownership, NoJob
  <2>3. phase = "during" => live[p] = 0
    BY <1>2, <2>1, <2>2 DEF IInv, JobShape, Tracking, phase
  <2>4. RH!Release(p)
    BY <1>1, <2>1, <2>2, <2>3, HookAssumption DEF HookAssumption, RH!Release, IInv, TypeOK
  <2>5. QED
    BY <2>2, <2>4 DEF RH!RHNext
<1>10. QED
  BY <1>3, <1>4, <1>5, <1>6, <1>7, <1>8, <1>9 DEF Program, HookStep

\* In retained mode, with any number of threads, addresses and signals, what
\* the hook and the patch do is what the abstract retained heap promises.
THEOREM Refinement == Retained => (Spec => ImplementsRetainedHeap)
<1> SUFFICES ASSUME Retained PROVE Spec => ImplementsRetainedHeap
  OBVIOUS
<1>1. Init => RH!RHInit
  BY DEF Init, RH!RHInit, phase
<1>2. IInv /\ [Next]_vars => [RH!RHNext]_(RH!rhVars)
  <2> SUFFICES ASSUME IInv, [Next]_vars
               PROVE  RH!RHNext \/ UNCHANGED RH!rhVars
    OBVIOUS
  <2> USE DEF procVars, fileVars, sampleVars, heapVars, threadVars, signalVars
  <2>1. CASE Environment
    <3>1. UNCHANGED <<heap, held, live>>
      BY <2>1, EnvironmentFrame, ConstructFrame
    <3>2. Construct \/ fileOpen' = fileOpen
      BY <2>1 DEF Environment, ExitProcess, Kill, Deliver, vars
    <3>3. Construct \/ proc' = proc \/ proc' # "loading"
      BY <2>1 DEF Environment, ExitProcess, Kill, Deliver, vars
    <3>4. RH!Begin \/ RH!End \/ UNCHANGED RH!rhVars
      BY <3>1, <3>2, <3>3, PhaseStep
    <3>5. QED
      BY <3>4 DEF RH!RHNext
  <2>2. CASE MainReturns
    <3>1. UNCHANGED <<heap, held, live, proc, fileOpen>>
      BY <2>2 DEF MainReturns
    <3>2. QED
      BY <3>1 DEF RH!rhVars, phase
  <2>3. ASSUME NEW t \in Threads, FinalizeStep(t)
        PROVE  RH!RHNext \/ UNCHANGED RH!rhVars
    <3>1. UNCHANGED <<heap, held, live>> /\ (fileOpen' => fileOpen)
      BY <2>3, FinalizeFrame DEF IInv
    <3>2. proc # "loading" /\ proc' # "loading"
      BY <2>3 DEF FinalizeStep, CheckFinished, SetFinished, Flush, Close, ClearOut,
                  FrameReturn, OnClosedFile, FrameAt
    <3>3. RH!Begin \/ RH!End \/ UNCHANGED RH!rhVars
      BY <3>1, <3>2, PhaseStep
    <3>4. QED
      BY <3>3 DEF RH!RHNext
  <2>4. ASSUME NEW t \in Threads, Program(t) \/ HookStep(t)
        PROVE  RH!RHNext \/ UNCHANGED RH!rhVars
    BY <2>4, HeapStep
  <2>5. QED
    BY <2>1, <2>2, <2>3, <2>4, StepCases
<1>3. QED
  BY <1>1, <1>2, Invariance, PTL DEF Spec, ImplementsRetainedHeap, RH!RHSpec

-----------------------------------------------------------------------------
\* The rules of the abstract retained heap are enough for the profile never to
\* name an owner that the address has lost.
THEOREM TrueOwners == RH!RHSpec => []RH!TrueOwner
<1>1. RH!RHInit => RH!RHInv
  BY DEF RH!RHInit, RH!RHInv, RH!TrueOwner
<1>2. RH!RHInv /\ [RH!RHNext]_RH!rhVars => RH!RHInv'
  <2> SUFFICES ASSUME RH!RHInv, [RH!RHNext]_RH!rhVars PROVE RH!RHInv'
    OBVIOUS
  <2> USE DEF RH!RHInv, RH!TrueOwner
  <2>1. CASE RH!Begin
    BY <2>1 DEF RH!Begin
  <2>2. CASE RH!End
    BY <2>2 DEF RH!End
  <2>3. ASSUME NEW p \in Ptrs, NEW g \in 1..MaxAllocs, RH!Acquire(p, g) PROVE RH!RHInv'
    BY <2>3 DEF RH!Acquire
  <2>4. ASSUME NEW p \in Ptrs, RH!Track(p) PROVE RH!RHInv'
    BY <2>4 DEF RH!Track
  <2>5. ASSUME NEW p \in Ptrs, RH!Use(p) \/ RH!Retire(p) PROVE RH!RHInv'
    BY <2>5 DEF RH!Use, RH!Retire
  <2>6. ASSUME NEW p \in Ptrs, RH!Untrack(p) PROVE RH!RHInv'
    BY <2>6 DEF RH!Untrack
  <2>7. ASSUME NEW p \in Ptrs, RH!Release(p) PROVE RH!RHInv'
    BY <2>7 DEF RH!Release
  <2>8. CASE UNCHANGED RH!rhVars
    BY <2>8 DEF RH!rhVars
  <2>9. QED
    BY <2>1, <2>2, <2>3, <2>4, <2>5, <2>6, <2>7, <2>8 DEF RH!RHNext
<1>3. RH!RHInv => RH!TrueOwner
  BY DEF RH!RHInv
<1>4. QED
  BY <1>1, <1>2, <1>3, PTL DEF RH!RHSpec
=============================================================================
