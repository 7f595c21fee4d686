--------------------------- MODULE NativeHookInv ---------------------------
(***************************************************************************)
(* The inductive invariant of NativeHook, in parts: what a hook call is    *)
(* about and at which point (JobShape), that an address in a call is in    *)
(* the hands of that call alone (Ownership), the two locks (Locks), the    *)
(* stacks of finalizers (Finalizing), the reentrancy guard (Guard) and     *)
(* what the parser's map says of an address (Tracking).  On top of it: the *)
(* framing of the stream (Framed), what the map has (Recorded), the state  *)
(* of the FILE under the first finalizer (OneFinalizer) and what the       *)
(* counter has counted (Sampling).                                         *)
(***************************************************************************)
EXTENDS NativeHook

InCritical == {"test", "write", "tail", "unlock"}

\* The record of each call fits the point the call has reached.
JobShape ==
    \A t \in Threads :
        /\ pc[t] \in {"user", "fini", "exit"} <=> job[t] = NoJob
        /\ pc[t] \in {"count", "capture", "hand", "malloc"} => job[t].op = "A"
        /\ pc[t] = "free" => job[t].op = "F"
        /\ pc[t] = "hand" => Retained
        /\ pc[t] = "malloc" => ~Retained
        /\ job[t] # NoJob => job[t].op \in {"A", "F"} /\ job[t].gen \in 1..gens
        /\ job[t].op = "A" => (job[t].ptr \in Ptrs <=> Retained)
        /\ job[t].op = "F" => job[t].ptr \in Ptrs
        /\ job[t].op = "F" /\ pc[t] # "free" => Retained

\* The program's addresses are owned, and an address a call is about is owned
\* by the allocation of that call and is in no other hands.
Ownership ==
    /\ \A p \in Ptrs : heap[p] <= gens /\ live[p] <= gens
    /\ \A p \in held : heap[p] # 0
    /\ \A t \in Threads :
          job[t].ptr \in Ptrs =>
              /\ heap[job[t].ptr] = job[t].gen
              /\ job[t].ptr \notin held
    /\ \A t, u \in Threads :
          t # u /\ job[t].ptr \in Ptrs => job[t].ptr # job[u].ptr

\* Who is in the second critical section has the mutex, and who is inside
\* fwrite has the lock of the FILE.
Locks ==
    /\ \A t \in Threads : pc[t] \in InCritical <=> mu = t
    /\ \A t \in Threads : pc[t] = "tail" <=> fileOwner = t

\* The destructor runs below every signal handler, on a thread with no code of
\* its own left; the pointer outlives the FILE; a record interrupted in the
\* middle by the handler that closed the FILE is never resumed.
Finalizing ==
    /\ proc = "loading" =>
           /\ ~fileOpen
           /\ \A t \in Threads : frames[t] = <<>> /\ pc[t] = "user"
           /\ \A p \in Ptrs : live[p] = 0
           /\ stream = <<>>
           /\ gens = 0
    /\ fileOpen => out
    /\ \A t \in Threads : \A i \in 1..Len(frames[t]) :
          /\ frames[t][i].at = "null" => ~fileOpen
          /\ frames[t][i].kind = "fini" => i = 1 /\ pc[t] = "fini"
    /\ \A t \in Threads : pc[t] = "tail" /\ ~fileOpen => frames[t] # <<>>

\* The reentrancy guard is set inside the hook and nowhere else.
Guard ==
    \A t \in Threads :
        inHook[t] <=> pc[t] \in {"count", "capture", "lock"} \cup InCritical

\* While the FILE is open, the parser's map names the true owner of every
\* address it has, and has none of the addresses about to be recorded or
\* about to be released.
Tracking ==
    fileOpen =>
        /\ \A p \in Ptrs : live[p] # 0 => heap[p] = live[p] /\ Retained
        /\ \A t \in Threads :
              job[t].ptr \in Ptrs /\ live[job[t].ptr] # 0 =>
                  IF job[t].op = "A" THEN pc[t] \in {"unlock", "hand"}
                                     ELSE pc[t] \notin {"unlock", "free"}

\* The stream ends in the first half of a record exactly when some thread is
\* inside fwrite, and then it is that thread's record.
Framed ==
    /\ Framing
    /\ Len(stream) % 2 = 1 <=> fileOwner # None
    /\ \A t \in Threads : fileOwner = t => stream[Len(stream)].rec = job[t]

\* While the FILE is open, a sampled allocation is in the parser's map from
\* the end of its hook call to the record of its free.
Recorded ==
    Retained =>
        /\ \A p, q \in Ptrs : heap[p] = heap[q] /\ heap[p] # 0 => p = q
        /\ fileOpen =>
            /\ \A p \in held : fate[heap[p]] = "wanted" => live[p] = heap[p]
            /\ \A t \in Threads :
                  /\ pc[t] \in {"unlock", "hand"} /\ job[t].op = "A"
                  /\ fate[job[t].gen] = "wanted"
                  => live[job[t].ptr] = job[t].gen
        /\ \A g \in Gens : g > gens => fate[g] = "open"
        /\ \A t \in Threads :
              pc[t] \in {"gate", "count", "capture"} /\ job[t].op = "A" =>
                  fate[job[t].gen] = "open"

\* How far a finalizer that no other one meets has come with the FILE: it does
\* not find it closed, and leaves it complete.
Progress(l) ==
    /\ l \in {"check", "set"} => ~finished /\ out = recording /\ fileOpen = recording
    /\ l \in {"flush", "close"} => out /\ fileOpen
    /\ l \in {"null", "return"} => ~fileOpen /\ flushed = Len(stream)

\* The only finalizer there is runs on this thread.
Lone(t, kind) ==
    /\ \A u \in Threads \ {t} : frames[u] = <<>>
    /\ Len(frames[t]) = 1
    /\ frames[t][1].kind = kind
    /\ Progress(frames[t][1].at)

Leaving == pc[Main] \in {"fini", "exit"}

\* What is known of the FILE while no finalizer has started, while the only
\* one is the destructor's, and while it is one signal's.
OneFinalizer ==
    /\ IsFiniteSet(sent)
    /\ proc = "loading" => sent = {}
    /\ ~recording => ~out /\ stream = <<>>
    /\ sent = {} /\ ~Leaving =>
           /\ \A t \in Threads : frames[t] = <<>>
           /\ ~finished /\ out = recording /\ fileOpen = recording
    /\ sent = {} /\ pc[Main] = "fini" => Lone(Main, "fini")
    /\ sent = {} /\ pc[Main] = "exit" =>
           /\ \A t \in Threads : frames[t] = <<>>
           /\ Progress("return")
    /\ \A s \in Signals : sent = {s} /\ ~Leaving =>
           proc = "killed" \/ \E t \in Threads : Lone(t, "signal")
    /\ proc = "exited" =>
           \/ pc[Main] = "exit"
           \/ \E t \in Threads : frames[t] # <<>> /\ frames[t][Len(frames[t])].at = "return"

\* The allocations the counter has counted, and those of them that were chosen.
BeingCaptured(g) == \E t \in Threads : pc[t] = "capture" /\ job[t].gen = g
Counted == {g \in 1..gens : fate[g] # "open" \/ BeingCaptured(g)}
Chosen == {g \in 1..gens : fate[g] \in {"wanted", "missed"} \/ BeingCaptured(g)}

\* Each allocation is counted once, in whatever order the threads come to the
\* counter, and while the FILE is open none is left out; the chosen ones are
\* one in Rate, the first of every Rate.
Sampling ==
    /\ \A t, u \in Threads :
          t # u /\ job[t].op = "A" /\ job[u].op = "A" => job[t].gen # job[u].gen
    /\ \A g \in Gens : g > gens => fate[g] = "open"
    /\ \A t \in Threads :
          pc[t] \in {"gate", "count", "capture"} /\ job[t].op = "A" =>
              fate[job[t].gen] = "open"
    /\ fileOpen =>
          \A g \in 1..gens : fate[g] = "open" =>
              \E t \in Threads : /\ pc[t] \in {"gate", "count", "capture"}
                                 /\ job[t].op = "A" /\ job[t].gen = g
    /\ Cardinality(Counted) = counter
    /\ counter <= Rate * Cardinality(Chosen)
    /\ Rate * Cardinality(Chosen) < counter + Rate

IInv ==
    /\ TypeOK
    /\ JobShape
    /\ Ownership
    /\ Locks
    /\ Finalizing
    /\ Guard
    /\ Tracking

-----------------------------------------------------------------------------
(* The abstract retained heap in the state of the hook.                    *)

phase ==
    CASE proc = "loading" -> "before"
      [] proc # "loading" /\ fileOpen -> "during"
      [] OTHER -> "after"

RH == INSTANCE RetainedHeap
          WITH owner <- heap, used <- held, tracked <- live

\* In retained mode the hook, the patch and the allocator implement the
\* abstract retained heap: whatever the threads and the finalizers do, the
\* parser's map changes at an address only on behalf of the one call that has
\* the address to itself, and only while the FILE is open.
ImplementsRetainedHeap == RH!RHSpec
=============================================================================
