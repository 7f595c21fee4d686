---------------------------- MODULE GuestProfile ----------------------------
(***************************************************************************)
(* `moon-pprof profile` (cmd_profile.rs) and the wasmtime-guest-pprof      *)
(* crate: a ticker thread increments the engine's epoch; compiled guest    *)
(* code compares the epoch with the store's deadline at every function     *)
(* entry and loop; past it, a callback takes the profiler out of the       *)
(* store, samples, puts it back and moves the deadline.                    *)
(*                                                                         *)
(* The owner thread calls the guest a number of times, stops the ticker    *)
(* and turns the session into a profile.                                   *)
(***************************************************************************)
EXTENDS Naturals, Sequences

CONSTANTS Iterations,  \* --iterations
          MaxTicks,    \* bound: ticks before the ticker is told to stop
          None         \* no profile

ASSUME GuestAssumption == Iterations \in Nat /\ MaxTicks \in Nat

VARIABLES
    pc,        \* where the owner thread is
    profiling, \* not --no-profile
    calls,     \* calls of _start that returned
    session,   \* the profiler: in the session, out in the callback, or gone
    epoch,     \* the engine's epoch
    deadline,  \* the store's deadline
    samples,   \* the epoch each sample was taken in
    ticker,    \* the ticker thread: off, check, sleep, ended
    stop,      \* EpochTicker::stop
    failing,   \* `?` is unwinding the owner
    profile    \* what was written to --out

storeVars == <<session, deadline, samples>>
tickerVars == <<epoch, ticker>>
ownerVars == <<calls, failing, profile>>
vars == <<pc, profiling, storeVars, tickerVars, stop, ownerVars>>

TypeOK ==
    /\ pc \in {"new", "ready", "guest", "callback", "sampled", "drop", "join",
               "finish", "write", "done"}
    /\ profiling \in BOOLEAN
    /\ calls \in 0..Iterations
    /\ session \in {"in", "out", "gone"}
    /\ epoch \in Nat
    /\ deadline \in Nat
    /\ samples \in Seq(Nat)
    /\ ticker \in {"off", "check", "sleep", "ended"}
    /\ stop \in BOOLEAN
    /\ failing \in BOOLEAN
    /\ profile = None \/ profile \in Seq(Nat)

Init ==
    /\ pc = "new" /\ profiling \in BOOLEAN
    /\ calls = 0 /\ failing = FALSE /\ profile = None
    /\ session = "in" /\ deadline = 0 /\ samples = <<>>
    /\ epoch = 0 /\ ticker = "off" /\ stop = FALSE

-----------------------------------------------------------------------------
(* The owner thread.                                                       *)

\* install() and start_ticker(); then the instance is made, or fails to be.
Start ==
    /\ pc = "new"
    /\ deadline' = IF profiling THEN epoch + 1 ELSE deadline
    /\ ticker' = IF profiling THEN "check" ELSE "off"
    /\ failing' \in BOOLEAN
    /\ pc' = IF failing' THEN "drop" ELSE "ready"
    /\ UNCHANGED <<profiling, calls, profile, session, samples, epoch, stop>>

Call ==
    /\ pc = "ready"
    /\ pc' = IF calls < Iterations THEN "guest" ELSE "drop"
    /\ UNCHANGED <<profiling, storeVars, tickerVars, stop, ownerVars>>

Return ==
    /\ pc = "guest"
    /\ calls' = calls + 1
    /\ pc' = "ready"
    /\ UNCHANGED <<profiling, storeVars, tickerVars, stop, failing, profile>>

\* A trap: start.call()? ends run(), which drops the ticker on the way.
Trap ==
    /\ pc = "guest"
    /\ failing' = TRUE
    /\ pc' = "drop"
    /\ UNCHANGED <<profiling, storeVars, tickerVars, stop, calls, profile>>

\* The check in compiled code, which --no-profile leaves out, and
\* profiler().take(), which finds the profiler in the session: finish_session
\* comes after the last call, so that the branch for a missing one is never
\* taken and left out.
EnterCallback ==
    /\ pc = "guest"
    /\ profiling /\ epoch >= deadline
    /\ session = "in"
    /\ session' = "out"
    /\ pc' = "callback"
    /\ UNCHANGED <<profiling, deadline, samples, tickerVars, stop, ownerVars>>

Sample ==
    /\ pc = "callback"
    /\ samples' = Append(samples, epoch)
    /\ pc' = "sampled"
    /\ UNCHANGED <<profiling, session, deadline, tickerVars, stop, ownerVars>>

\* Mutant: UpdateDeadline::Continue(0).
ContinueNow ==
    /\ pc = "sampled"
    /\ session' = "in"
    /\ deadline' = epoch
    /\ pc' = "guest"
    /\ UNCHANGED <<profiling, samples, tickerVars, stop, ownerVars>>

\* Mutant: the callback goes on without put_back().
ContinueWithout ==
    /\ pc = "sampled"
    /\ deadline' = epoch + 1
    /\ pc' = "guest"
    /\ UNCHANGED <<profiling, session, samples, tickerVars, stop, ownerVars>>

\* put_back(), and UpdateDeadline::Continue(1): one past the epoch of now.
Continue ==
    /\ pc = "sampled"
    /\ session' = "in"
    /\ deadline' = epoch + 1
    /\ pc' = "guest"
    /\ UNCHANGED <<profiling, samples, tickerVars, stop, ownerVars>>

\* Mutant: the thread is joined, but nobody told it to stop.
DropSilent ==
    /\ pc = "drop"
    /\ pc' = "join"
    /\ UNCHANGED <<profiling, storeVars, tickerVars, stop, ownerVars>>

\* Drop for EpochTicker, if there is one.
Drop ==
    /\ pc = "drop"
    /\ stop' = (ticker # "off")
    /\ pc' = "join"
    /\ UNCHANGED <<profiling, storeVars, tickerVars, ownerVars>>

\* Mutant: the thread is told to stop and left alone.
JoinNothing ==
    /\ pc = "join"
    /\ pc' = IF failing \/ ~profiling THEN "done" ELSE "finish"
    /\ UNCHANGED <<profiling, storeVars, tickerVars, stop, ownerVars>>

Join ==
    /\ pc = "join"
    /\ ticker \in {"off", "ended"}
    /\ pc' = IF failing \/ ~profiling THEN "done" ELSE "finish"
    /\ UNCHANGED <<profiling, storeVars, tickerVars, stop, ownerVars>>

\* take_session() and into_json(): an error if the profiler is out.
Finish ==
    /\ pc = "finish"
    /\ session' = "gone"
    /\ IF session = "in" THEN pc' = "write" /\ UNCHANGED failing
                         ELSE pc' = "done" /\ failing' = TRUE
    /\ UNCHANGED <<profiling, deadline, samples, tickerVars, stop, calls, profile>>

\* --json-out, the conversion and --out, each of which may fail.
Write ==
    /\ pc = "write"
    /\ \/ profile' = samples /\ UNCHANGED failing
       \/ failing' = TRUE /\ UNCHANGED profile
    /\ pc' = "done"
    /\ UNCHANGED <<profiling, storeVars, tickerVars, stop, calls>>

-----------------------------------------------------------------------------
(* The ticker thread.                                                      *)

\* while !stop
Check ==
    /\ ticker = "check"
    /\ ticker' = IF stop THEN "ended" ELSE "sleep"
    /\ UNCHANGED <<pc, profiling, storeVars, epoch, stop, ownerVars>>

\* sleep(interval) is over: increment_epoch(), whatever the flag says by now.
Tick ==
    /\ ticker = "sleep"
    /\ epoch < MaxTicks \/ stop
    /\ epoch' = epoch + 1
    /\ ticker' = "check"
    /\ UNCHANGED <<pc, profiling, storeVars, stop, ownerVars>>

-----------------------------------------------------------------------------
Guest == EnterCallback \/ Return \/ Trap

Owner ==
    \/ Start \/ Call \/ Sample \/ Continue \/ Drop \/ Join \/ Finish \/ Write

Next == Owner \/ Guest \/ Check \/ Tick

Spec == Init /\ [][Next]_vars

\* Both threads are scheduled.  Guest code need not return.
FairSpec == Spec /\ WF_vars(Owner) /\ WF_vars(Check) /\ WF_vars(Tick)

-----------------------------------------------------------------------------
\* However ticks, checks and samples interleave, no tick is sampled twice:
\* the samples are of different epochs, in order.
OneSamplePerTick == \A i \in 1..(Len(samples) - 1) : samples[i] < samples[i + 1]

\* "profiler was taken but never returned" cannot happen.
ProfilerReturned == pc = "finish" => session = "in"

\* Once the ticker has been dropped, the engine's epoch stands still: the last
\* tick, after the flag was set, comes before drop returns.
NoTickAfterDrop == [][(pc \in {"finish", "write", "done"}) => UNCHANGED epoch]_vars

\* Dropping the ticker does not hang, whatever the ticker was doing.
DropEnds == pc = "join" ~> pc = "done"
=============================================================================
