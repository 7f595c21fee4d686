---------------------------- MODULE NativeDriver ----------------------------
(***************************************************************************)
(* `moon-pprof memprofile-native` (cmd_memprofile_native.rs): build, patch *)
(* and relink the program, run it with the raw stream directed to a file   *)
(* named after the driver's own process, stop it after --duration seconds  *)
(* from a timer thread, and turn the raw stream into a pprof.              *)
(*                                                                         *)
(* Driver processes run one after the other, the next one after the last   *)
(* has returned or been killed; the children of killed drivers live on.    *)
(* Process numbers are reused.  A file is an inode with a name in TMPDIR;  *)
(* unlinking the name leaves the inode to the process that has it open.    *)
(***************************************************************************)
EXTENDS Naturals, FiniteSets

CONSTANTS Pids,     \* process numbers
          MaxRuns,  \* bound: driver processes in one behaviour
          None      \* no process number, no profile

ASSUME DriverAssumption == None \notin Pids /\ MaxRuns \in Nat

Runs == 1..MaxRuns

VARIABLES
    pc,        \* where the current driver is
    cur,       \* the number of the current driver, 0 before the first
    me,        \* its process number
    duration,  \* --duration was given
    exe,       \* the run that last linked {cmd}.memprof.exe
    child,     \* the child of each run: none, running, returning or handling
               \* (in its finalizer), zombie or gone
    cpid,      \* its process number
    build,     \* the run whose exe it executes
    opened,    \* the inode it has open for its raw stream, 0 if none
    signalled, \* a SIGTERM or SIGINT it has not acted on yet
    status,    \* how the current run's child ended, and (history) whether
    disturbed, \* somebody but the driver sent it a signal
    timer,     \* the timer thread: off, sleeping, done
    others,    \* process numbers held by processes that are nothing to us
    name,      \* the inode behind moon-pprof-native-raw.{pid}.bin, 0 if none
    writers,   \* per inode: the runs whose children wrote what it contains
    whole,     \* per inode: the stream was flushed to its end
    out        \* the profile at --out

driverVars == <<pc, cur, me, duration>>
childVars == <<child, cpid, build, opened, signalled, disturbed, status>>
fileVars == <<name, writers, whole>>
vars == <<driverVars, exe, childVars, timer, others, fileVars, out>>

Ended == {"idle", "done", "bailed", "killed"}

\* All drivers have run (bound); other processes are of no interest then.
Over == pc \in Ended /\ cur = MaxRuns

Closing == {"returning", "handling"}
Alive(r) == child[r] \in Closing \cup {"running"}
Present(r) == Alive(r) \/ child[r] = "zombie"

\* The process numbers in use: a zombie keeps its number until it is reaped.
Taken ==
    others \cup {cpid[r] : r \in {q \in Runs : Present(q)}}
           \cup (IF pc \in Ended THEN {} ELSE {me})

Init ==
    /\ pc = "idle" /\ cur = 0 /\ me = None /\ duration = FALSE
    /\ exe = 0
    /\ child = [r \in Runs |-> "none"]
    /\ cpid = [r \in Runs |-> None]
    /\ build = [r \in Runs |-> 0]
    /\ opened = [r \in Runs |-> 0]
    /\ signalled = [r \in Runs |-> FALSE]
    /\ status = "none" /\ disturbed = FALSE
    /\ timer = "off"
    /\ others = {}
    /\ name = [p \in Pids |-> 0]
    /\ writers = [r \in Runs |-> {}]
    /\ whole = [r \in Runs |-> FALSE]
    /\ out = None

-----------------------------------------------------------------------------
(* The driver.                                                             *)

\* Someone runs moon-pprof: a new process with a number nobody has.
Start ==
    /\ pc \in Ended
    /\ cur < MaxRuns
    /\ cur' = cur + 1
    /\ me' \in Pids \ Taken
    /\ duration' \in BOOLEAN
    /\ timer' = "off"
    /\ pc' = "build"
    /\ status' = "none" /\ disturbed' = FALSE
    /\ UNCHANGED <<exe, child, cpid, build, opened, signalled, others, fileVars, out>>

\* A step of run() that changes nothing outside the driver: it goes on, or
\* `?` or bail! ends the run.
Step(from, to) ==
    /\ pc = from
    /\ pc' \in {to, "bailed"}
    /\ UNCHANGED <<cur, me, duration, exe, childVars, timer, others, fileVars, out>>

\* moon build, and the cc command from its dry run.
Build == Step("build", "patch")

\* Patch the generated C and compile the hook.
Patch == Step("patch", "link")

\* Mutant: the exit status of the relink is not looked at.
LinkUnchecked ==
    /\ pc = "link"
    /\ pc' = "clean"
    /\ exe' \in {exe, cur}
    /\ UNCHANGED <<cur, me, duration, childVars, timer, others, fileVars, out>>

\* Relink: a linker that fails leaves the executable of an earlier run, or none.
Link ==
    /\ pc = "link"
    /\ \/ pc' = "clean" /\ exe' = cur
       \/ pc' = "bailed" /\ exe' \in {exe, 0}
    /\ UNCHANGED <<cur, me, duration, childVars, timer, others, fileVars, out>>

\* Mutant: the raw stream of a former driver with this number is left there.
CleanNothing ==
    /\ pc = "clean"
    /\ pc' = "spawn"
    /\ UNCHANGED <<cur, me, duration, exe, childVars, timer, others, fileVars, out>>

\* fs::remove_file: the name goes, an orphan's open inode stays.
Clean ==
    /\ pc = "clean"
    /\ pc' = "spawn"
    /\ name' = [name EXCEPT ![me] = 0]
    /\ UNCHANGED <<cur, me, duration, exe, childVars, timer, others, writers, whole, out>>

\* Spawn the child; with --duration a thread starts to sleep.
Spawn ==
    /\ pc = "spawn"
    /\ \/ /\ pc' = "wait"
          /\ \E p \in Pids \ Taken : cpid' = [cpid EXCEPT ![cur] = p]
          /\ child' = [child EXCEPT ![cur] = "running"]
          /\ build' = [build EXCEPT ![cur] = exe]
          /\ timer' = IF duration THEN "sleeping" ELSE "off"
       \/ pc' = "bailed" /\ UNCHANGED <<cpid, child, build, timer>>
    /\ UNCHANGED <<cur, me, duration, exe, opened, signalled, disturbed, status, others,
                   fileVars, out>>

\* Mutant: the thread ends without a signal.
TimerSilent ==
    /\ pc \in {"wait", "join"}
    /\ timer = "sleeping"
    /\ timer' = "done"
    /\ UNCHANGED <<driverVars, exe, childVars, others, fileVars, out>>

\* The timer thread wakes up and sends SIGTERM to the number it was given,
\* whoever has it by now.
TimerFires ==
    /\ pc \in {"wait", "join"}
    /\ timer = "sleeping"
    /\ timer' = "done"
    /\ signalled' = [r \in Runs |->
                        signalled[r] \/ (Alive(r) /\ cpid[r] = cpid[cur])]
    /\ UNCHANGED <<driverVars, exe, child, cpid, build, opened, disturbed, status, others,
                   fileVars, out>>

\* child.wait() returns and the number is free again.
Reap ==
    /\ pc = "wait"
    /\ child[cur] = "zombie"
    /\ child' = [child EXCEPT ![cur] = "gone"]
    /\ pc' = IF duration THEN "join" ELSE "status"
    /\ UNCHANGED <<cur, me, duration, exe, cpid, build, opened, signalled, disturbed, status,
                   timer, others, fileVars, out>>

Join ==
    /\ pc = "join"
    /\ timer = "done"
    /\ pc' = "status"
    /\ UNCHANGED <<cur, me, duration, exe, childVars, timer, others, fileVars, out>>

\* Mutant: the run goes on to the raw stream whatever the status was.
CheckNothing ==
    /\ pc = "status"
    /\ pc' = "exists"
    /\ UNCHANGED <<cur, me, duration, exe, childVars, timer, others, fileVars, out>>

Success == status \in {"ok", "cut"}

\* if !run_status.success() && args.duration == 0 { bail! }
CheckStatus ==
    /\ pc = "status"
    /\ pc' = IF ~Success /\ ~duration THEN "bailed" ELSE "exists"
    /\ UNCHANGED <<cur, me, duration, exe, childVars, timer, others, fileVars, out>>

CheckRaw ==
    /\ pc = "exists"
    /\ pc' = IF name[me] = 0 THEN "bailed" ELSE "parse"
    /\ UNCHANGED <<cur, me, duration, exe, childVars, timer, others, fileVars, out>>

Parse == Step("parse", "write")

\* Write the pprof of what the raw file held when it was read.
Write ==
    /\ pc = "write"
    /\ \/ /\ pc' = "cleanup"
          /\ out' = [run |-> cur, build |-> build[cur], writers |-> writers[name[me]],
                     whole |-> whole[name[me]], duration |-> duration,
                     disturbed |-> disturbed, end |-> status]
       \/ pc' = "bailed" /\ UNCHANGED out
    /\ UNCHANGED <<cur, me, duration, exe, childVars, timer, others, fileVars>>

Cleanup ==
    /\ pc = "cleanup"
    /\ pc' = "done"
    /\ name' = [name EXCEPT ![me] = 0]
    /\ UNCHANGED <<cur, me, duration, exe, childVars, timer, others, writers, whole, out>>

\* The driver alone is killed: no cleanup, the child becomes an orphan.
DriverKilled ==
    /\ pc \notin Ended
    /\ pc' = "killed"
    /\ child' = [child EXCEPT ![cur] = IF @ = "zombie" THEN "gone" ELSE @]
    /\ UNCHANGED <<cur, me, duration, exe, cpid, build, opened, signalled, disturbed, status,
                   timer, others, fileVars, out>>

-----------------------------------------------------------------------------
(* The children and the rest of the system.                                *)

\* mpprof_init opens the file of the driver that started it: a new inode, or
\* the one behind the name, emptied.  fopen may fail.  (The constructor of an
\* orphan is not delayed past the builds of the next driver with its number.)
ChildOpens(r) ==
    /\ child[r] = "running" /\ r = cur /\ pc \notin Ended
    /\ opened[r] = 0
    /\ LET i == IF name[me] = 0 THEN r ELSE name[me]
       IN  /\ name' = [name EXCEPT ![me] = i]
           /\ opened' = [opened EXCEPT ![r] = i]
           /\ writers' = [writers EXCEPT ![i] = {}]
           /\ whole' = [whole EXCEPT ![i] = FALSE]
    /\ UNCHANGED <<driverVars, exe, child, cpid, build, signalled, disturbed, status, timer,
                   others, out>>

\* A full stdio buffer goes to the file.
ChildWrites(r) ==
    /\ Alive(r)
    /\ opened[r] # 0
    /\ writers' = [writers EXCEPT ![opened[r]] = @ \cup {r}]
    /\ UNCHANGED <<driverVars, exe, childVars, timer, others, name, whole, out>>

\* kill or ^C from elsewhere reaches the child that the driver waits for.
Disturb(r) ==
    /\ r = cur /\ pc = "wait" /\ Alive(r)
    /\ signalled' = [signalled EXCEPT ![r] = TRUE]
    /\ disturbed' = TRUE
    /\ UNCHANGED <<driverVars, exe, child, cpid, build, opened, status, timer, others,
                   fileVars, out>>

\* The program returns from main or calls exit: the destructor sets
\* mpprof_finished and begins to flush.
ChildReturns(r) ==
    /\ child[r] = "running"
    /\ child' = [child EXCEPT ![r] = "returning"]
    /\ UNCHANGED <<driverVars, exe, cpid, build, opened, signalled, disturbed, status, timer,
                   others, fileVars, out>>

\* The handler, which is there once the file is open, does the same.
ChildHandles(r) ==
    /\ child[r] = "running" /\ opened[r] # 0 /\ signalled[r]
    /\ child' = [child EXCEPT ![r] = "handling"]
    /\ signalled' = [signalled EXCEPT ![r] = FALSE]
    /\ UNCHANGED <<driverVars, exe, cpid, build, opened, disturbed, status, timer, others,
                   fileVars, out>>

\* The process is over, and init reaps an orphan.
End(r, how) ==
    /\ \/ /\ r = cur /\ pc \notin Ended
          /\ child' = [child EXCEPT ![r] = "zombie"] /\ status' = how
       \/ /\ r # cur \/ pc \in Ended
          /\ child' = [child EXCEPT ![r] = "gone"] /\ UNCHANGED status
    /\ signalled' = [signalled EXCEPT ![r] = FALSE]
    /\ UNCHANGED <<driverVars, exe, cpid, build, opened, disturbed, timer, others, name, out>>

\* The finalizer is through and the stream whole.  The handler ends the process
\* with 0 ("ok"), main with whatever it returned ("error" if that is not 0).
ChildFlushes(r) ==
    /\ child[r] \in Closing
    /\ \E how \in IF child[r] = "handling" THEN {"ok"} ELSE {"ok", "error"} : End(r, how)
    /\ IF opened[r] = 0
         THEN UNCHANGED <<writers, whole>>
         ELSE /\ writers' = [writers EXCEPT ![opened[r]] = @ \cup {r}]
              /\ whole' = [whole EXCEPT ![opened[r]] = TRUE]

\* A signal meets the finalizer: its handler finds mpprof_finished set and
\* calls _exit(0) (NativeHook: the violation of ExitComplete).
ChildCut(r) ==
    /\ child[r] \in Closing /\ opened[r] # 0 /\ signalled[r]
    /\ End(r, "cut")
    /\ UNCHANGED <<writers, whole>>

\* A fault, abort, SIGKILL, or a signal while there is no handler.
ChildCrashes(r) ==
    /\ Alive(r)
    /\ End(r, "crash")
    /\ UNCHANGED <<writers, whole>>

\* What a delivered signal sets off (NativeHook: FinalizerEnds).
SignalActs(r) ==
    /\ signalled[r]
    /\ ChildHandles(r) \/ ChildCut(r) \/ (opened[r] = 0 /\ ChildCrashes(r))
HandlerEnds(r) == child[r] = "handling" /\ ChildFlushes(r)

OtherStarts(p) ==
    /\ ~Over /\ p \in Pids \ Taken
    /\ others' = others \cup {p}
    /\ UNCHANGED <<driverVars, exe, childVars, timer, fileVars, out>>

OtherEnds(p) ==
    /\ ~Over /\ p \in others
    /\ others' = others \ {p}
    /\ UNCHANGED <<driverVars, exe, childVars, timer, fileVars, out>>

-----------------------------------------------------------------------------
DriverStep ==
    \/ Build \/ Patch \/ Link \/ Clean \/ Spawn \/ Reap \/ Join \/ CheckStatus
    \/ CheckRaw \/ Parse \/ Write \/ Cleanup

Idle == Over /\ UNCHANGED vars

Next ==
    \/ Start \/ DriverStep \/ TimerFires \/ DriverKilled \/ Idle
    \/ \E r \in Runs :
          \/ ChildOpens(r) \/ ChildWrites(r) \/ ChildReturns(r) \/ ChildHandles(r)
          \/ ChildFlushes(r) \/ ChildCut(r) \/ ChildCrashes(r) \/ Disturb(r)
    \/ \E p \in Pids : OtherStarts(p) \/ OtherEnds(p)

Spec == Init /\ [][Next]_vars

\* The system runs the driver and its timer thread and lets a process that was
\* told to end do so; it need not end by itself.
FairSpec ==
    /\ Spec
    /\ WF_vars(DriverStep)
    /\ WF_vars(TimerFires)
    /\ \A r \in Runs : WF_vars(SignalActs(r)) /\ WF_vars(HandlerEnds(r))

-----------------------------------------------------------------------------
\* The profile of a run was recorded by the child of that run, built by that
\* run, whatever earlier drivers with the same process number left behind and
\* whatever their orphans still write.
ProfileIsOwn ==
    out # None => out.writers \subseteq {out.run} /\ out.build = out.run

\* A profile lacks records, although it was written, in two cases only: with
\* --duration, whose runs have their status ignored, the program crashed; or a
\* signal met a finalizer, either the timer's, when the program returned at the
\* end of the --duration, or somebody else's.  A plain run nobody disturbs is
\* never short.
ShortProfilesExplained ==
    out # None /\ ~out.whole =>
        \/ out.end = "crash" /\ out.duration
        \/ out.end = "cut" /\ (out.duration \/ out.disturbed)

\* With --duration a program that would run forever is profiled all the same:
\* once it has been started, the driver returns.
DurationEndsRun ==
    \A r \in Runs : (cur = r /\ duration /\ pc = "wait") ~> (cur = r => pc \in Ended)

-----------------------------------------------------------------------------
(* What comments of the code say and the code does not do.                 *)

\* "SAFETY: ... pid is owned by us (we haven't reaped it yet)".
SignalsOwnChild == [][TimerFires => cpid[cur] \notin others]_vars
=============================================================================
