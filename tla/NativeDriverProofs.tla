------------------------- MODULE NativeDriverProofs -------------------------
(***************************************************************************)
(* Proofs about NativeDriver: whatever process numbers are reused, whenever *)
(* drivers are killed and however their orphans go on writing, a profile is *)
(* of its own run's child (ProfileIsOwn), it lacks records only for the two *)
(* reasons of ShortProfilesExplained, and a SIGTERM that is sent while the  *)
(* child has not been reaped reaches this child and nobody else.            *)
(***************************************************************************)
EXTENDS NativeDriver, TLAPS

\* The stations of run(), those from which on the program of this run is
\* linked, its name in TMPDIR is clean, its child was started, and reaped.
AfterReap == {"join", "status", "exists", "parse", "write", "cleanup"}
AfterSpawn == AfterReap \cup {"wait"}
AfterClean == AfterSpawn \cup {"spawn"}
AfterLink == AfterClean \cup {"clean"}
Stations == Ended \cup AfterLink \cup {"build", "patch", "link"}

Endings == {"none", "ok", "error", "cut", "crash"}

Profile ==
    [run : Runs, build : 0..MaxRuns, writers : SUBSET Runs, whole : BOOLEAN,
     duration : BOOLEAN, disturbed : BOOLEAN, end : Endings]

TypeOK ==
    /\ pc \in Stations
    /\ cur \in 0..MaxRuns
    /\ me \in Pids \cup {None}
    /\ pc \notin Ended => cur \in Runs /\ me \in Pids
    /\ duration \in BOOLEAN
    /\ exe \in 0..MaxRuns
    /\ child \in [Runs -> {"none", "running", "returning", "handling", "zombie", "gone"}]
    /\ cpid \in [Runs -> Pids \cup {None}]
    /\ build \in [Runs -> 0..MaxRuns]
    /\ opened \in [Runs -> 0..MaxRuns]
    /\ signalled \in [Runs -> BOOLEAN]
    /\ status \in Endings /\ disturbed \in BOOLEAN
    /\ timer \in {"off", "sleeping", "done"}
    /\ others \subseteq Pids
    /\ name \in [Pids -> 0..MaxRuns]
    /\ writers \in [Runs -> SUBSET Runs]
    /\ whole \in [Runs -> BOOLEAN]
    /\ out # None => out \in Profile

\* What the driver's place in run() says of its child and of what it executes.
ChildKept ==
    /\ \A r \in Runs : r > cur => child[r] = "none"
    /\ pc \in Stations \ (Ended \cup AfterSpawn) => child[cur] = "none"
    /\ pc = "wait" => Present(cur)
    /\ pc \in AfterReap => child[cur] = "gone"
    /\ pc \in AfterLink => exe = cur
    /\ pc \in AfterSpawn => build[cur] = cur

\* A stream goes to an inode of its own: no child opens the file of another
\* run, and a name left in TMPDIR is of a file its own child has opened.
FilesKept ==
    /\ \A r \in Runs : opened[r] \in {0, r}
    /\ \A r \in Runs : opened[r] # 0 => child[r] # "none"
    /\ \A r \in Runs : writers[r] \subseteq {r}
    /\ \A p \in Pids : name[p] # 0 => opened[name[p]] # 0
    /\ pc \in AfterClean => name[me] \in {0, cur}
    /\ pc \in {"parse", "write"} => name[me] # 0

\* The child has a status once it has ended.  Ending through the finalizer it
\* has made the stream whole; and a signal can only meet the finalizer after the
\* timer, of a run with --duration, or somebody else has sent one.
StatusKept ==
    /\ pc \notin Ended /\ (Alive(cur) \/ child[cur] = "none") => status = "none"
    /\ pc \in AfterSpawn /\ ~Alive(cur) => status # "none"
    /\ status \in {"ok", "error"} /\ opened[cur] # 0 => whole[cur]
    /\ status = "cut" => duration \/ disturbed
    /\ pc \in {"exists", "parse", "write"} /\ ~duration => Success
    /\ \A r \in Runs : signalled[r] => Alive(r)
    /\ pc \notin Ended /\ signalled[cur] => duration \/ disturbed
    /\ timer = "sleeping" => duration

\* A process number in use is used once.
NumbersKept ==
    /\ \A r \in Runs : Present(r) => cpid[r] \in Pids
    /\ \A r, q \in Runs : Present(r) /\ Present(q) /\ cpid[r] = cpid[q] => r = q
    /\ \A r \in Runs : Present(r) => cpid[r] \notin others
    /\ pc \notin Ended => me \notin others /\ \A r \in Runs : Present(r) => cpid[r] # me

DriverInv ==
    /\ TypeOK /\ ChildKept /\ FilesKept /\ StatusKept /\ NumbersKept
    /\ ProfileIsOwn /\ ShortProfilesExplained

\* SIGTERM sent before the child is reaped: the number is still the child's.
SignalsOnlyChild ==
    [][TimerFires /\ pc = "wait" =>
           /\ cpid[cur] \notin others /\ cpid[cur] # me
           /\ \A r \in Runs \ {cur} : signalled'[r] = signalled[r]]_vars

-----------------------------------------------------------------------------
LEMMA DriverInitially == Init => DriverInv
<1> SUFFICES ASSUME Init PROVE DriverInv
  OBVIOUS
<1> USE DriverAssumption
    DEF Init, Runs, Stations, Ended, AfterLink, AfterClean, AfterSpawn, AfterReap
<1>1. TypeOK
  <2>1. /\ name \in [Pids -> 0..MaxRuns] /\ cpid \in [Runs -> Pids \cup {None}]
        /\ writers \in [Runs -> SUBSET Runs] /\ whole \in [Runs -> BOOLEAN]
        /\ signalled \in [Runs -> BOOLEAN]
    OBVIOUS
  <2>2. /\ build \in [Runs -> 0..MaxRuns] /\ opened \in [Runs -> 0..MaxRuns]
        /\ child \in [Runs -> {"none", "running", "returning", "handling", "zombie", "gone"}]
        /\ status \in Endings
    BY DEF Endings
  <2>3. pc \in Ended /\ pc \in Stations /\ cur \in 0..MaxRuns /\ exe \in 0..MaxRuns
    OBVIOUS
  <2>4. duration \in BOOLEAN /\ disturbed \in BOOLEAN
    BY Zenon
  <2>5. /\ me \in Pids \cup {None} /\ others \subseteq Pids
        /\ timer \in {"off", "sleeping", "done"} /\ out = None
    OBVIOUS
  <2>6. QED
    BY ONLY <2>1, <2>2, <2>3, <2>4, <2>5 DEF TypeOK
<1>2. ChildKept /\ FilesKept /\ StatusKept /\ NumbersKept
  BY DEF ChildKept, FilesKept, StatusKept, NumbersKept, Present, Alive, Closing, Success, Endings
<1>3. QED
  BY <1>1, <1>2 DEF DriverInv, ProfileIsOwn, ShortProfilesExplained

\* A new driver has a number nobody has, and an unused run behind it.
LEMMA StartKeeps == ASSUME DriverInv, Start PROVE DriverInv'
<1> USE DEF Runs, Stations, Ended, AfterLink, AfterClean, AfterSpawn, AfterReap, Present, Alive, Closing
<1>1. /\ TypeOK /\ ChildKept /\ FilesKept /\ StatusKept /\ NumbersKept
      /\ ProfileIsOwn /\ ShortProfilesExplained
  BY DEF DriverInv
<1>2. TypeOK' /\ ChildKept' /\ FilesKept'
  <2>1. TypeOK'
    <3>1. /\ pc' = "build" /\ cur' \in Runs /\ me' \in Pids /\ duration' \in BOOLEAN
          /\ timer' = "off" /\ status' = "none"
          /\ UNCHANGED <<exe, child, cpid, build, opened, signalled, others, fileVars, out>>
      BY <1>1, DriverAssumption DEF Start, TypeOK
    <3>2. disturbed' \in BOOLEAN
      BY Zenon DEF Start
    <3>3. QED
      BY <1>1, <3>1, <3>2 DEF TypeOK, Endings, fileVars
  <2>2. ChildKept' /\ FilesKept'
    BY <1>1, DriverAssumption DEF Start, TypeOK, ChildKept, FilesKept, fileVars
  <2>3. QED
    BY <2>1, <2>2
<1>5. StatusKept'
  <2>1. /\ pc' = "build" /\ cur' = cur + 1 /\ timer' = "off" /\ status' = "none"
        /\ UNCHANGED <<child, signalled>>
    BY DEF Start
  <2>2. cur' \in Runs /\ child[cur'] = "none"
    BY <1>1, DriverAssumption DEF Start, TypeOK, ChildKept
  <2>3. QED
    BY <1>1, <2>1, <2>2 DEF StatusKept
<1>3. NumbersKept'
  BY <1>1, DriverAssumption DEF Start, TypeOK, NumbersKept, Taken, childVars
<1>4. QED
  BY <1>1, <1>2, <1>3, <1>5
     DEF DriverInv, Start, ProfileIsOwn, ShortProfilesExplained

\* The steps of run() that look at the world, or change the program or a name.
LEMMA StepsKeep ==
    ASSUME DriverInv,
           \/ Build \/ Patch \/ Link \/ Clean \/ Join \/ CheckStatus \/ CheckRaw
           \/ Parse \/ Cleanup
    PROVE  DriverInv'
<1> USE DriverAssumption
    DEF DriverInv, Runs, Stations, Ended, AfterLink, AfterClean, AfterSpawn, AfterReap,
        TypeOK, ChildKept, FilesKept, StatusKept, NumbersKept, Present, Alive, Closing, Success, Endings, ProfileIsOwn,
        ShortProfilesExplained, Profile, childVars, fileVars
<1>1. CASE Build
  BY <1>1 DEF Build, Step
<1>2. CASE Patch
  BY <1>2 DEF Patch, Step
<1>3. CASE Link
  <2>1. pc = "link" /\ cur \in Runs /\ exe' \in 0..MaxRuns
    BY <1>3 DEF Link
  <2>2. \/ pc' = "clean" /\ exe' = cur
        \/ pc' = "bailed"
    BY <1>3 DEF Link
  <2>3. UNCHANGED <<cur, me, duration, childVars, timer, others, fileVars, out>>
    BY <1>3 DEF Link
  <2>4. QED
    BY ONLY DriverInv, DriverAssumption, <2>1, <2>2, <2>3
<1>4. CASE Clean
  BY <1>4 DEF Clean
<1>5. CASE Join
  BY <1>5 DEF Join
<1>6. CASE CheckStatus
  BY <1>6 DEF CheckStatus
<1>7. CASE CheckRaw
  BY <1>7 DEF CheckRaw
<1>8. CASE Parse
  BY <1>8 DEF Parse, Step
<1>9. CASE Cleanup
  BY <1>9 DEF Cleanup
<1>10. QED
  BY <1>1, <1>2, <1>3, <1>4, <1>5, <1>6, <1>7, <1>8, <1>9

\* The child executes what this run has linked, under a number nobody has.
LEMMA SpawnKeeps == ASSUME DriverInv, Spawn PROVE DriverInv'
<1> USE DEF Runs, Stations, Ended, AfterLink, AfterClean, AfterSpawn, AfterReap, Present, Alive, Closing
<1>1. /\ TypeOK /\ ChildKept /\ FilesKept /\ StatusKept /\ NumbersKept
      /\ ProfileIsOwn /\ ShortProfilesExplained
  BY DEF DriverInv
<1>2. CASE pc' = "bailed" /\ UNCHANGED <<cpid, child, build, timer>>
  BY <1>1, <1>2, DriverAssumption
     DEF Spawn, DriverInv, TypeOK, ChildKept, FilesKept, StatusKept, Success, Endings, NumbersKept, fileVars,
         ProfileIsOwn, ShortProfilesExplained, Profile
<1>3. CASE pc' = "wait"
  <2>1. PICK p \in Pids \ Taken : cpid' = [cpid EXCEPT ![cur] = p]
    BY <1>3 DEF Spawn
  <2>2. /\ pc = "spawn" /\ child' = [child EXCEPT ![cur] = "running"]
        /\ build' = [build EXCEPT ![cur] = exe]
        /\ timer' = (IF duration THEN "sleeping" ELSE "off")
        /\ UNCHANGED <<cur, me, duration, exe, opened, signalled, disturbed, status,
                       others, name, writers, whole, out>>
    BY <1>3 DEF Spawn, fileVars
  <2>3. cur \in Runs /\ exe = cur /\ child[cur] = "none"
    BY <1>1, <2>2 DEF TypeOK, ChildKept
  <2>4. TypeOK'
    BY <1>1, <1>3, <2>1, <2>2, <2>3, DriverAssumption DEF TypeOK, Profile
  <2>5. ChildKept' /\ FilesKept' /\ StatusKept'
    BY <1>1, <1>3, <2>2, <2>3, DriverAssumption
       DEF TypeOK, ChildKept, FilesKept, StatusKept, Success, Endings
  <2>6. p \notin others /\ p # me /\ \A r \in Runs : Present(r) => cpid[r] # p
    BY <2>1, <2>2 DEF Taken
  <2>7. NumbersKept'
    BY <1>1, <1>3, <2>1, <2>2, <2>3, <2>6 DEF TypeOK, NumbersKept
  <2>8. QED
    BY <1>1, <2>2, <2>4, <2>5, <2>7 DEF DriverInv, ProfileIsOwn, ShortProfilesExplained
<1>4. QED
  BY <1>2, <1>3 DEF Spawn

\* The child that is reaped has a status, and its number is free.
LEMMA ReapKeeps == ASSUME DriverInv, Reap PROVE DriverInv'
<1> USE DriverAssumption
    DEF Runs, Stations, Ended, AfterLink, AfterClean, AfterSpawn, AfterReap, Present, Alive, Closing,
        DriverInv, Reap, TypeOK
<1>1. TypeOK'
  BY DEF fileVars, Profile
<1>2. ChildKept' /\ FilesKept'
  BY DEF ChildKept, FilesKept, fileVars
<1>3. StatusKept'
  BY DEF StatusKept, Success, Endings, fileVars
<1>4. NumbersKept'
  BY DEF NumbersKept
<1>5. QED
  BY <1>1, <1>2, <1>3, <1>4 DEF ProfileIsOwn, ShortProfilesExplained

\* The raw stream that is read is the child's own, and with a good status whole.
LEMMA WriteKeeps == ASSUME DriverInv, Write PROVE DriverInv'
<1> USE DEF Runs, Stations, Ended, AfterLink, AfterClean, AfterSpawn, AfterReap
<1>1. /\ TypeOK /\ ChildKept /\ FilesKept /\ StatusKept /\ NumbersKept
      /\ ProfileIsOwn /\ ShortProfilesExplained
  BY DEF DriverInv
<1>2. /\ pc = "write" /\ pc' \in {"cleanup", "bailed"}
      /\ UNCHANGED <<cur, me, duration, exe, childVars, timer, others, fileVars>>
  BY DEF Write
<1>3. cur \in Runs /\ me \in Pids /\ name[me] = cur /\ opened[cur] = cur
  BY <1>1, <1>2 DEF TypeOK, FilesKept
<1>4. \/ UNCHANGED out
      \/ out' = [run |-> cur, build |-> build[cur], writers |-> writers[cur],
                 whole |-> whole[cur], duration |-> duration,
                 disturbed |-> disturbed, end |-> status]
  BY <1>3 DEF Write
<1>5. build[cur] = cur /\ writers[cur] \subseteq {cur}
  BY <1>1, <1>2, <1>3 DEF ChildKept, FilesKept
<1>6. whole[cur] \/ (status = "crash" /\ duration)
      \/ (status = "cut" /\ (duration \/ disturbed))
  BY <1>1, <1>2, <1>3 DEF StatusKept, TypeOK, ChildKept, Success, Endings, Alive, Closing
<1>7. ProfileIsOwn' /\ ShortProfilesExplained'
  BY <1>1, <1>4, <1>5, <1>6 DEF ProfileIsOwn, ShortProfilesExplained
<1>8. TypeOK'
  BY <1>1, <1>2, <1>3, <1>4 DEF TypeOK, Profile, childVars, fileVars
<1>9. ChildKept' /\ FilesKept' /\ StatusKept' /\ NumbersKept'
  BY <1>1, <1>2
     DEF ChildKept, FilesKept, StatusKept, NumbersKept, Present, Alive, Closing, Success, Endings, childVars, fileVars
<1>10. QED
  BY <1>7, <1>8, <1>9 DEF DriverInv

\* The timer thread, and a driver that is killed.
LEMMA TimerKeeps == ASSUME DriverInv, TimerFires PROVE DriverInv'
<1> USE DriverAssumption DEF DriverInv, TimerFires, driverVars, fileVars
<1>1. TypeOK'
  BY DEF TypeOK
<1>2. ChildKept' /\ FilesKept'
  BY DEF ChildKept, FilesKept, Present, Alive, Closing
<1>3. StatusKept'
  BY DEF TypeOK, StatusKept, Success, Alive, Closing, Ended
<1>4. NumbersKept'
  BY DEF NumbersKept, Present, Alive, Closing
<1>5. QED
  BY <1>1, <1>2, <1>3, <1>4 DEF ProfileIsOwn, ShortProfilesExplained

LEMMA KilledKeeps == ASSUME DriverInv, DriverKilled PROVE DriverInv'
<1> USE DriverAssumption
    DEF Runs, Stations, Ended, AfterLink, AfterClean, AfterSpawn, AfterReap,
        DriverInv, DriverKilled, TypeOK
<1>1. TypeOK'
  BY DEF fileVars, Profile
<1>2. ChildKept' /\ FilesKept'
  BY DEF ChildKept, FilesKept, fileVars
<1>3. StatusKept'
  BY DEF StatusKept, Alive, Closing, fileVars
<1>4. NumbersKept'
  BY DEF NumbersKept, Present, Alive, Closing
<1>5. QED
  BY <1>1, <1>2, <1>3, <1>4 DEF ProfileIsOwn, ShortProfilesExplained

-----------------------------------------------------------------------------
\* The child opens its file while the driver waits for it: the name is clean
\* then, so that the inode is a new one.
LEMMA OpensKeeps == ASSUME DriverInv, NEW r \in Runs, ChildOpens(r) PROVE DriverInv'
<1> USE DEF Runs, Stations, Ended, AfterLink, AfterClean, AfterSpawn, AfterReap, Present, Alive, Closing
<1>1. /\ TypeOK /\ ChildKept /\ FilesKept /\ StatusKept /\ NumbersKept
      /\ ProfileIsOwn /\ ShortProfilesExplained
  BY DEF DriverInv
<1>2. r = cur /\ child[r] = "running" /\ opened[r] = 0 /\ pc \notin Ended
  BY DEF ChildOpens
<1>3. pc = "wait" /\ me \in Pids
  BY <1>1, <1>2 DEF TypeOK, ChildKept
<1>4. name[me] = 0
  BY <1>1, <1>2, <1>3 DEF FilesKept
<1>5. /\ name' = [name EXCEPT ![me] = r]
      /\ opened' = [opened EXCEPT ![r] = r]
      /\ writers' = [writers EXCEPT ![r] = {}]
      /\ whole' = [whole EXCEPT ![r] = FALSE]
      /\ UNCHANGED <<driverVars, exe, child, cpid, build, signalled, disturbed, status,
                     timer, others, out>>
  BY <1>4 DEF ChildOpens
<1> USE DriverAssumption DEF driverVars
<1>6. TypeOK'
  BY <1>1, <1>3, <1>5 DEF TypeOK, Profile
<1>7. ChildKept' /\ NumbersKept'
  BY <1>1, <1>5 DEF ChildKept, NumbersKept
<1>8. FilesKept'
  BY <1>1, <1>2, <1>3, <1>5 DEF TypeOK, FilesKept
<1>9. StatusKept'
  BY <1>1, <1>2, <1>3, <1>5 DEF TypeOK, StatusKept, Success, Endings
<1>10. QED
  BY <1>1, <1>5, <1>6, <1>7, <1>8, <1>9 DEF DriverInv, ProfileIsOwn, ShortProfilesExplained

LEMMA WritesKeeps == ASSUME DriverInv, NEW r \in Runs, ChildWrites(r) PROVE DriverInv'
<1>1. /\ TypeOK /\ ChildKept /\ FilesKept /\ StatusKept /\ NumbersKept
      /\ ProfileIsOwn /\ ShortProfilesExplained
  BY DEF DriverInv
<1>2. opened[r] = r /\ writers' = [writers EXCEPT ![r] = @ \cup {r}]
  BY <1>1 DEF ChildWrites, FilesKept
<1>3. UNCHANGED <<driverVars, exe, childVars, timer, others, name, whole, out>>
  BY DEF ChildWrites
<1>4. TypeOK' /\ FilesKept'
  BY <1>1, <1>2, <1>3 DEF TypeOK, FilesKept, driverVars, childVars
<1>5. ChildKept' /\ StatusKept' /\ NumbersKept'
  BY <1>1, <1>3 DEF ChildKept, StatusKept, NumbersKept, Present, Alive, Closing, Success, Endings, driverVars, childVars
<1>6. QED
  BY <1>1, <1>3, <1>4, <1>5 DEF DriverInv, ProfileIsOwn, ShortProfilesExplained

\* A signal from elsewhere, and the first steps of a finalizer.
LEMMA SignalsKeep ==
    ASSUME DriverInv, NEW r \in Runs, Disturb(r) \/ ChildReturns(r) \/ ChildHandles(r)
    PROVE  DriverInv'
<1> USE DEF Runs, Stations, Ended, AfterLink, AfterClean, AfterSpawn, AfterReap, Present, Alive, Closing
<1>1. /\ TypeOK /\ ChildKept /\ FilesKept /\ StatusKept /\ NumbersKept
      /\ ProfileIsOwn /\ ShortProfilesExplained
  BY DEF DriverInv
<1>2. /\ Alive(r)
      /\ UNCHANGED <<driverVars, exe, cpid, build, opened, status, timer, others, fileVars, out>>
  BY DEF Disturb, ChildReturns, ChildHandles
<1>3. PICK to \in Closing \cup {child[r]} : child' = [child EXCEPT ![r] = to]
  BY <1>1 DEF Disturb, ChildReturns, ChildHandles, TypeOK
<1>4. \/ UNCHANGED <<signalled, disturbed>>
      \/ signalled' = [signalled EXCEPT ![r] = FALSE] /\ UNCHANGED disturbed
      \/ signalled' = [signalled EXCEPT ![r] = TRUE] /\ disturbed' = TRUE
  BY DEF Disturb, ChildReturns, ChildHandles
<1> USE DriverAssumption DEF driverVars, fileVars
<1>5. TypeOK'
  <2>1. child' \in [Runs -> {"none", "running", "returning", "handling", "zombie", "gone"}]
    BY <1>1, <1>3 DEF TypeOK
  <2>2. signalled' \in [Runs -> BOOLEAN] /\ disturbed' \in BOOLEAN
    BY <1>1, <1>4 DEF TypeOK
  <2>3. QED
    BY <1>1, <1>2, <2>1, <2>2 DEF TypeOK, Profile
<1>6. ChildKept' /\ FilesKept'
  BY <1>1, <1>2, <1>3 DEF TypeOK, ChildKept, FilesKept
<1>7. StatusKept'
  BY <1>1, <1>2, <1>3, <1>4 DEF TypeOK, StatusKept, Success
<1>8. NumbersKept'
  BY <1>1, <1>2, <1>3 DEF TypeOK, NumbersKept
<1>9. QED
  BY <1>1, <1>2, <1>5, <1>6, <1>7, <1>8 DEF DriverInv, ProfileIsOwn, ShortProfilesExplained

\* The end of a child: through the finalizer with a whole stream, after a signal
\* met it, or by a crash.
LEMMA EndsKeeps ==
    ASSUME DriverInv, NEW r \in Runs, ChildFlushes(r) \/ ChildCut(r) \/ ChildCrashes(r)
    PROVE  DriverInv'
<1> USE DEF Runs, Stations, Ended, AfterLink, AfterClean, AfterSpawn, AfterReap, Present, Alive, Closing
<1>1. /\ TypeOK /\ ChildKept /\ FilesKept /\ StatusKept /\ NumbersKept
      /\ ProfileIsOwn /\ ShortProfilesExplained
  BY DEF DriverInv
<1>2. Alive(r)
  BY DEF ChildFlushes, ChildCut, ChildCrashes
<1>3. PICK how \in {"ok", "error", "cut", "crash"} :
           /\ End(r, how)
           /\ how = "cut" => signalled[r]
           /\ how \in {"ok", "error"} /\ opened[r] # 0 => whole' = [whole EXCEPT ![r] = TRUE]
  BY <1>1 DEF ChildFlushes, ChildCut, ChildCrashes, FilesKept
<1>4. \/ UNCHANGED <<writers, whole>>
      \/ /\ writers' = [writers EXCEPT ![r] = @ \cup {r}]
         /\ whole' = [whole EXCEPT ![r] = TRUE]
  BY <1>1 DEF ChildFlushes, ChildCut, ChildCrashes, FilesKept
<1>5. /\ UNCHANGED <<driverVars, exe, cpid, build, opened, disturbed, timer, others, name, out>>
      /\ signalled' = [signalled EXCEPT ![r] = FALSE]
  BY <1>3 DEF End
<1>6. \/ /\ r = cur /\ pc \notin Ended
         /\ child' = [child EXCEPT ![r] = "zombie"] /\ status' = how
      \/ /\ r # cur \/ pc \in Ended
         /\ child' = [child EXCEPT ![r] = "gone"] /\ UNCHANGED status
  BY <1>3 DEF End
<1> USE DriverAssumption DEF driverVars
<1>7. TypeOK'
  <2>1. child' \in [Runs -> {"none", "running", "returning", "handling", "zombie", "gone"}]
    BY <1>1, <1>6 DEF TypeOK
  <2>2. status' \in Endings /\ signalled' \in [Runs -> BOOLEAN]
    BY <1>1, <1>5, <1>6 DEF TypeOK, Endings
  <2>3. writers' \in [Runs -> SUBSET Runs] /\ whole' \in [Runs -> BOOLEAN]
    <3>1. writers \in [Runs -> SUBSET Runs] /\ whole \in [Runs -> BOOLEAN]
      BY <1>1 DEF TypeOK
    <3>2. [whole EXCEPT ![r] = TRUE] \in [Runs -> BOOLEAN]
      BY <3>1
    <3>3. [writers EXCEPT ![r] = @ \cup {r}] \in [Runs -> SUBSET Runs]
      BY <3>1
    <3>4. QED
      BY <1>4, <3>1, <3>2, <3>3
  <2>4. QED
    BY <1>1, <1>5, <2>1, <2>2, <2>3 DEF TypeOK, Profile
<1>8. ChildKept'
  BY <1>1, <1>2, <1>5, <1>6 DEF TypeOK, ChildKept
<1>9. FilesKept'
  <2>1. \A q \in Runs : writers'[q] \subseteq {q}
    BY <1>1, <1>4 DEF TypeOK, FilesKept
  <2>2. \A q \in Runs : opened[q] # 0 => child'[q] # "none"
    BY <1>1, <1>6 DEF TypeOK, FilesKept
  <2>3. QED
    BY <1>1, <1>5, <2>1, <2>2 DEF FilesKept
<1>10. StatusKept'
  <2>1. CASE r = cur /\ pc \notin Ended
    <3>1. pc = "wait"
      BY <1>1, <1>2, <2>1 DEF TypeOK, ChildKept
    <3>2. /\ status' = how /\ child' = [child EXCEPT ![cur] = "zombie"]
          /\ ~signalled'[cur]
      BY <1>1, <1>5, <1>6, <2>1 DEF TypeOK
    <3>3. how \in {"ok", "error"} /\ opened[cur] # 0 => whole'[cur]
      BY <1>1, <1>3, <2>1 DEF TypeOK
    <3>4. how = "cut" => duration \/ disturbed
      BY <1>1, <1>3, <2>1 DEF StatusKept, Success, Endings
    <3>5. QED
      BY <1>1, <1>3, <1>5, <2>1, <3>1, <3>2, <3>3, <3>4 DEF TypeOK, StatusKept, Success, Endings
  <2>2. CASE r # cur \/ pc \in Ended
    <3>1. UNCHANGED status /\ child' = [child EXCEPT ![r] = "gone"]
      BY <1>6, <2>2
    <3>2. status \in {"ok", "error"} /\ opened[cur] # 0 => whole'[cur]
      <4>1. CASE cur \in Runs
        BY <4>1, <1>1, <1>4 DEF TypeOK, StatusKept, Success, Endings
      <4>2. CASE cur \notin Runs
        BY <4>2, <1>1, <1>2 DEF TypeOK, ChildKept, Success, Endings
      <4>3. QED
        BY <4>1, <4>2
    <3>3. QED
      BY <1>1, <1>5, <2>2, <3>1, <3>2 DEF TypeOK, StatusKept, ChildKept, Success
  <2>3. QED
    BY <2>1, <2>2
<1>11. NumbersKept'
  <2>1. \A q \in Runs : Present(q)' => Present(q)
    BY <1>1, <1>2, <1>6 DEF TypeOK
  <2>2. QED
    BY <1>1, <1>5, <2>1 DEF NumbersKept
<1>12. QED
  BY <1>1, <1>5, <1>7, <1>8, <1>9, <1>10, <1>11
     DEF DriverInv, ProfileIsOwn, ShortProfilesExplained

\* A process that is nothing to us takes a free number.
LEMMA OthersKeep ==
    ASSUME DriverInv, NEW p \in Pids, OtherStarts(p) \/ OtherEnds(p)
    PROVE  DriverInv'
<1>1. /\ TypeOK /\ ChildKept /\ FilesKept /\ StatusKept /\ NumbersKept
      /\ ProfileIsOwn /\ ShortProfilesExplained
  BY DEF DriverInv
<1>2. UNCHANGED <<driverVars, exe, childVars, timer, fileVars, out>>
  BY DEF OtherStarts, OtherEnds
<1>3. \/ others' = others \cup {p} /\ p \notin Taken
      \/ others' = others \ {p}
  BY DEF OtherStarts, OtherEnds
<1>4. TypeOK' /\ NumbersKept'
  BY <1>1, <1>2, <1>3
     DEF TypeOK, NumbersKept, Taken, Present, Alive, Closing, driverVars, childVars, fileVars
<1>5. ChildKept' /\ FilesKept' /\ StatusKept'
  BY <1>1, <1>2 DEF ChildKept, FilesKept, StatusKept, Success, Present, Alive, driverVars, childVars, fileVars
<1>6. QED
  BY <1>1, <1>2, <1>4, <1>5 DEF DriverInv, ProfileIsOwn, ShortProfilesExplained

-----------------------------------------------------------------------------
LEMMA DriverNext == DriverInv /\ [Next]_vars => DriverInv'
<1> SUFFICES ASSUME DriverInv, [Next]_vars PROVE DriverInv'
  OBVIOUS
<1>1. CASE UNCHANGED vars
  BY <1>1
     DEF vars, driverVars, childVars, fileVars, DriverInv, TypeOK, ChildKept, FilesKept,
         StatusKept, NumbersKept, Present, Alive, Closing, Success, Endings, ProfileIsOwn, ShortProfilesExplained
<1>2. CASE Start
  BY <1>2, StartKeeps
<1>3. CASE DriverStep
  BY <1>3, StepsKeep, SpawnKeeps, ReapKeeps, WriteKeeps DEF DriverStep
<1>4. CASE TimerFires
  BY <1>4, TimerKeeps
<1>5. CASE DriverKilled
  BY <1>5, KilledKeeps
<1>6. CASE \E r \in Runs :
              \/ ChildOpens(r) \/ ChildWrites(r) \/ ChildReturns(r) \/ ChildHandles(r)
              \/ ChildFlushes(r) \/ ChildCut(r) \/ ChildCrashes(r) \/ Disturb(r)
  BY <1>6, OpensKeeps, WritesKeeps, SignalsKeep, EndsKeeps
<1>7. CASE \E p \in Pids : OtherStarts(p) \/ OtherEnds(p)
  BY <1>7, OthersKeep
<1>8. QED
  BY <1>1, <1>2, <1>3, <1>4, <1>5, <1>6, <1>7 DEF Next, Idle

\* The inductive invariant of the driver and its children.
THEOREM DriverInvariant == Spec => []DriverInv
BY DriverInitially, DriverNext, PTL DEF Spec

\* cmd_memprofile_native.rs: the profile of a run is of the child of that run
\* and of the program it has linked, for any number of runs and processes.
THEOREM OwnProfile == Spec => []ProfileIsOwn
<1>1. DriverInv => ProfileIsOwn
  BY DEF DriverInv
<1>2. QED
  BY DriverInvariant, <1>1, PTL

\* A profile that lacks records is of a program that crashed under --duration or
\* whose finalizer a signal met: the timer's, or somebody else's.
THEOREM ShortProfiles == Spec => []ShortProfilesExplained
<1>1. DriverInv => ShortProfilesExplained
  BY DEF DriverInv
<1>2. QED
  BY DriverInvariant, <1>1, PTL

\* The timer thread's kill(pid): before child.wait() has returned the number
\* is the child's, so that no other process is ended.
THEOREM OwnSignal == Spec => SignalsOnlyChild
<1>1. DriverInv /\ [Next]_vars
      => [TimerFires /\ pc = "wait" =>
              /\ cpid[cur] \notin others /\ cpid[cur] # me
              /\ \A r \in Runs \ {cur} : signalled'[r] = signalled[r]]_vars
  <2> SUFFICES ASSUME DriverInv, TimerFires, pc = "wait"
               PROVE  /\ cpid[cur] \notin others /\ cpid[cur] # me
                      /\ \A r \in Runs \ {cur} : signalled'[r] = signalled[r]
    OBVIOUS
  <2>1. cur \in Runs /\ Present(cur)
    BY DEF DriverInv, TypeOK, ChildKept, Present, Alive, Closing, Ended
  <2>2. cpid[cur] \notin others /\ cpid[cur] # me
    BY <2>1 DEF DriverInv, NumbersKept, Ended
  <2>3. \A r \in Runs \ {cur} : ~(Alive(r) /\ cpid[r] = cpid[cur])
    BY <2>1 DEF DriverInv, NumbersKept, Present, Alive, Closing
  <2>4. \A r \in Runs \ {cur} : signalled'[r] = signalled[r]
    BY <2>3 DEF TimerFires, DriverInv, TypeOK
  <2>5. QED
    BY <2>2, <2>4
<1>2. QED
  BY DriverInvariant, <1>1, PTL DEF Spec, SignalsOnlyChild
=============================================================================
