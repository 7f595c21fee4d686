------------------------------ MODULE Exchange ------------------------------
(***************************************************************************)
(* Profiles that leave moon-pprof and come back: a pprof profile written   *)
(* as folded text, as Speedscope or as a Chrome trace, the file imported   *)
(* again, and that once more; or a file from elsewhere.  summary reads the *)
(* profile at any moment and compares it with the one before.              *)
(***************************************************************************)
EXTENDS TraceExport, MoonbitDemangle

CONSTANTS Profiles, Files, \* the profiles and the files there may be at first
          FoldedTypes,     \* --sample-type and --unit for folded files
          MemNames, MaxTrips

VARIABLES profile, \* the pprof profile, None before the first import
          file,    \* the exported or foreign file [format, content], or None
          past,    \* what was exported last: [profile, axis, format, count]
          trips

vars == <<profile, file, past, trips>>

Trace == INSTANCE ChromeTrace WITH DefaultDelta <- 1000
Sum == INSTANCE Summary

Init ==
    /\ past = None /\ trips = 0
    /\ \/ profile \in Profiles /\ file = None
       \/ profile = None /\ file \in Files

\* A command that fails writes nothing.
Write(format, content, axis, count) ==
    /\ profile # None /\ file = None /\ trips < MaxTrips
    /\ content # None
    /\ file' = [format |-> format, content |-> content]
    /\ past' = [profile |-> profile, axis |-> axis, format |-> format, count |-> count]
    /\ UNCHANGED <<profile, trips>>

Axes == {None} \cup (1..3)

Pprof2Folded(index) ==
    LET axis == SelectAxis(profile, index, SpeedscopeUnits) IN
    Write("folded", IF axis = None THEN None ELSE ToFolded(profile, axis), axis, 0)

Pprof2Speedscope(index) ==
    LET axis == SelectAxis(profile, index, SpeedscopeUnits) IN
    Write("speedscope", IF axis = None THEN None ELSE ToSpeedscope(profile, axis), axis, 0)

Pprof2ChromeTrace(index, countIndex, expand) ==
    Write("trace", ConvertProfile(profile, index, countIndex, expand),
          SelectValueAxis(profile, index),
          IF expand THEN FindCountAxis(profile, countIndex) ELSE 0)

\* An imported profile drops no frames.
Read(format, result) ==
    /\ file # None /\ file.format = format
    /\ result # None
    /\ profile' = result @@ [drop |-> {}]
    /\ file' = None /\ trips' = trips + 1
    /\ UNCHANGED past

Folded2Pprof(type) == file # None /\ Read("folded", FromFolded(file.content, type))
Speedscope2Pprof(index) == file # None /\ Read("speedscope", FromSpeedscope(file.content, index))
ChromeTrace2Pprof(index) == file # None /\ Read("trace", Trace!ConvertTrace(file.content, index))

Next ==
    \/ \E index \in Axes :
          /\ profile # None
          /\ \/ Pprof2Folded(index)
             \/ Pprof2Speedscope(index)
             \/ \E countIndex \in {None, 2}, expand \in BOOLEAN :
                   Pprof2ChromeTrace(index, countIndex, expand)
    \/ /\ file # None
       /\ \/ file.format = "folded" /\ \E type \in FoldedTypes : Folded2Pprof(type)
          \/ file.format = "speedscope" /\ \E index \in 1..2 : Speedscope2Pprof(index)
          \/ file.format = "trace" /\ \E index \in 1..2 : ChromeTrace2Pprof(index)

Spec == Init /\ [][Next]_vars

-----------------------------------------------------------------------------
(* Properties.                                                             *)

Back(format) == past # None /\ file = None /\ past.format = format

\* The samples that were exported, each under what F makes of its stack.
Sent(F(_), W(_)) ==
    LET kept == Exported(past.profile, past.axis) IN
    Tally([i \in DOMAIN kept |->
        [stack |-> F(StackOf(past.profile, kept[i])), value |-> W(kept[i])]])
Received(F(_)) ==
    Tally([i \in DOMAIN profile.samples |->
        [stack |-> F(StackOf(profile, profile.samples[i])), value |-> profile.samples[i].value]])
Names(stack) == [i \in DOMAIN stack |-> stack[i].name]
Frames(stack) == stack

\* A name that folded text can carry: of one line with its ends inked, and no
\* comment.
Plain(name) == Trim(name) = name /\ name # <<>> /\ name[1] # "#" /\ "\n" \notin Range(name)

\* Folded text loses no value: every stack of plain names comes back once,
\* under its names without separators, with the sum of its values, and
\* names that differ in a separator alone come back as one.
FoldedCarries ==
    Back("folded") /\ (\A f \in Range(past.profile.functions) : Plain(f.name)) =>
        LET Written(stack) == [i \in DOMAIN stack |-> LET n == stack[i].name IN
                                 [k \in DOMAIN n |-> IF n[k] = ";" THEN ":" ELSE n[k]]]
            sent == Sent(Written, LAMBDA s : <<1, s.value[past.axis]>>)
        IN  Received(Names) = [st \in DOMAIN sent |-> <<1, sent[st][2]>>]

\* Speedscope keeps functions of one name in two files apart, with the lines,
\* the values and the unit of the axis, where it is one of Speedscope's.
SpeedscopeCarries ==
    Back("speedscope") =>
        /\ Received(Frames) = Sent(Frames, LAMBDA s : <<1, s.value[past.axis]>>)
        /\ past.profile.types[past.axis][2] \in SpeedscopeUnits \ {"none"} =>
              profile.types[2][2] = past.profile.types[past.axis][2]

\* A trace: every stack comes back below one more frame, (root), with each of
\* its samples' time to the microsecond, however the samples are expanded; and
\* with --expand-samples with its counts.
TraceCarries ==
    Back("trace") =>
        LET Unit == past.profile.types[past.axis][2]
            Nanos(v) == CASE Unit = "nanoseconds" -> v
                          [] Unit = "milliseconds" -> v * 1000000
                          [] Unit = "seconds" -> v * 1000000000
                          [] OTHER -> v * 1000
            Count(s) == IF past.count # 0 THEN Max({1, s.value[past.count]}) ELSE 1
            Below(stack) == <<<<"(root)">>>> \o [i \in DOMAIN stack |-> Demangle(stack[i].name)]
            sent == Sent(Below, LAMBDA s : <<Count(s), Nanos(s.value[past.axis])>>)
            hits == Sent(Below, LAMBDA s : <<1, 0>>)
            got == Received(Names)
        IN  /\ DOMAIN got = DOMAIN sent
            /\ \A st \in DOMAIN sent :
                  /\ got[st][1] = sent[st][1]
                  /\ got[st][2] - sent[st][2] \in (-1000 * hits[st][1] + 1)..(1000 * hits[st][1] - 1)

\* The summary gives every value to one function and the memory-management
\* time to the functions that manage memory, dropped frames or not; without
\* recursion nobody is charged more of that time than there is.
SummaryAddsUp ==
    profile # None =>
        LET s == Sum!ComputeSummary(profile)
            Over(f) == FoldFunction(+, 0, f)
            Recursive(n) == \E t \in Range(profile.samples) :
                                Len(SelectSeq(Sum!TopLines(profile, t), LAMBDA m : m = n)) > 1
        IN  /\ Over(s.self) = s.total /\ Over(s.self2) = s.total2
            /\ ~s.axis.heap => s.mem = Over([n \in s.names \cap MemNames |-> s.self[n]])
            /\ \A n \in s.names : ~Recursive(n) => s.memCum[n] <= s.mem

\* The four lists of a comparison account for the whole difference of the
\* totals, each function in one of them at most.
DiffAddsUp ==
    profile # None /\ past # None =>
        LET b == Sum!ComputeSummary(past.profile)
            p == Sum!ComputeSummary(profile)
            lists == <<Sum!Improved(b, p), Sum!Regressed(b, p), Sum!Gone(b, p), Sum!New(b, p)>>
            Change(names) == FoldFunction(+, 0, [n \in names |-> Sum!SelfOf(p, n) - Sum!SelfOf(b, n)])
        IN  Sum!Comparable(b, p) =>
                FoldLeft(LAMBDA a, names : a + Change(names), 0, lists) = p.total - b.total
=============================================================================
