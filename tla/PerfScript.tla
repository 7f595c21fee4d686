----------------------------- MODULE PerfScript -----------------------------
(***************************************************************************)
(* perf-to-pprof: the text of perf script, one line at a time, into        *)
(* samples, and those into a profile.  A line is blank, a header with its  *)
(* period (None when the token is no number), a frame [symbol, dso], or    *)
(* indented text that is no frame.                                         *)
(***************************************************************************)
EXTENDS Pprof, MoonbitDemangle

Flush(st) ==
    IF st.current = None THEN st
    ELSE [samples |-> Append(st.samples, st.current), current |-> None]

ParseFrame(line) == [symbol |-> line.symbol, dso |-> line.dso]

\* Mutant: a blank line does not end a sample.
ParseLineOverBlank(st, line) ==
    CASE line.t = "frame" /\ st.current # None ->
            [st EXCEPT !.current.stack = Append(@, ParseFrame(line))]
      [] line.t = "header" ->
            [Flush(st) EXCEPT !.current = [stack |-> <<>>,
                                           period |-> IF line.period = None THEN 1 ELSE line.period]]
      [] OTHER -> st

\* Frames outside a sample are dropped.
ParseLine(st, line) ==
    CASE line.t = "blank" -> Flush(st)
      [] line.t = "frame" /\ st.current # None ->
            [st EXCEPT !.current.stack = Append(@, ParseFrame(line))]
      [] line.t = "header" ->
            [Flush(st) EXCEPT !.current = [stack |-> <<>>,
                                           period |-> IF line.period = None THEN 1 ELSE line.period]]
      [] OTHER -> st

Parse(lines) == Flush(FoldLeft(ParseLine, [samples |-> <<>>, current |-> None], lines)).samples

-----------------------------------------------------------------------------

Unknown == {<<>>, <<"[unknown]">>}

\* Stats::from_samples.
StatsOf(samples) ==
    LET frames == FlattenSeq([i \in DOMAIN samples |-> samples[i].stack]) IN
    [samples |-> Len(samples), frames |-> Len(frames),
     unknown |-> Len(SelectSeq(frames, LAMBDA f : f.symbol \in Unknown)),
     periods |-> FoldLeft(LAMBDA a, s : a + s.period, 0, samples)]

\* Mutant: the average, in whole numbers.
PeriodLikelyOne(stats) == stats.samples > 0 /\ stats.periods \div stats.samples = 1

PeriodLikelyMissing(stats) == stats.samples > 0 /\ stats.periods = stats.samples

\* Functions and locations are interned by readable name and dso.
PerfFrame(f) ==
    LET key == <<Demangle(f.symbol), f.dso>> IN
    [key |-> key, mapping |-> f.dso,
     lines |-> <<[fn |-> [key |-> key, name |-> key[1], file |-> f.dso], line |-> 0]>>]

\* A sample without frames is dropped.
Encode(samples) ==
    LET kept == {i \in DOMAIN samples : samples[i].stack # <<>>}
        items == [i \in kept |->
                    [frames |-> [j \in DOMAIN samples[i].stack |-> PerfFrame(samples[i].stack[j])],
                     value |-> <<1, samples[i].period>>]]
    IN  Profile(<<<<"samples", "count">>, <<"cpu", "nanoseconds">>>>,
                {f.dso : f \in UNION {Range(samples[i].stack) : i \in kept}}, Merge(items))

ConvertPerf(lines) == Encode(Parse(lines))

-----------------------------------------------------------------------------
(* Reference: a sample is a header and the frames down to the next blank   *)
(* line or header.                                                         *)

FramesUnder(lines, h) ==
    {j \in DOMAIN lines :
        /\ j > h /\ lines[j].t = "frame"
        /\ \A k \in (h + 1)..j : lines[k].t \notin {"blank", "header"}}

Expected(lines) ==
    LET headers == {h \in DOMAIN lines : lines[h].t = "header" /\ FramesUnder(lines, h) # {}}
    IN  Tally([h \in headers |->
            LET under == InOrder(FramesUnder(lines, h)) IN
            [stack |-> [j \in DOMAIN under |-> Demangle(lines[under[j]].symbol)],
             value |-> <<1, IF lines[h].period = None THEN 1 ELSE lines[h].period>>]])
=============================================================================
