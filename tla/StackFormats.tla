---------------------------- MODULE StackFormats ----------------------------
(***************************************************************************)
(* pprof-stack-formats: one value axis of a pprof profile as folded text   *)
(* or as a Speedscope file, and both of them as pprof again.               *)
(*                                                                         *)
(* A folded file is a sequence of lines [text, value]: what comes before   *)
(* the last blank, and the number after it, None when that is no number    *)
(* the importer takes.  A Speedscope file is [frames, profiles], a profile *)
(* [type, unit, samples, weights] with frames numbered from 0.             *)
(***************************************************************************)
EXTENDS Pprof

Unknown == <<"(unknown)">>
Sampled == <<"samples", "count">>

TimeUnits == {"nanoseconds", "microseconds", "milliseconds", "seconds"}
SpeedscopeUnits == TimeUnits \cup {"none", "bytes"}

\* --value-index, or the first time axis; None when there is no such axis.
SelectAxis(p, explicit, units) ==
    LET first == SelectInSeq(p.types, LAMBDA t : t[1] \in {"cpu", "wall"} /\ t[2] \in units)
        at == IF explicit = None THEN first ELSE explicit
    IN  IF at \in DOMAIN p.types THEN at ELSE None

\* A location is its first line, so of inlined calls only the innermost; without
\* a line number it is at the start of its function.  Columns are left out, and
\* ids that name nothing.
FrameForLocation(p, id) ==
    LET lines == p.locations[id].lines IN
    IF lines = <<>> THEN [name |-> <<"0x0">>, file |-> "", line |-> 0]
    ELSE LET f == p.functions[lines[1].fn] IN
         [name |-> IF f.name = <<>> THEN Unknown ELSE f.name, file |-> f.file,
          line |-> IF lines[1].line > 0 THEN lines[1].line ELSE Max({f.start, 0})]

\* Root first.
StackOf(p, s) == Reverse([i \in DOMAIN s.location |-> FrameForLocation(p, s.location[i])])

Exported(p, axis) ==
    SelectSeq(p.samples, LAMBDA s : s.value[axis] > 0 /\ s.location # <<>>)

-----------------------------------------------------------------------------
(* Folded text.                                                            *)

\* Mutant: a frame keeps its separators.
SanitizeNothing(name) == name

Sanitize(name) ==
    [i \in DOMAIN name |-> CASE name[i] = ";" -> ":" [] name[i] = "\n" -> " " [] OTHER -> name[i]]

Text(p, s) ==
    LET stack == StackOf(p, s) IN
    FlattenSeq([i \in DOMAIN stack |->
        (IF i = 1 THEN <<>> ELSE <<";">>) \o Sanitize(stack[i].name)])

\* A line for each text, in the order of the texts.
ToFolded(p, axis) ==
    LET kept == Exported(p, axis)
        Sum(t) == FoldLeft(LAMBDA a, s : a + IF Text(p, s) = t THEN s.value[axis] ELSE 0, 0, kept)
    IN  SetToSeq({[text |-> t, value |-> Sum(t)] : t \in {Text(p, kept[i]) : i \in DOMAIN kept}})

Trim(s) ==
    LET ink == {i \in DOMAIN s : s[i] # " "} IN
    IF ink = {} THEN <<>> ELSE SubSeq(s, Min(ink), Max(ink))

Split(s) ==
    FoldLeft(LAMBDA parts, c : IF c = ";" THEN Append(parts, <<>>)
                               ELSE [parts EXCEPT ![Len(parts)] = Append(@, c)], <<<<>>>>, s)

FoldedFrames(line) ==
    LET parts == Split(Trim(line.text)) IN [i \in DOMAIN parts |-> Trim(parts[i])]

Skipped(line) ==
    LET t == Trim(line.text) IN
    (t = <<>> /\ line.value = None) \/ (t # <<>> /\ t[1] = "#") \/ (t # <<>> /\ line.value = 0)

\* One bad line refuses the file.
BadLine(line) ==
    /\ ~Skipped(line)
    /\ \/ Trim(line.text) = <<>> \/ line.value = None
       \/ <<>> \in Range(FoldedFrames(line))

FoldedFrame(name) ==
    [key |-> name, mapping |-> 1,
     lines |-> <<[fn |-> [key |-> name, name |-> name, file |-> "", start |-> 0], line |-> 0]>>]

\* type: --sample-type and --unit, since a folded file names neither.
FromFolded(lines, type) ==
    LET kept == SelectSeq(lines, LAMBDA l : ~Skipped(l)) IN
    IF \E i \in DOMAIN lines : BadLine(lines[i]) THEN None
    ELSE Profile(<<Sampled, type>>, {1},
            [i \in DOMAIN kept |->
                LET names == Reverse(FoldedFrames(kept[i])) IN
                [frames |-> [j \in DOMAIN names |-> FoldedFrame(names[j])],
                 value |-> <<1, kept[i].value>>]])

-----------------------------------------------------------------------------
(* Speedscope.                                                             *)

\* Mutant: a frame is its name.
FrameByName(frames, f) == SelectInSeq(frames, LAMBDA g : g.name = f.name)

FrameId(frames, f) == SelectInSeq(frames, LAMBDA g : g = f)

ToSpeedscope(p, axis) ==
    LET kept == Exported(p, axis)
        frames == FoldLeft(LAMBDA t, f : IF FrameId(t, f) = 0 THEN Append(t, f) ELSE t, <<>>,
                           FlattenSeq([i \in DOMAIN kept |-> StackOf(p, kept[i])]))
        Ids(stack) == [j \in DOMAIN stack |-> FrameId(frames, stack[j]) - 1]
    IN  [frames |-> frames,
         profiles |-> <<[type |-> "sampled", unit |-> p.types[axis][2],
                         samples |-> [i \in DOMAIN kept |-> Ids(StackOf(p, kept[i]))],
                         weights |-> [i \in DOMAIN kept |-> kept[i].value[axis]]]>>]

SpeedscopeValueType(unit) ==
    CASE unit \in TimeUnits -> <<"cpu", unit>>
      [] unit = "bytes" -> <<"space", "bytes">>
      [] OTHER -> Sampled

\* A weight that is missing is 1, a frame that is missing is left out.  An
\* evented profile has no samples, so that its file is not read, whichever
\* profile is asked for.
FromSpeedscope(file, index) ==
    IF index \notin DOMAIN file.profiles \/ \E q \in Range(file.profiles) : q.type # "sampled"
    THEN None
    ELSE LET q == file.profiles[index]
             Weight(i) == IF i \in DOMAIN q.weights THEN Max({q.weights[i], 0}) ELSE 1
             Ids(i) == SelectSeq(Reverse(q.samples[i]), LAMBDA f : f < Len(file.frames))
             kept == SelectSeq([i \in DOMAIN q.samples |-> i],
                               LAMBDA i : Weight(i) > 0 /\ Ids(i) # <<>>)
         IN  [types |-> <<Sampled, SpeedscopeValueType(q.unit)>>, mappings |-> {1},
              functions |-> [i \in DOMAIN file.frames |->
                  LET f == file.frames[i] IN
                  [key |-> i, name |-> IF f.name = <<>> THEN Unknown ELSE f.name, file |-> f.file,
                   start |-> f.line]],
              locations |-> [i \in DOMAIN file.frames |->
                  [key |-> i, mapping |-> 1, lines |-> <<[fn |-> i, line |-> file.frames[i].line]>>]],
              samples |-> [n \in DOMAIN kept |->
                  [location |-> [j \in DOMAIN Ids(kept[n]) |-> Ids(kept[n])[j] + 1],
                   value |-> <<1, Weight(kept[n])>>]]]
=============================================================================
