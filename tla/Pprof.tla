------------------------------- MODULE Pprof -------------------------------
(***************************************************************************)
(* The pprof profiles every converter builds and every reader resolves.    *)
(* A table is a sequence of entries with a key each; the id of an entry is *)
(* its position, and 0 stands for no entry.  The converters differ in the  *)
(* keys they intern by.                                                    *)
(*                                                                         *)
(* A frame to intern is [key, mapping, lines], a line [fn, line] and a     *)
(* function [key, name, file] and, where an exporter may read it, its      *)
(* first line, start; a name is a sequence of characters.                  *)
(***************************************************************************)
EXTENDS Integers, SequencesExt, FiniteSetsExt

CONSTANT None \* what is not there

\* A finite set of numbers as a sequence.
InOrder(S) == [n \in 1..Cardinality(S) |-> CHOOSE x \in S : Cardinality({y \in S : y <= x}) = n]

IdOf(table, key) == SelectInSeq(table, LAMBDA e : e.key = key)

Intern(table, entry) ==
    IF IdOf(table, entry.key) = 0 THEN Append(table, entry) ELSE table

\* The functions of a location are interned when the location is new.
InternLocation(p, frame) ==
    IF IdOf(p.locations, frame.key) # 0 THEN p
    ELSE LET fns == FoldLeft(LAMBDA t, l : Intern(t, l.fn), p.functions, frame.lines)
             lines == [i \in DOMAIN frame.lines |->
                          [fn |-> IdOf(fns, frame.lines[i].fn.key), line |-> frame.lines[i].line]]
         IN  [p EXCEPT !.functions = fns,
                       !.locations = Append(@, [key |-> frame.key, mapping |-> frame.mapping,
                                                lines |-> lines])]

AddSample(p, s) ==
    LET q == FoldLeft(InternLocation, p, s.frames) IN
    [q EXCEPT !.samples = Append(@,
        [location |-> [i \in DOMAIN s.frames |-> IdOf(q.locations, s.frames[i].key)],
         value |-> s.value])]

\* The sum of pairs.
SumPairs(f) == [k \in 1..2 |-> SumFunction([i \in DOMAIN f |-> f[i][k]])]

\* The samples of one stack in one: stacks are the same when their keys are.
\* The code has them from a HashMap in any order, here they are in that of the
\* first of each.
Merge(items) ==
    LET Keys(i) == [j \in DOMAIN items[i].frames |-> items[i].frames[j].key]
        Same(i) == {j \in DOMAIN items : Keys(j) = Keys(i)}
        Sum(i) == SumPairs([j \in Same(i) |-> items[j].value])
        first == InOrder({i \in DOMAIN items : \A j \in Same(i) : i <= j})
    IN  [n \in DOMAIN first |-> [frames |-> items[first[n]].frames, value |-> Sum(first[n])]]

Profile(types, mappings, items) ==
    LET p == FoldLeft(AddSample, [functions |-> <<>>, locations |-> <<>>, samples |-> <<>>], items)
    IN  [types |-> types, mappings |-> mappings,
         functions |-> p.functions, locations |-> p.locations, samples |-> p.samples]

-----------------------------------------------------------------------------
(* What a reader sees.                                                     *)

\* The names of a sample's stack, leaf first, inlined calls included.
NamesOf(p, s) ==
    FlattenSeq([i \in DOMAIN s.location |->
        LET lines == p.locations[s.location[i]].lines IN
        [j \in DOMAIN lines |-> p.functions[lines[j].fn].name]])

\* Entries [stack, value]: the sum of the values of each stack.
Tally(entries) ==
    [st \in {entries[i].stack : i \in DOMAIN entries} |->
        LET of == {i \in DOMAIN entries : entries[i].stack = st} IN
        SumPairs([i \in of |-> entries[i].value])]

ByStack(p) ==
    Tally([i \in DOMAIN p.samples |->
              [stack |-> NamesOf(p, p.samples[i]), value |-> p.samples[i].value]])
=============================================================================
