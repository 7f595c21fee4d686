----------------------------- MODULE RawStream -----------------------------
(***************************************************************************)
(* The bytes between the allocation hook and the driver: how the hook      *)
(* (native_alloc_hook.c) lays out a record in its stack buffer, and how    *)
(* parse_raw_stream and parse_retained_raw_stream                          *)
(* (cmd_memprofile_native.rs) read the file back, which may end anywhere.  *)
(*                                                                         *)
(* A byte is a number below Base; a u64 has Word bytes, a tag and a frame  *)
(* count one, the length of a name two.  Concurrency is NativeHook's: here *)
(* records follow one another.                                             *)
(***************************************************************************)
EXTENDS Integers, SequencesExt

CONSTANTS Base,       \* 256
          Word,       \* 8
          BufSize,    \* 8192
          NameCap,    \* 250
          MaxFrames,  \* 64, the limit given to backtrace()
          MaxRecs,    \* bound: records in one stream
          Names,      \* symbol names, as sequences of bytes
          Internal,   \* those of the allocator and the hook
          Ptrs,       \* addresses
          Sizes,      \* sizes of allocations
          Rate,       \* the sampling rate
          TagA, TagF, \* 'A' and 'F'
          None

Byte == 0..(Base - 1)

\* What is left of n after each of its low bytes: n >> (8 * i).
Shifted(n, w) ==
    LET rest[i \in 0..w] == IF i = 0 THEN n ELSE rest[i - 1] \div Base
    IN  rest

Fits(n, w) == Shifted(n, w)[w] = 0

ASSUME RawAssumption ==
    /\ Base \in Nat /\ Base > 1 /\ Word \in Nat /\ MaxRecs \in Nat
    /\ BufSize \in Nat /\ NameCap \in Nat \ {0} /\ NameCap < Base * Base
    /\ MaxFrames \in 1..(Base - 1)
    /\ 2 * Word + 4 + NameCap <= BufSize
    /\ Names \subseteq Seq(Byte) \ {<<>>} /\ Internal \subseteq Names
    /\ Ptrs \subseteq Nat \ {0} /\ Sizes \subseteq Nat
    /\ \A n \in Ptrs \cup Sizes : Fits(n, Word)
    /\ Rate \in Nat \ {0}
    /\ TagA \in Byte /\ TagF \in Byte /\ TagA # TagF
    /\ None \notin [ptr: Nat, size: Nat, left: Int, frames: Seq(Seq(Int))]

VARIABLES
    retained, \* --retained: the record format, and the parser for it
    phase,    \* record, parse, done
    buf,      \* the file
    draft,    \* the record in the hook's stack buffer
    recs,     \* history: the records written, each with the offset of its end
    p,        \* the parser's offset
    cur,      \* the record the parser is in the middle of
    live,     \* retained: the map of live allocations
    samples   \* SampleMap

recordVars == <<draft, recs>>
parseVars == <<p, cur, live, samples>>
vars == <<retained, phase, buf, recordVars, parseVars>>

HeadLen == (IF retained THEN 1 + Word ELSE 0) + Word + 1

Init ==
    /\ retained \in BOOLEAN
    /\ phase = "record" /\ buf = <<>> /\ draft = None /\ recs = <<>>
    /\ p = 0 /\ cur = None
    /\ live = [a \in {} |-> None]
    /\ samples = [s \in {} |-> None]

-----------------------------------------------------------------------------
(* The hook.                                                               *)

LE(n, w) == [i \in 1..w |-> Shifted(n, w)[i - 1] % Base]

\* The addresses with an 'A' and no later 'F': NativeHook shows that no second
\* 'A' comes before the 'F'.
Tracked == {a \in Ptrs :
    \E i \in DOMAIN recs :
        /\ recs[i].op = "A" /\ recs[i].ptr = a
        /\ \A j \in (i + 1)..Len(recs) : recs[j].ptr # a}

\* Tag and address, size, and a byte reserved for the number of frames.
BeginAlloc(a, size, n) ==
    /\ phase = "record" /\ draft = None /\ Len(recs) < MaxRecs
    /\ retained => a \notin Tracked
    /\ draft' = [ptr |-> a, size |-> size, n |-> n, kept |-> <<>>,
                 bytes |-> (IF retained THEN <<TagA>> \o LE(a, Word) ELSE <<>>)
                           \o LE(size, Word) \o <<0>>]
    /\ UNCHANGED <<retained, phase, buf, recs, parseVars>>

\* Mutant: the two bytes of the length are not counted.
RoomWithoutLength == Len(draft.bytes) + NameCap <= BufSize

\* if (pos + 2 + 250 > sizeof(buf)) break;
Room == Len(draft.bytes) + 2 + NameCap <= BufSize

\* One turn of the loop over the backtrace: strnlen, the length, the name.
AddFrame(name) ==
    /\ phase = "record" /\ draft # None
    /\ Len(draft.kept) < draft.n /\ Room
    /\ LET len == IF Len(name) < NameCap THEN Len(name) ELSE NameCap
           cut == SubSeq(name, 1, len)
       IN  draft' = [draft EXCEPT !.kept = Append(@, cut),
                                  !.bytes = @ \o LE(len, 2) \o cut]
    /\ UNCHANGED <<retained, phase, buf, recs, parseVars>>

\* The loop is over: backfill the number of frames, fwrite.
WriteAlloc ==
    /\ phase = "record" /\ draft # None
    /\ Len(draft.kept) = draft.n \/ ~Room
    /\ buf' = buf \o [draft.bytes EXCEPT ![HeadLen] = Len(draft.kept)]
    /\ recs' = Append(recs, [op |-> "A", ptr |-> draft.ptr, size |-> draft.size,
                             frames |-> draft.kept, end |-> Len(buf')])
    /\ draft' = None
    /\ UNCHANGED <<retained, phase, parseVars>>

\* An 'F' for every object, sampled or not.
WriteFree(a) ==
    /\ retained
    /\ phase = "record" /\ draft = None /\ Len(recs) < MaxRecs
    /\ buf' = buf \o <<TagF>> \o LE(a, Word)
    /\ recs' = Append(recs, [op |-> "F", ptr |-> a, size |-> 0, frames |-> <<>>,
                             end |-> Len(buf')])
    /\ UNCHANGED <<retained, phase, draft, parseVars>>

\* The process is gone; the file has any prefix of what it wrote.
Cut(n) ==
    /\ phase = "record"
    /\ phase' = "parse"
    /\ buf' = SubSeq(buf, 1, n)
    /\ draft' = None
    /\ UNCHANGED <<retained, recs, parseVars>>

-----------------------------------------------------------------------------
(* The parser.                                                             *)

\* From the last byte, the highest, to the first.
FromLE(s) ==
    LET acc[k \in 0..Len(s)] == IF k = 0 THEN 0 ELSE s[Len(s) - k + 1] + Base * acc[k - 1]
    IN  acc[Len(s)]

Bytes(from, n) == SubSeq(buf, from + 1, from + n)

\* Skip the leading frames of the allocator and the hook.
UserFrames(frames) ==
    LET users == {i \in DOMAIN frames : frames[i] \notin Internal}
    IN  IF users = {} THEN <<>> ELSE SubSeq(frames, Min(users), Len(frames))

\* Samples by stack from a set of allocations.
Totals(alloc) ==
    [s \in {alloc[i].frames : i \in DOMAIN alloc} |->
        LET own == {i \in DOMAIN alloc : alloc[i].frames = s}
        IN  [count |-> Rate * Cardinality(own),
             bytes |-> Rate * SumFunction([i \in own |-> alloc[i].size])]]

Finish ==
    /\ phase' = "done"
    /\ samples' = IF retained THEN Totals(live) ELSE samples
    /\ UNCHANGED <<retained, buf, recordVars, p, cur, live>>

AtTag(tag) == retained /\ p < Len(buf) /\ buf[p + 1] = tag

\* Another tag is bail!("unknown retained raw record tag ..."): no action has it,
\* so that a stream that reached it would be a deadlock of the run.
\* parse_raw_stream stops when no whole header is left, the other one when
\* nothing is.
ReadHead ==
    /\ phase = "parse" /\ cur = None
    /\ AtTag(TagA) \/ ~retained
    /\ p + HeadLen <= Len(buf)
    /\ cur' = [ptr |-> IF retained THEN FromLE(Bytes(p + 1, Word)) ELSE 0,
               size |-> FromLE(Bytes(p + HeadLen - 1 - Word, Word)),
               left |-> buf[p + HeadLen], frames |-> <<>>]
    /\ p' = p + HeadLen
    /\ UNCHANGED <<retained, phase, buf, recordVars, live, samples>>

ReadFree ==
    /\ phase = "parse" /\ cur = None
    /\ AtTag(TagF)
    /\ p + 1 + Word <= Len(buf)
    /\ live' = LET a == FromLE(Bytes(p + 1, Word))
               IN  [b \in DOMAIN live \ {a} |-> live[b]]
    /\ p' = p + 1 + Word
    /\ UNCHANGED <<retained, phase, buf, recordVars, cur, samples>>

\* break: the end of the file is in a header.
ShortHead ==
    /\ phase = "parse" /\ cur = None
    /\ \/ p = Len(buf)
       \/ (AtTag(TagA) \/ ~retained) /\ p + HeadLen > Len(buf)
       \/ AtTag(TagF) /\ p + 1 + Word > Len(buf)
    /\ Finish

NameLen == FromLE(Bytes(p, 2))
ShortName == p + 2 <= Len(buf) => p + 2 + NameLen > Len(buf)

ReadFrame ==
    /\ phase = "parse" /\ cur # None
    /\ cur.left > 0 /\ ~ShortName
    /\ cur' = [cur EXCEPT !.left = @ - 1,
                          !.frames = Append(@, Bytes(p + 2, NameLen))]
    /\ p' = p + 2 + NameLen
    /\ UNCHANGED <<retained, phase, buf, recordVars, live, samples>>

\* Mutant: what was read of a cut record is taken for a record.
ShortFrameKept ==
    /\ phase = "parse" /\ cur # None
    /\ cur.left > 0 /\ ShortName
    /\ cur' = [cur EXCEPT !.left = 0]
    /\ p' = Len(buf)
    /\ UNCHANGED <<retained, phase, buf, recordVars, live, samples>>

\* ok = false: the end of the file is in a frame; the record is dropped.
ShortFrame ==
    /\ phase = "parse" /\ cur # None
    /\ cur.left > 0 /\ ShortName
    /\ Finish

\* HashMap::insert.
Put(f, k, v) == [x \in DOMAIN f \cup {k} |-> IF x = k THEN v ELSE f[x]]

\* What entry(u).or_default() finds.
Old(t, u) == IF u \in DOMAIN t THEN t[u] ELSE [count |-> 0, bytes |-> 0]

\* samples.entry(user).or_default() and the two additions.
Credit(user, size) ==
    Put(samples, user, [count |-> Old(samples, user).count + Rate,
                        bytes |-> Old(samples, user).bytes + size * Rate])

\* The record is whole: into the map of live allocations or the samples.
TakeRecord ==
    /\ phase = "parse" /\ cur # None
    /\ cur.left = 0
    /\ LET user == UserFrames(cur.frames)
           drop == user = <<>> \/ (retained /\ cur.ptr = 0)
       IN  /\ live' = IF drop \/ ~retained THEN live
                      ELSE Put(live, cur.ptr, [frames |-> user, size |-> cur.size])
           /\ samples' = IF drop \/ retained THEN samples ELSE Credit(user, cur.size)
    /\ cur' = None
    /\ UNCHANGED <<retained, phase, buf, recordVars, p>>

-----------------------------------------------------------------------------
Next ==
    \/ \E a \in IF retained THEN Ptrs ELSE {0}, size \in Sizes, n \in 1..MaxFrames :
          BeginAlloc(a, size, n)
    \/ \E name \in Names : AddFrame(name)
    \/ WriteAlloc
    \/ \E a \in Ptrs : WriteFree(a)
    \/ \E n \in 0..Len(buf) : Cut(n)
    \/ ReadHead \/ ReadFree \/ ShortHead
    \/ ReadFrame \/ ShortFrame \/ TakeRecord
    \/ phase = "done" /\ UNCHANGED vars

Spec == Init /\ [][Next]_vars

-----------------------------------------------------------------------------
\* What the driver reports of a stream that ends anywhere is what the hook
\* meant by the records that are whole in it: nothing is made of the rest.
Whole == {i \in DOMAIN recs : recs[i].end <= Len(buf)}

Surviving == {i \in Whole :
    /\ recs[i].op = "A" /\ UserFrames(recs[i].frames) # <<>>
    /\ retained => \A j \in Whole : j > i => recs[j].ptr # recs[i].ptr}

WholeRecordsCount ==
    phase = "done" =>
        samples = Totals([i \in Surviving |-> [frames |-> UserFrames(recs[i].frames),
                                               size |-> recs[i].size]])

\* The hook stays within its stack buffer, whatever the names.
RecordFits == draft # None => Len(draft.bytes) <= BufSize
=============================================================================
