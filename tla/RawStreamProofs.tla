--------------------------- MODULE RawStreamProofs ---------------------------
(***************************************************************************)
(* Of RawStream, for all values of its constants: a record stays within    *)
(* the hook's stack buffer; the file holds the records, one after another, *)
(* as far as it goes; the parser makes of it what the whole records say.   *)
(***************************************************************************)
EXTENDS RawStream, FoldLemmas

-----------------------------------------------------------------------------
(* Numbers as bytes.                                                       *)

\* Integer division.
LEMMA DivMod ==
    ASSUME NEW n \in Nat, NEW b \in Nat, b > 1
    PROVE  /\ n \div b \in Nat /\ n % b \in 0..(b - 1)
           /\ (n % b) + b * (n \div b) = n
<1>1. n \div b \in Nat /\ n % b \in 0..(b - 1)
  OBVIOUS
<1>2. n = b * (n \div b) + (n % b)
  OBVIOUS
<1>3. QED
  BY <1>1, <1>2

\* A number of two digits.
LEMMA DivSmall ==
    ASSUME NEW n \in Nat, NEW b \in Nat, b > 1, n < b * b
    PROVE  (n \div b) \div b = 0
<1>1. n \div b \in Nat /\ n \div b < b
  OBVIOUS
<1>2. \A m \in Nat : m < b => m \div b = 0
  OBVIOUS
<1>3. QED
  BY <1>1, <1>2

\* Shifted is what its recursion says.
LEMMA ShiftedIs ==
    ASSUME NEW n \in Nat, NEW w \in Nat
    PROVE  /\ Shifted(n, w) \in [0..w -> Nat] /\ Shifted(n, w)[0] = n
           /\ \A i \in 1..w : Shifted(n, w)[i] = Shifted(n, w)[i - 1] \div Base
<1> DEFINE step == [x \in (1..w) \X Nat |-> x[2] \div Base]
           Is(r) == r = [i \in 0..w |-> IF i = 0 THEN n ELSE r[i - 1] \div Base]
<1>1. Base \in Nat /\ Base > 1
  BY RawAssumption
<1>2. step \in [(1..w) \X Nat -> Nat]
  <2>1. \A m \in Nat : m \div Base \in Nat
    BY <1>1
  <2>2. \A x \in (1..w) \X Nat : x[2] \in Nat
    OBVIOUS
  <2>3. QED
    BY <2>1, <2>2
<1>3. PICK g \in [0..w -> Nat] : Recurs(g, n, step, w)
  BY <1>2, RecursionExists
<1>4. \A i \in 1..w : g[i - 1] \in Nat /\ <<i, g[i - 1]>> \in (1..w) \X Nat
  OBVIOUS
<1>5. \A i \in 1..w : g[i] = g[i - 1] \div Base
  <2> SUFFICES ASSUME NEW i \in 1..w PROVE g[i] = g[i - 1] \div Base
    OBVIOUS
  <2>1. g[i] = step[<<i, g[i - 1]>>]
    BY <1>3 DEF Recurs
  <2>2. QED
    BY <1>4, <2>1
<1>6. g[0] = n
  BY <1>3 DEF Recurs
<1>7. Is(g)
  <2>1. \A i \in 0..w : g[i] = IF i = 0 THEN n ELSE g[i - 1] \div Base
    BY <1>5, <1>6
  <2>2. QED
    BY <2>1
<1>8. Shifted(n, w) = CHOOSE r : Is(r)
  BY DEF Shifted
<1>9. Is(Shifted(n, w))
  <2> HIDE DEF Is
  <2> QED
    BY <1>7, <1>8
<1> DEFINE r == Shifted(n, w)
<1> HIDE DEF r, step
<1>10. r = [i \in 0..w |-> IF i = 0 THEN n ELSE r[i - 1] \div Base]
  BY <1>9 DEF r
<1> HIDE DEF Is
<1>11. r[0] = n /\ \A i \in 1..w : r[i] = r[i - 1] \div Base
  <2>1. 0 \in 0..w /\ \A i \in 1..w : i \in 0..w /\ i # 0
    OBVIOUS
  <2>2. QED
    BY <1>10, <2>1
<1>12. \A i \in 0..w : r[i] \in Nat
  <2> DEFINE S == {k \in Nat : k <= w => r[k] \in Nat}
  <2>1. 0 \in S
    BY <1>11
  <2>2. ASSUME NEW k \in Nat, k \in S PROVE k + 1 \in S
    <3> SUFFICES ASSUME k + 1 <= w PROVE r[k + 1] \in Nat
      OBVIOUS
    <3>1. r[k] \in Nat /\ k + 1 \in 1..w /\ (k + 1) - 1 = k
      BY <2>2
    <3>2. r[k + 1] = r[k] \div Base
      BY <1>11, <3>1
    <3>3. r[k] \div Base \in Nat
      BY <1>1, <3>1
    <3>4. QED
      BY <3>2, <3>3
  <2>3. Nat \subseteq S
    <3> HIDE DEF S
    <3> QED
      BY <2>1, <2>2, Induction
  <2>4. QED
    BY <2>3
<1>13. r \in [0..w -> Nat]
  BY <1>10, <1>12
<1>14. QED
  BY <1>11, <1>13 DEF r

\* A number takes as many bytes as it is given.
LEMMA LEType ==
    ASSUME NEW n \in Nat, NEW w \in Nat
    PROVE  LE(n, w) \in Seq(Int) /\ Len(LE(n, w)) = w
<1>1. \A i \in 1..w : Shifted(n, w)[i - 1] % Base \in Int
  <2> SUFFICES ASSUME NEW i \in 1..w PROVE Shifted(n, w)[i - 1] % Base \in Int
    OBVIOUS
  <2>1. Shifted(n, w)[i - 1] \in Nat
    BY ShiftedIs
  <2>2. Base \in Nat /\ Base > 1
    BY RawAssumption
  <2>3. Shifted(n, w)[i - 1] % Base \in 0..(Base - 1)
    BY <2>1, <2>2, DivMod, Zenon
  <2>4. QED
    BY <2>2, <2>3
<1>2. QED
  BY <1>1 DEF LE

\* What fits the bytes it is given is read back.
LEMMA ReadsBack ==
    ASSUME NEW n \in Nat, NEW w \in Nat, Fits(n, w)
    PROVE  FromLE(LE(n, w)) = n
<1> DEFINE s == LE(n, w)
           r == Shifted(n, w)
           g == [k \in 0..w |-> r[w - k]]
           Is(c) == c = [k \in 0..Len(s) |->
                           IF k = 0 THEN 0 ELSE s[Len(s) - k + 1] + Base * c[k - 1]]
           c == CHOOSE c : Is(c)
<1>1. s \in Seq(Int) /\ Len(s) = w
  BY LEType
<1>2. \A i \in 1..w : s[i] = r[i - 1] % Base
  BY DEF LE
<1>3. r \in [0..w -> Nat] /\ r[0] = n /\ \A i \in 1..w : r[i] = r[i - 1] \div Base
  BY ShiftedIs
<1>4. r[w] = 0
  BY DEF Fits
<1> HIDE DEF r, s
<1>5. \A k \in 1..w : s[w - k + 1] + Base * g[k - 1] = g[k]
  <2> SUFFICES ASSUME NEW k \in 1..w PROVE s[w - k + 1] + Base * g[k - 1] = g[k]
    OBVIOUS
  <2> DEFINE i == w - k + 1
  <2>1. i \in 1..w /\ i - 1 = w - k /\ i = w - (k - 1) /\ i - 1 \in 0..w /\ k - 1 \in 0..w
    OBVIOUS
  <2>2. g[k - 1] = r[i] /\ g[k] = r[i - 1]
    BY <2>1
  <2>3. s[i] = r[i - 1] % Base /\ r[i] = r[i - 1] \div Base /\ r[i - 1] \in Nat
    BY <1>2, <1>3, <2>1
  <2> HIDE DEF i, g
  <2>4. s[i] + Base * r[i] = r[i - 1]
    BY <2>3, DivMod, RawAssumption
  <2>5. s[i] + Base * g[k - 1] = g[k]
    BY <2>2, <2>4
  <2>6. QED
    BY <2>5 DEF i
<1>6. Is(g)
  <2>1. g[0] = 0
    BY <1>4
  <2>2. \A k \in 0..w : g[k] = IF k = 0 THEN 0 ELSE s[w - k + 1] + Base * g[k - 1]
    <3> HIDE DEF g
    <3> QED
      BY <1>5, <2>1
  <2>3. g = [k \in 0..w |-> IF k = 0 THEN 0 ELSE s[w - k + 1] + Base * g[k - 1]]
    <3>1. g = [k \in 0..w |-> g[k]]
      OBVIOUS
    <3> HIDE DEF g
    <3> QED
      BY <2>2, <3>1
  <2>4. QED
    BY <1>1, <2>3
<1>7. Is(c)
  <2> HIDE DEF Is, g
  <2> QED
    BY <1>6 DEF c
<1>8. FromLE(s) = c[w]
  BY <1>1 DEF FromLE
<1> HIDE DEF c
<1>9. c[0] = 0 /\ \A k \in 1..w : c[k] = s[w - k + 1] + Base * c[k - 1]
  <2>1. c = [k \in 0..w |-> IF k = 0 THEN 0 ELSE s[w - k + 1] + Base * c[k - 1]]
    BY <1>1, <1>7
  <2> HIDE DEF Is
  <2>2. 0 \in 0..w /\ \A k \in 1..w : k \in 0..w /\ k # 0
    OBVIOUS
  <2>3. QED
    BY <2>1, <2>2
<1>10. \A k \in 0..w : c[k] = g[k]
  <2> DEFINE S == {k \in Nat : k <= w => c[k] = g[k]}
  <2>1. 0 \in S
    BY <1>4, <1>9
  <2>2. ASSUME NEW k \in Nat, k \in S PROVE k + 1 \in S
    <3> HIDE DEF g
    <3> SUFFICES ASSUME k + 1 <= w PROVE c[k + 1] = g[k + 1]
      OBVIOUS
    <3>1. c[k] = g[k] /\ k + 1 \in 1..w /\ (k + 1) - 1 = k
      BY <2>2
    <3>2. /\ c[k + 1] = s[w - (k + 1) + 1] + Base * c[(k + 1) - 1]
          /\ g[k + 1] = s[w - (k + 1) + 1] + Base * g[(k + 1) - 1]
      BY <1>5, <1>9, <3>1
    <3>3. QED
      BY <3>1, <3>2, Zenon
  <2>3. Nat \subseteq S
    <3> HIDE DEF S
    <3> QED
      BY <2>1, <2>2, Induction
  <2>4. QED
    <3> HIDE DEF g
    <3> QED
      BY <2>3
<1>11. QED
  BY <1>3, <1>8, <1>10 DEF s

\* The length of a name takes two bytes.
LEMMA LengthFits == ASSUME NEW n \in Nat, n <= NameCap PROVE Fits(n, 2)
<1>1. /\ Shifted(n, 2)[0] = n
      /\ \A i \in 1..2 : Shifted(n, 2)[i] = Shifted(n, 2)[i - 1] \div Base
  <2>1. 2 \in Nat
    OBVIOUS
  <2>2. QED
    BY <2>1, ShiftedIs, Zenon
<1>2. Shifted(n, 2)[2] = (n \div Base) \div Base
  BY <1>1
<1>3. n < Base * Base /\ Base \in Nat /\ Base > 1
  <2>1. NameCap \in Nat /\ NameCap < Base * Base /\ Base \in Nat /\ Base > 1
    BY RawAssumption
  <2> DEFINE bb == Base * Base
  <2>2. bb \in Nat
    BY <2>1
  <2> HIDE DEF bb
  <2>3. n < bb
    BY <2>1, <2>2 DEF bb
  <2>4. QED
    BY <2>1, <2>3 DEF bb
<1>4. QED
  BY <1>2, <1>3, DivSmall DEF Fits

-----------------------------------------------------------------------------
(* How a stream is laid out, as formulas about a sequence of bytes; kind   *)
(* is the value of retained.                                               *)

HeadOf(kind) == (IF kind THEN 1 + Word ELSE 0) + Word + 1

\* b has s at an offset, as far as b goes.
HoldsAt(b, off, s) == \A k \in 1..Len(s) : off + k <= Len(b) => b[off + k] = s[k]

\* b has the frames one after another from an offset on, frame f at at[f] from
\* there; the last of these is where they end.
FramesAt(b, off, frames, at) ==
    /\ at \in [1..(Len(frames) + 1) -> Nat] /\ at[1] = 0
    /\ \A f \in 1..Len(frames) :
          /\ at[f + 1] = at[f] + 2 + Len(frames[f])
          /\ HoldsAt(b, off + at[f], LE(Len(frames[f]), 2))
          /\ HoldsAt(b, off + at[f] + 2, frames[f])
    /\ \A f \in 1..(Len(frames) + 1) : at[f] <= at[Len(frames) + 1]

\* The header but for the number of frames.
HeadAt(kind, b, off, r) ==
    /\ kind => HoldsAt(b, off, <<TagA>>) /\ HoldsAt(b, off + 1, LE(r.ptr, Word))
    /\ HoldsAt(b, off + HeadOf(kind) - 1 - Word, LE(r.size, Word))

AllocAt(kind, b, off, r, at) ==
    /\ HeadAt(kind, b, off, r) /\ HoldsAt(b, off + HeadOf(kind) - 1, <<Len(r.frames)>>)
    /\ FramesAt(b, off + HeadOf(kind), r.frames, at)
    /\ r.end = off + HeadOf(kind) + at[Len(r.frames) + 1]

FreeAt(b, off, r) ==
    /\ HoldsAt(b, off, <<TagF>>) /\ HoldsAt(b, off + 1, LE(r.ptr, Word))
    /\ r.end = off + 1 + Word

\* What fits its bytes: the address, the size and the lengths of the names.
Encodable(kind, r, frames) ==
    /\ r.ptr \in Nat /\ r.size \in Nat /\ Fits(r.size, Word)
    /\ IF kind THEN Fits(r.ptr, Word) /\ r.ptr # 0 ELSE r.ptr = 0
    /\ frames \in Seq(Seq(Int))
    /\ \A f \in 1..Len(frames) : Len(frames[f]) <= NameCap

Records == [op: {"A", "F"}, ptr: Nat, size: Nat, frames: Seq(Seq(Int)), end: Nat]

RecordAt(kind, b, off, r, at) ==
    IF r.op = "A"
    THEN Encodable(kind, r, r.frames) /\ AllocAt(kind, b, off, r, at)
    ELSE kind /\ Fits(r.ptr, Word) /\ FreeAt(b, off, r)

\* The end of the first j records.
EndOf(rs, j) == IF j = 0 THEN 0 ELSE rs[j].end

\* An address that is not that of a live object, after the first j records.
Untracked(rs, j, a) ==
    \A i \in 1..j : rs[i].op = "A" /\ rs[i].ptr = a =>
        \E m \in (i + 1)..j : rs[m].ptr = a

\* b has the records one after another, as far as it goes; an address comes
\* again only after it was freed.
Laid(kind, b, rs) ==
    /\ b \in Seq(Int) /\ rs \in Seq(Records)
    /\ \A i \in 1..Len(rs) : \E at : RecordAt(kind, b, EndOf(rs, i - 1), rs[i], at)
    /\ \A i, j \in 0..Len(rs) : i < j => EndOf(rs, i) < EndOf(rs, j)
    /\ Len(b) <= EndOf(rs, Len(rs))
    /\ kind => \A i \in 1..Len(rs) : rs[i].op = "A" => Untracked(rs, i - 1, rs[i].ptr)

\* The draft is a record without its number of frames.
DraftAt(kind, d, at) ==
    /\ Encodable(kind, d, d.kept) /\ d.bytes \in Seq(Int)
    /\ HeadAt(kind, d.bytes, 0, d) /\ FramesAt(d.bytes, HeadOf(kind), d.kept, at)
    /\ Len(d.bytes) = HeadOf(kind) + at[Len(d.kept) + 1]

-----------------------------------------------------------------------------
(* Bytes at an offset.                                                     *)

\* A sequence that another one holds: what the first one holds is in the
\* second one, when it lies in the first or the second goes no further.
LEMMA HoldsMoves ==
    ASSUME NEW b \in Seq(Int), NEW c \in Seq(Int), NEW d \in Nat, HoldsAt(c, d, b),
           NEW s, Len(s) \in Nat, NEW off \in Nat, HoldsAt(b, off, s),
           off + Len(s) <= Len(b) \/ Len(c) <= d + Len(b)
    PROVE  HoldsAt(c, d + off, s)
<1> SUFFICES ASSUME NEW k \in 1..Len(s), d + off + k <= Len(c)
             PROVE  c[d + off + k] = s[k]
  BY DEF HoldsAt
<1>1. Len(b) \in Nat /\ Len(c) \in Nat
  OBVIOUS
<1>2. off + k \in 1..Len(b)
  BY <1>1
<1>3. b[off + k] = s[k]
  BY <1>2 DEF HoldsAt
<1>4. c[d + (off + k)] = b[off + k]
  <2>1. d + (off + k) <= Len(c)
    BY <1>1
  <2>2. QED
    BY <1>2, <2>1 DEF HoldsAt
<1>5. d + (off + k) = d + off + k
  OBVIOUS
<1>6. QED
  BY <1>3, <1>4, <1>5

\* Of two sequences joined, each is held.
LEMMA HoldsJoined ==
    ASSUME NEW b \in Seq(Int), NEW c \in Seq(Int)
    PROVE  /\ HoldsAt(b \o c, 0, b) /\ HoldsAt(b \o c, Len(b), c)
           /\ b \o c \in Seq(Int) /\ Len(b \o c) = Len(b) + Len(c)
<1>1. HoldsAt(b \o c, 0, b) /\ HoldsAt(b \o c, Len(b), c)
  BY DEF HoldsAt
<1>2. QED
  BY <1>1, ConcatProperties

\* A prefix is the sequence itself, as far as it goes.
LEMMA HoldsPrefix ==
    ASSUME NEW b \in Seq(Int), NEW n \in 0..Len(b)
    PROVE  /\ HoldsAt(SubSeq(b, 1, n), 0, b)
           /\ SubSeq(b, 1, n) \in Seq(Int) /\ Len(SubSeq(b, 1, n)) = n
<1>1. SubSeq(b, 1, n) \in Seq(Int) /\ Len(SubSeq(b, 1, n)) = n
  BY SubSeqProperties
<1>2. \A k \in 1..n : SubSeq(b, 1, n)[k] = b[k]
  BY SubSeqProperties
<1>3. QED
  BY <1>1, <1>2 DEF HoldsAt

\* What is held whole is what is read there.
LEMMA HoldsRead ==
    ASSUME NEW b \in Seq(Int), NEW s \in Seq(Int), NEW off \in Nat, HoldsAt(b, off, s),
           off + Len(s) <= Len(b)
    PROVE  SubSeq(b, off + 1, off + Len(s)) = s
<1> DEFINE t == SubSeq(b, off + 1, off + Len(s))
<1>1. t \in Seq(Int) /\ Len(t) = Len(s)
  BY SubSeqProperties
<1>2. \A k \in 1..Len(s) : t[k] = b[off + k]
  BY SubSeqProperties
<1>3. \A k \in 1..Len(s) : b[off + k] = s[k]
  <2>1. Len(s) \in Nat /\ Len(b) \in Nat
    OBVIOUS
  <2>2. \A k \in 1..Len(s) : off + k <= Len(b)
    BY <2>1
  <2>3. QED
    BY <2>2 DEF HoldsAt
<1> HIDE DEF t
<1>4. \A k \in 1..Len(s) : t[k] = s[k]
  BY <1>2, <1>3
<1>5. t = s
  BY <1>1, <1>4, SeqEqual
<1>6. QED
  BY <1>5 DEF t

\* So for the frames and the header of a record.
LEMMA FramesMove ==
    ASSUME NEW b \in Seq(Int), NEW c \in Seq(Int), NEW d \in Nat, HoldsAt(c, d, b),
           NEW off \in Nat, NEW frames \in Seq(Seq(Int)), NEW at, FramesAt(b, off, frames, at),
           off + at[Len(frames) + 1] <= Len(b) \/ Len(c) <= d + Len(b)
    PROVE  FramesAt(c, d + off, frames, at)
<1>1. at \in [1..(Len(frames) + 1) -> Nat] /\ at[1] = 0
      /\ \A f \in 1..(Len(frames) + 1) : at[f] <= at[Len(frames) + 1]
  BY DEF FramesAt
<1> DEFINE last == at[Len(frames) + 1]
<1>2. Len(frames) \in Nat /\ last \in Nat
  BY <1>1
<1>3. ASSUME NEW f \in 1..Len(frames)
      PROVE  /\ at[f + 1] = at[f] + 2 + Len(frames[f])
             /\ HoldsAt(c, d + off + at[f], LE(Len(frames[f]), 2))
             /\ HoldsAt(c, d + off + at[f] + 2, frames[f])
  <2> DEFINE n == Len(frames[f])
             x == at[f]
             y == at[f + 1]
             lb == Len(b)
             lc == Len(c)
  <2>1. y = x + 2 + n /\ HoldsAt(b, off + x, LE(n, 2)) /\ HoldsAt(b, off + x + 2, frames[f])
    BY DEF FramesAt
  <2>2. x \in Nat /\ y <= last /\ n \in Nat
    <3>1. f \in 1..(Len(frames) + 1) /\ f + 1 \in 1..(Len(frames) + 1)
      BY <1>2
    <3>2. frames[f] \in Seq(Int)
      OBVIOUS
    <3>3. n \in Nat
      BY <3>2
    <3>4. y <= last
      BY <1>1, <3>1
    <3>5. x \in Nat
      BY <1>1, <3>1
    <3>6. QED
      BY <3>3, <3>4, <3>5
  <2>3. (off + last <= lb \/ lc <= d + lb) /\ lb \in Nat /\ lc \in Nat
    OBVIOUS
  <2> HIDE DEF n, x, y, last, lb, lc
  <2>4. Len(LE(n, 2)) = 2
    BY <2>2, LEType
  <2>5. off + x \in Nat /\ off + x + 2 \in Nat
    BY <2>2
  <2>6. HoldsAt(c, d + (off + x), LE(n, 2))
    <3>1. off + x + 2 <= lb \/ lc <= d + lb
      BY <1>2, <2>1, <2>2, <2>3
    <3>2. off + x + Len(LE(n, 2)) <= Len(b) \/ Len(c) <= d + Len(b)
      BY <2>4, <3>1 DEF lb, lc
    <3>3. Len(LE(n, 2)) \in Nat
      BY <2>4
    <3>4. QED
      BY <2>1, <2>5, <3>2, <3>3, HoldsMoves
  <2>7. HoldsAt(c, d + (off + x + 2), frames[f])
    <3>1. off + x + 2 + n <= lb \/ lc <= d + lb
      BY <1>2, <2>1, <2>2, <2>3
    <3>2. off + x + 2 + Len(frames[f]) <= Len(b) \/ Len(c) <= d + Len(b)
      BY <3>1 DEF n, lb, lc
    <3>3. Len(frames[f]) \in Nat
      BY <2>2 DEF n
    <3>4. HoldsAt(b, off + x + 2, frames[f])
      BY <2>1
    <3>5. QED
      BY <2>5, <3>2, <3>3, <3>4, HoldsMoves
  <2>8. d + (off + x) = d + off + x /\ d + (off + x + 2) = d + off + x + 2
    BY <2>2
  <2>9. QED
    BY <2>1, <2>6, <2>7, <2>8 DEF n, x, y
<1>4. QED
  BY <1>1, <1>3 DEF FramesAt

\* The same of a header.
LEMMA HeadMoves ==
    ASSUME NEW kind \in BOOLEAN, NEW b \in Seq(Int), NEW c \in Seq(Int), NEW d \in Nat,
           HoldsAt(c, d, b), NEW off \in Nat, NEW r, r.ptr \in Nat, r.size \in Nat,
           HeadAt(kind, b, off, r), off + HeadOf(kind) <= Len(b) \/ Len(c) <= d + Len(b)
    PROVE  HeadAt(kind, c, d + off, r)
<1> DEFINE lb == Len(b)
           lc == Len(c)
           h == HeadOf(kind)
           e == off + h - 1 - Word
<1>1. /\ lb \in Nat /\ lc \in Nat /\ Word \in Nat
      /\ h = IF kind THEN 1 + Word + Word + 1 ELSE Word + 1
  BY RawAssumption DEF HeadOf
<1>2. off + h <= lb \/ lc <= d + lb
  OBVIOUS
<1> HIDE DEF h
<1>3. /\ h \in Nat /\ e \in Nat /\ d + e = d + off + h - 1 - Word /\ d + (off + 1) = d + off + 1
      /\ off + 1 \in Nat
  BY <1>1
<1>4. Len(LE(r.ptr, Word)) = Word /\ Len(LE(r.size, Word)) = Word
  BY <1>1, LEType
<1> HIDE DEF lb, lc
<1>5. /\ off + h <= lb => e + Word <= lb
      /\ kind /\ off + h <= lb => off + 1 <= lb /\ off + 1 + Word <= lb
  BY <1>1
<1> HIDE DEF e
<1>6. HoldsAt(c, d + e, LE(r.size, Word))
  <2>1. e + Len(LE(r.size, Word)) <= Len(b) \/ Len(c) <= d + Len(b)
    BY <1>2, <1>4, <1>5 DEF lb, lc
  <2>2. HoldsAt(b, e, LE(r.size, Word))
    BY DEF HeadAt, e, h
  <2>3. Len(LE(r.size, Word)) \in Nat
    BY <1>1, <1>4
  <2>4. QED
    BY <1>3, <2>1, <2>2, <2>3, HoldsMoves
<1>7. kind => HoldsAt(c, d + off, <<TagA>>)
  <2> SUFFICES ASSUME kind PROVE HoldsAt(c, d + off, <<TagA>>)
    OBVIOUS
  <2>1. HoldsAt(b, off, <<TagA>>)
    BY DEF HeadAt
  <2>2. Len(<<TagA>>) = 1
    OBVIOUS
  <2>3. off + Len(<<TagA>>) <= Len(b) \/ Len(c) <= d + Len(b)
    BY <1>2, <1>5, <2>2 DEF lb, lc
  <2>4. QED
    BY <2>1, <2>2, <2>3, HoldsMoves
<1>8. kind => HoldsAt(c, d + (off + 1), LE(r.ptr, Word))
  <2> SUFFICES ASSUME kind PROVE HoldsAt(c, d + (off + 1), LE(r.ptr, Word))
    OBVIOUS
  <2>1. HoldsAt(b, off + 1, LE(r.ptr, Word))
    BY DEF HeadAt
  <2>2. off + 1 + Len(LE(r.ptr, Word)) <= Len(b) \/ Len(c) <= d + Len(b)
    BY <1>2, <1>4, <1>5 DEF lb, lc
  <2>3. Len(LE(r.ptr, Word)) \in Nat
    BY <1>1, <1>4
  <2>4. QED
    BY <1>3, <2>1, <2>2, <2>3, HoldsMoves
<1>9. QED
  BY <1>3, <1>6, <1>7, <1>8 DEF HeadAt, h

\* A record of an allocation stays where it is.
LEMMA AllocKept ==
    ASSUME NEW kind \in BOOLEAN, NEW b \in Seq(Int), NEW c \in Seq(Int), HoldsAt(c, 0, b),
           NEW off \in Nat, NEW r \in Records, NEW at, AllocAt(kind, b, off, r, at),
           r.end <= Len(b) \/ Len(c) <= Len(b)
    PROVE  AllocAt(kind, c, off, r, at)
<1> DEFINE h == HeadOf(kind)
           last == at[Len(r.frames) + 1]
           lb == Len(b)
           lc == Len(c)
<1>1. /\ r.frames \in Seq(Seq(Int)) /\ r.end \in Nat /\ r.ptr \in Nat /\ r.size \in Nat
      /\ Len(r.frames) \in Nat
  BY DEF Records
<1>2. h \in Nat /\ h >= 1
  BY RawAssumption DEF HeadOf
<1>3. last \in Nat /\ r.end = off + h + last
  <2>1. Len(r.frames) + 1 \in 1..(Len(r.frames) + 1)
    BY <1>1
  <2>2. QED
    BY <2>1 DEF AllocAt, FramesAt
<1>4. lb \in Nat /\ lc \in Nat /\ (off + h + last <= lb \/ lc <= lb)
  BY <1>3
<1> HIDE DEF h, last, lb, lc
<1>5. /\ off + h <= lb \/ lc <= 0 + lb
      /\ (off + h) + last <= lb \/ lc <= 0 + lb
      /\ off + h - 1 \in Nat /\ off + h \in Nat
      /\ (off + h - 1) + 1 <= lb \/ lc <= 0 + lb
      /\ 0 + off = off /\ 0 + (off + h) = off + h /\ 0 + (off + h - 1) = off + h - 1
  BY <1>2, <1>3, <1>4
<1>6. HeadAt(kind, c, 0 + off, r)
  <2>1. off + HeadOf(kind) <= Len(b) \/ Len(c) <= 0 + Len(b)
    BY <1>5 DEF h, lb, lc
  <2>2. QED
    BY <1>1, <2>1, HeadMoves DEF AllocAt
<1>7. FramesAt(c, 0 + (off + h), r.frames, at)
  <2>1. (off + h) + at[Len(r.frames) + 1] <= Len(b) \/ Len(c) <= 0 + Len(b)
    BY <1>5 DEF last, lb, lc
  <2>2. FramesAt(b, off + h, r.frames, at)
    BY DEF AllocAt, h
  <2>3. QED
    BY <1>1, <1>5, <2>1, <2>2, FramesMove
<1>8. HoldsAt(c, 0 + (off + h - 1), <<Len(r.frames)>>)
  <2>1. HoldsAt(b, off + h - 1, <<Len(r.frames)>>)
    BY DEF AllocAt, h
  <2> DEFINE s == <<Len(r.frames)>>
             e == off + h - 1
  <2>2. Len(s) = 1
    OBVIOUS
  <2>3. HoldsAt(b, e, s) /\ e \in Nat /\ (e + 1 <= lb \/ lc <= 0 + lb)
    BY <1>5, <2>1
  <2> HIDE DEF s, e
  <2>4. e + Len(s) <= Len(b) \/ Len(c) <= 0 + Len(b)
    BY <2>2, <2>3 DEF lb, lc
  <2>5. Len(s) \in Nat
    BY <2>2
  <2>6. HoldsAt(c, 0 + e, s)
    BY <2>3, <2>4, <2>5, HoldsMoves
  <2>7. QED
    BY <2>6 DEF s, e
<1>9. r.end = off + h + last
  BY <1>3
<1>10. QED
  BY <1>5, <1>6, <1>7, <1>8, <1>9 DEF AllocAt, h, last

\* And of a record of an 'F'.
LEMMA FreeKept ==
    ASSUME NEW b \in Seq(Int), NEW c \in Seq(Int), HoldsAt(c, 0, b),
           NEW off \in Nat, NEW r \in Records, FreeAt(b, off, r),
           r.end <= Len(b) \/ Len(c) <= Len(b)
    PROVE  FreeAt(c, off, r)
<1> DEFINE lb == Len(b)
           lc == Len(c)
<1>1. r.ptr \in Nat /\ Word \in Nat /\ r.end = off + 1 + Word /\ lb \in Nat /\ lc \in Nat
      /\ (r.end <= lb \/ lc <= lb)
  BY RawAssumption DEF Records, FreeAt
<1>2. Len(LE(r.ptr, Word)) = Word /\ Len(<<TagF>>) = 1
  BY <1>1, LEType
<1> HIDE DEF lb, lc
<1>3. /\ off + 1 <= lb \/ lc <= 0 + lb
      /\ off + 1 + Word <= lb \/ lc <= 0 + lb
      /\ off + 1 \in Nat /\ 0 + off = off /\ 0 + (off + 1) = off + 1
  BY <1>1
<1>4. HoldsAt(c, 0 + off, <<TagF>>)
  <2>1. HoldsAt(b, off, <<TagF>>)
    BY DEF FreeAt
  <2>2. off + Len(<<TagF>>) <= Len(b) \/ Len(c) <= 0 + Len(b)
    BY <1>2, <1>3 DEF lb, lc
  <2>3. QED
    BY <1>2, <2>1, <2>2, HoldsMoves
<1>5. HoldsAt(c, 0 + (off + 1), LE(r.ptr, Word))
  <2>1. HoldsAt(b, off + 1, LE(r.ptr, Word))
    BY DEF FreeAt
  <2>2. off + 1 + Len(LE(r.ptr, Word)) <= Len(b) \/ Len(c) <= 0 + Len(b)
    BY <1>2, <1>3 DEF lb, lc
  <2>3. Len(LE(r.ptr, Word)) \in Nat
    BY <1>1, <1>2
  <2>4. QED
    BY <1>3, <2>1, <2>2, <2>3, HoldsMoves
<1>6. QED
  BY <1>1, <1>3, <1>4, <1>5 DEF FreeAt

-----------------------------------------------------------------------------
(* The bytes of the stack buffer.                                          *)

\* The byte that is filled in afterwards is not in what is held before or after.
LEMMA HoldsExcept ==
    ASSUME NEW b \in Seq(Int), NEW h \in 1..Len(b), NEW v \in Int,
           NEW s, Len(s) \in Nat, NEW off \in Nat, HoldsAt(b, off, s),
           off + Len(s) < h \/ off >= h
    PROVE  HoldsAt([b EXCEPT ![h] = v], off, s)
<1> DEFINE d == [b EXCEPT ![h] = v]
<1>1. Len(d) = Len(b) /\ \A k \in 1..Len(b) : k # h => d[k] = b[k]
  OBVIOUS
<1> HIDE DEF d
<1>2. Len(b) \in Nat
  OBVIOUS
<1> SUFFICES ASSUME NEW k \in 1..Len(s), off + k <= Len(d) PROVE d[off + k] = s[k]
  BY DEF HoldsAt, d
<1>3. off + k \in 1..Len(b) /\ off + k # h
  BY <1>1, <1>2
<1>4. b[off + k] = s[k]
  BY <1>3 DEF HoldsAt
<1>5. QED
  BY <1>1, <1>3, <1>4

\* The number of frames, put into its byte, leaves the header as it was.
LEMMA HeadExcept ==
    ASSUME NEW kind \in BOOLEAN, NEW b \in Seq(Int), HeadOf(kind) <= Len(b), NEW v \in Int,
           NEW r, r.ptr \in Nat, r.size \in Nat, HeadAt(kind, b, 0, r)
    PROVE  /\ HeadAt(kind, [b EXCEPT ![HeadOf(kind)] = v], 0, r)
           /\ HoldsAt([b EXCEPT ![HeadOf(kind)] = v], HeadOf(kind) - 1, <<v>>)
<1> DEFINE h == HeadOf(kind)
           d == [b EXCEPT ![h] = v]
           e == 0 + h - 1 - Word
<1>1. /\ Word \in Nat /\ h = IF kind THEN 1 + Word + Word + 1 ELSE Word + 1
      /\ Len(b) \in Nat
  BY RawAssumption DEF HeadOf
<1>2. h \in 1..Len(b)
  BY <1>1
<1>3. Len(LE(r.ptr, Word)) = Word /\ Len(LE(r.size, Word)) = Word
  BY <1>1, LEType
<1> HIDE DEF h
<1>4. e \in Nat /\ e + Word < h /\ (kind => 0 + 1 + Word < h /\ 0 + 1 < h)
  BY <1>1
<1> HIDE DEF e
<1>5. HoldsAt(d, e, LE(r.size, Word))
  <2>1. HoldsAt(b, e, LE(r.size, Word))
    BY DEF HeadAt, e, h
  <2>2. Len(LE(r.size, Word)) \in Nat /\ e + Len(LE(r.size, Word)) < h
    BY <1>1, <1>3, <1>4
  <2>3. QED
    BY <1>2, <1>4, <2>1, <2>2, HoldsExcept
<1>6. kind => HoldsAt(d, 0, <<TagA>>) /\ HoldsAt(d, 0 + 1, LE(r.ptr, Word))
  <2> SUFFICES ASSUME kind
               PROVE  HoldsAt(d, 0, <<TagA>>) /\ HoldsAt(d, 0 + 1, LE(r.ptr, Word))
    OBVIOUS
  <2> DEFINE s == <<TagA>>
             o == 0 + 1
  <2>1. HoldsAt(b, 0, s) /\ HoldsAt(b, o, LE(r.ptr, Word))
    BY DEF HeadAt
  <2>2. Len(s) = 1 /\ o \in Nat /\ o + Word < h /\ o < h
    BY <1>4
  <2> HIDE DEF s, o, d
  <2>3. Len(LE(r.ptr, Word)) \in Nat /\ o + Len(LE(r.ptr, Word)) < h
    BY <1>1, <1>3, <2>2
  <2>4. HoldsAt(d, o, LE(r.ptr, Word))
    BY <1>2, <2>1, <2>2, <2>3, HoldsExcept DEF d
  <2>5. Len(s) \in Nat /\ 0 + Len(s) < h
    BY <2>2, <1>2 DEF o
  <2>6. HoldsAt(d, 0, s)
    BY <1>2, <2>1, <2>5, HoldsExcept DEF d
  <2>7. QED
    BY <2>4, <2>6 DEF s, o
<1>7. HoldsAt(d, h - 1, <<v>>)
  <2>1. d[h] = v /\ h - 1 + 1 = h
    BY <1>2
  <2> HIDE DEF d
  <2>2. QED
    BY <2>1 DEF HoldsAt
<1>8. QED
  BY <1>5, <1>6, <1>7 DEF HeadAt, d, e, h

\* And the frames.
LEMMA FramesExcept ==
    ASSUME NEW b \in Seq(Int), NEW h \in 1..Len(b), NEW v \in Int,
           NEW frames \in Seq(Seq(Int)), NEW at, FramesAt(b, h, frames, at)
    PROVE  FramesAt([b EXCEPT ![h] = v], h, frames, at)
<1> DEFINE d == [b EXCEPT ![h] = v]
<1> HIDE DEF d
<1>1. at \in [1..(Len(frames) + 1) -> Nat] /\ Len(frames) \in Nat
  BY DEF FramesAt
<1>2. ASSUME NEW f \in 1..Len(frames)
      PROVE  /\ HoldsAt(d, h + at[f], LE(Len(frames[f]), 2))
             /\ HoldsAt(d, h + at[f] + 2, frames[f])
  <2> DEFINE x == at[f]
             n == Len(frames[f])
  <2>1. HoldsAt(b, h + x, LE(n, 2)) /\ HoldsAt(b, h + x + 2, frames[f])
    BY DEF FramesAt
  <2>2. x \in Nat
    <3>1. f \in 1..(Len(frames) + 1)
      BY <1>1
    <3>2. QED
      BY <1>1, <3>1
  <2>3. n \in Nat
    <3>1. frames[f] \in Seq(Int)
      OBVIOUS
    <3>2. QED
      BY <3>1
  <2> HIDE DEF x, n
  <2>4. Len(LE(n, 2)) \in Nat
    BY <2>3, LEType
  <2>5. h + x \in Nat /\ h + x >= h /\ h + x + 2 \in Nat /\ h + x + 2 >= h
    BY <2>2
  <2>6. HoldsAt(d, h + x, LE(n, 2))
    BY <2>1, <2>4, <2>5, HoldsExcept DEF d
  <2>7. HoldsAt(d, h + x + 2, frames[f])
    <3>1. Len(frames[f]) \in Nat
      BY <2>3 DEF n
    <3>2. QED
      BY <2>1, <2>5, <3>1, HoldsExcept DEF d
  <2>8. QED
    BY <2>6, <2>7 DEF x, n
<1>3. QED
  BY <1>2 DEF FramesAt, d

\* What BeginAlloc puts into the stack buffer.
HeadBytes(kind, r) ==
    (IF kind THEN <<TagA>> \o LE(r.ptr, Word) ELSE <<>>) \o LE(r.size, Word) \o <<0>>

\* A header as it is put together.
LEMMA HeadBegins ==
    ASSUME NEW kind \in BOOLEAN, NEW r, r.ptr \in Nat, r.size \in Nat,
           r.bytes = HeadBytes(kind, r)
    PROVE  HeadAt(kind, r.bytes, 0, r) /\ Len(r.bytes) = HeadOf(kind) /\ r.bytes \in Seq(Int)
<1> DEFINE tag == <<TagA>>
           a == LE(r.ptr, Word)
           z == LE(r.size, Word)
           first == IF kind THEN tag \o a ELSE <<>>
           zero == <<0>>
           most == first \o z
           all == most \o zero
<1>1. Word \in Nat /\ TagA \in Int
  BY RawAssumption DEF Byte
<1>2. /\ a \in Seq(Int) /\ Len(a) = Word /\ z \in Seq(Int) /\ Len(z) = Word
      /\ tag \in Seq(Int) /\ Len(tag) = 1 /\ zero \in Seq(Int) /\ Len(zero) = 1
  BY <1>1, LEType
<1> HIDE DEF a, z, tag, zero
<1>3. kind => HoldsAt(first, 0, tag) /\ HoldsAt(first, 1, a)
  BY <1>2, HoldsJoined
<1>4. first \in Seq(Int) /\ Len(first) = IF kind THEN 1 + Word ELSE 0
  <2>1. CASE kind
    <3>1. tag \o a \in Seq(Int) /\ Len(tag \o a) = Len(tag) + Len(a)
      BY <1>2, ConcatProperties
    <3>2. QED
      BY <1>2, <2>1, <3>1
  <2>2. CASE ~kind
    BY <2>2
  <2>3. QED
    BY <2>1, <2>2
<1> HIDE DEF first
<1>5. most \in Seq(Int) /\ Len(most) = Len(first) + Word
      /\ HoldsAt(most, 0, first) /\ HoldsAt(most, Len(first), z)
  <2>1. /\ HoldsAt(first \o z, 0, first) /\ HoldsAt(first \o z, Len(first), z)
        /\ first \o z \in Seq(Int) /\ Len(first \o z) = Len(first) + Len(z)
    BY <1>2, <1>4, HoldsJoined, Zenon
  <2>2. QED
    BY <1>2, <2>1
<1> HIDE DEF most
<1>6. all \in Seq(Int) /\ Len(all) = Len(most) + 1 /\ HoldsAt(all, 0, most)
  <2>1. /\ HoldsAt(most \o zero, 0, most)
        /\ most \o zero \in Seq(Int) /\ Len(most \o zero) = Len(most) + Len(zero)
    BY <1>2, <1>5, HoldsJoined, Zenon
  <2>2. QED
    BY <1>2, <2>1
<1> HIDE DEF all
<1> DEFINE n == Len(first)
           m == Len(most)
<1>7. n \in Nat /\ m \in Nat
  BY <1>4, <1>5
<1>8. HoldsAt(all, 0 + n, z)
  <2>1. n + Len(z) <= Len(most) /\ Len(z) \in Nat
    BY <1>1, <1>2, <1>4, <1>5
  <2>2. HoldsAt(most, n, z)
    BY <1>5
  <2> HIDE DEF n
  <2>3. QED
    BY <1>5, <1>6, <1>7, <2>1, <2>2, HoldsMoves
<1>9. HoldsAt(all, 0 + 0, first)
  <2>1. 0 + Len(first) <= Len(most) /\ Len(first) \in Nat
    BY <1>1, <1>4, <1>5
  <2>2. QED
    BY <1>5, <1>6, <2>1, HoldsMoves
<1>10. 0 + 0 = 0 /\ 0 + n = n /\ 0 + 1 = 1
  BY <1>7
<1>11. kind => HoldsAt(all, 0, tag) /\ HoldsAt(all, 1, a)
  <2> SUFFICES ASSUME kind PROVE HoldsAt(all, 0, tag) /\ HoldsAt(all, 1, a)
    OBVIOUS
  <2>1. HoldsAt(all, 0, first)
    BY <1>9, <1>10
  <2>2. 0 + Len(tag) <= Len(first) /\ Len(tag) \in Nat
    BY <1>1, <1>2, <1>4
  <2>3. 1 + Len(a) <= Len(first) /\ Len(a) \in Nat /\ 1 \in Nat
    BY <1>1, <1>2, <1>4
  <2>4. HoldsAt(all, 0 + 0, tag)
    BY <1>3, <1>4, <1>6, <2>1, <2>2, HoldsMoves
  <2>5. HoldsAt(all, 0 + 1, a)
    BY <1>3, <1>4, <1>6, <2>1, <2>3, HoldsMoves
  <2>6. QED
    BY <1>10, <2>4, <2>5
<1>12. HeadOf(kind) = Len(first) + Word + 1 /\ 0 + HeadOf(kind) - 1 - Word = n
  BY <1>1, <1>4 DEF HeadOf
<1>13. Len(all) = HeadOf(kind)
  BY <1>5, <1>6, <1>12
<1>14. HeadAt(kind, all, 0, r)
  <2>1. HoldsAt(all, 0 + HeadOf(kind) - 1 - Word, z)
    BY <1>8, <1>10, <1>12
  <2>2. QED
    BY <1>10, <1>11, <2>1 DEF HeadAt, tag, a, z
<1>15. r.bytes = all
  BY DEF HeadBytes, all, most, first, tag, a, z, zero
<1>16. QED
  BY <1>6, <1>13, <1>14, <1>15

\* What follows the last frame.
EndsAt(frames, at) == at[Len(frames) + 1]

\* No frames yet.
LEMMA FramesBegin ==
    ASSUME NEW b, NEW off \in Nat
    PROVE  FramesAt(b, off, <<>>, [f \in 1..1 |-> 0])
BY DEF FramesAt

\* Another frame at the end.
LEMMA FramesGrow ==
    ASSUME NEW b \in Seq(Int), NEW frames \in Seq(Seq(Int)), NEW at, NEW off \in Nat,
           FramesAt(b, off, frames, at), Len(b) = off + EndsAt(frames, at),
           NEW name \in Seq(Int)
    PROVE  \E to : /\ FramesAt(b \o LE(Len(name), 2) \o name, off, Append(frames, name), to)
                   /\ EndsAt(Append(frames, name), to) = EndsAt(frames, at) + 2 + Len(name)
<1> DEFINE n == Len(frames)
           w == Len(name)
           last == at[n + 1]
           c == b \o LE(w, 2)
           e == c \o name
           fs == Append(frames, name)
           to == [f \in 1..(n + 2) |-> IF f = n + 2 THEN last + 2 + w ELSE at[f]]
<1>1. n \in Nat /\ w \in Nat
  OBVIOUS
<1>2. /\ at \in [1..(n + 1) -> Nat] /\ at[1] = 0 /\ last \in Nat
      /\ \A f \in 1..n : at[f + 1] = at[f] + 2 + Len(frames[f])
      /\ \A f \in 1..(n + 1) : at[f] <= last
  <2>1. n + 1 \in 1..(n + 1)
    BY <1>1
  <2>2. QED
    BY <2>1 DEF FramesAt
<1>3. LE(w, 2) \in Seq(Int) /\ Len(LE(w, 2)) = 2
  BY <1>1, LEType
<1>4. /\ c \in Seq(Int) /\ Len(c) = Len(b) + 2
      /\ HoldsAt(c, 0, b) /\ HoldsAt(c, Len(b), LE(w, 2))
  <2> DEFINE two == LE(w, 2)
  <2> HIDE DEF two
  <2>1. two \in Seq(Int) /\ Len(two) = 2
    BY <1>3 DEF two
  <2>2. /\ HoldsAt(b \o two, 0, b) /\ HoldsAt(b \o two, Len(b), two)
        /\ b \o two \in Seq(Int) /\ Len(b \o two) = Len(b) + Len(two)
    BY <2>1, HoldsJoined, Zenon
  <2>3. QED
    BY <2>1, <2>2 DEF two
<1> HIDE DEF c
<1>5. /\ e \in Seq(Int) /\ HoldsAt(e, 0, c) /\ HoldsAt(e, Len(c), name)
  <2>1. /\ HoldsAt(c \o name, 0, c) /\ HoldsAt(c \o name, Len(c), name)
        /\ c \o name \in Seq(Int)
    BY <1>4, HoldsJoined, Zenon
  <2>2. QED
    BY <2>1
<1> HIDE DEF e
<1> DEFINE lb == Len(b)
<1>6. lb = off + last /\ lb \in Nat /\ Len(c) = lb + 2
  BY <1>4 DEF EndsAt
<1> HIDE DEF lb, last
<1>7. HoldsAt(e, off + last, LE(w, 2))
  <2>1. HoldsAt(c, lb, LE(w, 2)) /\ Len(LE(w, 2)) \in Nat /\ lb + Len(LE(w, 2)) <= Len(c)
    <3>1. HoldsAt(c, lb, LE(w, 2))
      BY <1>4 DEF lb
    <3> DEFINE two == LE(w, 2)
    <3>2. Len(two) = 2
      BY <1>3
    <3> HIDE DEF two
    <3>3. Len(two) \in Nat /\ lb + Len(two) <= Len(c)
      BY <1>6, <3>2
    <3>4. QED
      BY <3>1, <3>3 DEF two
  <2>2. HoldsAt(e, 0 + lb, LE(w, 2))
    BY <1>4, <1>5, <1>6, <2>1, HoldsMoves
  <2>3. 0 + lb = off + last
    BY <1>6
  <2>4. QED
    BY <2>2, <2>3
<1>8. HoldsAt(e, off + last + 2, name)
  BY <1>5, <1>6
<1>9. HoldsAt(e, 0, b)
  <2>1. 0 + Len(b) <= Len(c) /\ Len(b) \in Nat
    BY <1>6 DEF lb
  <2>2. HoldsAt(e, 0 + 0, b)
    BY <1>4, <1>5, <2>1, HoldsMoves
  <2>3. QED
    BY <2>2
<1>10. FramesAt(e, 0 + off, frames, at)
  <2>1. off + at[Len(frames) + 1] <= Len(b) \/ Len(e) <= 0 + Len(b)
    BY <1>2, <1>6 DEF lb, last
  <2>2. QED
    BY <1>5, <1>9, <2>1, FramesMove
<1>11. \A f \in 1..n : HoldsAt(e, off + at[f], LE(Len(frames[f]), 2))
                       /\ HoldsAt(e, off + at[f] + 2, frames[f])
  <2>1. 0 + off = off
    OBVIOUS
  <2>2. QED
    BY <1>10, <2>1 DEF FramesAt
<1>12. /\ fs \in Seq(Seq(Int)) /\ Len(fs) = n + 1 /\ fs[n + 1] = name
       /\ \A f \in 1..n : fs[f] = frames[f]
  BY AppendProperties
<1> HIDE DEF fs
<1>13. /\ to \in [1..(n + 2) -> Nat] /\ to[n + 2] = last + 2 + w /\ to[n + 1] = last
       /\ \A f \in 1..(n + 1) : to[f] = at[f]
  BY <1>1, <1>2 DEF last
<1> HIDE DEF to, w
<1>14. to[1] = 0 /\ \A f \in 1..(n + 2) : to[f] <= to[n + 2]
  <2>1. w \in Nat
    BY <1>1
  <2>2. \A f \in 1..(n + 1) : to[f] <= last /\ to[f] \in Nat
    BY <1>2, <1>13
  <2>3. \A f \in 1..(n + 2) : f \in 1..(n + 1) \/ f = n + 2
    BY <1>1
  <2>4. last <= to[n + 2] /\ to[n + 2] \in Nat /\ last \in Nat
    BY <1>2, <1>13, <2>1
  <2> DEFINE end == to[n + 2]
  <2>5. end \in Nat /\ last \in Nat /\ last <= end
    BY <2>4
  <2> HIDE DEF end
  <2>6. \A f \in 1..(n + 1) : to[f] <= end
    BY <2>2, <2>5
  <2>7. to[n + 2] <= end
    BY <2>4 DEF end
  <2>8. to[1] = 0
    <3>1. 1 \in 1..(n + 1)
      BY <1>1
    <3>2. QED
      BY <1>2, <1>13, <3>1
  <2>9. \A f \in 1..(n + 2) : to[f] <= end
    BY <2>3, <2>6, <2>7
  <2>10. QED
    BY <2>8, <2>9 DEF end
<1>15. ASSUME NEW f \in 1..(n + 1)
       PROVE  /\ to[f + 1] = to[f] + 2 + Len(fs[f])
              /\ HoldsAt(e, off + to[f], LE(Len(fs[f]), 2))
              /\ HoldsAt(e, off + to[f] + 2, fs[f])
  <2>1. CASE f = n + 1
    <3>1. to[f] = last /\ to[f + 1] = last + 2 + w /\ fs[f] = name
      BY <1>1, <1>12, <1>13, <2>1
    <3>2. QED
      BY <1>7, <1>8, <3>1 DEF w
  <2>2. CASE f # n + 1
    <3>1. f \in 1..n /\ f + 1 \in 1..(n + 1)
      BY <1>1, <2>2
    <3>2. to[f] = at[f] /\ to[f + 1] = at[f + 1] /\ fs[f] = frames[f]
      BY <1>12, <1>13, <3>1
    <3>3. QED
      BY <1>2, <1>11, <3>1, <3>2
  <2>3. QED
    BY <2>1, <2>2
<1>16. Len(fs) = n + 1 /\ (n + 1) + 1 = n + 2
  BY <1>1, <1>12
<1>17. FramesAt(e, off, fs, to)
  BY <1>13, <1>14, <1>15, <1>16 DEF FramesAt
<1>18. EndsAt(fs, to) = EndsAt(frames, at) + 2 + w
  BY <1>13, <1>16 DEF EndsAt, last
<1>19. QED
  BY <1>17, <1>18 DEF e, c, fs, w

-----------------------------------------------------------------------------
(* Records one after another.                                              *)

\* The ends of the records are numbers, in order.
LEMMA LaidEnds ==
    ASSUME NEW kind, NEW b, NEW rs, Laid(kind, b, rs)
    PROVE  /\ \A i \in 0..Len(rs) : EndOf(rs, i) \in Nat
           /\ \A i \in 1..Len(rs) : /\ rs[i] \in Records
                                    /\ EndOf(rs, i) = rs[i].end
                                    /\ rs[i].end <= EndOf(rs, Len(rs))
                                    /\ EndOf(rs, i - 1) \in Nat
           /\ b \in Seq(Int) /\ rs \in Seq(Records) /\ Len(rs) \in Nat /\ Len(b) \in Nat
<1> DEFINE n == Len(rs)
<1>1. b \in Seq(Int) /\ rs \in Seq(Records) /\ n \in Nat /\ Len(b) \in Nat
      /\ \A i, j \in 0..n : i < j => EndOf(rs, i) < EndOf(rs, j)
  BY DEF Laid
<1>2. \A i \in 1..n : rs[i] \in Records /\ EndOf(rs, i) = rs[i].end /\ rs[i].end \in Nat
  <2>1. \A i \in 1..n : rs[i] \in Records /\ i # 0
    BY <1>1
  <2>2. \A r \in Records : r.end \in Nat
    BY DEF Records
  <2>3. QED
    BY <2>1, <2>2 DEF EndOf
<1>3. EndOf(rs, 0) = 0
  BY DEF EndOf
<1>4. \A i \in 0..n : EndOf(rs, i) \in Nat
  <2>1. \A i \in 0..n : i = 0 \/ i \in 1..n
    BY <1>1
  <2>2. QED
    BY <1>2, <1>3, <2>1
<1> HIDE DEF n
<1>5. \A i \in 1..n : EndOf(rs, i) <= EndOf(rs, n)
  <2> SUFFICES ASSUME NEW i \in 1..n PROVE EndOf(rs, i) <= EndOf(rs, n)
    OBVIOUS
  <2> DEFINE x == EndOf(rs, i)
             y == EndOf(rs, n)
  <2>1. i \in 0..n /\ n \in 0..n /\ (i = n \/ i < n)
    BY <1>1
  <2>2. x \in Nat /\ y \in Nat /\ (x = y \/ x < y)
    BY <1>1, <1>4, <2>1
  <2> HIDE DEF x, y
  <2>3. x <= y
    BY <2>2
  <2>4. QED
    BY <2>3 DEF x, y
<1>6. \A i \in 1..n : EndOf(rs, i - 1) \in Nat
  <2>1. \A i \in 1..n : i - 1 \in 0..n
    BY <1>1
  <2>2. QED
    BY <1>4, <2>1
<1>7. QED
  BY <1>1, <1>2, <1>4, <1>5, <1>6 DEF n

\* A record stays where it is when the sequence is cut, or grows behind it.
LEMMA RecordKept ==
    ASSUME NEW kind \in BOOLEAN, NEW b \in Seq(Int), NEW c \in Seq(Int), HoldsAt(c, 0, b),
           NEW off \in Nat, NEW r \in Records, NEW at, RecordAt(kind, b, off, r, at),
           r.end <= Len(b) \/ Len(c) <= Len(b)
    PROVE  RecordAt(kind, c, off, r, at)
<1>1. CASE r.op = "A"
  <2>1. Encodable(kind, r, r.frames) /\ AllocAt(kind, b, off, r, at)
    BY <1>1 DEF RecordAt
  <2>2. AllocAt(kind, c, off, r, at)
    BY <2>1, AllocKept
  <2>3. QED
    BY <1>1, <2>1, <2>2 DEF RecordAt
<1>2. CASE r.op # "A"
  <2>1. kind /\ Fits(r.ptr, Word) /\ FreeAt(b, off, r)
    BY <1>2 DEF RecordAt
  <2>2. FreeAt(c, off, r)
    BY <2>1, FreeKept
  <2>3. QED
    BY <1>2, <2>1, <2>2 DEF RecordAt
<1>3. QED
  BY <1>1, <1>2

\* A prefix of the file is laid out too.
LEMMA LaidCut ==
    ASSUME NEW kind \in BOOLEAN, NEW b, NEW rs, Laid(kind, b, rs), NEW n \in 0..Len(b)
    PROVE  Laid(kind, SubSeq(b, 1, n), rs)
<1> DEFINE c == SubSeq(b, 1, n)
<1>1. /\ \A i \in 1..Len(rs) : rs[i] \in Records /\ EndOf(rs, i - 1) \in Nat
      /\ b \in Seq(Int) /\ rs \in Seq(Records) /\ Len(b) \in Nat
      /\ EndOf(rs, Len(rs)) \in Nat
  BY LaidEnds
<1>2. HoldsAt(c, 0, b) /\ c \in Seq(Int) /\ Len(c) = n
  BY <1>1, HoldsPrefix
<1> HIDE DEF c
<1>3. Len(c) <= Len(b) /\ Len(c) <= EndOf(rs, Len(rs))
  <2> DEFINE e == EndOf(rs, Len(rs))
  <2>1. e \in Nat /\ Len(b) <= e
    BY <1>1 DEF Laid
  <2> HIDE DEF e
  <2>2. Len(c) <= e /\ Len(c) <= Len(b)
    BY <1>1, <1>2, <2>1
  <2>3. QED
    BY <2>2 DEF e
<1>4. \A i \in 1..Len(rs) : \E at : RecordAt(kind, c, EndOf(rs, i - 1), rs[i], at)
  <2> SUFFICES ASSUME NEW i \in 1..Len(rs)
               PROVE  \E at : RecordAt(kind, c, EndOf(rs, i - 1), rs[i], at)
    OBVIOUS
  <2>1. PICK at : RecordAt(kind, b, EndOf(rs, i - 1), rs[i], at)
    BY DEF Laid
  <2>2. RecordAt(kind, c, EndOf(rs, i - 1), rs[i], at)
    BY <1>1, <1>2, <1>3, <2>1, RecordKept
  <2>3. QED
    BY <2>2
<1>5. QED
  BY <1>2, <1>3, <1>4 DEF Laid, c

\* All the records are whole.
LaidWhole(kind, b, rs) == Laid(kind, b, rs) /\ Len(b) = EndOf(rs, Len(rs))

\* One more record.
LEMMA LaidMore ==
    ASSUME NEW kind \in BOOLEAN, NEW b, NEW rs, LaidWhole(kind, b, rs),
           NEW d \in Seq(Int), Len(d) > 0, NEW r \in Records, r.end = Len(b \o d),
           \E at : RecordAt(kind, b \o d, Len(b), r, at),
           kind /\ r.op = "A" => Untracked(rs, Len(rs), r.ptr)
    PROVE  LaidWhole(kind, b \o d, Append(rs, r))
<1>1. Laid(kind, b, rs) /\ Len(b) = EndOf(rs, Len(rs))
  BY DEF LaidWhole
<1> DEFINE c == b \o d
           n == Len(rs)
           ss == Append(rs, r)
<1>2. /\ \A i \in 0..n : EndOf(rs, i) \in Nat
      /\ \A i \in 1..n : /\ rs[i] \in Records /\ EndOf(rs, i - 1) \in Nat
                         /\ rs[i].end <= EndOf(rs, n)
      /\ b \in Seq(Int) /\ rs \in Seq(Records) /\ Len(b) \in Nat /\ n \in Nat
  BY <1>1, LaidEnds
<1>3. HoldsAt(c, 0, b) /\ c \in Seq(Int) /\ Len(c) = Len(b) + Len(d) /\ Len(d) \in Nat
  <2>1. HoldsAt(b \o d, 0, b) /\ b \o d \in Seq(Int) /\ Len(b \o d) = Len(b) + Len(d)
    BY <1>2, HoldsJoined, Zenon
  <2>2. QED
    BY <2>1
<1>4. r.end = Len(c) /\ \E at : RecordAt(kind, c, Len(b), r, at)
  OBVIOUS
<1> HIDE DEF c
<1>5. /\ ss \in Seq(Records) /\ Len(ss) = n + 1 /\ ss[n + 1] = r
      /\ \A i \in 1..n : ss[i] = rs[i]
  BY <1>2, AppendProperties
<1> HIDE DEF ss
<1>6. /\ \A i \in 0..n : EndOf(ss, i) = EndOf(rs, i)
      /\ EndOf(ss, n + 1) = Len(c) /\ EndOf(rs, n) = Len(b)
  <2>1. \A i \in 0..n : i = 0 \/ i \in 1..n
    BY <1>2
  <2>2. n + 1 # 0
    BY <1>2
  <2>3. QED
    BY <1>1, <1>4, <1>5, <2>1, <2>2 DEF EndOf
<1> HIDE DEF n
<1>7. \A i \in 1..(n + 1) : \E at : RecordAt(kind, c, EndOf(ss, i - 1), ss[i], at)
  <2> SUFFICES ASSUME NEW i \in 1..(n + 1)
               PROVE  \E at : RecordAt(kind, c, EndOf(ss, i - 1), ss[i], at)
    OBVIOUS
  <2>1. CASE i = n + 1
    <3>1. i - 1 = n /\ n \in 0..n
      BY <1>2, <2>1
    <3>2. EndOf(ss, i - 1) = Len(b) /\ ss[i] = r
      BY <1>5, <1>6, <2>1, <3>1
    <3>3. QED
      BY <1>4, <3>2
  <2>2. CASE i # n + 1
    <3>1. i \in 1..n /\ i - 1 \in 0..n
      BY <1>2, <2>2
    <3>2. EndOf(ss, i - 1) = EndOf(rs, i - 1) /\ ss[i] = rs[i]
      BY <1>5, <1>6, <3>1
    <3>3. PICK at : RecordAt(kind, b, EndOf(rs, i - 1), rs[i], at)
      BY <1>1, <3>1 DEF Laid, n
    <3>4. rs[i].end <= Len(b)
      BY <1>2, <1>6, <3>1
    <3>5. RecordAt(kind, c, EndOf(rs, i - 1), rs[i], at)
      BY <1>2, <1>3, <3>1, <3>3, <3>4, RecordKept
    <3>6. QED
      BY <3>2, <3>5
  <2>3. QED
    BY <2>1, <2>2
<1>8. \A i, j \in 0..(n + 1) : i < j => EndOf(ss, i) < EndOf(ss, j)
  <2> SUFFICES ASSUME NEW i \in 0..(n + 1), NEW j \in 0..(n + 1), i < j
               PROVE  EndOf(ss, i) < EndOf(ss, j)
    OBVIOUS
  <2> DEFINE x == EndOf(rs, i)
             y == EndOf(rs, n)
             z == Len(c)
  <2>1. i \in 0..n /\ n \in 0..n
    BY <1>2
  <2>2. CASE j = n + 1
    <3>1. EndOf(ss, i) = x /\ EndOf(ss, j) = z
      BY <1>6, <2>1, <2>2
    <3>2. x \in Nat /\ y \in Nat /\ z \in Nat /\ y < z
      BY <1>2, <1>3, <1>6, <2>1
    <3>3. i = n \/ x < y
      <4>1. i = n \/ i < n
        BY <1>2, <2>1
      <4>2. QED
        BY <1>1, <2>1, <4>1 DEF Laid, n
    <3>4. i = n => x = y
      OBVIOUS
    <3> HIDE DEF x, y, z
    <3>5. x < z
      BY <3>2, <3>3, <3>4
    <3>6. QED
      BY <3>1, <3>5
  <2>3. CASE j # n + 1
    <3>1. j \in 0..n
      BY <1>2, <2>3
    <3>2. EndOf(rs, i) < EndOf(rs, j)
      BY <1>1, <2>1, <3>1 DEF Laid, n
    <3>3. QED
      BY <1>6, <2>1, <3>1, <3>2
  <2>4. QED
    BY <2>2, <2>3
<1>9. kind => \A i \in 1..(n + 1) : ss[i].op = "A" => Untracked(ss, i - 1, ss[i].ptr)
  <2> SUFFICES ASSUME kind, NEW i \in 1..(n + 1), ss[i].op = "A"
               PROVE  Untracked(ss, i - 1, ss[i].ptr)
    OBVIOUS
  <2>1. i - 1 \in 0..n /\ \A m \in 1..(i - 1) : m \in 1..n
    BY <1>2
  <2>2. Untracked(rs, i - 1, ss[i].ptr)
    <3>1. CASE i = n + 1
      <4>1. i - 1 = n /\ ss[i] = r
        BY <1>2, <1>5, <3>1
      <4>2. QED
        BY <4>1 DEF n
    <3>2. CASE i # n + 1
      <4>1. i \in 1..n /\ ss[i] = rs[i]
        BY <1>2, <1>5, <3>2
      <4>2. QED
        BY <1>1, <4>1 DEF Laid, n
    <3>3. QED
      BY <3>1, <3>2
  <2>3. \A m \in 1..(i - 1) : ss[m] = rs[m]
    BY <1>5, <2>1
  <2> DEFINE a == ss[i].ptr
             l == i - 1
  <2> HIDE DEF a
  <2> SUFFICES ASSUME NEW e \in 1..l, ss[e].op = "A", ss[e].ptr = a
               PROVE  \E m \in (e + 1)..l : ss[m].ptr = a
    BY DEF Untracked, a
  <2>4. rs[e].op = "A" /\ rs[e].ptr = a
    BY <2>3
  <2>5. PICK m \in (e + 1)..l : rs[m].ptr = a
    BY <2>2, <2>4 DEF Untracked, a
  <2>6. m \in 1..l
    BY <2>1
  <2>7. QED
    BY <2>3, <2>5, <2>6
<1>10. Laid(kind, c, ss) /\ Len(c) = EndOf(ss, Len(ss))
  <2>1. Len(c) <= EndOf(ss, n + 1)
    BY <1>3, <1>6, <1>2
  <2>2. QED
    BY <1>3, <1>5, <1>6, <1>7, <1>8, <1>9, <2>1 DEF Laid
<1>11. QED
  BY <1>10 DEF c, ss, LaidWhole

\* A draft that is finished is a record, where it is written.
LEMMA AllocWritten ==
    ASSUME NEW kind \in BOOLEAN, NEW b \in Seq(Int), NEW d, NEW at, DraftAt(kind, d, at),
           HeadOf(kind) <= Len(d.bytes), NEW r,
           r.op = "A", r.ptr = d.ptr, r.size = d.size, r.frames = d.kept,
           r.end = Len(b \o [d.bytes EXCEPT ![HeadOf(kind)] = Len(d.kept)])
    PROVE  LET c == [d.bytes EXCEPT ![HeadOf(kind)] = Len(d.kept)]
           IN  /\ RecordAt(kind, b \o c, Len(b), r, at)
               /\ c \in Seq(Int) /\ Len(c) > 0
               /\ (r.end = Len(b \o c)) /\ r.end \in Nat
<1> DEFINE h == HeadOf(kind)
           v == Len(d.kept)
           c == [d.bytes EXCEPT ![h] = v]
           w == b \o c
           e == Len(b)
           last == at[Len(d.kept) + 1]
<1>1. /\ d.ptr \in Nat /\ d.size \in Nat /\ d.bytes \in Seq(Int) /\ d.kept \in Seq(Seq(Int))
      /\ HeadAt(kind, d.bytes, 0, d) /\ FramesAt(d.bytes, h, d.kept, at)
      /\ Len(d.bytes) = h + last /\ Encodable(kind, d, d.kept)
  BY DEF DraftAt, Encodable
<1>2. h \in Nat /\ h >= 1 /\ Len(d.bytes) \in Nat /\ v \in Int /\ v \in Nat /\ e \in Nat
  BY <1>1, RawAssumption DEF HeadOf
<1>3. h \in 1..Len(d.bytes)
  BY <1>2
<1>4. HeadAt(kind, c, 0, d) /\ HoldsAt(c, h - 1, <<v>>)
  <2>1. v \in Int /\ HeadOf(kind) <= Len(d.bytes)
    BY <1>2
  <2> HIDE DEF v
  <2>2. QED
    BY <1>1, <2>1, HeadExcept
<1>5. FramesAt(c, h, d.kept, at)
  <2>1. v \in Int
    BY <1>2
  <2> HIDE DEF v
  <2>2. QED
    BY <1>1, <1>3, <2>1, FramesExcept
<1>6. c \in Seq(Int) /\ Len(c) = Len(d.bytes)
  <2>1. v \in Int
    BY <1>2
  <2> HIDE DEF v, h
  <2>2. QED
    BY <1>1, <1>3, <2>1
<1>7. h \in 1..Len(c) /\ Len(c) = h + last
  BY <1>1, <1>3, <1>6
<1> HIDE DEF c, h
<1>8. HoldsAt(w, e, c) /\ w \in Seq(Int) /\ Len(w) = e + Len(c)
  <2>1. HoldsAt(b \o c, Len(b), c) /\ b \o c \in Seq(Int) /\ Len(b \o c) = Len(b) + Len(c)
    BY <1>6, HoldsJoined, Zenon
  <2>2. QED
    BY <2>1
<1>9. r.end = Len(w)
  BY DEF c, h
<1> HIDE DEF w, e, v
<1>10. HeadAt(kind, w, e + 0, d)
  <2>1. 0 + HeadOf(kind) <= Len(c)
    BY <1>7 DEF h
  <2>2. QED
    BY <1>1, <1>2, <1>4, <1>6, <1>8, <2>1, HeadMoves
<1>11. FramesAt(w, e + h, d.kept, at)
  <2>1. h + at[Len(d.kept) + 1] <= Len(c)
    BY <1>7, <1>6 DEF last
  <2>2. QED
    BY <1>1, <1>2, <1>5, <1>6, <1>8, <2>1, FramesMove
<1>12. HoldsAt(w, e + (h - 1), <<v>>)
  <2> DEFINE s == <<v>>
  <2>1. Len(s) = 1 /\ HoldsAt(c, h - 1, s)
    BY <1>4
  <2> HIDE DEF s
  <2>2. Len(s) \in Nat /\ h - 1 \in Nat /\ (h - 1) + Len(s) <= Len(c)
    BY <1>2, <1>7, <2>1
  <2>3. HoldsAt(w, e + (h - 1), s)
    BY <1>2, <1>6, <1>8, <2>1, <2>2, HoldsMoves
  <2>4. QED
    BY <2>3 DEF s
<1>13. e + 0 = e /\ e + (h - 1) = e + h - 1
  BY <1>2
<1>14. HeadAt(kind, w, e, r)
  BY <1>10, <1>13 DEF HeadAt
<1>15. r.end = e + h + last
  <2>1. e + Len(c) = e + (h + last)
    BY <1>7
  <2>2. last \in Nat
    <3>1. Len(d.kept) \in Nat
      BY <1>2 DEF v
    <3>2. Len(d.kept) + 1 \in 1..(Len(d.kept) + 1)
      BY <3>1
    <3>3. QED
      BY <1>1, <3>2 DEF FramesAt, last
  <2> HIDE DEF last
  <2>3. QED
    BY <1>2, <1>8, <1>9, <2>1, <2>2
<1>16. AllocAt(kind, w, e, r, at)
  BY <1>11, <1>12, <1>13, <1>14, <1>15 DEF AllocAt, h, v, last
<1>17. Encodable(kind, r, r.frames)
  BY <1>1 DEF Encodable
<1>18. RecordAt(kind, w, e, r, at)
  BY <1>16, <1>17 DEF RecordAt
<1>19. Len(c) > 0
  BY <1>7
<1>20. r.end \in Nat
  BY <1>8, <1>9
<1>21. QED
  BY <1>6, <1>18, <1>19, <1>20, <1>9 DEF w, e, c, h, v

\* The bytes of an 'F'.
LEMMA FreeWritten ==
    ASSUME NEW b \in Seq(Int), NEW a \in Nat, Fits(a, Word), NEW r, NEW at,
           r.op = "F", r.ptr = a, r.end = Len(b \o (<<TagF>> \o LE(a, Word)))
    PROVE  LET c == <<TagF>> \o LE(a, Word)
           IN  /\ RecordAt(TRUE, b \o c, Len(b), r, at)
               /\ c \in Seq(Int) /\ Len(c) > 0 /\ r.end = Len(b \o c) /\ r.end \in Nat
<1> DEFINE tag == <<TagF>>
           s == LE(a, Word)
           c == tag \o s
           w == b \o c
           e == Len(b)
<1>1. Word \in Nat /\ TagF \in Int
  BY RawAssumption DEF Byte
<1>2. tag \in Seq(Int) /\ Len(tag) = 1 /\ s \in Seq(Int) /\ Len(s) = Word /\ e \in Nat
  BY <1>1, LEType
<1> HIDE DEF tag, s
<1>3. /\ HoldsAt(c, 0, tag) /\ HoldsAt(c, Len(tag), s)
      /\ c \in Seq(Int) /\ Len(c) = Len(tag) + Len(s)
  BY <1>2, HoldsJoined, Zenon
<1> HIDE DEF c
<1>4. HoldsAt(w, e, c) /\ w \in Seq(Int) /\ Len(w) = e + Len(c)
  <2>1. HoldsAt(b \o c, Len(b), c) /\ b \o c \in Seq(Int) /\ Len(b \o c) = Len(b) + Len(c)
    BY <1>3, HoldsJoined, Zenon
  <2>2. QED
    BY <2>1
<1>5. r.end = Len(w)
  BY DEF c, tag, s
<1> HIDE DEF w, e
<1>6. Len(c) = 1 + Word /\ Len(s) \in Nat /\ Len(tag) \in Nat /\ 0 + Len(tag) <= Len(c)
      /\ 1 + Len(s) <= Len(c)
  BY <1>1, <1>2, <1>3
<1>7. HoldsAt(w, e + 0, tag)
  BY <1>2, <1>3, <1>4, <1>6, HoldsMoves
<1>8. HoldsAt(w, e + 1, s)
  <2>1. HoldsAt(c, 1, s)
    BY <1>2, <1>3
  <2>2. QED
    BY <1>2, <1>3, <1>4, <1>6, <2>1, HoldsMoves
<1>9. e + 0 = e /\ r.end = e + 1 + Word
  BY <1>1, <1>2, <1>4, <1>5, <1>6
<1>10. FreeAt(w, e, r)
  BY <1>7, <1>8, <1>9 DEF FreeAt, tag, s
<1>11. RecordAt(TRUE, w, e, r, at)
  BY <1>10 DEF RecordAt
<1>12. Len(c) > 0 /\ r.end \in Nat
  BY <1>1, <1>2, <1>6, <1>9
<1>13. QED
  BY <1>3, <1>5, <1>11, <1>12 DEF w, e, c, tag, s

\* The header of a draft.
LEMMA DraftBegins ==
    ASSUME NEW kind \in BOOLEAN, NEW d, d.ptr \in Nat, d.size \in Nat, Fits(d.size, Word),
           IF kind THEN Fits(d.ptr, Word) /\ d.ptr # 0 ELSE d.ptr = 0, d.kept = <<>>,
           d.bytes = HeadBytes(kind, d)
    PROVE  \E at : DraftAt(kind, d, at)
<1> DEFINE at == [f \in 1..1 |-> 0]
<1>1. HeadAt(kind, d.bytes, 0, d) /\ Len(d.bytes) = HeadOf(kind) /\ d.bytes \in Seq(Int)
  BY HeadBegins
<1>2. HeadOf(kind) \in Nat
  BY RawAssumption DEF HeadOf
<1>3. FramesAt(d.bytes, HeadOf(kind), <<>>, at)
  BY <1>2, FramesBegin
<1>4. Encodable(kind, d, d.kept)
  BY DEF Encodable
<1>5. Len(d.bytes) = HeadOf(kind) + at[Len(d.kept) + 1]
  <2>1. Len(d.kept) + 1 = 1
    OBVIOUS
  <2> DEFINE z == at[Len(d.kept) + 1]
             h == HeadOf(kind)
             n == Len(d.bytes)
  <2>2. z = 0
    BY <2>1
  <2>3. n = h /\ h \in Nat
    BY <1>1, <1>2
  <2> HIDE DEF z, at, h, n
  <2>4. n = h + z
    BY <2>2, <2>3
  <2>5. QED
    BY <2>4 DEF h, z, n
<1>6. DraftAt(kind, d, at)
  BY <1>1, <1>3, <1>4, <1>5 DEF DraftAt
<1>7. QED
  BY <1>6

\* One more frame of a draft.
LEMMA DraftGrows ==
    ASSUME NEW kind \in BOOLEAN, NEW d, NEW at, DraftAt(kind, d, at),
           NEW name \in Seq(Int), Len(name) <= NameCap, NEW e,
           e.ptr = d.ptr, e.size = d.size, e.kept = Append(d.kept, name),
           e.bytes = d.bytes \o LE(Len(name), 2) \o name
    PROVE  \E to : DraftAt(kind, e, to)
<1> DEFINE h == HeadOf(kind)
           c == d.bytes \o LE(Len(name), 2) \o name
           fs == Append(d.kept, name)
<1>1. /\ d.ptr \in Nat /\ d.size \in Nat /\ d.bytes \in Seq(Int) /\ d.kept \in Seq(Seq(Int))
      /\ HeadAt(kind, d.bytes, 0, d) /\ FramesAt(d.bytes, h, d.kept, at)
      /\ Len(d.bytes) = h + EndsAt(d.kept, at) /\ Encodable(kind, d, d.kept)
  BY DEF DraftAt, Encodable, EndsAt
<1>2. h \in Nat
  BY RawAssumption DEF HeadOf
<1>3. PICK to : /\ FramesAt(c, h, fs, to)
                /\ EndsAt(fs, to) = EndsAt(d.kept, at) + 2 + Len(name)
  <2> HIDE DEF h
  <2> QED
    BY <1>1, <1>2, FramesGrow
<1>4. /\ c \in Seq(Int) /\ HoldsAt(c, 0, d.bytes)
      /\ Len(c) = Len(d.bytes) + 2 + Len(name)
  <2> DEFINE two == LE(Len(name), 2)
             x == d.bytes \o two
  <2>1. two \in Seq(Int) /\ Len(two) = 2
    <3>1. Len(name) \in Nat /\ 2 \in Nat
      OBVIOUS
    <3>2. QED
      BY <3>1, LEType, Zenon
  <2> HIDE DEF two
  <2>2. HoldsAt(x, 0, d.bytes) /\ x \in Seq(Int) /\ Len(x) = Len(d.bytes) + Len(two)
    BY <1>1, <2>1, HoldsJoined, Zenon
  <2> HIDE DEF x
  <2>3. HoldsAt(x \o name, 0, x) /\ x \o name \in Seq(Int) /\ Len(x \o name) = Len(x) + Len(name)
    BY <2>2, HoldsJoined, Zenon
  <2>4. Len(d.bytes) \in Nat /\ Len(name) \in Nat /\ 0 + Len(d.bytes) <= Len(x)
    BY <1>1, <2>1, <2>2
  <2> DEFINE y == x \o name
  <2>5. HoldsAt(y, 0, x) /\ y \in Seq(Int)
    BY <2>3
  <2> HIDE DEF y
  <2>6. HoldsAt(y, 0 + 0, d.bytes)
    BY <1>1, <2>2, <2>4, <2>5, HoldsMoves
  <2>7. HoldsAt(y, 0, d.bytes)
    BY <2>6
  <2>8. Len(x \o name) = Len(d.bytes) + 2 + Len(name)
    BY <2>1, <2>2, <2>3
  <2>9. QED
    BY <2>5, <2>7, <2>8 DEF y, x, two
<1>5. Encodable(kind, e, fs)
  <2>1. d.kept \in Seq(Seq(Int)) /\ \A f \in 1..Len(d.kept) : Len(d.kept[f]) <= NameCap
    BY <1>1 DEF Encodable
  <2>2. /\ fs \in Seq(Seq(Int)) /\ Len(fs) = Len(d.kept) + 1 /\ fs[Len(d.kept) + 1] = name
        /\ \A f \in 1..Len(d.kept) : fs[f] = d.kept[f]
    BY <2>1, AppendProperties
  <2> HIDE DEF fs
  <2>3. \A f \in 1..Len(fs) : f \in 1..Len(d.kept) \/ f = Len(d.kept) + 1
    <3>1. Len(d.kept) \in Nat
      BY <2>1
    <3>2. QED
      BY <2>2, <3>1
  <2>4. \A f \in 1..Len(fs) : Len(fs[f]) <= NameCap
    BY <2>1, <2>2, <2>3
  <2>5. QED
    BY <1>1, <2>2, <2>4 DEF Encodable
<1>6. Len(c) = h + EndsAt(fs, to)
  <2> DEFINE x == EndsAt(d.kept, at)
             y == Len(name)
  <2>1. x \in Nat /\ y \in Nat
    <3>1. Len(d.kept) \in Nat
      BY <1>1
    <3>2. Len(d.kept) + 1 \in 1..(Len(d.kept) + 1)
      BY <3>1
    <3>3. x \in Nat
      BY <1>1, <3>2 DEF FramesAt, EndsAt
    <3>4. y \in Nat
      OBVIOUS
    <3> HIDE DEF x, y
    <3>5. QED
      BY <3>3, <3>4
  <2>2. Len(c) = h + x + 2 + y /\ EndsAt(fs, to) = x + 2 + y
    BY <1>1, <1>3, <1>4
  <2> HIDE DEF x, y, c, fs, h
  <2>3. QED
    BY <1>2, <2>1, <2>2
<1>7. HeadAt(kind, c, 0, e)
  <2>1. 0 + HeadOf(kind) <= Len(d.bytes)
    <3> DEFINE x == EndsAt(d.kept, at)
    <3>1. x \in Nat
      <4>1. Len(d.kept) \in Nat
        BY <1>1
      <4>2. Len(d.kept) + 1 \in 1..(Len(d.kept) + 1)
        BY <4>1
      <4>3. QED
        BY <1>1, <4>2 DEF FramesAt, EndsAt
    <3>2. Len(d.bytes) = h + x
      BY <1>1
    <3> HIDE DEF x
    <3>3. QED
      BY <1>2, <3>1, <3>2
  <2> HIDE DEF c
  <2>2. HeadAt(kind, c, 0 + 0, d)
    BY <1>1, <1>4, <2>1, HeadMoves
  <2>3. HeadAt(kind, c, 0, d)
    BY <2>2
  <2>4. QED
    BY <2>3 DEF HeadAt
<1>8. DraftAt(kind, e, to)
  <2>1. e.kept = fs /\ e.bytes = c
    OBVIOUS
  <2> HIDE DEF fs, c
  <2>2. QED
    BY <1>3, <1>4, <1>5, <1>6, <1>7, <2>1 DEF DraftAt, EndsAt
<1>9. QED
  BY <1>8

-----------------------------------------------------------------------------
(* The record in the stack buffer.                                         *)

Drafts == [ptr: Nat, size: Nat, n: 1..MaxFrames, kept: Seq(Seq(Byte)), bytes: Seq(Int)]

\* A draft has its header and what fits of the frames asked for.
DraftInv ==
    \/ draft = None
    \/ /\ draft \in Drafts
       /\ Len(draft.kept) <= draft.n
       /\ HeadLen <= Len(draft.bytes) /\ Len(draft.bytes) <= BufSize

\* The type of three sequences in a row.
LEMMA ConcatThree ==
    ASSUME NEW s \in Seq(Int), NEW t \in Seq(Int), NEW u \in Seq(Int)
    PROVE  s \o t \o u \in Seq(Int) /\ Len(s \o t \o u) = Len(s) + Len(t) + Len(u)
<1>1. s \o t \in Seq(Int) /\ Len(s \o t) = Len(s) + Len(t)
  BY ConcatProperties
<1>2. QED
  BY <1>1, ConcatProperties

\* A new draft is its header, which fits.
LEMMA BeginFits ==
    ASSUME NEW a \in Nat, NEW size \in Nat, NEW n \in 1..MaxFrames,
           BeginAlloc(a, size, n)
    PROVE  DraftInv'
<1> DEFINE first == IF retained THEN <<TagA>> \o LE(a, Word) ELSE <<>>
           bytes == first \o LE(size, Word) \o <<0>>
<1>1. Word \in Nat /\ TagA \in Int /\ HeadLen <= BufSize /\ BufSize \in Nat
      /\ NameCap \in Nat /\ HeadLen \in Nat
  BY RawAssumption DEF Byte, HeadLen
<1>2. LE(a, Word) \in Seq(Int) /\ Len(LE(a, Word)) = Word
  BY <1>1, LEType
<1>3. LE(size, Word) \in Seq(Int) /\ Len(LE(size, Word)) = Word
  BY <1>1, LEType
<1>4. first \in Seq(Int) /\ Len(first) = IF retained THEN 1 + Word ELSE 0
  <2>1. CASE retained
    BY <1>1, <1>2, <2>1
  <2>2. CASE ~retained
    BY <2>2
  <2>3. QED
    BY <2>1, <2>2
<1>5. bytes \in Seq(Int) /\ Len(bytes) = HeadLen
  <2> HIDE DEF first
  <2>1. <<0>> \in Seq(Int) /\ Len(<<0>>) = 1
    OBVIOUS
  <2>2. bytes \in Seq(Int) /\ Len(bytes) = Len(first) + Word + 1
    BY <1>3, <1>4, <2>1, ConcatThree
  <2>3. QED
    BY <1>1, <1>4, <2>2 DEF HeadLen
<1>6. /\ draft' = [ptr |-> a, size |-> size, n |-> n, kept |-> <<>>, bytes |-> bytes]
      /\ HeadLen' = HeadLen
  BY DEF BeginAlloc, HeadLen
<1>7. QED
  <2> HIDE DEF bytes
  <2>1. draft' \in Drafts
    BY <1>5, <1>6 DEF Drafts
  <2>2. Len(draft'.kept) = 0 /\ Len(draft'.bytes) = HeadLen
    BY <1>5, <1>6
  <2>3. QED
    BY <1>1, <1>6, <2>1, <2>2 DEF DraftInv

\* Another frame fits because there was room for a name of full length.
LEMMA AddFits ==
    ASSUME DraftInv, NEW name \in Names, AddFrame(name)
    PROVE  DraftInv'
<1> DEFINE len == IF Len(name) < NameCap THEN Len(name) ELSE NameCap
           cut == SubSeq(name, 1, len)
<1>1. /\ draft \in Drafts /\ Len(draft.kept) < draft.n
      /\ HeadLen <= Len(draft.bytes)
      /\ Len(draft.bytes) + 2 + NameCap <= BufSize
  BY DEF AddFrame, DraftInv, Room
<1>2. /\ draft' = [draft EXCEPT !.kept = Append(@, cut), !.bytes = @ \o LE(len, 2) \o cut]
      /\ HeadLen' = HeadLen
  BY DEF AddFrame, HeadLen
<1>3. name \in Seq(Byte) /\ NameCap \in Nat /\ BufSize \in Nat /\ HeadLen \in Nat
  BY RawAssumption DEF HeadLen
<1>4. len \in Nat /\ len <= NameCap /\ len <= Len(name)
  BY <1>3
<1>5. cut \in Seq(Byte) /\ Len(cut) = len
  BY <1>3, <1>4
<1>6. cut \in Seq(Int)
  <2> HIDE DEF cut
  <2> QED
    BY <1>5, RawAssumption, SeqMonotonic DEF Byte
<1>7. LE(len, 2) \in Seq(Int) /\ Len(LE(len, 2)) = 2
  BY <1>4, LEType
<1> HIDE DEF cut, len
<1>8. /\ draft.bytes \o LE(len, 2) \o cut \in Seq(Int)
      /\ Len(draft.bytes \o LE(len, 2) \o cut) = Len(draft.bytes) + 2 + len
  <2>1. draft.bytes \in Seq(Int)
    BY <1>1 DEF Drafts
  <2> DEFINE all == draft.bytes \o LE(len, 2) \o cut
  <2>2. all \in Seq(Int) /\ Len(all) = Len(draft.bytes) + Len(LE(len, 2)) + Len(cut)
    BY <2>1, <1>6, <1>7, ConcatThree
  <2> HIDE DEF all
  <2>3. all \in Seq(Int) /\ Len(all) = Len(draft.bytes) + 2 + len
    BY <2>2, <1>5, <1>7
  <2>4. QED
    BY <2>3 DEF all
<1>9. Append(draft.kept, cut) \in Seq(Seq(Byte))
      /\ Len(Append(draft.kept, cut)) = Len(draft.kept) + 1
  BY <1>1, <1>5 DEF Drafts
<1>10. draft' \in Drafts
       /\ draft'.kept = Append(draft.kept, cut) /\ draft'.n = draft.n
       /\ draft'.bytes = draft.bytes \o LE(len, 2) \o cut
  BY <1>1, <1>2, <1>8, <1>9 DEF Drafts
<1>11. draft.n \in Nat /\ Len(draft.kept) \in Nat /\ Len(draft.bytes) \in Nat
  BY <1>1, RawAssumption DEF Drafts
<1>12. Len(draft'.kept) <= draft'.n
  BY <1>1, <1>9, <1>10, <1>11
<1>13. HeadLen <= Len(draft'.bytes) /\ Len(draft'.bytes) <= BufSize
  <2>1. Len(draft'.bytes) = Len(draft.bytes) + 2 + len
    BY <1>8, <1>10
  <2>2. QED
    BY <1>1, <1>3, <1>4, <1>11, <2>1
<1>14. QED
  BY <1>2, <1>10, <1>12, <1>13 DEF DraftInv

\* A step keeps the draft well formed.
LEMMA DraftStep == DraftInv /\ [Next]_vars => DraftInv'
<1> SUFFICES ASSUME DraftInv, [Next]_vars PROVE DraftInv'
  OBVIOUS
<1>1. ASSUME NEW a \in IF retained THEN Ptrs ELSE {0}, NEW size \in Sizes,
             NEW n \in 1..MaxFrames, BeginAlloc(a, size, n)
      PROVE  DraftInv'
  BY <1>1, BeginFits, RawAssumption
<1>2. ASSUME NEW name \in Names, AddFrame(name) PROVE DraftInv'
  BY <1>2, AddFits
<1>3. CASE WriteAlloc
  BY <1>3 DEF WriteAlloc, DraftInv
<1>4. ASSUME NEW n \in 0..Len(buf), Cut(n) PROVE DraftInv'
  BY <1>4 DEF Cut, DraftInv
<1>5. ASSUME draft' = draft, retained' = retained PROVE DraftInv'
  BY <1>5 DEF DraftInv, HeadLen
<1>6. ASSUME NEW a \in Ptrs, WriteFree(a) PROVE draft' = draft /\ retained' = retained
  BY <1>6 DEF WriteFree
<1>7. ASSUME ReadHead \/ ReadFree \/ ShortHead \/ ReadFrame \/ ShortFrame
             \/ TakeRecord
      PROVE  draft' = draft /\ retained' = retained
  BY <1>7 DEF ReadHead, ReadFree, ShortHead, ReadFrame, ShortFrame,
              TakeRecord, Finish, recordVars, parseVars
<1>8. QED
  BY <1>1, <1>2, <1>3, <1>4, <1>5, <1>6, <1>7 DEF Next, vars, recordVars

\* The draft of a record is well formed at every step.
THEOREM DraftFits == Spec => []DraftInv
<1>1. Init => DraftInv
  BY DEF Init, DraftInv
<1>2. QED
  BY <1>1, DraftStep, PTL DEF Spec

\* The hook stays within its stack buffer, for any names, cap and budget.
THEOREM RecordsFit == Spec => []RecordFits
<1>1. DraftInv => RecordFits
  BY DEF DraftInv, RecordFits
<1>2. QED
  BY <1>1, DraftFits, PTL

\* The number of frames is at most the largest byte, so storing it in one
\* loses nothing.
FrameCountFits == draft # None => Len(draft.kept) \in Byte

THEOREM FrameCountsFit == Spec => []FrameCountFits
<1>1. DraftInv => FrameCountFits
  BY RawAssumption DEF DraftInv, FrameCountFits, Drafts, Byte
<1>2. QED
  BY <1>1, DraftFits, PTL

-----------------------------------------------------------------------------
(* The stream as the hook writes it.                                       *)

LayoutInv ==
    /\ retained \in BOOLEAN /\ phase \in {"record", "parse", "done"}
    /\ Laid(retained, buf, recs)
    /\ phase = "record" => LaidWhole(retained, buf, recs)
    /\ \/ draft = None
       \/ /\ phase = "record"
          /\ retained => Untracked(recs, Len(recs), draft.ptr)
          /\ \E at : DraftAt(retained, draft, at)

\* The file is empty.
LEMMA LayoutInit == Init => LayoutInv
<1> SUFFICES ASSUME Init PROVE LayoutInv
  OBVIOUS
<1>1. retained \in BOOLEAN /\ phase = "record" /\ buf = <<>> /\ recs = <<>> /\ draft = None
  BY DEF Init
<1>2. Laid(retained, <<>>, <<>>) /\ LaidWhole(retained, <<>>, <<>>)
  BY DEF Laid, LaidWhole, EndOf
<1>3. QED
  BY <1>1, <1>2 DEF LayoutInv

\* The hook reserves a header.
LEMMA LayoutBegin ==
    ASSUME LayoutInv, NEW a \in IF retained THEN Ptrs ELSE {0}, NEW size \in Sizes,
           NEW n \in 1..MaxFrames, BeginAlloc(a, size, n)
    PROVE  LayoutInv'
<1> DEFINE bytes == (IF retained THEN <<TagA>> \o LE(a, Word) ELSE <<>>)
                    \o LE(size, Word) \o <<0>>
           d == [ptr |-> a, size |-> size, n |-> n, kept |-> <<>>, bytes |-> bytes]
<1>1. /\ phase = "record" /\ draft' = d
      /\ retained => a \notin Tracked
      /\ retained' = retained /\ phase' = phase /\ buf' = buf /\ recs' = recs
  BY DEF BeginAlloc
<1>2. /\ d.ptr = a /\ d.size = size /\ d.kept = <<>> /\ d.bytes = bytes
  OBVIOUS
<1>3. /\ a \in Nat /\ size \in Nat /\ Fits(size, Word)
      /\ IF retained THEN a \in Ptrs /\ Fits(a, Word) /\ a # 0 ELSE a = 0
  BY RawAssumption
<1> HIDE DEF d, bytes
<1>4. \E at : DraftAt(retained, d, at)
  <2>1. retained \in BOOLEAN
    BY DEF LayoutInv
  <2>2. d.bytes = HeadBytes(retained, d)
    BY <1>2 DEF bytes, HeadBytes
  <2>3. d.ptr \in Nat /\ d.size \in Nat /\ Fits(d.size, Word)
        /\ IF retained THEN Fits(d.ptr, Word) /\ d.ptr # 0 ELSE d.ptr = 0
    BY <1>2, <1>3
  <2>4. d.kept = <<>>
    BY <1>2
  <2>5. QED
    BY <2>1, <2>2, <2>3, <2>4, DraftBegins
<1>5. retained => Untracked(recs, Len(recs), d.ptr)
  <2> SUFFICES ASSUME retained PROVE Untracked(recs, Len(recs), a)
    BY <1>2
  <2>1. a \in Ptrs /\ a \notin Tracked
    BY <1>1, <1>3
  <2>2. DOMAIN recs = 1..Len(recs)
    BY DEF LayoutInv, Laid
  <2>3. \A i \in 1..Len(recs) : recs[i].op = "A" /\ recs[i].ptr = a =>
            \E m \in (i + 1)..Len(recs) : recs[m].ptr = a
    BY <2>1, <2>2 DEF Tracked
  <2>4. QED
    BY <2>3 DEF Untracked
<1>6. QED
  BY <1>1, <1>4, <1>5 DEF LayoutInv

\* It adds a frame.
LEMMA LayoutAdd ==
    ASSUME LayoutInv, NEW name \in Names, AddFrame(name)
    PROVE  LayoutInv'
<1> DEFINE len == IF Len(name) < NameCap THEN Len(name) ELSE NameCap
           cut == SubSeq(name, 1, len)
           bytes == draft.bytes \o LE(len, 2) \o cut
           d == [draft EXCEPT !.kept = Append(@, cut), !.bytes = bytes]
<1>1. /\ phase = "record" /\ draft' = d /\ draft # None
      /\ retained' = retained /\ phase' = phase /\ buf' = buf /\ recs' = recs
  BY DEF AddFrame
<1>2. name \in Seq(Byte) /\ NameCap \in Nat
  BY RawAssumption
<1>3. len \in Nat /\ len <= NameCap /\ len <= Len(name)
  BY <1>2
<1>4. cut \in Seq(Byte) /\ Len(cut) = len
  BY <1>2, <1>3
<1>5. cut \in Seq(Int)
  <2> HIDE DEF cut
  <2> QED
    BY <1>4, RawAssumption, SeqMonotonic DEF Byte
<1> HIDE DEF cut, len
<1>6. PICK at : DraftAt(retained, draft, at)
  BY <1>1 DEF LayoutInv
<1>7. \E to : DraftAt(retained, d, to)
  <2>1. retained \in BOOLEAN /\ Len(cut) <= NameCap
    BY <1>3, <1>4 DEF LayoutInv
  <2>2. /\ d.ptr = draft.ptr /\ d.size = draft.size
        /\ d.kept = Append(draft.kept, cut) /\ d.bytes = bytes
    OBVIOUS
  <2>3. d.bytes = draft.bytes \o LE(Len(cut), 2) \o cut
    BY <1>4, <2>2
  <2> HIDE DEF d, bytes
  <2>4. QED
    BY <1>5, <1>6, <2>1, <2>2, <2>3, DraftGrows
<1>8. d.ptr = draft.ptr
  OBVIOUS
<1> HIDE DEF d
<1>9. QED
  BY <1>1, <1>7, <1>8 DEF LayoutInv

\* It backfills the number of frames and writes an 'A'.
LEMMA LayoutAlloc ==
    ASSUME LayoutInv, DraftInv, WriteAlloc
    PROVE  LayoutInv'
<1> DEFINE v == Len(draft.kept)
           c == [draft.bytes EXCEPT ![HeadOf(retained)] = v]
           r == [op |-> "A", ptr |-> draft.ptr, size |-> draft.size,
                 frames |-> draft.kept, end |-> Len(buf \o c)]
<1>1. HeadLen = HeadOf(retained)
  BY DEF HeadLen, HeadOf
<1>2. /\ phase = "record" /\ draft # None /\ buf' = buf \o c /\ recs' = Append(recs, r)
      /\ draft' = None /\ retained' = retained /\ phase' = phase
  BY <1>1 DEF WriteAlloc
<1>3. PICK at : DraftAt(retained, draft, at)
  BY <1>2 DEF LayoutInv
<1>4. HeadOf(retained) <= Len(draft.bytes)
  BY <1>1, <1>2 DEF DraftInv
<1>5. /\ r.op = "A" /\ r.ptr = draft.ptr /\ r.size = draft.size /\ r.frames = draft.kept
      /\ r.end = Len(buf \o c) /\ r = [op |-> "A", ptr |-> r.ptr, size |-> r.size,
                                       frames |-> r.frames, end |-> r.end]
  OBVIOUS
<1> HIDE DEF r
<1>6. retained \in BOOLEAN /\ buf \in Seq(Int) /\ LaidWhole(retained, buf, recs)
  BY <1>2 DEF LayoutInv, Laid
<1>7. /\ RecordAt(retained, buf \o c, Len(buf), r, at)
      /\ c \in Seq(Int) /\ Len(c) > 0 /\ r.end \in Nat
  BY <1>3, <1>4, <1>5, <1>6, AllocWritten
<1>8. r \in Records
  <2>1. draft.ptr \in Nat /\ draft.size \in Nat /\ draft.kept \in Seq(Seq(Int))
    BY <1>3 DEF DraftAt, Encodable
  <2>2. QED
    BY <1>5, <1>7, <2>1 DEF Records
<1>9. retained => Untracked(recs, Len(recs), r.ptr)
  BY <1>2, <1>5 DEF LayoutInv
<1> HIDE DEF c
<1>10. LaidWhole(retained, buf \o c, Append(recs, r))
  <2>1. retained /\ r.op = "A" => Untracked(recs, Len(recs), r.ptr)
    BY <1>9
  <2>2. \E to : RecordAt(retained, buf \o c, Len(buf), r, to)
    BY <1>7
  <2>3. r.end = Len(buf \o c)
    BY <1>5
  <2>4. QED
    BY <1>6, <1>7, <1>8, <2>1, <2>2, <2>3, LaidMore, Zenon
<1>11. QED
  BY <1>2, <1>6, <1>10 DEF LayoutInv, LaidWhole

\* It writes an 'F'.
LEMMA LayoutFree ==
    ASSUME LayoutInv, NEW a \in Ptrs, WriteFree(a)
    PROVE  LayoutInv'
<1> DEFINE c == <<TagF>> \o LE(a, Word)
           r == [op |-> "F", ptr |-> a, size |-> 0, frames |-> <<>>, end |-> Len(buf \o c)]
<1>1. /\ retained \in BOOLEAN /\ buf \in Seq(Int) /\ LaidWhole(retained, buf, recs)
      /\ phase = "record"
  BY DEF LayoutInv, Laid, WriteFree
<1>2. /\ retained /\ draft = None /\ buf' = buf \o c /\ recs' = Append(recs, r)
      /\ draft' = draft /\ retained' = retained /\ phase' = phase
  <2>1. buf \o <<TagF>> \o LE(a, Word) = buf \o c
    <3>1. <<TagF>> \in Seq(Int) /\ LE(a, Word) \in Seq(Int)
      <4>1. TagF \in Int /\ a \in Nat /\ Word \in Nat
        BY RawAssumption DEF Byte
      <4>2. QED
        BY <4>1, LEType
    <3>2. QED
      BY <1>1, <3>1, ConcatAssociative
  <2>2. QED
    BY <2>1 DEF WriteFree
<1>3. /\ r.op = "F" /\ r.ptr = a /\ r.end = Len(buf \o c) /\ a \in Nat /\ Fits(a, Word)
  BY RawAssumption
<1>4. r.end \in Nat => r \in Records
  <2>1. <<>> \in Seq(Seq(Int))
    OBVIOUS
  <2>2. a \in Nat
    BY RawAssumption
  <2>3. QED
    BY <2>1, <2>2 DEF Records
<1> HIDE DEF r
<1>5. /\ \E at : RecordAt(TRUE, buf \o c, Len(buf), r, at)
      /\ c \in Seq(Int) /\ Len(c) > 0 /\ r.end = Len(buf \o c) /\ r.end \in Nat
  BY <1>1, <1>3, FreeWritten
<1>6. retained = TRUE /\ ~(r.op = "A")
  BY <1>1, <1>2, <1>3
<1> HIDE DEF c
<1>7. LaidWhole(retained, buf \o c, Append(recs, r))
  <2>1. retained /\ r.op = "A" => Untracked(recs, Len(recs), r.ptr)
    BY <1>6
  <2>2. \E to : RecordAt(retained, buf \o c, Len(buf), r, to)
    BY <1>5, <1>6
  <2>3. r \in Records
    BY <1>4, <1>5
  <2>4. QED
    BY <1>1, <1>5, <2>1, <2>2, <2>3, LaidMore, Zenon
<1>8. QED
  BY <1>1, <1>2, <1>7 DEF LayoutInv, LaidWhole

\* The file ends anywhere.
LEMMA LayoutCut ==
    ASSUME LayoutInv, NEW n \in 0..Len(buf), Cut(n)
    PROVE  LayoutInv'
<1>1. /\ retained \in BOOLEAN /\ Laid(retained, buf, recs)
      /\ phase' = "parse" /\ buf' = SubSeq(buf, 1, n) /\ draft' = None
      /\ retained' = retained /\ recs' = recs
  BY DEF LayoutInv, Cut
<1>2. Laid(retained, SubSeq(buf, 1, n), recs)
  BY <1>1, LaidCut
<1>3. QED
  BY <1>1, <1>2 DEF LayoutInv

\* The parser changes none of it.
LEMMA LayoutParse ==
    ASSUME LayoutInv, draft' = draft, retained' = retained, buf' = buf, recs' = recs,
           phase' = phase \/ (phase = "parse" /\ phase' = "done")
    PROVE  LayoutInv'
BY DEF LayoutInv

\* A step keeps the file laid out.
LEMMA LayoutStep == LayoutInv /\ DraftInv /\ [Next]_vars => LayoutInv'
<1> SUFFICES ASSUME LayoutInv, DraftInv, [Next]_vars PROVE LayoutInv'
  OBVIOUS
<1>1. ASSUME NEW a \in IF retained THEN Ptrs ELSE {0}, NEW size \in Sizes,
             NEW n \in 1..MaxFrames, BeginAlloc(a, size, n)
      PROVE  LayoutInv'
  BY <1>1, LayoutBegin
<1>2. ASSUME NEW name \in Names, AddFrame(name) PROVE LayoutInv'
  BY <1>2, LayoutAdd
<1>3. CASE WriteAlloc
  BY <1>3, LayoutAlloc
<1>4. ASSUME NEW a \in Ptrs, WriteFree(a) PROVE LayoutInv'
  BY <1>4, LayoutFree
<1>5. ASSUME NEW n \in 0..Len(buf), Cut(n) PROVE LayoutInv'
  BY <1>5, LayoutCut
<1>6. CASE ReadHead \/ ReadFree \/ ShortHead \/ ReadFrame \/ ShortFrame \/ TakeRecord
  <2>1. /\ draft' = draft /\ retained' = retained /\ buf' = buf /\ recs' = recs
        /\ phase' = phase \/ (phase = "parse" /\ phase' = "done")
    BY <1>6 DEF ReadHead, ReadFree, ShortHead, ReadFrame, ShortFrame, TakeRecord, Finish,
                recordVars
  <2>2. QED
    BY <2>1, LayoutParse
<1>7. CASE UNCHANGED vars
  BY <1>7 DEF LayoutInv, vars, recordVars
<1>8. QED
  BY <1>1, <1>2, <1>3, <1>4, <1>5, <1>6, <1>7 DEF Next

\* What is in the file is the records, one after another, as far as it goes.
THEOREM StreamIsLaidOut == Spec => []LayoutInv
<1>1. QED
  BY LayoutInit, LayoutStep, DraftFits, PTL DEF Spec

-----------------------------------------------------------------------------
(* Sums and totals.                                                        *)

\* The images of X.
Image(h, X) == {h[x] : x \in X}

OneToOne(h, S) == \A x, y \in S : h[x] = h[y] => x = y

\* A sum does not tell how its terms are indexed.
LEMMA SumRenamed ==
    ASSUME NEW S, IsFiniteSet(S), NEW h, OneToOne(h, S), NEW f \in [S -> Int],
           NEW e \in [Image(h, S) -> Int], \A x \in S : e[h[x]] = f[x]
    PROVE  SumFunction(e) = SumFunction(f)
<1> DEFINE T == Image(h, S)
<1>1. IsFiniteSet(T)
  <2> DEFINE m == [x \in S |-> h[x]]
  <2>1. m \in Surjection(S, T)
    BY DEF Image, Surjection
  <2>2. QED
    BY <2>1, FS_Surjection
<1>2. e \in [T -> Int]
  OBVIOUS
<1>3. PICK g \in [SUBSET S -> Int] : Sums(g, f, S)
  BY SumsExists
<1>4. PICK k \in [SUBSET T -> Int] : Sums(k, e, T)
  <2> HIDE DEF T
  <2> QED
    BY <1>1, <1>2, SumsExists
<1>5. Additive(g, f, S) /\ SumFunction(f) = g[S] /\ g[{}] = 0
  <2>1. Additive(g, f, S)
    BY <1>3, SumsAny
  <2>2. SumFunction(f) = g[S]
    BY <1>3, SumIs
  <2>3. QED
    BY <1>3, <2>1, <2>2 DEF Sums
<1>6. Additive(k, e, T) /\ SumFunction(e) = k[T] /\ k[{}] = 0
  <2> HIDE DEF T
  <2>1. Additive(k, e, T)
    BY <1>1, <1>2, <1>4, SumsAny
  <2>2. SumFunction(e) = k[T]
    BY <1>1, <1>2, <1>4, SumIs
  <2>3. QED
    BY <1>4, <2>1, <2>2 DEF Sums
<1> HIDE DEF T
<1> DEFINE N == {n \in Nat : \A X \in SUBSET S : Cardinality(X) = n => k[Image(h, X)] = g[X]}
<1>7. 0 \in N
  <2>1. \A X \in SUBSET S : Cardinality(X) = 0 => X = {}
    BY FS_Subset, FS_EmptySet
  <2>2. Image(h, {}) = {}
    BY DEF Image
  <2>3. QED
    BY <1>5, <1>6, <2>1, <2>2
<1>8. ASSUME NEW n \in Nat, n \in N PROVE n + 1 \in N
  <2> SUFFICES ASSUME NEW X \in SUBSET S, Cardinality(X) = n + 1
               PROVE  k[Image(h, X)] = g[X]
    OBVIOUS
  <2>1. IsFiniteSet(X)
    BY FS_Subset
  <2>2. PICK x \in X : TRUE
    <3>1. Cardinality({}) = 0
      BY FS_EmptySet
    <3>2. X # {}
      <4> SUFFICES ASSUME X = {} PROVE FALSE
        OBVIOUS
      <4>1. Cardinality(X) = 0
        BY <3>1
      <4>2. QED
        BY <4>1
    <3>3. QED
      BY <3>2
  <2> DEFINE Y == X \ {x}
  <2>3. Cardinality(Y) = n /\ Y \in SUBSET S
    <3>1. Cardinality(Y) = Cardinality(X) - 1
      BY <2>1, Smaller
    <3>2. QED
      BY <3>1
  <2>4. k[Image(h, Y)] = g[Y]
    BY <1>8, <2>3
  <2>5. g[X] = f[x] + g[Y]
    BY <1>5 DEF Additive
  <2>6. Image(h, X) \in SUBSET T /\ h[x] \in Image(h, X)
    BY DEF Image, T
  <2>7. Image(h, X) \ {h[x]} = Image(h, Y)
    BY DEF Image, OneToOne
  <2>8. k[Image(h, X)] = e[h[x]] + k[Image(h, Y)]
    <3> HIDE DEF Y
    <3> QED
      BY <1>6, <2>6, <2>7 DEF Additive
  <2>9. e[h[x]] = f[x]
    OBVIOUS
  <2>10. QED
    BY <2>4, <2>5, <2>8, <2>9
<1>9. Nat \subseteq N
  <2> HIDE DEF N
  <2> QED
    BY <1>7, <1>8, Induction
<1>10. k[Image(h, S)] = g[S]
  <2>1. Cardinality(S) \in Nat
    BY FS_CardinalityType
  <2>2. S \in SUBSET S
    OBVIOUS
  <2>3. QED
    BY <1>9, <2>1, <2>2
<1>11. QED
  BY <1>5, <1>6, <1>10 DEF T

\* Nor does a count.
LEMMA CardinalityRenamed ==
    ASSUME NEW S, IsFiniteSet(S), NEW h, OneToOne(h, S)
    PROVE  Cardinality(Image(h, S)) = Cardinality(S)
<1> DEFINE f == [x \in S |-> h[x]]
<1>1. f \in Bijection(S, Image(h, S))
  BY DEF Image, OneToOne, Bijection, Injection, Surjection, IsInjective
<1>2. ExistsBijection(S, Image(h, S))
  BY <1>1 DEF ExistsBijection
<1>3. QED
  BY <1>2, FS_Bijection

\* The indexes of a stack.
Own(alloc, s) == {i \in DOMAIN alloc : alloc[i].frames = s}
Weights(alloc, s) == [i \in Own(alloc, s) |-> alloc[i].size]

\* Totals, in these terms.
LEMMA TotalsIs ==
    ASSUME NEW alloc
    PROVE  Totals(alloc) = [s \in {alloc[i].frames : i \in DOMAIN alloc} |->
                [count |-> Rate * Cardinality(Own(alloc, s)),
                 bytes |-> Rate * SumFunction(Weights(alloc, s))]]
BY DEF Totals, Own, Weights

\* f has the allocations of g, with other indexes.
Renames(f, g, h, S) ==
    /\ IsFiniteSet(S) /\ OneToOne(h, S)
    /\ DOMAIN g = S /\ DOMAIN f = Image(h, S)
    /\ \A i \in S : f[h[i]] = g[i] /\ g[i].size \in Int

\* The totals do not tell how the allocations are indexed.
LEMMA TotalsRenamed ==
    ASSUME NEW S, NEW h, NEW f, NEW g, Renames(f, g, h, S)
    PROVE  Totals(f) = Totals(g)
<1> USE DEF Renames
<1>1. {f[t].frames : t \in DOMAIN f} = {g[i].frames : i \in DOMAIN g}
  BY DEF Image
<1>2. ASSUME NEW s
      PROVE  /\ Cardinality(Own(f, s)) = Cardinality(Own(g, s))
             /\ SumFunction(Weights(f, s)) = SumFunction(Weights(g, s))
  <2> DEFINE X == Own(g, s)
             v == Weights(f, s)
             w == Weights(g, s)
  <2>1. X \in SUBSET S
    BY DEF Own
  <2>2. IsFiniteSet(X) /\ OneToOne(h, X)
    BY <2>1, FS_Subset DEF OneToOne
  <2>3. Own(f, s) = Image(h, X)
    BY DEF Own, Image
  <2>4. w \in [X -> Int]
    BY <2>1 DEF Weights
  <2>5. /\ v \in [Image(h, X) -> Int] /\ \A x \in X : v[h[x]] = w[x]
    <3>1. v = [t \in Image(h, X) |-> f[t].size]
      BY <2>3 DEF Weights
    <3>2. \A x \in X : h[x] \in Image(h, X) /\ f[h[x]].size = g[x].size /\ g[x].size \in Int
      BY <2>1 DEF Image
    <3>3. \A t \in Image(h, X) : f[t].size \in Int
      BY <3>2 DEF Image
    <3>4. \A x \in X : w[x] = g[x].size
      BY DEF Weights
    <3> HIDE DEF X, v, w
    <3>5. QED
      BY <3>1, <3>2, <3>3, <3>4
  <2> HIDE DEF X, v, w
  <2>6. SumFunction(v) = SumFunction(w)
    BY <2>2, <2>4, <2>5, SumRenamed
  <2>7. Cardinality(Image(h, X)) = Cardinality(X)
    BY <2>2, CardinalityRenamed
  <2>8. QED
    BY <2>3, <2>6, <2>7 DEF X, v, w
<1>3. QED
  BY <1>1, <1>2, TotalsIs

\* Arithmetic the provers need spelled out.
LEMMA Distributes ==
    /\ \A r \in Nat : \A c \in Int : r * (c + 1) = r * c + r
    /\ \A r \in Nat : \A y, z \in Int : r * (y + z) = r * y + z * r
    /\ \A r \in Nat : r * 0 = 0 /\ r * 1 = r
OBVIOUS

\* The samples t after the allocation a.
Credited(t, a) ==
    Put(t, a.frames, [count |-> Old(t, a.frames).count + Rate,
                      bytes |-> Old(t, a.frames).bytes + a.size * Rate])

\* g has the allocations of f and one more.
Extends(f, g, k, S) ==
    /\ IsFiniteSet(S) /\ k \notin S
    /\ DOMAIN f = S /\ DOMAIN g = S \cup {k}
    /\ \A i \in S : g[i] = f[i] /\ f[i].size \in Int
    /\ g[k].size \in Int

\* The totals of g are those of f with one more allocation.
CreditedBy(f, g, k) == Totals(g) = Credited(Totals(f), g[k])

\* One more allocation is credited to its stack.
LEMMA TotalsAdd ==
    ASSUME NEW S, NEW k, NEW f, NEW g, Extends(f, g, k, S)
    PROVE  CreditedBy(f, g, k)
<1> USE DEF Extends
<1> DEFINE u == g[k].frames
           z == g[k].size
           D == {f[i].frames : i \in S}
           tf == Totals(f)
           tg == Totals(g)
<1>1. {g[i].frames : i \in DOMAIN g} = D \cup {u}
  OBVIOUS
<1>2. tf = [s \in D |-> [count |-> Rate * Cardinality(Own(f, s)),
                         bytes |-> Rate * SumFunction(Weights(f, s))]]
  BY TotalsIs
<1>3. tg = [s \in D \cup {u} |-> [count |-> Rate * Cardinality(Own(g, s)),
                                  bytes |-> Rate * SumFunction(Weights(g, s))]]
  BY <1>1, TotalsIs
<1>4. ASSUME NEW s, s # u PROVE Own(g, s) = Own(f, s) /\ Weights(g, s) = Weights(f, s)
  <2>1. Own(g, s) = Own(f, s)
    BY <1>4 DEF Own
  <2>2. \A i \in Own(f, s) : g[i].size = f[i].size
    BY DEF Own
  <2>3. QED
    BY <2>1, <2>2 DEF Weights
<1> DEFINE X == Own(f, u)
           w == Weights(f, u)
           v == Weights(g, u)
<1>5. X \in SUBSET S /\ Own(g, u) = X \cup {k} /\ k \notin X
  BY DEF Own
<1>6. IsFiniteSet(X) /\ w \in [X -> Int]
  BY <1>5, FS_Subset DEF Weights
<1>7. v \in [X \cup {k} -> Int] /\ v[k] = z /\ \A x \in X \ {k} : v[x] = w[x]
  <2>1. v = [i \in X \cup {k} |-> g[i].size]
    BY <1>5 DEF Weights
  <2>2. \A i \in X : g[i].size = f[i].size /\ f[i].size \in Int /\ w[i] = f[i].size
    BY <1>5 DEF Weights
  <2> HIDE DEF X, v, w
  <2>3. QED
    BY <2>1, <2>2
<1> HIDE DEF X, v, w
<1>8. SumsMove(w, v, X, k)
  BY <1>6, <1>7, SumChange
<1>9. SumFunction(w) \in Int /\ SumFunction(v) = SumFunction(w) + z /\ z \in Int
  <2>1. SumFunction(w) \in Int /\ SumFunction(v) = SumFunction(w) + z - 0
    BY <1>5, <1>7, <1>8 DEF SumsMove
  <2> HIDE DEF z
  <2>2. z \in Int
    BY DEF z
  <2>3. QED
    BY <2>1, <2>2
<1>10. Cardinality(X) \in Nat /\ Cardinality(X \cup {k}) = Cardinality(X) + 1
  BY <1>5, <1>6, FS_CardinalityType, FS_AddElement
<1>11. /\ Old(tf, u).count = Rate * Cardinality(X)
       /\ Old(tf, u).bytes = Rate * SumFunction(w)
  <2>1. CASE u \in D
    <3>1. /\ u \in DOMAIN tf
          /\ tf[u] = [count |-> Rate * Cardinality(X), bytes |-> Rate * SumFunction(w)]
      BY <1>2, <2>1 DEF X, w
    <3> HIDE DEF tf
    <3>2. QED
      BY <3>1 DEF Old
  <2>2. CASE u \notin D
    <3>1. X = {}
      BY <2>2 DEF X, Own
    <3>2. u \notin DOMAIN tf
      BY <1>2, <2>2
    <3>3. Cardinality(X) = 0
      BY <3>1, FS_EmptySet
    <3>4. SumFunction(w) = 0
      BY <1>6, <3>1, SumEmpty
    <3>5. Rate * 0 = 0
      BY RawAssumption, Distributes
    <3> HIDE DEF tf
    <3>6. QED
      BY <3>2, <3>3, <3>4, <3>5 DEF Old
  <2>3. QED
    BY <2>1, <2>2
<1> DEFINE new == [count |-> Old(tf, u).count + Rate, bytes |-> Old(tf, u).bytes + z * Rate]
<1>12. tg[u] = new
  <2>1. tg[u] = [count |-> Rate * Cardinality(X \cup {k}), bytes |-> Rate * SumFunction(v)]
    <3>1. u \in D \cup {u}
      OBVIOUS
    <3> HIDE DEF D, u, tg
    <3>2. QED
      BY <1>3, <1>5, <3>1 DEF v
  <2> DEFINE c == Cardinality(X)
             y == SumFunction(w)
  <2>2. Rate * (c + 1) = Rate * c + Rate /\ Rate * (y + z) = Rate * y + z * Rate
    <3>1. Rate \in Nat /\ c \in Int
      BY <1>10, RawAssumption
    <3>2. y \in Int /\ z \in Int
      BY <1>9
    <3> HIDE DEF c, y, z
    <3>3. QED
      BY <3>1, <3>2, Distributes
  <2>3. Cardinality(X \cup {k}) = c + 1 /\ SumFunction(v) = y + z
    BY <1>9, <1>10
  <2> HIDE DEF c, y, z, tg
  <2>4. Old(tf, u).count = Rate * c /\ Old(tf, u).bytes = Rate * y
    BY <1>11 DEF c, y
  <2> HIDE DEF tf
  <2>5. QED
    BY <2>1, <2>2, <2>3, <2>4
<1>13. \A s \in D \ {u} : tg[s] = tf[s]
  <2> SUFFICES ASSUME NEW s \in D \ {u} PROVE tg[s] = tf[s]
    OBVIOUS
  <2>1. Own(g, s) = Own(f, s) /\ Weights(g, s) = Weights(f, s)
    BY <1>4
  <2> HIDE DEF D, tf, tg, u
  <2>2. QED
    BY <1>2, <1>3, <2>1
<1>14. DOMAIN tg = D \cup {u} /\ DOMAIN tf = D /\ tg = [s \in D \cup {u} |-> tg[s]]
  <2> HIDE DEF D, tf, tg, u
  <2> QED
    BY <1>2, <1>3
<1>15. tg = Put(tf, u, new)
  <2> HIDE DEF D, tf, tg, u, new
  <2>1. Put(tf, u, new) = [s \in D \cup {u} |-> IF s = u THEN new ELSE tf[s]]
    BY <1>14 DEF Put
  <2>2. \A s \in D \cup {u} : tg[s] = IF s = u THEN new ELSE tf[s]
    BY <1>12, <1>13
  <2>3. tg = [s \in D \cup {u} |-> IF s = u THEN new ELSE tf[s]]
    BY <1>14, <2>2
  <2>4. QED
    BY <2>1, <2>3
<1>16. QED
  BY <1>15 DEF Credited, CreditedBy

-----------------------------------------------------------------------------
(* What the parser reads of a record.                                      *)

\* The header.
LEMMA HeadRead ==
    ASSUME NEW kind \in BOOLEAN, NEW b \in Seq(Int), NEW off \in Nat, NEW r, NEW at,
           AllocAt(kind, b, off, r, at), Encodable(kind, r, r.frames),
           off + HeadOf(kind) <= Len(b)
    PROVE  /\ kind => FromLE(SubSeq(b, off + 1 + 1, off + 1 + Word)) = r.ptr
           /\ FromLE(SubSeq(b, off + HeadOf(kind) - 1 - Word + 1,
                               off + HeadOf(kind) - 1 - Word + Word)) = r.size
           /\ b[off + HeadOf(kind)] = Len(r.frames)
<1> DEFINE h == HeadOf(kind)
           lb == Len(b)
           e == off + h - 1 - Word
           g == off + h - 1
           o == off + 1
<1>1. /\ Word \in Nat /\ lb \in Nat /\ off + h <= lb
      /\ h = IF kind THEN 1 + Word + Word + 1 ELSE Word + 1
  BY RawAssumption DEF HeadOf
<1>2. /\ r.ptr \in Nat /\ r.size \in Nat /\ Fits(r.size, Word)
      /\ kind => Fits(r.ptr, Word)
  BY DEF Encodable
<1>3. /\ kind => HoldsAt(b, o, LE(r.ptr, Word))
      /\ HoldsAt(b, e, LE(r.size, Word)) /\ HoldsAt(b, g, <<Len(r.frames)>>)
  BY DEF AllocAt, HeadAt
<1> HIDE DEF h
<1>4. /\ e \in Nat /\ g \in Nat /\ g + 1 = off + h /\ g + 1 <= lb /\ e + Word <= lb
      /\ o \in Nat /\ (kind => o + Word <= lb)
  BY <1>1
<1> HIDE DEF lb, e, g, o
<1>5. FromLE(SubSeq(b, e + 1, e + Word)) = r.size
  <2> DEFINE s == LE(r.size, Word)
  <2>1. s \in Seq(Int) /\ Len(s) = Word /\ FromLE(s) = r.size
    BY <1>1, <1>2, LEType, ReadsBack
  <2>2. HoldsAt(b, e, s)
    BY <1>3
  <2> HIDE DEF s
  <2>3. e + Len(s) <= Len(b)
    BY <1>4, <2>1 DEF lb
  <2>4. SubSeq(b, e + 1, e + Len(s)) = s
    BY <1>4, <2>1, <2>2, <2>3, HoldsRead
  <2>5. QED
    BY <2>1, <2>4
<1>6. kind => FromLE(SubSeq(b, o + 1, o + Word)) = r.ptr
  <2> SUFFICES ASSUME kind PROVE FromLE(SubSeq(b, o + 1, o + Word)) = r.ptr
    OBVIOUS
  <2> DEFINE s == LE(r.ptr, Word)
  <2>1. s \in Seq(Int) /\ Len(s) = Word /\ FromLE(s) = r.ptr
    BY <1>1, <1>2, LEType, ReadsBack
  <2>2. HoldsAt(b, o, s)
    BY <1>3
  <2> HIDE DEF s
  <2>3. o + Len(s) <= Len(b)
    BY <1>4, <2>1 DEF lb
  <2>4. SubSeq(b, o + 1, o + Len(s)) = s
    BY <1>4, <2>1, <2>2, <2>3, HoldsRead
  <2>5. QED
    BY <2>1, <2>4
<1>7. b[off + h] = Len(r.frames)
  <2> DEFINE s == <<Len(r.frames)>>
  <2>1. s[1] = Len(r.frames) /\ Len(s) = 1
    OBVIOUS
  <2>2. HoldsAt(b, g, s)
    BY <1>3
  <2> HIDE DEF s
  <2>3. b[g + 1] = s[1]
    BY <1>4, <2>1, <2>2 DEF HoldsAt, lb
  <2>4. QED
    BY <1>4, <2>1, <2>3
<1>8. QED
  BY <1>5, <1>6, <1>7 DEF e, o, h

\* What is at frame n + 1, as far as b goes.
FrameIs(b, off, frames, at, n) ==
    /\ at[n + 1] \in Nat /\ at[n + 2] = at[n + 1] + 2 + Len(frames[n + 1])
    /\ at[n + 2] <= at[Len(frames) + 1] /\ at[Len(frames) + 1] \in Nat
    /\ frames[n + 1] \in Seq(Int)
    /\ off + at[n + 1] + 2 <= Len(b) =>
          FromLE(SubSeq(b, off + at[n + 1] + 1, off + at[n + 1] + 2)) = Len(frames[n + 1])
    /\ off + at[n + 1] + 2 + Len(frames[n + 1]) <= Len(b) =>
          SubSeq(b, off + at[n + 1] + 2 + 1, off + at[n + 1] + 2 + Len(frames[n + 1]))
             = frames[n + 1]

\* A frame.
LEMMA FrameRead ==
    ASSUME NEW b \in Seq(Int), NEW off \in Nat, NEW frames \in Seq(Seq(Int)), NEW at,
           FramesAt(b, off, frames, at), NEW n \in Nat, n < Len(frames),
           Len(frames[n + 1]) <= NameCap
    PROVE  FrameIs(b, off, frames, at, n)
<1> DEFINE f == n + 1
           x == at[f]
           s == frames[f]
           w == Len(s)
           q == off + x
<1>1. Len(frames) \in Nat
  OBVIOUS
<1>2. f \in 1..Len(frames) /\ f \in 1..(Len(frames) + 1) /\ f + 1 \in 1..(Len(frames) + 1)
      /\ f + 1 = n + 2 /\ Len(frames) + 1 \in 1..(Len(frames) + 1)
  BY <1>1
<1>3. s \in Seq(Int)
  BY <1>2
<1>4. w \in Nat /\ w <= NameCap
  BY <1>3
<1>5. /\ at[f + 1] = x + 2 + w /\ HoldsAt(b, q, LE(w, 2)) /\ HoldsAt(b, q + 2, s)
      /\ at[f + 1] <= at[Len(frames) + 1]
      /\ x \in Nat /\ at[Len(frames) + 1] \in Nat
  <2> HIDE DEF f
  <2>1. at \in [1..(Len(frames) + 1) -> Nat]
    BY DEF FramesAt
  <2>2. x \in Nat /\ at[Len(frames) + 1] \in Nat
    BY <1>2, <2>1
  <2>3. at[f + 1] <= at[Len(frames) + 1]
    BY <1>2 DEF FramesAt
  <2>4. at[f + 1] = x + 2 + w /\ HoldsAt(b, q, LE(w, 2)) /\ HoldsAt(b, q + 2, s)
    BY <1>2 DEF FramesAt
  <2>5. QED
    BY <2>2, <2>3, <2>4, Zenon
<1> HIDE DEF f, s
<1>6. q \in Nat /\ q + 2 \in Nat
  <2>1. x \in Nat
    BY <1>5
  <2> HIDE DEF x
  <2>2. QED
    BY <2>1
<1>7. q + 2 <= Len(b) => FromLE(SubSeq(b, q + 1, q + 2)) = w
  <2> SUFFICES ASSUME q + 2 <= Len(b) PROVE FromLE(SubSeq(b, q + 1, q + 2)) = w
    OBVIOUS
  <2> DEFINE t == LE(w, 2)
  <2>1. 2 \in Nat /\ q \in Nat
    BY <1>6
  <2> HIDE DEF w, q, x
  <2>2. t \in Seq(Int) /\ Len(t) = 2
    BY <1>4, <2>1, LEType, Zenon
  <2>3. FromLE(t) = w
    BY <1>4, <2>1, LengthFits, ReadsBack, Zenon
  <2>4. HoldsAt(b, q, t)
    BY <1>5
  <2> HIDE DEF t
  <2>5. q + Len(t) <= Len(b)
    BY <2>2
  <2>6. SubSeq(b, q + 1, q + Len(t)) = t
    BY <2>1, <2>2, <2>4, <2>5, HoldsRead
  <2>7. QED
    BY <2>2, <2>3, <2>6
<1>8. q + 2 + w <= Len(b) => SubSeq(b, q + 2 + 1, q + 2 + w) = s
  <2> SUFFICES ASSUME q + 2 + w <= Len(b) PROVE SubSeq(b, q + 2 + 1, q + 2 + w) = s
    OBVIOUS
  <2> DEFINE p2 == q + 2
  <2>1. p2 \in Nat
    BY <1>6
  <2>2. p2 + Len(s) <= Len(b) /\ HoldsAt(b, p2, s)
    BY <1>5
  <2> HIDE DEF p2
  <2>3. SubSeq(b, p2 + 1, p2 + Len(s)) = s
    BY <1>3, <2>1, <2>2, HoldsRead
  <2>4. QED
    BY <2>3 DEF p2
<1>9. QED
  BY <1>2, <1>3, <1>5, <1>7, <1>8 DEF f, s, FrameIs

\* An 'F'.
LEMMA FreeRead ==
    ASSUME NEW b \in Seq(Int), NEW off \in Nat, NEW r, r.ptr \in Nat, Fits(r.ptr, Word),
           FreeAt(b, off, r)
    PROVE  /\ off + 1 <= Len(b) => b[off + 1] = TagF
           /\ off + 1 + Word <= Len(b) =>
                 FromLE(SubSeq(b, off + 1 + 1, off + 1 + Word)) = r.ptr
<1>1. Word \in Nat /\ HoldsAt(b, off, <<TagF>>) /\ HoldsAt(b, off + 1, LE(r.ptr, Word))
  BY RawAssumption DEF FreeAt
<1>2. off + 1 <= Len(b) => b[off + 1] = TagF
  <2>1. Len(<<TagF>>) = 1 /\ <<TagF>>[1] = TagF
    OBVIOUS
  <2>2. QED
    BY <1>1, <2>1 DEF HoldsAt
<1>3. off + 1 + Word <= Len(b) => FromLE(SubSeq(b, off + 1 + 1, off + 1 + Word)) = r.ptr
  <2> SUFFICES ASSUME off + 1 + Word <= Len(b)
               PROVE  FromLE(SubSeq(b, off + 1 + 1, off + 1 + Word)) = r.ptr
    OBVIOUS
  <2> DEFINE s == LE(r.ptr, Word)
             o == off + 1
  <2>1. s \in Seq(Int) /\ Len(s) = Word /\ FromLE(s) = r.ptr
    BY <1>1, LEType, ReadsBack
  <2>2. HoldsAt(b, o, s) /\ o \in Nat /\ o + Word <= Len(b)
    BY <1>1
  <2> HIDE DEF s, o
  <2>3. o + Len(s) <= Len(b)
    BY <2>1, <2>2
  <2>4. SubSeq(b, o + 1, o + Len(s)) = s
    BY <2>1, <2>2, <2>3, HoldsRead
  <2>5. FromLE(SubSeq(b, o + 1, o + Word)) = r.ptr
    BY <2>1, <2>4
  <2>6. QED
    BY <2>5 DEF o
<1>4. QED
  BY <1>2, <1>3

\* The first byte of a record of an allocation.
LEMMA TagRead ==
    ASSUME NEW b \in Seq(Int), NEW off \in Nat, NEW r, NEW at, AllocAt(TRUE, b, off, r, at),
           off + 1 <= Len(b)
    PROVE  b[off + 1] = TagA
<1>1. HoldsAt(b, off, <<TagA>>)
  BY DEF AllocAt, HeadAt
<1>2. Len(<<TagA>>) = 1 /\ <<TagA>>[1] = TagA
  OBVIOUS
<1>3. QED
  BY <1>1, <1>2 DEF HoldsAt

-----------------------------------------------------------------------------
(* What is made of the first j records.                                    *)

\* Those that count: of a user's stack and, in the retained format, not freed
\* by one of the j.
Stays(kind, rs, j) == {i \in 1..j :
    /\ rs[i].op = "A" /\ UserFrames(rs[i].frames) # <<>>
    /\ kind => \A m \in (i + 1)..j : rs[m].ptr # rs[i].ptr}

AllocOf(r) == [frames |-> UserFrames(r.frames), size |-> r.size]

Given(kind, rs, j) == [i \in Stays(kind, rs, j) |-> AllocOf(rs[i])]

\* The map of live allocations after j records.
LiveIs(rs, j, lv) ==
    /\ DOMAIN lv = {rs[i].ptr : i \in Stays(TRUE, rs, j)}
    /\ \A i \in Stays(TRUE, rs, j) : lv[rs[i].ptr] = AllocOf(rs[i])

\* They are some of the first j.
LEMMA StaysFinite ==
    ASSUME NEW kind, NEW rs, NEW j \in Nat
    PROVE  IsFiniteSet(Stays(kind, rs, j)) /\ Stays(kind, rs, j) \subseteq 1..j
<1>1. Stays(kind, rs, j) \subseteq 1..j
  BY DEF Stays
<1>2. IsFiniteSet(1..j)
  BY FS_Interval
<1>3. QED
  BY <1>1, <1>2, FS_Subset

\* No live object is at the address of a new one.
LEMMA StaysElsewhere ==
    ASSUME NEW rs, NEW j \in Nat, Untracked(rs, j, rs[j + 1].ptr)
    PROVE  \A i \in Stays(TRUE, rs, j) : rs[i].ptr # rs[j + 1].ptr
BY DEF Stays, Untracked

\* A record of an allocation adds itself, if its stack is a user's.
LEMMA StaysAlloc ==
    ASSUME NEW kind, NEW rs, NEW j \in Nat, rs[j + 1].op = "A",
           kind => Untracked(rs, j, rs[j + 1].ptr)
    PROVE  /\ Stays(kind, rs, j + 1) = Stays(kind, rs, j)
                 \cup (IF UserFrames(rs[j + 1].frames) = <<>> THEN {} ELSE {j + 1})
           /\ j + 1 \notin Stays(kind, rs, j)
<1> DEFINE k == j + 1
<1>1. k \in Nat /\ k \notin 1..j /\ 1..k = (1..j) \cup {k}
      /\ \A i \in 1..j : (i + 1)..k = ((i + 1)..j) \cup {k}
      /\ (k + 1)..k = {}
  OBVIOUS
<1>2. kind => \A i \in Stays(kind, rs, j) : rs[i].ptr # rs[k].ptr
  <2> SUFFICES ASSUME kind, NEW i \in Stays(kind, rs, j), rs[i].ptr = rs[k].ptr PROVE FALSE
    OBVIOUS
  <2>1. i \in 1..j /\ rs[i].op = "A" /\ \A m \in (i + 1)..j : rs[m].ptr # rs[i].ptr
    BY DEF Stays
  <2>2. QED
    BY <2>1 DEF Untracked
<1>3. k \notin Stays(kind, rs, j)
  BY <1>1 DEF Stays
<1> HIDE DEF k
<1>4. \A i \in 1..j : i \in Stays(kind, rs, k) <=> i \in Stays(kind, rs, j)
  <2> SUFFICES ASSUME NEW i \in 1..j
               PROVE  i \in Stays(kind, rs, k) <=> i \in Stays(kind, rs, j)
    OBVIOUS
  <2>1. i \in Stays(kind, rs, k) => i \in Stays(kind, rs, j)
    BY <1>1 DEF Stays
  <2>2. i \in Stays(kind, rs, j) => i \in Stays(kind, rs, k)
    <3> SUFFICES ASSUME i \in Stays(kind, rs, j) PROVE i \in Stays(kind, rs, k)
      OBVIOUS
    <3>1. kind => rs[k].ptr # rs[i].ptr
      BY <1>2
    <3>2. i \in 1..k
      BY <1>1
    <3>3. ASSUME kind, NEW m \in (i + 1)..k PROVE rs[m].ptr # rs[i].ptr
      <4>1. m \in (i + 1)..j \/ m = k
        BY <1>1
      <4>2. \A l \in (i + 1)..j : rs[l].ptr # rs[i].ptr
        BY <3>3 DEF Stays
      <4>3. QED
        BY <3>1, <3>3, <4>1, <4>2
    <3>4. QED
      BY <3>2, <3>3 DEF Stays
  <2>3. QED
    BY <2>1, <2>2
<1>5. k \in Stays(kind, rs, k) <=> UserFrames(rs[k].frames) # <<>>
  <2>1. rs[k].op = "A" /\ k \in 1..k
    BY <1>1 DEF k
  <2>2. QED
    BY <1>1, <2>1 DEF Stays
<1>6. \A i \in Stays(kind, rs, k) : i \in 1..j \/ i = k
  BY <1>1 DEF Stays
<1>7. \A i \in Stays(kind, rs, j) : i \in 1..j
  BY DEF Stays
<1>8. Stays(kind, rs, k) = Stays(kind, rs, j)
          \cup (IF UserFrames(rs[k].frames) = <<>> THEN {} ELSE {k})
  <2> DEFINE s == Stays(kind, rs, k)
             t == Stays(kind, rs, j)
  <2> HIDE DEF s, t
  <2>1. CASE UserFrames(rs[k].frames) = <<>>
    <3>1. s = t
      BY <1>4, <1>5, <1>6, <1>7, <2>1 DEF s, t
    <3>2. QED
      BY <2>1, <3>1 DEF s, t
  <2>2. CASE UserFrames(rs[k].frames) # <<>>
    <3>1. s = t \cup {k}
      BY <1>4, <1>5, <1>6, <1>7, <2>2 DEF s, t
    <3>2. QED
      BY <2>2, <3>1 DEF s, t
  <2>3. QED
    BY <2>1, <2>2
<1>9. QED
  BY <1>2, <1>3, <1>8 DEF k

\* An 'F' takes the object at its address away.
LEMMA StaysFree ==
    ASSUME NEW rs, NEW j \in Nat, rs[j + 1].op = "F"
    PROVE  Stays(TRUE, rs, j + 1) = {i \in Stays(TRUE, rs, j) : rs[i].ptr # rs[j + 1].ptr}
<1> DEFINE k == j + 1
<1>1. k \in Nat /\ k \notin 1..j /\ 1..k = (1..j) \cup {k}
      /\ \A i \in 1..j : (i + 1)..k = ((i + 1)..j) \cup {k}
  OBVIOUS
<1>2. rs[k].op # "A"
  OBVIOUS
<1> HIDE DEF k
<1>3. \A i \in Stays(TRUE, rs, k) : i \in Stays(TRUE, rs, j) /\ rs[i].ptr # rs[k].ptr
  BY <1>1, <1>2 DEF Stays
<1>4. \A i \in Stays(TRUE, rs, j) : rs[i].ptr # rs[k].ptr => i \in Stays(TRUE, rs, k)
  BY <1>1 DEF Stays
<1>5. QED
  BY <1>3, <1>4 DEF k

\* No two of those that stay have one address.
LEMMA StaysApart ==
    ASSUME NEW rs, NEW j \in Nat,
           NEW i \in Stays(TRUE, rs, j), NEW m \in Stays(TRUE, rs, j), rs[i].ptr = rs[m].ptr
    PROVE  i = m
<1>1. i \in 1..j /\ m \in 1..j
  BY DEF Stays
<1>2. \A l \in (i + 1)..j : rs[l].ptr # rs[i].ptr
  BY DEF Stays
<1>3. \A l \in (m + 1)..j : rs[l].ptr # rs[m].ptr
  BY DEF Stays
<1>4. CASE i < m
  <2>1. m \in (i + 1)..j
    BY <1>1, <1>4
  <2>2. QED
    BY <1>2, <2>1
<1>5. CASE m < i
  <2>1. i \in (m + 1)..j
    BY <1>1, <1>5
  <2>2. QED
    BY <1>3, <2>1
<1>6. QED
  BY <1>1, <1>4, <1>5

\* The map of live allocations after an 'A'.
LEMMA LiveAlloc ==
    ASSUME NEW rs, NEW j \in Nat, rs[j + 1].op = "A", Untracked(rs, j, rs[j + 1].ptr),
           NEW lv, LiveIs(rs, j, lv)
    PROVE  LiveIs(rs, j + 1, IF UserFrames(rs[j + 1].frames) = <<>> THEN lv
                             ELSE Put(lv, rs[j + 1].ptr, AllocOf(rs[j + 1])))
<1> DEFINE k == j + 1
           s == Stays(TRUE, rs, j)
           t == Stays(TRUE, rs, k)
           a == rs[k].ptr
<1>1. /\ t = s \cup (IF UserFrames(rs[k].frames) = <<>> THEN {} ELSE {k})
      /\ k \notin s /\ \A i \in s : rs[i].ptr # a
  <2>1. TRUE => Untracked(rs, j, rs[j + 1].ptr)
    OBVIOUS
  <2>2. /\ t = s \cup (IF UserFrames(rs[k].frames) = <<>> THEN {} ELSE {k})
        /\ k \notin s
    BY <2>1, StaysAlloc, Zenon
  <2>3. \A i \in s : rs[i].ptr # a
    BY StaysElsewhere, Zenon
  <2>4. QED
    BY <2>2, <2>3, Zenon
<1>2. DOMAIN lv = {rs[i].ptr : i \in s} /\ \A i \in s : lv[rs[i].ptr] = AllocOf(rs[i])
  BY DEF LiveIs
<1> HIDE DEF k, s, t
<1>3. CASE UserFrames(rs[k].frames) = <<>>
  <2>1. t = s
    BY <1>1, <1>3
  <2>2. LiveIs(rs, k, lv)
    BY <1>2, <2>1 DEF LiveIs, t
  <2>3. QED
    BY <1>3, <2>2 DEF k
<1>4. CASE UserFrames(rs[k].frames) # <<>>
  <2> DEFINE new == Put(lv, a, AllocOf(rs[k]))
  <2>1. t = s \cup {k}
    BY <1>1, <1>4
  <2>2. DOMAIN new = DOMAIN lv \cup {a} /\ new[a] = AllocOf(rs[k])
        /\ \A x \in DOMAIN lv : x # a => new[x] = lv[x]
    BY DEF Put
  <2> HIDE DEF new
  <2>3. DOMAIN new = {rs[i].ptr : i \in t}
    BY <1>2, <2>1, <2>2
  <2>4. ASSUME NEW i \in t PROVE new[rs[i].ptr] = AllocOf(rs[i])
    <3>1. CASE i = k
      BY <2>2, <3>1
    <3>2. CASE i \in s
      <4>1. rs[i].ptr \in DOMAIN lv /\ rs[i].ptr # a
        BY <1>1, <1>2, <3>2
      <4>2. QED
        BY <1>2, <2>2, <3>2, <4>1
    <3>3. QED
      BY <2>1, <3>1, <3>2
  <2>5. LiveIs(rs, k, new)
    BY <2>3, <2>4 DEF LiveIs, t
  <2>6. QED
    BY <1>4, <2>5 DEF k, new
<1>5. QED
  BY <1>3, <1>4

\* And after an 'F'.
LEMMA LiveFree ==
    ASSUME NEW rs, NEW j \in Nat, rs[j + 1].op = "F", NEW lv, LiveIs(rs, j, lv)
    PROVE  LiveIs(rs, j + 1, [x \in DOMAIN lv \ {rs[j + 1].ptr} |-> lv[x]])
<1> DEFINE k == j + 1
           s == Stays(TRUE, rs, j)
           t == Stays(TRUE, rs, k)
           a == rs[k].ptr
           new == [x \in DOMAIN lv \ {a} |-> lv[x]]
<1>1. t = {i \in s : rs[i].ptr # a}
  BY StaysFree
<1>2. DOMAIN lv = {rs[i].ptr : i \in s} /\ \A i \in s : lv[rs[i].ptr] = AllocOf(rs[i])
  BY DEF LiveIs
<1>3. DOMAIN new = DOMAIN lv \ {a} /\ \A x \in DOMAIN lv : x # a => new[x] = lv[x]
  OBVIOUS
<1> HIDE DEF k, s, t, new, a
<1>4. DOMAIN new = {rs[i].ptr : i \in t}
  BY <1>1, <1>2, <1>3
<1>5. \A i \in t : new[rs[i].ptr] = AllocOf(rs[i])
  BY <1>1, <1>2, <1>3
<1>6. LiveIs(rs, k, new)
  BY <1>4, <1>5 DEF LiveIs, t
<1>7. QED
  BY <1>6 DEF k, new, a

\* The totals of the map of live allocations are those of the records.
LEMMA LiveTotals ==
    ASSUME NEW rs, NEW j \in Nat, \A i \in 1..j : rs[i].size \in Nat, NEW lv, LiveIs(rs, j, lv)
    PROVE  Totals(lv) = Totals(Given(TRUE, rs, j))
<1> DEFINE s == Stays(TRUE, rs, j)
           g == Given(TRUE, rs, j)
           h == [i \in s |-> rs[i].ptr]
<1>1. IsFiniteSet(s) /\ s \subseteq 1..j
  BY StaysFinite
<1>2. OneToOne(h, s)
  BY StaysApart DEF OneToOne
<1>3. DOMAIN g = s /\ \A i \in s : g[i] = AllocOf(rs[i]) /\ g[i].size \in Int
  <2>1. DOMAIN g = s /\ \A i \in s : g[i] = AllocOf(rs[i])
    BY DEF Given
  <2>2. \A i \in s : AllocOf(rs[i]).size = rs[i].size
    BY DEF AllocOf
  <2>3. \A i \in s : rs[i].size \in Int
    <3> SUFFICES ASSUME NEW i \in s PROVE rs[i].size \in Int
      OBVIOUS
    <3>1. i \in 1..j
      BY <1>1
    <3> HIDE DEF s
    <3>2. rs[i].size \in Nat
      BY <3>1
    <3>3. QED
      BY <3>2
  <2> HIDE DEF g, s
  <2>4. QED
    BY <2>1, <2>2, <2>3
<1>4. \A i \in s : h[i] = rs[i].ptr
  OBVIOUS
<1> HIDE DEF s, g, h
<1>5. DOMAIN lv = Image(h, s) /\ \A i \in s : lv[h[i]] = g[i]
  <2>1. DOMAIN lv = {rs[i].ptr : i \in s} /\ \A i \in s : lv[rs[i].ptr] = AllocOf(rs[i])
    BY DEF LiveIs, s
  <2>2. {rs[i].ptr : i \in s} = {h[i] : i \in s}
    BY <1>4
  <2>3. DOMAIN lv = Image(h, s)
    BY <2>1, <2>2 DEF Image
  <2>4. \A i \in s : lv[h[i]] = g[i]
    BY <1>3, <1>4, <2>1
  <2>5. QED
    BY <2>3, <2>4
<1>6. Totals(lv) = Totals(g)
  <2>1. Renames(lv, g, h, s)
    BY <1>1, <1>2, <1>3, <1>5 DEF Renames
  <2>2. QED
    BY <2>1, TotalsRenamed, Zenon
<1>7. QED
  BY <1>6 DEF g

\* The other format: a record is credited at once.
LEMMA GivenAlloc ==
    ASSUME NEW rs, NEW j \in Nat, \A i \in 1..(j + 1) : rs[i].size \in Nat,
           rs[j + 1].op = "A"
    PROVE  Totals(Given(FALSE, rs, j + 1)) =
               IF UserFrames(rs[j + 1].frames) = <<>> THEN Totals(Given(FALSE, rs, j))
               ELSE Credited(Totals(Given(FALSE, rs, j)), AllocOf(rs[j + 1]))
<1> DEFINE k == j + 1
           u == UserFrames(rs[k].frames)
           s == Stays(FALSE, rs, j)
           f == Given(FALSE, rs, j)
           g == Given(FALSE, rs, k)
<1>1. /\ Stays(FALSE, rs, k) = s \cup (IF u = <<>> THEN {} ELSE {k})
      /\ k \notin s
  <2>1. FALSE => Untracked(rs, j, rs[j + 1].ptr)
    OBVIOUS
  <2>2. /\ Stays(FALSE, rs, k) = s \cup (IF UserFrames(rs[k].frames) = <<>> THEN {} ELSE {k})
        /\ k \notin s
    BY <2>1, StaysAlloc, Zenon
  <2>3. QED
    BY <2>2
<1>2. IsFiniteSet(s) /\ s \subseteq 1..j
  BY StaysFinite
<1>3. CASE u = <<>>
  <2>1. g = f
    BY <1>1, <1>3 DEF Given
  <2>2. QED
    BY <1>3, <2>1
<1>4. CASE u # <<>>
  <2>1. DOMAIN f = s /\ DOMAIN g = s \cup {k}
    BY <1>1, <1>4 DEF Given
  <2>2. \A i \in s : f[i] = AllocOf(rs[i]) /\ g[i] = AllocOf(rs[i])
    BY <1>1 DEF Given
  <2>3. g[k] = AllocOf(rs[k])
    BY <1>1, <1>4 DEF Given
  <2>4. g[k].frames = u /\ g[k].size = rs[k].size /\ rs[k].size \in Int
    <3>1. k \in 1..(j + 1)
      OBVIOUS
    <3>2. AllocOf(rs[k]).frames = u /\ AllocOf(rs[k]).size = rs[k].size
      BY DEF AllocOf
    <3> HIDE DEF g
    <3>3. QED
      BY <2>3, <3>1, <3>2
  <2>5. \A i \in s : f[i].size \in Int
    <3>1. \A i \in s : rs[i].size \in Int
      <4> SUFFICES ASSUME NEW i \in s PROVE rs[i].size \in Int
        OBVIOUS
      <4>1. i \in 1..j
        BY <1>2
      <4> HIDE DEF s
      <4>2. rs[i].size \in Nat
        BY <4>1
      <4>3. QED
        BY <4>2
    <3>2. \A i \in s : AllocOf(rs[i]).size = rs[i].size
      BY DEF AllocOf
    <3> HIDE DEF f, s
    <3>3. QED
      BY <2>2, <3>1, <3>2
  <2> HIDE DEF f, g, s
  <2>6. Extends(f, g, k, s)
    BY <1>1, <1>2, <2>1, <2>2, <2>4, <2>5 DEF Extends
  <2> HIDE DEF k, u
  <2>7. CreditedBy(f, g, k)
    BY <2>6, TotalsAdd
  <2>8. Totals(g) = Credited(Totals(f), g[k])
    BY <2>7 DEF CreditedBy
  <2>9. QED
    BY <1>4, <2>3, <2>8 DEF f, g, k, u
<1>5. QED
  BY <1>3, <1>4

-----------------------------------------------------------------------------
(* Where the parser is.                                                    *)

\* It has read the header of record j + 1 and some of its frames.
MidRecord(kind, b, rs, j, c, q) ==
    /\ j < Len(rs) /\ rs[j + 1].op = "A"
    /\ c \in [ptr: Nat, size: Nat, left: Int, frames: Seq(Seq(Int))]
    /\ c.ptr = rs[j + 1].ptr /\ c.size = rs[j + 1].size
    /\ Len(c.frames) <= Len(rs[j + 1].frames)
    /\ c.left = Len(rs[j + 1].frames) - Len(c.frames)
    /\ \A f \in 1..Len(c.frames) : c.frames[f] = rs[j + 1].frames[f]
    /\ \E at : /\ RecordAt(kind, b, EndOf(rs, j), rs[j + 1], at)
               /\ q = EndOf(rs, j) + HeadOf(kind) + at[Len(c.frames) + 1]
    /\ q <= Len(b)

\* The maps hold what j records make.
MapsAre(kind, rs, j, lv, sm) ==
    IF kind THEN LiveIs(rs, j, lv) ELSE sm = Totals(Given(FALSE, rs, j))

\* j records are read whole.
After(kind, b, rs, j, c, q, lv, sm) ==
    /\ j \in 0..Len(rs) /\ EndOf(rs, j) <= Len(b)
    /\ MapsAre(kind, rs, j, lv, sm)
    /\ (c = None /\ q = EndOf(rs, j)) \/ MidRecord(kind, b, rs, j, c, q)

\* The record after j, if the file has a byte of it.
LEMMA NextRecord ==
    ASSUME NEW kind, NEW b, NEW rs, Laid(kind, b, rs), NEW j \in 0..Len(rs),
           EndOf(rs, j) < Len(b)
    PROVE  /\ j \in Nat /\ j < Len(rs) /\ j + 1 \in 1..Len(rs) /\ EndOf(rs, j) \in Nat
           /\ rs[j + 1] \in Records /\ b \in Seq(Int)
           /\ \E at : RecordAt(kind, b, EndOf(rs, j), rs[j + 1], at)
<1>1. /\ b \in Seq(Int) /\ rs \in Seq(Records) /\ Len(rs) \in Nat /\ Len(b) \in Nat
      /\ \A i \in 0..Len(rs) : EndOf(rs, i) \in Nat
      /\ \A i \in 1..Len(rs) : rs[i] \in Records
  BY LaidEnds
<1>2. /\ Len(b) <= EndOf(rs, Len(rs))
      /\ \A i \in 1..Len(rs) : \E at : RecordAt(kind, b, EndOf(rs, i - 1), rs[i], at)
  BY DEF Laid
<1>3. j # Len(rs)
  <2> SUFFICES ASSUME j = Len(rs) PROVE FALSE
    OBVIOUS
  <2>1. EndOf(rs, j) \in Nat /\ Len(b) <= EndOf(rs, j)
    BY <1>1, <1>2
  <2>2. QED
    BY <1>1, <2>1
<1>4. j \in Nat /\ j < Len(rs) /\ j + 1 \in 1..Len(rs) /\ (j + 1) - 1 = j
  BY <1>1, <1>3
<1>5. \E at : RecordAt(kind, b, EndOf(rs, (j + 1) - 1), rs[j + 1], at)
  BY <1>2, <1>4
<1>6. QED
  BY <1>1, <1>4, <1>5

\* Its first byte tells what it is.
LEMMA NextTag ==
    ASSUME NEW kind \in BOOLEAN, NEW b, NEW rs, Laid(kind, b, rs), NEW j \in 0..Len(rs),
           EndOf(rs, j) < Len(b)
    PROVE  /\ kind /\ rs[j + 1].op = "A" => b[EndOf(rs, j) + 1] = TagA
           /\ rs[j + 1].op # "A" => kind /\ b[EndOf(rs, j) + 1] = TagF
           /\ rs[j + 1].op \in {"A", "F"}
<1> DEFINE off == EndOf(rs, j)
           r == rs[j + 1]
<1>1. /\ off \in Nat /\ r \in Records /\ b \in Seq(Int)
      /\ \E at : RecordAt(kind, b, off, r, at)
  BY NextRecord
<1>2. r.op \in {"A", "F"} /\ r.ptr \in Nat
  BY <1>1 DEF Records
<1>3. PICK at : RecordAt(kind, b, off, r, at)
  BY <1>1
<1>4. off + 1 <= Len(b)
  <2>1. Len(b) \in Nat
    BY <1>1
  <2>2. off < Len(b)
    OBVIOUS
  <2> HIDE DEF off
  <2>3. QED
    BY <1>1, <2>1, <2>2
<1> HIDE DEF off, r
<1>5. ASSUME r.op = "A", kind PROVE b[off + 1] = TagA
  <2>1. AllocAt(TRUE, b, off, r, at)
    BY <1>3, <1>5 DEF RecordAt
  <2>2. QED
    BY <1>1, <1>4, <2>1, TagRead
<1>6. ASSUME r.op # "A" PROVE kind /\ b[off + 1] = TagF
  <2>1. kind /\ Fits(r.ptr, Word) /\ FreeAt(b, off, r)
    BY <1>3, <1>6 DEF RecordAt
  <2>2. QED
    BY <1>1, <1>2, <1>4, <2>1, FreeRead
<1>7. QED
  BY <1>2, <1>5, <1>6 DEF off, r

\* What the parser takes from a header.
HeadHere(kind, b, q) ==
    [ptr |-> IF kind THEN FromLE(SubSeq(b, q + 1 + 1, q + 1 + Word)) ELSE 0,
     size |-> FromLE(SubSeq(b, q + HeadOf(kind) - 1 - Word + 1,
                            q + HeadOf(kind) - 1 - Word + Word)),
     left |-> b[q + HeadOf(kind)], frames |-> <<>>]

\* From between two records to the middle of an 'A'.
LEMMA HeadStep ==
    ASSUME NEW kind \in BOOLEAN, NEW b, NEW rs, Laid(kind, b, rs), NEW j \in 0..Len(rs),
           EndOf(rs, j) + HeadOf(kind) <= Len(b), kind => b[EndOf(rs, j) + 1] = TagA
    PROVE  MidRecord(kind, b, rs, j, HeadHere(kind, b, EndOf(rs, j)),
                     EndOf(rs, j) + HeadOf(kind))
<1> DEFINE off == EndOf(rs, j)
           c == HeadHere(kind, b, off)
           r == rs[j + 1]
           h == HeadOf(kind)
<1>1. h \in Nat /\ h > 0
  BY RawAssumption DEF HeadOf
<1>2. off < Len(b)
  <2>1. off \in Nat /\ Len(b) \in Nat
    BY LaidEnds
  <2>2. off + h <= Len(b)
    OBVIOUS
  <2> HIDE DEF off, h
  <2>3. QED
    BY <1>1, <2>1, <2>2
<1>3. /\ off \in Nat /\ r \in Records /\ b \in Seq(Int) /\ j < Len(rs)
      /\ \E at : RecordAt(kind, b, off, r, at)
  BY <1>2, NextRecord
<1>4. r.op = "A"
  <2> SUFFICES ASSUME r.op # "A" PROVE FALSE
    OBVIOUS
  <2>1. kind /\ b[off + 1] = TagF
    BY <1>2, NextTag
  <2>2. b[off + 1] = TagA
    BY <2>1
  <2>3. QED
    BY <2>1, <2>2, RawAssumption
<1>5. PICK at : RecordAt(kind, b, off, r, at)
  BY <1>3
<1>6. Encodable(kind, r, r.frames) /\ AllocAt(kind, b, off, r, at)
  BY <1>4, <1>5 DEF RecordAt
<1>7. /\ c.ptr = IF kind THEN FromLE(SubSeq(b, off + 1 + 1, off + 1 + Word)) ELSE 0
      /\ c.size = FromLE(SubSeq(b, off + h - 1 - Word + 1, off + h - 1 - Word + Word))
      /\ c.left = b[off + h] /\ c.frames = <<>>
      /\ c = [ptr |-> c.ptr, size |-> c.size, left |-> c.left, frames |-> c.frames]
  BY DEF HeadHere
<1>8. off + HeadOf(kind) <= Len(b)
  OBVIOUS
<1> HIDE DEF off, r, h, c
<1>9. /\ kind => FromLE(SubSeq(b, off + 1 + 1, off + 1 + Word)) = r.ptr
      /\ FromLE(SubSeq(b, off + HeadOf(kind) - 1 - Word + 1,
                          off + HeadOf(kind) - 1 - Word + Word)) = r.size
      /\ b[off + HeadOf(kind)] = Len(r.frames)
  BY <1>3, <1>6, <1>8, HeadRead
<1>10. r.ptr \in Nat /\ r.size \in Nat /\ r.frames \in Seq(Seq(Int)) /\ (~kind => r.ptr = 0)
  BY <1>6 DEF Encodable
<1>11. c.ptr = r.ptr /\ c.size = r.size /\ c.left = Len(r.frames)
  BY <1>7, <1>9, <1>10 DEF h
<1>12. at[1] = 0
  BY <1>6 DEF AllocAt, FramesAt
<1>13. /\ Len(c.frames) = 0 /\ Len(r.frames) \in Nat
       /\ c \in [ptr: Nat, size: Nat, left: Int, frames: Seq(Seq(Int))]
  <2>1. Len(r.frames) \in Nat /\ <<>> \in Seq(Seq(Int)) /\ Len(<<>>) = 0
    BY <1>10
  <2>2. Len(c.frames) = 0
    BY <1>7, <2>1
  <2>3. c.ptr \in Nat /\ c.size \in Nat /\ c.left \in Int /\ c.frames \in Seq(Seq(Int))
    BY <1>7, <1>10, <1>11, <2>1
  <2>4. c \in [ptr: Nat, size: Nat, left: Int, frames: Seq(Seq(Int))]
    BY <1>7, <2>3
  <2>5. QED
    BY <2>1, <2>2, <2>4
<1>14. off + h = off + h + at[Len(c.frames) + 1]
  <2>1. Len(c.frames) + 1 = 1
    BY <1>13
  <2>2. QED
    BY <1>1, <1>3, <1>12, <2>1
<1>15. /\ Len(c.frames) <= Len(r.frames) /\ c.left = Len(r.frames) - Len(c.frames)
       /\ 1..Len(c.frames) = {}
  BY <1>11, <1>13
<1>16. off + h <= Len(b)
  BY <1>7, <1>8 DEF h
<1>17. QED
  <2>1. \E to : /\ RecordAt(kind, b, off, r, to)
                /\ off + h = off + h + to[Len(c.frames) + 1]
    BY <1>5, <1>14
  <2>2. \A f \in 1..Len(c.frames) : c.frames[f] = r.frames[f]
    BY <1>15
  <2>3. QED
    BY <1>3, <1>4, <1>11, <1>13, <1>15, <1>16, <2>1, <2>2 DEF MidRecord, off, r, h, c

\* Over an 'F'.
LEMMA FreeStep ==
    ASSUME NEW kind \in BOOLEAN, NEW b, NEW rs, Laid(kind, b, rs), NEW j \in 0..Len(rs),
           kind, EndOf(rs, j) + 1 + Word <= Len(b), b[EndOf(rs, j) + 1] = TagF
    PROVE  /\ j \in Nat /\ j < Len(rs) /\ rs[j + 1].op = "F"
           /\ FromLE(SubSeq(b, EndOf(rs, j) + 1 + 1, EndOf(rs, j) + 1 + Word)) = rs[j + 1].ptr
           /\ EndOf(rs, j + 1) = EndOf(rs, j) + 1 + Word
<1> DEFINE off == EndOf(rs, j)
           r == rs[j + 1]
<1>1. off < Len(b)
  <2>1. off \in Nat /\ Len(b) \in Nat /\ Word \in Nat
    BY LaidEnds, RawAssumption
  <2>2. off + 1 + Word <= Len(b)
    OBVIOUS
  <2> HIDE DEF off
  <2>3. QED
    BY <2>1, <2>2
<1>2. /\ off \in Nat /\ r \in Records /\ b \in Seq(Int) /\ j < Len(rs) /\ j \in Nat
      /\ \E at : RecordAt(kind, b, off, r, at)
  BY <1>1, NextRecord
<1>3. r.op # "A" /\ r.op = "F"
  <2> SUFFICES ASSUME r.op = "A" PROVE FALSE
    BY <1>2 DEF Records
  <2>1. b[off + 1] = TagA
    BY <1>1, NextTag
  <2>2. b[off + 1] = TagF
    OBVIOUS
  <2> HIDE DEF off
  <2>3. QED
    BY <2>1, <2>2, RawAssumption
<1>4. off + 1 + Word <= Len(b)
  OBVIOUS
<1> HIDE DEF off, r
<1>5. Fits(r.ptr, Word) /\ FreeAt(b, off, r) /\ r.ptr \in Nat
  BY <1>2, <1>3 DEF RecordAt, Records
<1>6. FromLE(SubSeq(b, off + 1 + 1, off + 1 + Word)) = r.ptr
  BY <1>2, <1>4, <1>5, FreeRead
<1>7. r.end = off + 1 + Word
  BY <1>5 DEF FreeAt
<1>8. EndOf(rs, j + 1) = r.end
  BY <1>2 DEF EndOf, r
<1>9. QED
  BY <1>2, <1>3, <1>6, <1>7, <1>8 DEF off, r

\* The frame after those read, as far as b goes.
FrameNext(kind, b, rs, j, c, q, frame) ==
    /\ frame \in Seq(Int) /\ q \in Nat /\ Len(c.frames) + 1 <= Len(rs[j + 1].frames)
    /\ q + 2 <= Len(b) => FromLE(SubSeq(b, q + 1, q + 2)) = Len(frame)
    /\ q + 2 + Len(frame) <= Len(b) => SubSeq(b, q + 2 + 1, q + 2 + Len(frame)) = frame
    /\ q + 2 + Len(frame) <= rs[j + 1].end
    /\ \E at : /\ RecordAt(kind, b, EndOf(rs, j), rs[j + 1], at)
               /\ q + 2 + Len(frame) = EndOf(rs, j) + HeadOf(kind) + at[Len(c.frames) + 2]

\* It is what comes next, if the parser is in the middle of a record.
LEMMA NextFrame ==
    ASSUME NEW kind \in BOOLEAN, NEW b, NEW rs, Laid(kind, b, rs), NEW j \in Nat,
           NEW c, NEW q, MidRecord(kind, b, rs, j, c, q), c.left > 0
    PROVE  FrameNext(kind, b, rs, j, c, q, rs[j + 1].frames[Len(c.frames) + 1])
<1> DEFINE off == EndOf(rs, j)
           r == rs[j + 1]
           h == HeadOf(kind)
           n == Len(c.frames)
           base == off + h
           frame == r.frames[n + 1]
           w == Len(frame)
<1>1. /\ b \in Seq(Int) /\ j < Len(rs) /\ Len(rs) \in Nat /\ off \in Nat
      /\ r.op = "A" /\ n <= Len(r.frames) /\ c.left = Len(r.frames) - n
      /\ c.frames \in Seq(Seq(Int))
  <2>1. b \in Seq(Int) /\ j < Len(rs) /\ Len(rs) \in Nat
    BY LaidEnds DEF MidRecord
  <2>2. j \in 0..Len(rs)
    BY <2>1
  <2>3. off \in Nat
    BY <2>2, LaidEnds
  <2>4. c.frames \in Seq(Seq(Int))
    BY DEF MidRecord
  <2>5. r.op = "A" /\ n <= Len(r.frames) /\ c.left = Len(r.frames) - n
    BY DEF MidRecord
  <2>6. QED
    BY <2>1, <2>3, <2>4, <2>5
<1>2. PICK at : RecordAt(kind, b, off, r, at) /\ q = off + h + at[n + 1]
  BY DEF MidRecord
<1>3. /\ r.frames \in Seq(Seq(Int))
      /\ \A f \in 1..Len(r.frames) : Len(r.frames[f]) <= NameCap
      /\ FramesAt(b, base, r.frames, at) /\ r.end = base + at[Len(r.frames) + 1]
  BY <1>1, <1>2 DEF RecordAt, Encodable, AllocAt
<1>4. h \in Nat /\ base \in Nat
  <2>1. h \in Nat
    BY RawAssumption DEF HeadOf
  <2> HIDE DEF off, h
  <2>2. QED
    BY <1>1, <2>1
<1>5. n \in Nat /\ n < Len(r.frames)
  <2>1. n \in Nat /\ Len(r.frames) \in Nat
    BY <1>1, <1>3
  <2>2. c.left = Len(r.frames) - n
    BY <1>1
  <2> HIDE DEF n, r
  <2>3. QED
    BY <2>1, <2>2
<1>6. n + 1 \in 1..Len(r.frames)
  BY <1>3, <1>5
<1>7. Len(r.frames[n + 1]) <= NameCap
  BY <1>3, <1>6
<1>8. frame = r.frames[n + 1]
  OBVIOUS
<1> HIDE DEF base, r, n, frame
<1> DEFINE fs == r.frames
<1>9. FrameIs(b, base, fs, at, n)
  <2>1. fs \in Seq(Seq(Int)) /\ FramesAt(b, base, fs, at) /\ n < Len(fs)
        /\ Len(fs[n + 1]) <= NameCap
    BY <1>3, <1>5, <1>7
  <2> HIDE DEF fs
  <2>2. QED
    BY <1>1, <1>4, <1>5, <2>1, FrameRead
<1> DEFINE x == at[n + 1]
           y == at[n + 2]
           z == at[Len(r.frames) + 1]
<1>10. /\ x \in Nat /\ y = x + 2 + w /\ y <= z /\ z \in Nat /\ frame \in Seq(Int) /\ w \in Nat
       /\ q = base + x /\ r.end = base + z
  <2>1. x \in Nat /\ y = x + 2 + w /\ y <= z /\ z \in Nat /\ frame \in Seq(Int) /\ w \in Nat
    BY <1>8, <1>9 DEF FrameIs
  <2>2. q = base + x /\ r.end = base + z
    BY <1>2, <1>3 DEF base
  <2>3. QED
    BY <2>1, <2>2
<1>11. /\ q + 2 <= Len(b) => FromLE(SubSeq(b, q + 1, q + 2)) = w
       /\ q + 2 + w <= Len(b) => SubSeq(b, q + 2 + 1, q + 2 + w) = frame
  BY <1>8, <1>9, <1>10 DEF FrameIs
<1> HIDE DEF x, y, z, w
<1>12. q \in Nat /\ q + 2 + w <= r.end /\ q + 2 + w = base + y
  BY <1>4, <1>10
<1>13. n + 1 <= Len(r.frames)
  BY <1>3, <1>5
<1>14. QED
  BY <1>2, <1>10, <1>11, <1>12, <1>13 DEF base, r, n, y, w, frame, FrameNext

\* Over a frame.
LEMMA FrameStep ==
    ASSUME NEW kind \in BOOLEAN, NEW b, NEW rs, Laid(kind, b, rs), NEW j \in Nat,
           NEW c, NEW q, MidRecord(kind, b, rs, j, c, q), c.left > 0,
           q + 2 <= Len(b), NEW n, n = FromLE(SubSeq(b, q + 1, q + 2)), q + 2 + n <= Len(b),
           NEW e, e = [c EXCEPT !.left = c.left - 1,
                                !.frames = Append(c.frames, SubSeq(b, q + 2 + 1, q + 2 + n))]
    PROVE  MidRecord(kind, b, rs, j, e, q + 2 + n)
<1> DEFINE r == rs[j + 1]
           m == Len(c.frames)
           frame == r.frames[m + 1]
<1>1. /\ frame \in Seq(Int) /\ q \in Nat /\ m + 1 <= Len(r.frames)
      /\ n = Len(frame) /\ SubSeq(b, q + 2 + 1, q + 2 + n) = frame
      /\ \E at : /\ RecordAt(kind, b, EndOf(rs, j), r, at)
                 /\ q + 2 + n = EndOf(rs, j) + HeadOf(kind) + at[m + 2]
  <2>1. FrameNext(kind, b, rs, j, c, q, frame)
    BY NextFrame
  <2> HIDE DEF frame
  <2>2. n = Len(frame)
    BY <2>1 DEF FrameNext
  <2>3. QED
    BY <2>1, <2>2 DEF FrameNext
<1>2. /\ c \in [ptr: Nat, size: Nat, left: Int, frames: Seq(Seq(Int))]
      /\ c.ptr = r.ptr /\ c.size = r.size /\ c.left = Len(r.frames) - m
      /\ \A f \in 1..m : c.frames[f] = r.frames[f]
      /\ j < Len(rs) /\ r.op = "A"
  BY DEF MidRecord
<1>3. e = [c EXCEPT !.left = c.left - 1, !.frames = Append(c.frames, frame)]
  BY <1>1
<1> HIDE DEF frame, m
<1>4. /\ e.ptr = c.ptr /\ e.size = c.size /\ e.left = c.left - 1
      /\ e.frames = Append(c.frames, frame)
      /\ e \in [ptr: Nat, size: Nat, left: Int, frames: Seq(Seq(Int))]
  <2>1. Append(c.frames, frame) \in Seq(Seq(Int)) /\ c.left - 1 \in Int
    BY <1>1, <1>2
  <2> HIDE DEF r
  <2>2. QED
    BY <1>2, <1>3, <2>1
<1>5. m \in Nat /\ Len(e.frames) = m + 1 /\ Len(r.frames) \in Int
      /\ e.frames[m + 1] = frame /\ \A f \in 1..m : e.frames[f] = c.frames[f]
  <2> DEFINE fs == c.frames
  <2>1. fs \in Seq(Seq(Int)) /\ e.frames = Append(fs, frame) /\ m = Len(fs)
    BY <1>2, <1>4 DEF m
  <2>2. r.frames \in Seq(Seq(Int))
    <3>1. r.op = "A"
      BY <1>2
    <3>2. \E at : RecordAt(kind, b, EndOf(rs, j), r, at)
      BY <1>1
    <3>3. QED
      BY <3>1, <3>2 DEF RecordAt, Encodable
  <2> HIDE DEF r, fs
  <2>3. m \in Nat /\ Len(e.frames) = m + 1 /\ e.frames[m + 1] = frame
    BY <1>1, <2>1
  <2>4. ASSUME NEW f \in 1..m PROVE e.frames[f] = fs[f]
    <3>1. fs \in Seq(Seq(Int)) /\ frame \in Seq(Int) /\ f \in 1..Len(fs)
      BY <1>1, <2>1
    <3>2. Append(fs, frame)[f] = fs[f]
      BY <3>1, AppendProperties
    <3>3. QED
      BY <2>1, <3>2
  <2>5. Len(r.frames) \in Int
    BY <2>2
  <2>6. QED
    BY <2>3, <2>4, <2>5 DEF fs
<1> HIDE DEF r
<1>6. e.left = Len(r.frames) - Len(e.frames) /\ Len(e.frames) <= Len(r.frames)
  <2> DEFINE x == Len(r.frames)
             y == Len(e.frames)
  <2>1. x \in Int /\ m \in Nat /\ y = m + 1 /\ e.left = c.left - 1 /\ c.left = x - m /\ m + 1 <= x
    BY <1>1, <1>2, <1>4, <1>5
  <2> HIDE DEF x, y
  <2>2. e.left = x - y /\ y <= x
    BY <2>1
  <2>3. QED
    BY <2>2 DEF x, y
<1>7. \A f \in 1..Len(e.frames) : e.frames[f] = r.frames[f]
  <2> SUFFICES ASSUME NEW f \in 1..(m + 1) PROVE e.frames[f] = r.frames[f]
    BY <1>5
  <2>1. f \in 1..m \/ f = m + 1
    BY <1>5
  <2>2. QED
    BY <1>2, <1>5, <2>1 DEF frame
<1>8. \E at : /\ RecordAt(kind, b, EndOf(rs, j), r, at)
              /\ q + 2 + n = EndOf(rs, j) + HeadOf(kind) + at[Len(e.frames) + 1]
  <2>1. Len(e.frames) + 1 = m + 2
    BY <1>5
  <2>2. QED
    BY <1>1, <2>1
<1>9. QED
  BY <1>2, <1>4, <1>6, <1>7, <1>8 DEF MidRecord, r

\* A frame the file does not have whole is of a record it does not have whole.
LEMMA FrameShort ==
    ASSUME NEW kind \in BOOLEAN, NEW b, NEW rs, Laid(kind, b, rs), NEW j \in Nat,
           NEW c, NEW q, MidRecord(kind, b, rs, j, c, q), c.left > 0,
           q + 2 <= Len(b) => q + 2 + FromLE(SubSeq(b, q + 1, q + 2)) > Len(b)
    PROVE  rs[j + 1].end > Len(b)
<1> DEFINE frame == rs[j + 1].frames[Len(c.frames) + 1]
           w == Len(frame)
           end == rs[j + 1].end
<1>1. /\ frame \in Seq(Int) /\ q \in Nat
      /\ q + 2 <= Len(b) => FromLE(SubSeq(b, q + 1, q + 2)) = w
      /\ q + 2 + w <= end
  BY NextFrame DEF FrameNext
<1>2. w \in Nat /\ Len(b) \in Nat /\ end \in Nat
  <2>1. Len(b) \in Nat /\ Len(rs) \in Nat
    BY LaidEnds
  <2>2. j + 1 \in 1..Len(rs)
    BY <2>1 DEF MidRecord
  <2>3. rs[j + 1] \in Records
    BY <2>2, LaidEnds
  <2>4. end \in Nat
    BY <2>3 DEF Records
  <2> HIDE DEF frame, end
  <2>5. w \in Nat
    BY <1>1
  <2> HIDE DEF w
  <2>6. QED
    BY <2>1, <2>4, <2>5
<1> HIDE DEF w, end
<1>3. CASE q + 2 <= Len(b)
  BY <1>1, <1>2, <1>3 DEF end
<1>4. CASE ~(q + 2 <= Len(b))
  BY <1>1, <1>2, <1>4 DEF end
<1>5. QED
  BY <1>3, <1>4

\* All frames read: the record is as it was written.
LEMMA TakeStep ==
    ASSUME NEW kind \in BOOLEAN, NEW b, NEW rs, Laid(kind, b, rs), NEW j \in Nat,
           NEW c, NEW q, MidRecord(kind, b, rs, j, c, q), c.left = 0
    PROVE  /\ c.frames = rs[j + 1].frames /\ c.size = rs[j + 1].size /\ c.ptr = rs[j + 1].ptr
           /\ rs[j + 1].op = "A" /\ j + 1 \in 0..Len(rs)
           /\ q = EndOf(rs, j + 1) /\ q <= Len(b)
           /\ kind => c.ptr # 0
<1> DEFINE r == rs[j + 1]
<1>1. /\ c.ptr = r.ptr /\ c.size = r.size /\ r.op = "A" /\ j < Len(rs) /\ q <= Len(b)
      /\ c.frames \in Seq(Seq(Int)) /\ c.left = Len(r.frames) - Len(c.frames)
      /\ \A f \in 1..Len(c.frames) : c.frames[f] = r.frames[f]
  BY DEF MidRecord
<1>2. PICK at : /\ RecordAt(kind, b, EndOf(rs, j), r, at)
                /\ q = EndOf(rs, j) + HeadOf(kind) + at[Len(c.frames) + 1]
  BY DEF MidRecord
<1>3. Len(rs) \in Nat
  BY LaidEnds
<1> HIDE DEF r
<1>4. Encodable(kind, r, r.frames) /\ AllocAt(kind, b, EndOf(rs, j), r, at)
  BY <1>1, <1>2 DEF RecordAt
<1>5. r.frames \in Seq(Seq(Int)) /\ (kind => r.ptr # 0)
  BY <1>4 DEF Encodable
<1>6. Len(c.frames) = Len(r.frames)
  <2> DEFINE x == Len(c.frames)
             y == Len(r.frames)
  <2>1. x \in Nat /\ y \in Nat
    BY <1>1, <1>5
  <2>2. c.left = y - x /\ c.left = 0
    BY <1>1
  <2> HIDE DEF x, y
  <2>3. x = y
    BY <2>1, <2>2
  <2>4. QED
    BY <2>3 DEF x, y
<1>7. c.frames = r.frames
  BY <1>1, <1>5, <1>6, SeqEqual
<1>8. q = r.end
  BY <1>2, <1>4, <1>7 DEF AllocAt
<1>9. EndOf(rs, j + 1) = r.end /\ j + 1 \in 0..Len(rs)
  BY <1>1, <1>3 DEF EndOf, r
<1>10. QED
  BY <1>1, <1>5, <1>7, <1>8, <1>9 DEF r

\* The whole records are the first j if the one after them is not whole.
LEMMA WholeAre ==
    ASSUME NEW kind, NEW b, NEW rs, Laid(kind, b, rs), NEW j \in 0..Len(rs),
           EndOf(rs, j) <= Len(b), j < Len(rs) => rs[j + 1].end > Len(b)
    PROVE  {i \in DOMAIN rs : rs[i].end <= Len(b)} = 1..j
<1> DEFINE n == Len(rs)
           lb == Len(b)
           o(i) == EndOf(rs, i)
<1>1. /\ rs \in Seq(Records) /\ n \in Nat /\ lb \in Nat
      /\ \A i \in 1..n : o(i) = rs[i].end
      /\ \A i \in 0..n : o(i) \in Nat
  BY LaidEnds
<1>2. \A i, k \in 0..n : i < k => o(i) < o(k)
  BY DEF Laid
<1>3. o(j) <= lb /\ (j < n => rs[j + 1].end > lb)
  OBVIOUS
<1>4. DOMAIN rs = 1..n
  BY <1>1
<1> HIDE DEF n, lb, o
<1>5. j \in 0..n
  BY DEF n
<1>6. ASSUME NEW i \in 1..n PROVE rs[i].end <= lb <=> i \in 1..j
  <2>1. o(i) = rs[i].end /\ o(i) \in Nat /\ o(j) \in Nat /\ i \in 0..n
    BY <1>1, <1>5
  <2>2. CASE i <= j
    <3>1. i = j \/ i < j
      BY <1>5, <2>2
    <3>2. o(i) <= o(j)
      BY <1>2, <1>5, <2>1, <3>1
    <3>3. QED
      BY <1>1, <1>3, <2>1, <2>2, <3>2
  <2>3. CASE j < i
    <3>1. j < n /\ j + 1 \in 1..n /\ j + 1 \in 0..n
      BY <1>1, <1>5, <2>3
    <3>2. o(j + 1) = rs[j + 1].end /\ o(j + 1) \in Nat
      BY <1>1, <3>1
    <3>3. i = j + 1 \/ j + 1 < i
      BY <1>5, <2>3
    <3>4. o(j + 1) <= o(i)
      BY <1>2, <2>1, <3>1, <3>2, <3>3
    <3>5. ~(rs[i].end <= lb)
      BY <1>1, <1>3, <2>1, <3>1, <3>2, <3>4
    <3>6. QED
      BY <1>5, <2>3, <3>5
  <2>4. QED
    BY <1>5, <2>2, <2>3
<1>7. 1..j \subseteq 1..n
  BY <1>1, <1>5
<1>8. QED
  BY <1>4, <1>6, <1>7 DEF lb

-----------------------------------------------------------------------------
(* The parser.                                                             *)

\* Nothing is read before the file is cut off; then the parser has read j
\* records; then what it reports is what the whole records make.
ParseInv ==
    /\ phase = "record" => /\ p = 0 /\ cur = None
                           /\ DOMAIN live = {} /\ samples = [s \in {} |-> None]
    /\ phase = "parse" =>
          \E j \in 0..Len(recs) : After(retained, buf, recs, j, cur, p, live, samples)
    /\ WholeRecordsCount

\* What the end of the parser reports.
LEMMA ParseEnds ==
    ASSUME LayoutInv, NEW j \in 0..Len(recs), EndOf(recs, j) <= Len(buf),
           j < Len(recs) => recs[j + 1].end > Len(buf),
           MapsAre(retained, recs, j, live, samples), Finish
    PROVE  ParseInv'
<1>1. /\ retained \in BOOLEAN /\ Laid(retained, buf, recs)
      /\ Len(recs) \in Nat /\ recs \in Seq(Records)
  <2>1. retained \in BOOLEAN /\ Laid(retained, buf, recs)
    BY DEF LayoutInv
  <2>2. QED
    BY <2>1, LaidEnds
<1>2. Whole = 1..j
  BY <1>1, WholeAre DEF Whole
<1>3. Surviving = Stays(retained, recs, j)
  <2>1. \A i \in 1..j : {m \in 1..j : m > i} = (i + 1)..j
    OBVIOUS
  <2>2. ASSUME NEW i \in 1..j
        PROVE  (\A m \in 1..j : m > i => recs[m].ptr # recs[i].ptr)
               <=> (\A m \in (i + 1)..j : recs[m].ptr # recs[i].ptr)
    BY <2>1
  <2>3. QED
    BY <1>2, <2>2 DEF Surviving, Stays
<1> DEFINE g == Given(retained, recs, j)
<1>4. g = [i \in Surviving |-> [frames |-> UserFrames(recs[i].frames), size |-> recs[i].size]]
  BY <1>3 DEF Given, AllocOf
<1>5. samples' = Totals(g)
  <2>1. CASE retained
    <3>1. samples' = Totals(live) /\ LiveIs(recs, j, live)
      BY <2>1 DEF Finish, MapsAre
    <3>2. \A i \in 1..j : recs[i].size \in Nat
      <4> SUFFICES ASSUME NEW i \in 1..j PROVE recs[i].size \in Nat
        OBVIOUS
      <4>1. i \in 1..Len(recs)
        BY <1>1
      <4>2. recs[i] \in Records
        BY <1>1, <4>1
      <4>3. QED
        BY <4>2 DEF Records
    <3>3. j \in Nat
      OBVIOUS
    <3>4. Totals(live) = Totals(Given(TRUE, recs, j))
      BY <3>1, <3>2, <3>3, LiveTotals
    <3>5. retained = TRUE
      BY <1>1, <2>1
    <3>6. QED
      BY <3>1, <3>4, <3>5
  <2>2. CASE ~retained
    <3>1. retained = FALSE
      BY <1>1, <2>2
    <3>2. samples' = samples
      BY <2>2 DEF Finish
    <3>3. samples = Totals(Given(FALSE, recs, j))
      BY <2>2 DEF MapsAre
    <3>4. QED
      BY <3>1, <3>2, <3>3
  <2>3. QED
    BY <2>1, <2>2
<1> HIDE DEF g
<1>6. phase' = "done" /\ recs' = recs /\ buf' = buf /\ retained' = retained
  BY DEF Finish, recordVars
<1>7. Surviving' = Surviving
  BY <1>6 DEF Surviving, Whole
<1>8. WholeRecordsCount'
  BY <1>4, <1>5, <1>6, <1>7 DEF WholeRecordsCount
<1>9. QED
  BY <1>6, <1>8 DEF ParseInv

\* Nothing is read yet.
LEMMA ParseInit == Init => ParseInv
<1> SUFFICES ASSUME Init PROVE ParseInv
  OBVIOUS
<1>1. phase = "record" /\ p = 0 /\ cur = None /\ samples = [s \in {} |-> None]
  BY DEF Init
<1>2. DOMAIN live = {}
  BY DEF Init
<1>3. QED
  BY <1>1, <1>2 DEF ParseInv, WholeRecordsCount

\* The parser begins.
LEMMA ParseCut ==
    ASSUME LayoutInv, ParseInv, NEW n \in 0..Len(buf), Cut(n)
    PROVE  ParseInv'
<1>1. /\ phase = "record" /\ phase' = "parse" /\ buf' = SubSeq(buf, 1, n)
      /\ retained' = retained /\ recs' = recs
      /\ p' = p /\ cur' = cur /\ live' = live /\ samples' = samples
  BY DEF Cut, parseVars
<1>2. p = 0 /\ cur = None /\ DOMAIN live = {} /\ samples = [s \in {} |-> None]
  BY <1>1 DEF ParseInv
<1>3. Laid(retained, buf, recs)
  BY DEF LayoutInv
<1>4. Len(recs) \in Nat /\ buf \in Seq(Int)
  BY <1>3, LaidEnds
<1>5. \A kind : Stays(kind, recs, 0) = {}
  BY DEF Stays
<1>6. MapsAre(retained, recs, 0, live, samples)
  <2>1. LiveIs(recs, 0, live)
    BY <1>2, <1>5 DEF LiveIs
  <2>2. samples = Totals(Given(FALSE, recs, 0))
    <3> DEFINE g == Given(FALSE, recs, 0)
    <3>1. DOMAIN g = {}
      BY <1>5 DEF Given
    <3> HIDE DEF g
    <3>2. {g[i].frames : i \in DOMAIN g} = {}
      BY <3>1
    <3>3. Totals(g) = [s \in {} |-> None]
      BY <3>2 DEF Totals
    <3>4. QED
      BY <1>2, <3>3 DEF g
  <2>3. QED
    BY <2>1, <2>2 DEF MapsAre
<1>7. Len(buf') \in Nat /\ EndOf(recs, 0) = 0 /\ 0 \in 0..Len(recs)
  BY <1>1, <1>4 DEF EndOf
<1>8. After(retained', buf', recs', 0, cur', p', live', samples')
  BY <1>1, <1>2, <1>6, <1>7 DEF After
<1>9. \E j \in 0..Len(recs') : After(retained', buf', recs', j, cur', p', live', samples')
  BY <1>1, <1>7, <1>8
<1>10. QED
  BY <1>1, <1>9 DEF ParseInv, WholeRecordsCount

\* A step of the parser that leaves it after i records.
LEMMA ParseGoes ==
    ASSUME LayoutInv, phase = "parse", phase' = phase, retained' = retained, buf' = buf,
           recs' = recs, NEW i \in 0..Len(recs),
           After(retained, buf, recs, i, cur', p', live', samples')
    PROVE  ParseInv'
<1>1. \E j \in 0..Len(recs') : After(retained', buf', recs', j, cur', p', live', samples')
  OBVIOUS
<1>2. QED
  BY <1>1 DEF ParseInv, WholeRecordsCount

\* Between two records and within one.
LEMMA Between ==
    ASSUME LayoutInv, ParseInv, phase = "parse"
    PROVE  /\ cur = None => \E j \in 0..Len(recs) :
                  /\ p = EndOf(recs, j) /\ EndOf(recs, j) <= Len(buf)
                  /\ MapsAre(retained, recs, j, live, samples)
           /\ cur # None => \E j \in 0..Len(recs) :
                  /\ MidRecord(retained, buf, recs, j, cur, p) /\ EndOf(recs, j) <= Len(buf)
                  /\ MapsAre(retained, recs, j, live, samples)
<1>1. PICK j \in 0..Len(recs) : After(retained, buf, recs, j, cur, p, live, samples)
  BY DEF ParseInv
<1>2. /\ EndOf(recs, j) <= Len(buf) /\ MapsAre(retained, recs, j, live, samples)
      /\ (cur = None /\ p = EndOf(recs, j)) \/ MidRecord(retained, buf, recs, j, cur, p)
  BY <1>1 DEF After
<1>3. MidRecord(retained, buf, recs, j, cur, p) => cur # None
  BY RawAssumption DEF MidRecord
<1>4. QED
  BY <1>2, <1>3

\* It reads a header.
LEMMA ParseHead ==
    ASSUME LayoutInv, ParseInv, ReadHead
    PROVE  ParseInv'
<1>1. /\ retained \in BOOLEAN /\ Laid(retained, buf, recs)
      /\ phase = "parse" /\ cur = None /\ phase' = phase /\ retained' = retained
      /\ buf' = buf /\ recs' = recs /\ live' = live /\ samples' = samples
  BY DEF LayoutInv, ReadHead, recordVars
<1>2. PICK j \in 0..Len(recs) : /\ p = EndOf(recs, j) /\ EndOf(recs, j) <= Len(buf)
                                /\ MapsAre(retained, recs, j, live, samples)
  BY <1>1, Between
<1>3. HeadLen = HeadOf(retained)
  BY DEF HeadLen, HeadOf
<1>4. /\ p + HeadOf(retained) <= Len(buf)
      /\ retained => buf[p + 1] = TagA
      /\ p' = p + HeadOf(retained)
      /\ cur' = HeadHere(retained, buf, p)
  BY <1>3 DEF ReadHead, AtTag, Bytes, HeadHere
<1>5. MidRecord(retained, buf, recs, j, cur', p + HeadOf(retained))
  <2> DEFINE off == EndOf(recs, j)
  <2>1. off + HeadOf(retained) <= Len(buf) /\ (retained => buf[off + 1] = TagA)
    BY <1>2, <1>4
  <2>2. MidRecord(retained, buf, recs, j, HeadHere(retained, buf, off), off + HeadOf(retained))
    BY <1>1, <2>1, HeadStep
  <2>3. QED
    BY <1>2, <1>4, <2>2
<1>6. After(retained, buf, recs, j, cur', p', live', samples')
  BY <1>1, <1>2, <1>4, <1>5 DEF After
<1>7. QED
  BY <1>1, <1>6, ParseGoes

\* It reads an 'F'.
LEMMA ParseFree ==
    ASSUME LayoutInv, ParseInv, ReadFree
    PROVE  ParseInv'
<1>1. /\ retained \in BOOLEAN /\ Laid(retained, buf, recs)
      /\ phase = "parse" /\ cur = None /\ phase' = phase /\ retained' = retained
      /\ buf' = buf /\ recs' = recs /\ cur' = cur /\ samples' = samples
      /\ retained /\ buf[p + 1] = TagF /\ p + 1 + Word <= Len(buf) /\ p' = p + 1 + Word
  BY DEF LayoutInv, ReadFree, AtTag, recordVars
<1>2. PICK j \in 0..Len(recs) : /\ p = EndOf(recs, j) /\ EndOf(recs, j) <= Len(buf)
                                /\ MapsAre(retained, recs, j, live, samples)
  BY <1>1, Between
<1>3. /\ j \in Nat /\ j < Len(recs) /\ recs[j + 1].op = "F"
      /\ FromLE(SubSeq(buf, EndOf(recs, j) + 1 + 1, EndOf(recs, j) + 1 + Word)) = recs[j + 1].ptr
      /\ EndOf(recs, j + 1) = EndOf(recs, j) + 1 + Word
  BY <1>1, <1>2, FreeStep
<1> DEFINE a == recs[j + 1].ptr
<1>4. live' = [x \in DOMAIN live \ {a} |-> live[x]]
  BY <1>2, <1>3 DEF ReadFree, Bytes
<1>5. LiveIs(recs, j, live)
  BY <1>1, <1>2 DEF MapsAre
<1>6. LiveIs(recs, j + 1, live')
  BY <1>3, <1>4, <1>5, LiveFree
<1>7. MapsAre(retained, recs, j + 1, live', samples')
  BY <1>1, <1>6 DEF MapsAre
<1>8. j + 1 \in 0..Len(recs) /\ p' = EndOf(recs, j + 1) /\ EndOf(recs, j + 1) <= Len(buf)
  <2>1. Len(recs) \in Nat
    BY <1>1, LaidEnds
  <2>2. j + 1 \in 0..Len(recs)
    BY <1>3, <2>1
  <2>3. QED
    BY <1>1, <1>2, <1>3, <2>2
<1>9. After(retained, buf, recs, j + 1, cur', p', live', samples')
  BY <1>1, <1>7, <1>8 DEF After
<1>10. QED
  BY <1>1, <1>8, <1>9, ParseGoes

\* The file ends in a header, or between two records.
LEMMA ParseShortHead ==
    ASSUME LayoutInv, ParseInv, ShortHead
    PROVE  ParseInv'
<1>1. /\ retained \in BOOLEAN /\ Laid(retained, buf, recs)
      /\ phase = "parse" /\ cur = None /\ Finish
  BY DEF LayoutInv, ShortHead
<1>2. PICK j \in 0..Len(recs) : /\ p = EndOf(recs, j) /\ EndOf(recs, j) <= Len(buf)
                                /\ MapsAre(retained, recs, j, live, samples)
  BY <1>1, Between
<1>3. /\ Len(recs) \in Nat /\ Len(buf) \in Nat /\ EndOf(recs, j) \in Nat
  BY <1>1, LaidEnds
<1>4. ASSUME j < Len(recs) PROVE recs[j + 1].end > Len(buf)
  <2> DEFINE r == recs[j + 1]
  <2>1. j + 1 \in 1..Len(recs)
    BY <1>3, <1>4
  <2>2. r \in Records /\ EndOf(recs, j + 1) = r.end
    BY <1>1, <2>1, LaidEnds
  <2>3. r.end \in Nat
    BY <2>2 DEF Records
  <2>4. EndOf(recs, j) < r.end
    <3>1. j + 1 \in 0..Len(recs) /\ j < j + 1
      BY <2>1
    <3>2. \A i, k \in 0..Len(recs) : i < k => EndOf(recs, i) < EndOf(recs, k)
      BY <1>1 DEF Laid
    <3>3. QED
      BY <2>2, <3>1, <3>2
  <2>5. PICK at : RecordAt(retained, buf, EndOf(recs, (j + 1) - 1), r, at)
    BY <1>1, <2>1 DEF Laid
  <2>6. RecordAt(retained, buf, p, r, at)
    <3>1. (j + 1) - 1 = j
      OBVIOUS
    <3>2. QED
      BY <1>2, <2>5, <3>1
  <2> HIDE DEF r
  <2>7. CASE p = Len(buf)
    BY <1>2, <2>3, <2>4, <2>7 DEF r
  <2>8. CASE p # Len(buf)
    <3>1. EndOf(recs, j) < Len(buf)
      BY <1>2, <1>3, <2>8
    <3>2. /\ retained /\ r.op = "A" => buf[p + 1] = TagA
          /\ r.op # "A" => retained /\ buf[p + 1] = TagF
      BY <1>1, <1>2, <3>1, NextTag DEF r
    <3>3. \/ (retained => buf[p + 1] = TagA) /\ p + HeadOf(retained) > Len(buf)
          \/ retained /\ buf[p + 1] = TagF /\ p + 1 + Word > Len(buf)
      <4>1. HeadLen = HeadOf(retained)
        BY DEF HeadLen, HeadOf
      <4>2. QED
        BY <2>8, <4>1 DEF ShortHead, AtTag
    <3>4. CASE r.op = "A"
      <4>1. /\ r.end = p + HeadOf(retained) + at[Len(r.frames) + 1]
            /\ FramesAt(buf, p + HeadOf(retained), r.frames, at) /\ r.frames \in Seq(Seq(Int))
        BY <2>6, <3>4 DEF RecordAt, AllocAt, Encodable
      <4>2. at[Len(r.frames) + 1] \in Nat
        <5>1. Len(r.frames) + 1 \in 1..(Len(r.frames) + 1)
          BY <4>1
        <5>2. at \in [1..(Len(r.frames) + 1) -> Nat]
          BY <4>1 DEF FramesAt
        <5>3. QED
          BY <5>1, <5>2
      <4>3. p + HeadOf(retained) > Len(buf)
        <5>1. ~(retained /\ buf[p + 1] = TagF)
          BY <3>2, <3>4, RawAssumption
        <5>2. QED
          BY <3>3, <5>1
      <4>4. HeadOf(retained) \in Nat /\ p \in Nat
        BY <1>2, <1>3, RawAssumption DEF HeadOf
      <4> DEFINE x == at[Len(r.frames) + 1]
                 h == HeadOf(retained)
                 lb == Len(buf)
      <4>5. lb \in Nat
        BY <1>3
      <4> HIDE DEF x, h, lb
      <4>6. p + h + x > lb
        BY <4>2, <4>3, <4>4, <4>5 DEF x, h, lb
      <4>7. QED
        BY <4>1, <4>6 DEF r, x, h, lb
    <3>5. CASE r.op # "A"
      <4>1. r.end = p + 1 + Word
        BY <2>6, <3>5 DEF RecordAt, FreeAt
      <4>2. ~(retained => buf[p + 1] = TagA)
        BY <3>2, <3>5, RawAssumption
      <4>3. p + 1 + Word > Len(buf)
        BY <3>3, <4>2
      <4>4. QED
        BY <4>1, <4>3 DEF r
    <3>6. QED
      BY <3>4, <3>5
  <2>9. QED
    BY <2>7, <2>8
<1>5. QED
  BY <1>1, <1>2, <1>4, ParseEnds

\* It reads a frame.
LEMMA ParseFrame ==
    ASSUME LayoutInv, ParseInv, ReadFrame
    PROVE  ParseInv'
<1> DEFINE n == FromLE(SubSeq(buf, p + 1, p + 2))
<1>1. /\ retained \in BOOLEAN /\ Laid(retained, buf, recs)
      /\ phase = "parse" /\ cur # None /\ phase' = phase /\ retained' = retained
      /\ buf' = buf /\ recs' = recs /\ live' = live /\ samples' = samples
      /\ cur.left > 0
  BY DEF LayoutInv, ReadFrame, recordVars
<1>2. NameLen = n
  BY DEF NameLen, Bytes
<1>3. p + 2 <= Len(buf) /\ ~(p + 2 + n > Len(buf)) /\ p' = p + 2 + n
  BY <1>2 DEF ReadFrame, ShortName
<1>4. cur' = [cur EXCEPT !.left = cur.left - 1,
                         !.frames = Append(cur.frames, SubSeq(buf, p + 2 + 1, p + 2 + n))]
  BY <1>2 DEF ReadFrame, Bytes
<1>5. PICK j \in 0..Len(recs) : /\ MidRecord(retained, buf, recs, j, cur, p)
                                /\ EndOf(recs, j) <= Len(buf)
                                /\ MapsAre(retained, recs, j, live, samples)
  BY <1>1, Between
<1>6. j \in Nat
  OBVIOUS
<1> HIDE DEF n
<1>7. p + 2 + n <= Len(buf)
  <2>1. Len(buf) \in Nat
    BY <1>1, LaidEnds
  <2>2. FrameNext(retained, buf, recs, j, cur, p, recs[j + 1].frames[Len(cur.frames) + 1])
    BY <1>1, <1>5, <1>6, NextFrame
  <2> DEFINE frame == recs[j + 1].frames[Len(cur.frames) + 1]
  <2> HIDE DEF frame
  <2>3. frame \in Seq(Int) /\ p \in Nat /\ FromLE(SubSeq(buf, p + 1, p + 2)) = Len(frame)
    BY <1>3, <2>2 DEF FrameNext, frame
  <2>4. n \in Nat
    BY <2>3 DEF n
  <2>5. QED
    BY <1>3, <2>1, <2>3, <2>4
<1>8. MidRecord(retained, buf, recs, j, cur', p + 2 + n)
  BY <1>1, <1>3, <1>4, <1>5, <1>6, <1>7, FrameStep DEF n
<1>9. After(retained, buf, recs, j, cur', p', live', samples')
  BY <1>1, <1>3, <1>5, <1>8 DEF After
<1>10. QED
  BY <1>1, <1>9, ParseGoes

\* The file ends in a frame.
LEMMA ParseShortFrame ==
    ASSUME LayoutInv, ParseInv, ShortFrame
    PROVE  ParseInv'
<1>1. /\ retained \in BOOLEAN /\ Laid(retained, buf, recs)
      /\ phase = "parse" /\ cur # None /\ Finish /\ cur.left > 0
      /\ p + 2 <= Len(buf) => p + 2 + FromLE(SubSeq(buf, p + 1, p + 2)) > Len(buf)
  BY DEF LayoutInv, ShortFrame, ShortName, NameLen, Bytes
<1>2. PICK j \in 0..Len(recs) : /\ MidRecord(retained, buf, recs, j, cur, p)
                                /\ EndOf(recs, j) <= Len(buf)
                                /\ MapsAre(retained, recs, j, live, samples)
  BY <1>1, Between
<1>3. j \in Nat
  OBVIOUS
<1>4. recs[j + 1].end > Len(buf)
  BY <1>1, <1>2, <1>3, FrameShort
<1>5. QED
  BY <1>1, <1>2, <1>4, ParseEnds

\* It takes a whole record.
LEMMA ParseTake ==
    ASSUME LayoutInv, ParseInv, TakeRecord
    PROVE  ParseInv'
<1>1. /\ retained \in BOOLEAN /\ Laid(retained, buf, recs)
      /\ phase = "parse" /\ cur # None /\ phase' = phase /\ retained' = retained
      /\ buf' = buf /\ recs' = recs /\ cur' = None /\ p' = p /\ cur.left = 0
  BY DEF LayoutInv, TakeRecord, recordVars
<1>2. PICK j \in 0..Len(recs) : /\ MidRecord(retained, buf, recs, j, cur, p)
                                /\ EndOf(recs, j) <= Len(buf)
                                /\ MapsAre(retained, recs, j, live, samples)
  BY <1>1, Between
<1>3. j \in Nat
  OBVIOUS
<1> DEFINE r == recs[j + 1]
<1>4. /\ cur.frames = r.frames /\ cur.size = r.size /\ cur.ptr = r.ptr
      /\ r.op = "A" /\ j + 1 \in 0..Len(recs)
      /\ p = EndOf(recs, j + 1) /\ p <= Len(buf)
      /\ retained => cur.ptr # 0
  BY <1>1, <1>2, <1>3, TakeStep
<1> DEFINE user == UserFrames(r.frames)
           drop == user = <<>> \/ (retained /\ cur.ptr = 0)
<1>5. /\ live' = IF drop \/ ~retained THEN live
                 ELSE Put(live, r.ptr, [frames |-> user, size |-> r.size])
      /\ samples' = IF drop \/ retained THEN samples ELSE Credit(user, r.size)
  BY <1>4 DEF TakeRecord
<1>6. drop <=> user = <<>>
  BY <1>4
<1>7. AllocOf(r) = [frames |-> user, size |-> r.size]
  BY DEF AllocOf
<1>8. MapsAre(retained, recs, j + 1, live', samples')
  <2>1. CASE retained
    <3>1. live' = IF user = <<>> THEN live ELSE Put(live, r.ptr, AllocOf(r))
      BY <1>5, <1>6, <1>7, <2>1
    <3>2. LiveIs(recs, j, live)
      BY <1>2, <2>1 DEF MapsAre
    <3>3. Untracked(recs, j, r.ptr)
      <4>1. j + 1 \in 1..Len(recs) /\ (j + 1) - 1 = j
        BY <1>3, <1>4
      <4>2. Untracked(recs, (j + 1) - 1, r.ptr)
        BY <1>1, <1>4, <2>1, <4>1 DEF Laid
      <4>3. QED
        BY <4>1, <4>2
    <3>4. LiveIs(recs, j + 1, live')
      BY <1>3, <1>4, <3>1, <3>2, <3>3, LiveAlloc
    <3>5. QED
      BY <2>1, <3>4 DEF MapsAre
  <2>2. CASE ~retained
    <3> DEFINE t == Totals(Given(FALSE, recs, j))
    <3>1. samples = t
      BY <1>2, <2>2 DEF MapsAre
    <3>2. Credit(user, r.size) = Credited(samples, AllocOf(r))
      <4>1. AllocOf(r).frames = user /\ AllocOf(r).size = r.size
        BY <1>7
      <4> HIDE DEF user, r
      <4>2. QED
        BY <4>1 DEF Credit, Credited
    <3>3. samples' = IF user = <<>> THEN t ELSE Credited(t, AllocOf(r))
      BY <1>5, <1>6, <2>2, <3>1, <3>2
    <3>4. \A i \in 1..(j + 1) : recs[i].size \in Nat
      <4> SUFFICES ASSUME NEW i \in 1..(j + 1) PROVE recs[i].size \in Nat
        OBVIOUS
      <4>1. Len(recs) \in Nat
        BY <1>1, LaidEnds
      <4>2. i \in 1..Len(recs)
        BY <1>3, <1>4, <4>1
      <4>3. recs[i] \in Records
        BY <1>1, <4>2, LaidEnds
      <4>4. QED
        BY <4>3 DEF Records
    <3>5. Totals(Given(FALSE, recs, j + 1)) = IF user = <<>> THEN t ELSE Credited(t, AllocOf(r))
      BY <1>3, <1>4, <3>4, GivenAlloc
    <3>6. QED
      BY <2>2, <3>3, <3>5 DEF MapsAre
  <2>3. QED
    BY <2>1, <2>2
<1>9. After(retained, buf, recs, j + 1, cur', p', live', samples')
  BY <1>1, <1>4, <1>8 DEF After
<1>10. QED
  BY <1>1, <1>4, <1>9, ParseGoes

\* Every step keeps the parser where the records say.
LEMMA ParseStep == LayoutInv /\ ParseInv /\ [Next]_vars => ParseInv'
<1> SUFFICES ASSUME LayoutInv, ParseInv, [Next]_vars PROVE ParseInv'
  OBVIOUS
<1>1. ASSUME phase = "record", phase' = phase, UNCHANGED parseVars PROVE ParseInv'
  BY <1>1 DEF ParseInv, WholeRecordsCount, parseVars
<1>2. ASSUME NEW a \in IF retained THEN Ptrs ELSE {0}, NEW size \in Sizes,
             NEW n \in 1..MaxFrames, BeginAlloc(a, size, n)
      PROVE  ParseInv'
  BY <1>1, <1>2 DEF BeginAlloc
<1>3. ASSUME NEW name \in Names, AddFrame(name) PROVE ParseInv'
  BY <1>1, <1>3 DEF AddFrame
<1>4. CASE WriteAlloc
  BY <1>1, <1>4 DEF WriteAlloc
<1>5. ASSUME NEW a \in Ptrs, WriteFree(a) PROVE ParseInv'
  BY <1>1, <1>5 DEF WriteFree
<1>6. ASSUME NEW n \in 0..Len(buf), Cut(n) PROVE ParseInv'
  BY <1>6, ParseCut
<1>7. CASE ReadHead
  BY <1>7, ParseHead
<1>8. CASE ReadFree
  BY <1>8, ParseFree
<1>9. CASE ShortHead
  BY <1>9, ParseShortHead
<1>10. CASE ReadFrame
  BY <1>10, ParseFrame
<1>11. CASE ShortFrame
  BY <1>11, ParseShortFrame
<1>12. CASE TakeRecord
  BY <1>12, ParseTake
<1>13. CASE UNCHANGED vars
  BY <1>13 DEF ParseInv, WholeRecordsCount, Surviving, Whole, vars, recordVars, parseVars
<1>14. QED
  BY <1>2, <1>3, <1>4, <1>5, <1>6, <1>7, <1>8, <1>9, <1>10, <1>11, <1>12, <1>13 DEF Next

\* What the driver reports of a stream that ends anywhere is what the hook meant
\* by the records that are whole in it: parse_raw_stream and
\* parse_retained_raw_stream make nothing of the rest.
THEOREM WholeRecordsAreCounted == Spec => []WholeRecordsCount
<1>1. ParseInv => WholeRecordsCount
  BY DEF ParseInv
<1>2. QED
  BY <1>1, ParseInit, ParseStep, StreamIsLaidOut, PTL DEF Spec

\* The parser never meets a tag it does not know: its error about an unknown tag
\* is of no stream the hook writes, wherever it ends.
TagKnown ==
    phase = "parse" /\ cur = None /\ retained /\ p < Len(buf) => buf[p + 1] \in {TagA, TagF}

\* parse_retained_raw_stream never reports an unknown tag.
THEOREM TagsAreKnown == Spec => []TagKnown
<1>1. ASSUME LayoutInv, ParseInv, phase = "parse", cur = None, retained, p < Len(buf)
      PROVE  buf[p + 1] \in {TagA, TagF}
  <2>1. retained \in BOOLEAN /\ Laid(retained, buf, recs)
    BY <1>1 DEF LayoutInv
  <2>2. PICK j \in 0..Len(recs) : p = EndOf(recs, j)
    BY <1>1, Between
  <2>3. EndOf(recs, j) < Len(buf)
    BY <1>1, <2>2
  <2>4. /\ retained /\ recs[j + 1].op = "A" => buf[EndOf(recs, j) + 1] = TagA
        /\ recs[j + 1].op # "A" => retained /\ buf[EndOf(recs, j) + 1] = TagF
    BY <2>1, <2>3, NextTag
  <2>5. QED
    BY <1>1, <2>2, <2>4
<1>2. LayoutInv /\ ParseInv => TagKnown
  BY <1>1 DEF TagKnown
<1>3. QED
  BY <1>2, ParseInit, ParseStep, StreamIsLaidOut, PTL DEF Spec
=============================================================================
