---------------------------- MODULE WasmProofs ----------------------------
(***************************************************************************)
(* Proofs about the wasm host and the allocation profiler that runs over   *)
(* it, for every guest and every rate.                                     *)
(*                                                                         *)
(* The host: a string, an array reader or an output line is what was fed   *)
(* to it, less what was taken (HostInv).  The guest: the rest of every     *)
(* frame begins where the rewriting of an instruction of the original      *)
(* begins, but for the last, which may be within one, and there the stack  *)
(* and the hook are ahead of the original code by what was run of it       *)
(* (GuestInv).  The hook: the profile and the trace have the same totals,  *)
(* and the objects they count are the multiple of the rate next to the     *)
(* number of calls (AccountsInv).                                          *)
(***************************************************************************)
EXTENDS WasmMemprofile, FoldLemmas

(***************************************************************************)
(* The host: strings.                                                      *)
(***************************************************************************)

\* What the host keeps of the units w.
Kept(w) == [i \in DOMAIN w |-> IF w[i] \in {Hi, Lo} THEN Replacement ELSE w[i]]
Surrogate(w) == Range(w) \cap {Hi, Lo} # {}

\* pos units of a string were read as r.
ReadTo(r, all, pos) ==
    /\ pos \in Nat
    /\ r = IF pos <= Len(all) THEN SubSeq(all, 1, pos) ELSE all

\* A string under construction is the units appended, a finished one too if
\* the guest built it, and a reader has gone some way through it.
StringInv ==
    /\ h.kind = "writer" => /\ h = [kind |-> "writer", s |-> h.s]
                            /\ wrote \in Seq(Plain \cup {Hi, Lo}) /\ h.s = Kept(wrote)
    /\ h.kind = "string" /\ wrote # None
          => wrote \in Seq(Plain \cup {Hi, Lo}) /\ h.s = Kept(wrote)
    /\ h.kind = "reader"
          => /\ h = [kind |-> "reader", chars |-> h.chars, pos |-> h.pos]
             /\ wrote # None /\ ~Surrogate(wrote)
                  => /\ wrote \in Seq(Plain \cup {Hi, Lo}) /\ h.chars = wrote
                     /\ ReadTo(got, wrote, h.pos)

LEMMA EncodePlain ==
    ASSUME NEW w \in Seq(Plain \cup {Hi, Lo}), ~Surrogate(w)
    PROVE  Kept(w) = w /\ EncodeUtf16(w) = w
<1>1. \A i \in DOMAIN w : w[i] \in Plain /\ w[i] \notin {Hi, Lo} /\ w[i] # Pair
  BY HostAssumption DEF Surrogate, Range
<1>2. Kept(w) = w
  BY <1>1 DEF Kept
<1>3. EncodeUtf16(w) = FlattenSeq([i \in DOMAIN w |-> <<w[i]>>])
  <2>1. \A i \in DOMAIN w : (IF w[i] = Pair THEN <<Hi, Lo>> ELSE <<w[i]>>) = <<w[i]>>
    BY <1>1
  <2>2. [i \in DOMAIN w |-> IF w[i] = Pair THEN <<Hi, Lo>> ELSE <<w[i]>>]
          = [i \in DOMAIN w |-> <<w[i]>>]
    BY <2>1
  <2>3. QED
    BY <2>2, Zenon DEF EncodeUtf16
<1>4. QED
  BY <1>2, <1>3, FlattenSingles

LEMMA ReadEnd ==
    ASSUME NEW T, NEW all \in Seq(T), NEW pos, NEW r, ReadTo(r, all, pos), pos >= Len(all)
    PROVE  r = all /\ ReadTo(r, all, Len(all) + 1)
<1>1. pos \in Nat /\ Len(all) \in Nat
  BY DEF ReadTo
<1>2. r = all
  BY <1>1 DEF ReadTo
<1>3. ~(Len(all) + 1 <= Len(all)) /\ Len(all) + 1 \in Nat
  BY <1>1
<1>4. ReadTo(all, all, Len(all) + 1)
  BY <1>3, Zenon DEF ReadTo
<1>5. QED
  BY <1>2, <1>4, Zenon

LEMMA ReadNext ==
    ASSUME NEW T, NEW all \in Seq(T), NEW pos, NEW r, ReadTo(r, all, pos), ~(pos >= Len(all))
    PROVE  ReadTo(Append(r, all[pos + 1]), all, pos + 1)
<1>1. pos \in Nat /\ Len(all) \in Nat
  BY DEF ReadTo
<1>2. r = SubSeq(all, 1, pos)
  BY <1>1 DEF ReadTo
<1>3. Append(SubSeq(all, 1, pos), all[pos + 1]) = SubSeq(all, 1, pos + 1)
  BY <1>1
<1>4. QED
  BY <1>1, <1>2, <1>3 DEF ReadTo

LEMMA ReadOne ==
    ASSUME NEW T, NEW all \in Seq(T), NEW pos, NEW r, ReadTo(r, all, pos),
           NEW pos2, pos2 = IF pos >= Len(all) THEN Len(all) + 1 ELSE pos + 1,
           NEW r2, r2 = IF pos >= Len(all) THEN r ELSE Append(r, all[pos + 1])
    PROVE  ReadTo(r2, all, pos2)
<1>1. CASE pos >= Len(all)
  <2>1. pos2 = Len(all) + 1 /\ r2 = r
    BY <1>1, Zenon
  <2>2. QED
    BY <1>1, <2>1, ReadEnd, Zenon
<1>2. CASE ~(pos >= Len(all))
  <2>1. pos2 = pos + 1 /\ r2 = Append(r, all[pos + 1])
    BY <1>2, Zenon
  <2>2. QED
    BY <1>2, <2>1, ReadNext, Zenon
<1>3. QED
  BY <1>1, <1>2, Zenon

LEMMA StringTake ==
    ASSUME NEW x, x.kind \notin {"writer", "reader"}, wrote' = None, h' = x PROVE StringInv'
BY DEF StringInv

LEMMA StringStep == ASSUME StringInv, NEW group, HostCall(group) PROVE StringInv'
<1> USE DEF strVars, outVars
<1>1. CASE BeginCreateString
  BY <1>1 DEF BeginCreateString, StringInv, Kept
<1>2. CASE FinishCreateString
  <2>1. h' = [kind |-> "string", s |-> h.s] /\ wrote' = wrote
    BY <1>2 DEF FinishCreateString, Str
  <2>2. h.kind \in {"writer", "string"}
    BY <1>2 DEF FinishCreateString, IsString
  <2>3. QED
    BY <2>1, <2>2 DEF StringInv, Kept
<1>3. CASE BeginReadString
  <2>1. h' = [kind |-> "reader", chars |-> EncodeUtf16(h.s), pos |-> 0] /\ got' = <<>>
        /\ wrote' = wrote /\ h.kind \in {"writer", "string"}
    BY <1>3 DEF BeginReadString, IsString
  <2>2. ASSUME wrote # None, ~Surrogate(wrote)
        PROVE  /\ wrote \in Seq(Plain \cup {Hi, Lo}) /\ EncodeUtf16(h.s) = wrote
               /\ ReadTo(<<>>, wrote, 0)
    <3>1. wrote \in Seq(Plain \cup {Hi, Lo}) /\ h.s = Kept(wrote)
      BY <2>1, <2>2 DEF StringInv
    <3>2. EncodeUtf16(h.s) = wrote
      BY <2>2, <3>1, EncodePlain
    <3>3. ReadTo(<<>>, wrote, 0)
      BY <3>1 DEF ReadTo
    <3>4. QED
      BY <3>1, <3>2, <3>3
  <2>3. QED
    BY <2>1, <2>2 DEF StringInv, Surrogate
<1>4. CASE StringReadChar
  <2>1. h = [kind |-> "reader", chars |-> h.chars, pos |-> h.pos] /\ wrote' = wrote
    BY <1>4 DEF StringReadChar, StringInv
  <2> DEFINE all == h.chars
             done == h.pos >= Len(all)
             pos == IF done THEN Len(all) + 1 ELSE h.pos + 1
             r == IF done THEN got ELSE Append(got, all[h.pos + 1])
  <2>2. h' = [h EXCEPT !.pos = pos] /\ got' = r
    BY <1>4 DEF StringReadChar
  <2>3. h' = [kind |-> "reader", chars |-> all, pos |-> pos]
    <3> HIDE DEF pos
    <3> QED
      BY <2>1, <2>2
  <2>4. ASSUME wrote # None, ~Surrogate(wrote)
        PROVE  wrote \in Seq(Plain \cup {Hi, Lo}) /\ all = wrote /\ ReadTo(r, wrote, pos)
    <3>1. wrote \in Seq(Plain \cup {Hi, Lo}) /\ all = wrote /\ ReadTo(got, wrote, h.pos)
      BY <2>1, <2>4 DEF StringInv
    <3>2. QED
      BY <3>1, ReadOne, Zenon
  <2> HIDE DEF all, pos, r
  <2>5. QED
    BY <2>1, <2>2, <2>3, <2>4 DEF StringInv, Surrogate
<1>5. ASSUME NEW u \in Plain \cup {Hi, Lo}, StringAppendChar(u) PROVE StringInv'
  <2>1. /\ h = [kind |-> "writer", s |-> h.s]
        /\ wrote \in Seq(Plain \cup {Hi, Lo}) /\ h.s = Kept(wrote)
    BY <1>5 DEF StringAppendChar, StringInv
  <2> DEFINE c == IF u \in {Hi, Lo} THEN Replacement ELSE u
  <2>2. h' = [kind |-> "writer", s |-> Append(h.s, c)] /\ wrote' = Append(wrote, u)
    BY <1>5, <2>1 DEF StringAppendChar
  <2>3. wrote' \in Seq(Plain \cup {Hi, Lo})
    BY <2>1, <2>2
  <2>4. Append(Kept(wrote), c) = Kept(Append(wrote, u))
    BY <2>1 DEF Kept
  <2>5. QED
    BY <2>1, <2>2, <2>3, <2>4 DEF StringInv, Kept
<1>6. CASE StringCall
  BY <1>1, <1>2, <1>3, <1>4, <1>5, <1>6 DEF StringCall
<1>7. CASE ArrayCall
  <2>1. CASE ArgsGet
    BY <2>1, StringTake DEF ArgsGet, Take
  <2>2. CASE GetEnvVars
    BY <2>2, StringTake DEF GetEnvVars, Take
  <2>3. CASE BeginReadStringArray
    BY <2>3 DEF BeginReadStringArray, StringInv, Kept, Surrogate
  <2>4. CASE StringArrayReadString
    BY <2>4, StringTake DEF StringArrayReadString, Take, Str
  <2>5. QED
    BY <1>3, <1>4, <1>7, <2>1, <2>2, <2>3, <2>4 DEF ArrayCall
<1>8. CASE EnvCall
  <2> SUFFICES ASSUME NEW k \in Keys, GetEnvVar(k) \/ SetEnvVar(k) \/ UnsetEnvVar(k)
               PROVE  StringInv'
    BY <1>8 DEF EnvCall
  <2>1. CASE GetEnvVar(k)
    BY <2>1, StringTake DEF GetEnvVar, Take, Str
  <2>2. CASE SetEnvVar(k) \/ UnsetEnvVar(k)
    BY <2>2 DEF SetEnvVar, UnsetEnvVar, StringInv, Kept, Surrogate
  <2>3. QED
    BY <2>1, <2>2
<1>9. CASE OutputCall
  <2>1. UNCHANGED <<h, wrote, got>>
    BY <1>9 DEF OutputCall, PrintChar, FdWrite
  <2>2. QED
    BY <2>1 DEF StringInv, Kept, Surrogate
<1>10. QED
  BY <1>6, <1>7, <1>8, <1>9 DEF HostCall

(***************************************************************************)
(* The host: arrays and the environment.                                   *)
(***************************************************************************)

\* The overrides are of some of the keys.
OverlayInv ==
    overrides = [k \in DOMAIN overrides |-> overrides[k]] /\ DOMAIN overrides \subseteq Keys

\* An array is a sequence, and a reader has gone some way through it.
ArrayInv ==
    /\ h.kind = "array" => h.values \in Seq(Range(h.values))
    /\ arr.kind = "array_reader"
          => /\ arr = [kind |-> "array_reader", values |-> arr.values, pos |-> arr.pos]
             /\ arr.values \in Seq(Range(arr.values)) /\ arr.pos \in Nat
             /\ Sentinel \notin Range(arr.values) => ReadTo(list, arr.values, arr.pos)

Valued == {k \in Keys : GuestEnvVar(k) # None}

\* all lists the variables that have a value.
Lists(all, n, a, b) ==
    /\ all \in Seq(Range(all)) /\ Orders(a, n, Valued) /\ Paired(all, n, a, b)
    /\ \A i \in 1..n : b[i] = GuestEnvVar(a[i])

LEMMA EnvListed == ASSUME OverlayInv PROVE \E n, a, b : Lists(GuestEnvVars, n, a, b)
<1> DEFINE set == {k \in DOMAIN overrides : overrides[k] # None}
           own == {k \in Keys : HostEnv[k] # None} \ DOMAIN overrides
           value(k) == IF k \in set THEN overrides[k] ELSE HostEnv[k]
           S == Valued
           n == Cardinality(S)
           a == SetToSeq(S)
           b == [i \in 1..n |-> GuestEnvVar(a[i])]
           all == FlattenSeq([i \in 1..n |-> <<a[i], b[i]>>])
           T == Keys \cup {GuestEnvVar(k) : k \in Keys}
<1>1. set \cup own = S /\ \A k \in S : value(k) = GuestEnvVar(k)
  BY DEF OverlayInv, GuestEnvVar, Valued
<1>2. IsFiniteSet(S)
  BY HostAssumption, FS_Subset DEF Valued
<1>3. Orders(a, n, S)
  <2> HIDE DEF S
  <2> QED
    BY <1>2, SetInOrder
<1>4. GuestEnvVars = FlattenSeq([i \in DOMAIN a |-> <<a[i], value(a[i])>>])
  <2> HIDE DEF S, value
  <2> QED
    BY <1>1 DEF GuestEnvVars, value
<1>5. [i \in DOMAIN a |-> <<a[i], value(a[i])>>] = [i \in 1..n |-> <<a[i], b[i]>>]
  <2> HIDE DEF S, value, n, a
  <2> QED
    BY <1>1, <1>3 DEF Orders
<1>6. GuestEnvVars = all
  BY <1>4, <1>5, Zenon
<1> HIDE DEF a, n, all
<1>7. a \in [1..n -> T] /\ b \in [1..n -> T] /\ n \in Nat
  BY <1>3 DEF Orders, Valued
<1> HIDE DEF S, T
<1>8. all \in Seq(T) /\ Paired(all, n, a, b)
  <2> HIDE DEF b
  <2> QED
    BY <1>7, FlattenPairs, Zenon DEF all
<1>9. all \in Seq(Range(all))
  BY <1>8, InRange
<1>10. \A i \in 1..n : b[i] = GuestEnvVar(a[i])
  OBVIOUS
<1> HIDE DEF b
<1>11. Lists(all, n, a, b)
  BY <1>3, <1>8, <1>9, <1>10, Zenon DEF Lists, S
<1>12. QED
  BY <1>6, <1>11, Zenon

LEMMA OddIndex ==
    ASSUME NEW n \in Nat, NEW j \in 1..(2 * n), j % 2 = 1
    PROVE  \E i \in 1..n : j = 2 * i - 1
<1>1. (j + 1) \div 2 \in 1..n /\ j = 2 * ((j + 1) \div 2) - 1
  OBVIOUS
<1>2. QED
  BY <1>1

LEMMA ListedAgrees ==
    ASSUME NEW n, NEW a, NEW b, Lists(GuestEnvVars, n, a, b) PROVE EnvironmentsAgree
<1> DEFINE all == GuestEnvVars
           at(k) == {i \in DOMAIN all : i % 2 = 1 /\ all[i] = k}
<1>1. /\ n \in Nat /\ a \in [1..n -> Valued]
      /\ all \in Seq(Range(all)) /\ Len(all) = 2 * n
      /\ \A i \in 1..n : all[2 * i - 1] = a[i] /\ all[2 * i] = GuestEnvVar(a[i])
      /\ \A i, j \in 1..n : a[i] = a[j] => i = j
      /\ \A k \in Valued : \E i \in 1..n : a[i] = k
  <2> HIDE DEF all
  <2>1. Lists(all, n, a, b)
    BY DEF all
  <2>2. QED
    BY <2>1 DEF Lists, Orders, Paired
<1>2. DOMAIN all = 1..(2 * n)
  BY <1>1
<1> HIDE DEF all
<1>3. \A k : \A j \in at(k) : \E i \in 1..n : j = 2 * i - 1 /\ a[i] = k
  <2> SUFFICES ASSUME NEW k, NEW j \in at(k) PROVE \E i \in 1..n : j = 2 * i - 1 /\ a[i] = k
    OBVIOUS
  <2>1. j \in 1..(2 * n) /\ j % 2 = 1 /\ all[j] = k
    BY <1>2
  <2>2. PICK i \in 1..n : j = 2 * i - 1
    BY <1>1, <2>1, OddIndex
  <2>3. all[2 * i - 1] = a[i]
    BY <1>1
  <2>4. QED
    BY <2>1, <2>2, <2>3
<1>4. \A i \in 1..n : 2 * i - 1 \in at(a[i])
  BY <1>1, <1>2
<1> HIDE DEF at
<1>5. ASSUME NEW k \in Keys, GuestEnvVar(k) = None PROVE at(k) = {}
  BY <1>1, <1>3, <1>5 DEF Valued
<1>6. ASSUME NEW k \in Keys, GuestEnvVar(k) # None
      PROVE  \E i \in at(k) : at(k) = {i} /\ all[i + 1] = GuestEnvVar(k)
  <2>1. PICK i \in 1..n : a[i] = k
    BY <1>1, <1>6 DEF Valued
  <2>2. 2 * i - 1 \in at(k)
    BY <1>4, <2>1
  <2>3. at(k) = {2 * i - 1}
    <3>1. ASSUME NEW j \in at(k) PROVE j = 2 * i - 1
      <4>1. PICK m \in 1..n : j = 2 * m - 1 /\ a[m] = k
        BY <1>3
      <4>2. m = i
        BY <1>1, <2>1, <4>1
      <4>3. QED
        BY <4>1, <4>2
    <3>2. QED
      BY <2>2, <3>1
  <2>4. all[2 * i - 1 + 1] = GuestEnvVar(k)
    <3>1. 2 * i - 1 + 1 = 2 * i
      OBVIOUS
    <3>2. all[2 * i] = GuestEnvVar(k)
      BY <1>1, <2>1
    <3>3. QED
      BY <3>1, <3>2
  <2>5. QED
    BY <2>2, <2>3, <2>4
<1>7. QED
  BY <1>5, <1>6, Zenon DEF EnvironmentsAgree, all, at

LEMMA OverlayStep == ASSUME OverlayInv, NEW group, HostCall(group) PROVE OverlayInv'
<1>1. ASSUME NEW k \in Keys, NEW v, overrides' = Override(k, v) PROVE OverlayInv'
  BY <1>1 DEF OverlayInv, Override
<1>2. CASE UNCHANGED overrides
  BY <1>2 DEF OverlayInv
<1>3. UNCHANGED overrides \/ \E k \in Keys : SetEnvVar(k) \/ UnsetEnvVar(k)
  <2>1. StringCall => UNCHANGED overrides
    BY DEF StringCall, BeginCreateString, FinishCreateString, BeginReadString, StringReadChar,
           StringAppendChar
  <2>2. ArrayCall => UNCHANGED overrides
    BY DEF ArrayCall, ArgsGet, GetEnvVars, BeginReadStringArray, StringArrayReadString,
           BeginReadString, StringReadChar
  <2>3. EnvCall => UNCHANGED overrides \/ \E k \in Keys : SetEnvVar(k) \/ UnsetEnvVar(k)
    BY DEF EnvCall, GetEnvVar
  <2>4. OutputCall => UNCHANGED overrides
    BY DEF OutputCall, PrintChar, FdWrite
  <2>5. QED
    BY <2>1, <2>2, <2>3, <2>4 DEF HostCall
<1>4. QED
  BY <1>1, <1>2, <1>3 DEF SetEnvVar, UnsetEnvVar

LEMMA ArrayStep == ASSUME StringInv, OverlayInv, ArrayInv, NEW group, HostCall(group) PROVE ArrayInv'
<1> USE DEF strVars, outVars
<1>1. ASSUME UNCHANGED <<arr, list>>,
             h'.kind = "array" => h'.values \in Seq(Range(h'.values))
      PROVE  ArrayInv'
  BY <1>1 DEF ArrayInv, ReadTo
<1>2. CASE BeginCreateString \/ FinishCreateString \/ BeginReadString
  BY <1>1, <1>2 DEF BeginCreateString, FinishCreateString, BeginReadString, Str
<1>3. CASE StringReadChar
  <2>1. h'.kind # "array"
    BY <1>3 DEF StringReadChar, StringInv
  <2>2. QED
    BY <1>1, <1>3, <2>1 DEF StringReadChar
<1>4. ASSUME NEW u \in Plain \cup {Hi, Lo}, StringAppendChar(u) PROVE ArrayInv'
  <2>1. h'.kind # "array"
    BY <1>4 DEF StringAppendChar
  <2>2. QED
    BY <1>1, <1>4, <2>1 DEF StringAppendChar
<1>5. CASE ArgsGet
  BY <1>1, <1>5, HostAssumption DEF ArgsGet, Take
<1>6. CASE GetEnvVars
  <2>1. GuestEnvVars \in Seq(Range(GuestEnvVars))
    BY EnvListed, Zenon DEF Lists
  <2>2. h' = [kind |-> "array", values |-> GuestEnvVars] /\ UNCHANGED <<arr, list>>
    BY <1>6 DEF GetEnvVars, Take
  <2>3. QED
    BY <1>1, <2>1, <2>2
<1>7. CASE BeginReadStringArray
  <2>1. /\ arr' = [kind |-> "array_reader", values |-> h.values, pos |-> 0] /\ list' = <<>>
        /\ h.values \in Seq(Range(h.values)) /\ UNCHANGED h
    BY <1>7 DEF BeginReadStringArray, ArrayInv
  <2>2. ReadTo(<<>>, h.values, 0)
    BY <2>1 DEF ReadTo
  <2>3. QED
    BY <2>1, <2>2 DEF ArrayInv
<1>8. CASE StringArrayReadString
  <2> DEFINE all == arr.values
             done == arr.pos >= Len(all)
             s == IF done THEN Sentinel ELSE all[arr.pos + 1]
  <2>1. /\ arr = [kind |-> "array_reader", values |-> all, pos |-> arr.pos]
        /\ all \in Seq(Range(all)) /\ arr.pos \in Nat
        /\ Sentinel \notin Range(all) => ReadTo(list, all, arr.pos)
    BY <1>8 DEF StringArrayReadString, ArrayInv
  <2>2. /\ arr' = [arr EXCEPT !.pos = IF s = Sentinel THEN Len(all) + 1 ELSE arr.pos + 1]
        /\ list' = IF s = Sentinel THEN list ELSE Append(list, s)
        /\ h' = Str(s)
    BY <1>8 DEF StringArrayReadString, Take
  <2>3. ~done => arr.pos + 1 \in DOMAIN all
    BY <2>1
  <2> HIDE DEF all
  <2>4. /\ arr' = [kind |-> "array_reader", values |-> all, pos |-> arr'.pos]
        /\ arr'.pos = IF s = Sentinel THEN Len(all) + 1 ELSE arr.pos + 1
    BY <2>1, <2>2
  <2>5. arr'.pos \in Nat
    BY <2>1, <2>4
  <2>6. ASSUME Sentinel \notin Range(all) PROVE ReadTo(list', all, arr'.pos)
    <3>1. s = Sentinel <=> done
      BY <2>3, <2>6 DEF Range
    <3>2. /\ arr'.pos = IF done THEN Len(all) + 1 ELSE arr.pos + 1
          /\ list' = IF done THEN list ELSE Append(list, all[arr.pos + 1])
      BY <2>2, <2>4, <3>1
    <3>3. QED
      BY <2>1, <2>6, <3>2, ReadOne, Zenon
  <2>7. QED
    BY <2>1, <2>2, <2>4, <2>5, <2>6 DEF ArrayInv, Str
<1>9. CASE EnvCall
  <2> SUFFICES ASSUME NEW k \in Keys, GetEnvVar(k) \/ SetEnvVar(k) \/ UnsetEnvVar(k)
               PROVE  ArrayInv'
    BY <1>9 DEF EnvCall
  <2>1. CASE GetEnvVar(k)
    BY <1>1, <2>1 DEF GetEnvVar, Take, Str
  <2>2. CASE SetEnvVar(k) \/ UnsetEnvVar(k)
    BY <2>2 DEF SetEnvVar, UnsetEnvVar, ArrayInv, ReadTo
  <2>3. QED
    BY <2>1, <2>2
<1>10. CASE OutputCall
  <2>1. UNCHANGED <<h, arr, list>>
    BY <1>10 DEF OutputCall, PrintChar, FdWrite
  <2>2. QED
    BY <2>1 DEF ArrayInv, ReadTo
<1>11. QED
  BY <1>2, <1>3, <1>4, <1>5, <1>6, <1>7, <1>8, <1>9, <1>10 DEF HostCall, StringCall, ArrayCall

LEMMA ReadBack == ASSUME StringInv, ArrayInv PROVE HandlesReadBack
<1>1. ASSUME h.kind = "reader", h.pos > Len(h.chars), wrote # None, ~Surrogate(wrote)
      PROVE  got = wrote
  <2>1. wrote \in Seq(Plain \cup {Hi, Lo}) /\ ReadTo(got, wrote, h.pos) /\ h.chars = wrote
    BY <1>1 DEF StringInv
  <2>2. QED
    BY <1>1, <2>1 DEF ReadTo
<1>2. ASSUME arr.kind = "array_reader", arr.pos > Len(arr.values), Sentinel \notin Range(arr.values)
      PROVE  list = arr.values
  <2>1. arr.values \in Seq(Range(arr.values)) /\ ReadTo(list, arr.values, arr.pos)
    BY <1>2 DEF ArrayInv
  <2>2. QED
    BY <1>2, <2>1 DEF ReadTo
<1>3. QED
  BY <1>1, <1>2 DEF HandlesReadBack, Surrogate

(***************************************************************************)
(* The host: output.                                                       *)
(***************************************************************************)

Text == Plain \cup {Newline} \cup UNION {Range(v) : v \in UNION {Range(iovs) \ {BadIov} : iovs \in Writes}}
Line == [by : {"char", "fd"}, fd : {1, 2}, line : Seq(Text)]

\* The bytes of fd_write among the lines p.
Of(e) == IF e.by = "fd" THEN Append(e.line, Newline) ELSE <<>>
Shown(p) == FlattenSeq([i \in DOMAIN p |-> Of(p[i])])

OutputInv ==
    /\ printed \in Seq(Line) /\ line_utf16 \in Seq(Text) /\ stdout_bytes \in Seq(Text)
    /\ sent \in Seq([fd : {1, 2}, b : Text])
    /\ Shown(printed) \o stdout_bytes = [i \in DOMAIN sent |-> sent[i].b]

LEMMA OfType == ASSUME NEW e \in Line PROVE Of(e) \in Seq(Text)
<1>1. e.line \in Seq(Text) /\ Newline \in Text
  BY DEF Line, Text
<1>2. QED
  BY <1>1 DEF Of

LEMMA ShownType == ASSUME NEW p \in Seq(Line) PROVE Shown(p) \in Seq(Text)
<1> DEFINE all == [i \in DOMAIN p |-> Of(p[i])]
<1>1. DOMAIN p = 1..Len(p) /\ Len(p) \in Nat /\ \A i \in DOMAIN p : p[i] \in Line
  OBVIOUS
<1>2. \A i \in DOMAIN p : Of(p[i]) \in Seq(Text)
  BY <1>1, OfType
<1>3. all \in [1..Len(p) -> Seq(Text)]
  BY <1>1, <1>2, Zenon
<1>4. all \in Seq(Seq(Text))
  BY <1>1, <1>3
<1>5. QED
  BY <1>4, FlattenType, Zenon DEF Shown

LEMMA ShownAppend ==
    ASSUME NEW p \in Seq(Line), NEW e \in Line
    PROVE  Shown(Append(p, e)) = Shown(p) \o Of(e)
<1> DEFINE all == [i \in DOMAIN p |-> Of(p[i])]
<1>1. DOMAIN p = 1..Len(p) /\ Len(p) \in Nat /\ \A i \in DOMAIN p : p[i] \in Line
  OBVIOUS
<1>2. Of(e) \in Seq(Text) /\ \A i \in DOMAIN p : Of(p[i]) \in Seq(Text)
  BY <1>1, OfType
<1>3. all \in [1..Len(p) -> Seq(Text)]
  BY <1>1, <1>2, Zenon
<1>4. all \in Seq(Seq(Text))
  BY <1>1, <1>3
<1>5. [i \in DOMAIN Append(p, e) |-> Of(Append(p, e)[i])] = Append(all, Of(e))
  OBVIOUS
<1>6. FlattenSeq(Append(all, Of(e))) = FlattenSeq(all) \o Of(e)
  BY <1>2, <1>4, FlattenAppend, Zenon
<1>7. QED
  BY <1>5, <1>6, Zenon DEF Shown

\* One byte drained.
Fed(fd, acc, c) ==
    IF c = Newline
    THEN [buf |-> <<>>, out |-> Append(acc.out, [by |-> "fd", fd |-> fd, line |-> acc.buf])]
    ELSE [acc EXCEPT !.buf = Append(@, c)]

Drained == [buf : Seq(Text), out : Seq(Line)]
All(acc) == Shown(acc.out) \o acc.buf

LEMMA FedOne ==
    ASSUME NEW fd \in {1, 2}, NEW acc \in Drained, NEW c \in Text
    PROVE  Fed(fd, acc, c) \in Drained /\ All(Fed(fd, acc, c)) = All(acc) \o <<c>>
<1>1. acc.buf \in Seq(Text) /\ acc.out \in Seq(Line)
  BY DEF Drained
<1> DEFINE e == [by |-> "fd", fd |-> fd, line |-> acc.buf]
<1>2. e \in Line /\ Of(e) = Append(acc.buf, Newline)
  BY <1>1 DEF Line, Of
<1>3. Shown(acc.out) \in Seq(Text) /\ Shown(Append(acc.out, e)) = Shown(acc.out) \o Of(e)
  BY <1>1, <1>2, ShownType, ShownAppend, Zenon
<1> HIDE DEF e
<1>4. CASE c = Newline
  <2>1. Fed(fd, acc, c) = [buf |-> <<>>, out |-> Append(acc.out, e)]
    BY <1>4 DEF Fed, e
  <2>2. Append(acc.out, e) \in Seq(Line)
    BY <1>1, <1>2
  <2>3. Fed(fd, acc, c) \in Drained
    BY <2>1, <2>2 DEF Drained
  <2>4. All(Fed(fd, acc, c)) = (Shown(acc.out) \o Append(acc.buf, Newline)) \o <<>>
    <3>1. Fed(fd, acc, c).out = Append(acc.out, e) /\ Fed(fd, acc, c).buf = <<>>
      BY <2>1
    <3>2. QED
      BY <1>2, <1>3, <3>1, Zenon DEF All
  <2> DEFINE s == Shown(acc.out)
             t == acc.buf
  <2>5. (s \o Append(t, Newline)) \o <<>> = (s \o t) \o <<Newline>>
    <3>1. s \in Seq(Text) /\ t \in Seq(Text) /\ Newline \in Text
      BY <1>1, <1>3 DEF Text
    <3> HIDE DEF s, t
    <3>2. QED
      BY <3>1
  <2>6. QED
    BY <1>4, <2>3, <2>4, <2>5 DEF All
<1>5. CASE c # Newline
  <2>1. Fed(fd, acc, c) = [buf |-> Append(acc.buf, c), out |-> acc.out]
    BY <1>5 DEF Fed, Drained
  <2>2. Fed(fd, acc, c) \in Drained
    BY <1>1, <2>1 DEF Drained
  <2>3. All(Fed(fd, acc, c)) = Shown(acc.out) \o Append(acc.buf, c)
    <3>1. Fed(fd, acc, c).out = acc.out /\ Fed(fd, acc, c).buf = Append(acc.buf, c)
      BY <2>1
    <3>2. QED
      BY <3>1, Zenon DEF All
  <2> DEFINE s == Shown(acc.out)
             t == acc.buf
  <2>4. s \o Append(t, c) = (s \o t) \o <<c>>
    <3>1. s \in Seq(Text) /\ t \in Seq(Text)
      BY <1>1, <1>3
    <3> HIDE DEF s, t
    <3>2. QED
      BY <3>1
  <2>5. QED
    BY <2>2, <2>3, <2>4 DEF All
<1>6. QED
  BY <1>4, <1>5

LEMMA DrainAll ==
    ASSUME printed \in Seq(Line), stdout_bytes \in Seq(Text),
           NEW fd \in {1, 2}, NEW payload \in Seq(Text)
    PROVE  /\ Drain(fd, payload) \in Drained
           /\ All(Drain(fd, payload)) = (Shown(printed) \o stdout_bytes) \o payload
<1> DEFINE n == Len(payload)
           base == [buf |-> stdout_bytes, out |-> printed]
           step == [p \in (1..n) \X Drained |-> Fed(fd, p[2], payload[p[1]])]
           Is(d) == d = [i \in 0..n |-> IF i = 0 THEN base ELSE Fed(fd, d[i - 1], payload[i])]
           d == CHOOSE d : Is(d)
<1>1. n \in Nat /\ base \in Drained
  BY DEF Drained
<1>2. \A i \in 1..n : payload[i] \in Text
  OBVIOUS
<1>3. step \in [(1..n) \X Drained -> Drained]
  <2>1. \A p \in (1..n) \X Drained : Fed(fd, p[2], payload[p[1]]) \in Drained
    BY <1>2, FedOne
  <2>2. QED
    BY <2>1
<1>4. \A i \in 1..n, x \in Drained : step[<<i, x>>] = Fed(fd, x, payload[i])
  OBVIOUS
<1>5. Drain(fd, payload) = d[n]
  BY DEF Drain, Fed
<1> HIDE DEF step, base, n
<1>6. PICK g \in [0..n -> Drained] : Recurs(g, base, step, n)
  BY <1>1, <1>3, RecursionExists
<1>7. \A i \in 1..n : g[i] = Fed(fd, g[i - 1], payload[i])
  <2> SUFFICES ASSUME NEW i \in 1..n PROVE g[i] = Fed(fd, g[i - 1], payload[i])
    OBVIOUS
  <2>1. g[i - 1] \in Drained
    BY <1>1
  <2>2. g[i] = step[<<i, g[i - 1]>>]
    BY <1>6 DEF Recurs
  <2>3. QED
    BY <1>4, <2>1, <2>2
<1>8. g[0] = base
  BY <1>6 DEF Recurs
<1>9. Is(g)
  <2>1. \A i \in 0..n : g[i] = IF i = 0 THEN base ELSE Fed(fd, g[i - 1], payload[i])
    BY <1>1, <1>7, <1>8
  <2>2. QED
    BY <2>1
<1>10. Is(d)
  BY <1>9
<1> HIDE DEF d
<1>11. d[0] = base /\ \A i \in 1..n : d[i] = Fed(fd, d[i - 1], payload[i])
  <2>1. \A i \in 0..n : d[i] = IF i = 0 THEN base ELSE Fed(fd, d[i - 1], payload[i])
    BY <1>10
  <2>2. QED
    BY <1>1, <2>1
<1> DEFINE before == Shown(printed) \o stdout_bytes
           S == {k \in Nat : k <= n => d[k] \in Drained /\ All(d[k]) = before \o SubSeq(payload, 1, k)}
<1>12. Shown(printed) \in Seq(Text)
  BY ShownType
<1>13. before \in Seq(Text) /\ All(base) = before
  BY <1>12 DEF All, base
<1> HIDE DEF before
<1>14. 0 \in S
  <2>1. SubSeq(payload, 1, 0) = <<>>
    OBVIOUS
  <2>2. before \o <<>> = before
    BY <1>13
  <2>3. QED
    BY <1>1, <1>11, <1>13, <2>1, <2>2
<1>15. ASSUME NEW k \in Nat, k \in S PROVE k + 1 \in S
  <2> SUFFICES ASSUME k + 1 <= n
               PROVE  /\ d[k + 1] \in Drained
                      /\ All(d[k + 1]) = before \o SubSeq(payload, 1, k + 1)
    OBVIOUS
  <2> DEFINE c == payload[k + 1]
             s == SubSeq(payload, 1, k)
  <2>1. k + 1 \in 1..n /\ k + 1 - 1 = k /\ k \in 0..n
    BY <1>1
  <2>2. d[k] \in Drained /\ All(d[k]) = before \o s
    BY <1>15, <2>1
  <2>3. d[k + 1] = Fed(fd, d[k], c)
    BY <1>11, <2>1
  <2>4. c \in Text
    BY <1>2, <2>1
  <2>5. d[k + 1] \in Drained /\ All(d[k + 1]) = All(d[k]) \o <<c>>
    BY <2>2, <2>3, <2>4, FedOne, Zenon
  <2>6. SubSeq(payload, 1, k + 1) = s \o <<c>> /\ s \in Seq(Text)
    BY <2>1 DEF n
  <2>7. (before \o s) \o <<c>> = before \o (s \o <<c>>)
    <3>1. before \in Seq(Text) /\ s \in Seq(Text) /\ <<c>> \in Seq(Text)
      BY <1>13, <2>4, <2>6
    <3>2. Associative(Text)
      BY Associates, Zenon
    <3>3. QED
      BY <3>1, <3>2, Zenon DEF Associative
  <2>8. QED
    BY <2>2, <2>5, <2>6, <2>7, Zenon
<1>16. Nat \subseteq S
  <2> HIDE DEF S
  <2> QED
    BY <1>14, <1>15, Induction
<1>17. d[n] \in Drained /\ All(d[n]) = before \o SubSeq(payload, 1, n)
  BY <1>1, <1>16
<1>18. SubSeq(payload, 1, n) = payload
  BY DEF n
<1>19. QED
  BY <1>5, <1>17, <1>18, Zenon DEF before

LEMMA BytesType == ASSUME NEW iovs \in Writes, BadIov \notin Range(iovs) PROVE Bytes(iovs) \in Seq(Text)
<1>1. iovs \in Seq(Range(iovs)) /\ \A v \in Range(iovs) : v \in Seq(Range(v))
  BY HostAssumption
<1>2. ASSUME NEW v \in Range(iovs) PROVE v \in Seq(Text)
  <2>1. v \in Seq(Range(v)) /\ Range(v) \subseteq Text
    BY <1>1 DEF Text
  <2>2. QED
    BY <2>1 DEF Range
<1>3. iovs \in Seq(Seq(Text))
  <2>1. \A i \in 1..Len(iovs) : iovs[i] \in Seq(Text)
    BY <1>1, <1>2
  <2>2. QED
    BY <1>1, <2>1
<1>4. QED
  BY <1>3, FlattenType, Zenon DEF Bytes

\* The bytes of a sequence of sent ones.
Seen(s) == [i \in DOMAIN s |-> s[i].b]

\* t is s and m.
Both(t, s, m) ==
    /\ DOMAIN t = 1..(Len(s) + Len(m))
    /\ \A i \in 1..Len(s) : t[i] = s[i]
    /\ \A i \in 1..Len(m) : t[Len(s) + i] = m[i]

LEMMA BothConcat ==
    ASSUME NEW T, NEW s \in Seq(T), NEW m \in Seq(T)
    PROVE  s \o m \in Seq(T) /\ Both(s \o m, s, m)
BY ConcatProperties DEF Both

LEMMA SeenMore ==
    ASSUME NEW s \in Seq([fd : {1, 2}, b : Text]), NEW fd \in {1, 2}, NEW payload \in Seq(Text),
           NEW more, more = [i \in DOMAIN payload |-> [fd |-> fd, b |-> payload[i]]]
    PROVE  /\ s \o more \in Seq([fd : {1, 2}, b : Text])
           /\ Seen(s \o more) = Seen(s) \o payload
<1> DEFINE B == [fd : {1, 2}, b : Text]
           n == Len(s)
           k == Len(payload)
<1>1. n \in Nat /\ k \in Nat /\ DOMAIN s = 1..n /\ DOMAIN payload = 1..k
  OBVIOUS
<1>2. more \in Seq(B) /\ Len(more) = k /\ \A i \in 1..k : more[i].b = payload[i]
  <2>1. \A i \in 1..k : payload[i] \in Text
    OBVIOUS
  <2> HIDE DEF k
  <2>2. /\ more = [i \in 1..k |-> [fd |-> fd, b |-> payload[i]]]
        /\ \A i \in 1..k : [fd |-> fd, b |-> payload[i]] \in B
    BY <1>1, <2>1
  <2> HIDE DEF B
  <2>3. more \in [1..k -> B] /\ \A i \in 1..k : more[i].b = payload[i]
    BY <2>2
  <2>4. QED
    BY <1>1, <2>3
<1>3. Seen(s) \in Seq(Text) /\ Len(Seen(s)) = n /\ \A i \in 1..n : Seen(s)[i] = s[i].b
  <2>1. \A i \in 1..n : s[i] \in B
    <3> HIDE DEF B
    <3>1. s \in Seq(B)
      BY DEF B
    <3>2. QED
      BY <3>1
  <2>2. \A i \in 1..n : s[i].b \in Text
    BY <2>1
  <2>3. QED
    BY <1>1, <2>2 DEF Seen
<1> DEFINE t == s \o more
           r == Seen(s) \o payload
<1>4. t \in Seq(B) /\ Both(t, s, more)
  BY <1>2, BothConcat, Zenon
<1>5. Both(r, Seen(s), payload)
  BY <1>3, BothConcat, Zenon
<1>6. r = [i \in DOMAIN r |-> r[i]]
  <2>1. r \in Seq(Text)
    BY <1>3, BothConcat, Zenon
  <2> HIDE DEF r
  <2>2. QED
    BY <2>1
<1> HIDE DEF t, r, n, k
<1>7. DOMAIN t = 1..(n + k) /\ DOMAIN r = 1..(n + k)
  BY <1>2, <1>3, <1>4, <1>5, Zenon DEF Both, n, k
<1>8. ASSUME NEW i \in 1..(n + k) PROVE t[i].b = r[i]
  <2>1. CASE i \in 1..n
    <3>1. t[i] = s[i] /\ r[i] = Seen(s)[i] /\ Seen(s)[i] = s[i].b
      BY <1>3, <1>4, <1>5, <2>1, Zenon DEF Both, n
    <3>2. QED
      BY <3>1, Zenon
  <2>2. CASE i \notin 1..n
    <3> DEFINE j == i - n
    <3>1. j \in 1..k /\ i = n + j
      BY <1>1, <2>2
    <3> HIDE DEF j
    <3>2. t[n + j] = more[j] /\ r[n + j] = payload[j] /\ more[j].b = payload[j]
      BY <1>2, <1>3, <1>4, <1>5, <3>1, Zenon DEF Both, n, k
    <3>3. QED
      BY <3>1, <3>2, Zenon
  <2>3. QED
    BY <2>1, <2>2
<1>9. Seen(t) = r
  <2>1. Seen(t) = [i \in 1..(n + k) |-> r[i]]
    BY <1>7, <1>8 DEF Seen
  <2>2. QED
    BY <1>6, <1>7, <2>1, Zenon
<1>10. QED
  BY <1>4, <1>9, Zenon DEF t, r, B

LEMMA OutputStep == ASSUME OutputInv, NEW group, HostCall(group) PROVE OutputInv'
<1> USE DEF strVars, outVars
<1>1. CASE UNCHANGED outVars
  BY <1>1 DEF OutputInv, Shown, Of
<1>2. ASSUME NEW u \in Plain \cup {Newline}, PrintChar(u) PROVE OutputInv'
  <2>1. UNCHANGED <<stdout_bytes, sent>>
    BY <1>2 DEF PrintChar
  <2>2. CASE u # Newline
    <3>1. line_utf16' = Append(line_utf16, u) /\ UNCHANGED printed
      BY <1>2, <2>2 DEF PrintChar
    <3>2. line_utf16' \in Seq(Text)
      BY <3>1 DEF OutputInv, Text
    <3>3. QED
      BY <2>1, <3>1, <3>2 DEF OutputInv, Shown, Of
  <2>3. CASE u = Newline
    <3> DEFINE e == [by |-> "char", fd |-> 1, line |-> line_utf16]
    <3>1. printed' = Append(printed, e) /\ line_utf16' = <<>>
      BY <1>2, <2>3 DEF PrintChar
    <3>2. e \in Line /\ Of(e) = <<>>
      BY DEF OutputInv, Line, Of
    <3> HIDE DEF e
    <3>3. Shown(printed') = Shown(printed) \o <<>>
      BY <3>1, <3>2, ShownAppend, Zenon DEF OutputInv
    <3>4. Shown(printed) \in Seq(Text)
      BY ShownType DEF OutputInv
    <3>5. Shown(printed') = Shown(printed)
      BY <3>3, <3>4
    <3>6. printed' \in Seq(Line)
      BY <3>1, <3>2 DEF OutputInv
    <3>7. Shown(printed') \o stdout_bytes' = [i \in DOMAIN sent' |-> sent'[i].b]
      BY <2>1, <3>5, Zenon DEF OutputInv
    <3>8. line_utf16' \in Seq(Text)
      BY <3>1
    <3>9. QED
      BY <2>1, <3>6, <3>7, <3>8, Zenon DEF OutputInv, Shown, Of
  <2>4. QED
    BY <2>2, <2>3
<1>3. ASSUME NEW fd \in {1, 2}, NEW iovs \in Writes, FdWrite(fd, iovs) PROVE OutputInv'
  <2>1. CASE BadIov \in Range(iovs)
    BY <1>1, <1>3, <2>1 DEF FdWrite
  <2>2. CASE BadIov \notin Range(iovs)
    <3> DEFINE payload == Bytes(iovs)
               d == Drain(fd, payload)
               more == [i \in DOMAIN payload |-> [fd |-> fd, b |-> payload[i]]]
    <3>1. stdout_bytes' = d.buf /\ printed' = d.out /\ sent' = sent \o more /\ UNCHANGED line_utf16
      BY <1>3, <2>2 DEF FdWrite
    <3>2. payload \in Seq(Text)
      BY <2>2, BytesType
    <3> HIDE DEF payload
    <3>3. d \in Drained /\ All(d) = (Shown(printed) \o stdout_bytes) \o payload
      BY <3>2, DrainAll DEF OutputInv
    <3>4. sent' \in Seq([fd : {1, 2}, b : Text]) /\ Seen(sent') = Seen(sent) \o payload
      BY <3>1, <3>2, SeenMore, Zenon DEF OutputInv
    <3> HIDE DEF d, more
    <3>5. printed' \in Seq(Line) /\ stdout_bytes' \in Seq(Text)
      BY <3>1, <3>3 DEF Drained
    <3>6. Shown(printed') \o stdout_bytes' = Seen(sent')
      BY <3>1, <3>3, <3>4, Zenon DEF All, OutputInv, Seen
    <3>7. line_utf16' \in Seq(Text)
      BY <3>1, Zenon DEF OutputInv
    <3>8. QED
      BY <3>4, <3>5, <3>6, <3>7, Zenon DEF OutputInv, Seen, Shown, Of
  <2>3. QED
    BY <2>1, <2>2
<1>4. StringCall => UNCHANGED outVars
  BY DEF StringCall, BeginCreateString, FinishCreateString, BeginReadString, StringReadChar,
         StringAppendChar
<1>5. ArrayCall => UNCHANGED outVars
  BY DEF ArrayCall, ArgsGet, GetEnvVars, BeginReadStringArray, StringArrayReadString,
         BeginReadString, StringReadChar
<1>6. EnvCall => UNCHANGED outVars
  BY DEF EnvCall, GetEnvVar, SetEnvVar, UnsetEnvVar
<1>7. QED
  BY <1>1, <1>2, <1>3, <1>4, <1>5, <1>6 DEF HostCall, OutputCall

HostInv == StringInv /\ OverlayInv /\ ArrayInv /\ OutputInv

LEMMA HostInvInit == HostInit => HostInv
<1> SUFFICES ASSUME HostInit PROVE HostInv
  OBVIOUS
<1> USE DEF HostInit, Null
<1>1. StringInv
  BY DEF StringInv
<1>2. OverlayInv
  BY DEF OverlayInv
<1>3. ArrayInv
  BY DEF ArrayInv
<1>4. OutputInv
  <2>1. Shown(<<>>) = <<>>
    <3>1. [i \in DOMAIN <<>> |-> Of(<<>>[i])] = <<>>
      OBVIOUS
    <3>2. QED
      BY <3>1, FlattenEmpty, Zenon DEF Shown
  <2>2. <<>> \o <<>> = [i \in DOMAIN <<>> |-> <<>>[i].b]
    OBVIOUS
  <2>3. /\ <<>> \in Seq(Line) /\ <<>> \in Seq(Text)
        /\ <<>> \in Seq([fd : {1, 2}, b : Text])
    OBVIOUS
  <2>4. QED
    BY <2>1, <2>2, <2>3, Zenon DEF OutputInv
<1>5. QED
  BY <1>1, <1>2, <1>3, <1>4 DEF HostInv

LEMMA HostInvStep == HostInv /\ (UNCHANGED hostVars \/ \E group : HostCall(group)) => HostInv'
<1>1. HostInv /\ UNCHANGED hostVars => HostInv'
  BY DEF HostInv, hostVars, strVars, outVars, StringInv, OverlayInv, ArrayInv, OutputInv,
         Kept, Surrogate, ReadTo, Shown, Of
<1>2. ASSUME HostInv, NEW group, HostCall(group) PROVE HostInv'
  BY <1>2, StringStep, OverlayStep, ArrayStep, OutputStep DEF HostInv
<1>3. QED
  BY <1>1, <1>2

LEMMA HostNext == [Next]_vars => UNCHANGED hostVars \/ \E group : HostCall(group)
BY DEF Next, vars, Const, Allocate, Enter, Leave, Added, CallHook, Malloc, Host, Trap, HostTrap,
       Again, WriteProfile

\* The host's objects are what the guest fed to them, less what it took out.
THEOREM HostInvariant == Spec => []HostInv
<1>1. Init => HostInv
  BY HostInvInit DEF Init
<1>2. HostInv /\ [Next]_vars => HostInv'
  BY HostInvStep, HostNext
<1>3. QED
  BY <1>1, <1>2, PTL DEF Spec

\* HandlesReadBack: a string built and read unit by unit, through a Rust string
\* and back, and an array read to the sentinel, come back as they were.
THEOREM ReadBackKept == Spec => []HandlesReadBack
<1>1. HostInv => HandlesReadBack
  BY ReadBack DEF HostInv
<1>2. QED
  BY <1>1, HostInvariant, PTL

\* EnvironmentsAgree: after any sets and unsets, the list of all variables and
\* the query for one give the same value, or none, for every key.
THEOREM EnvironmentAgrees == Spec => []EnvironmentsAgree
<1>1. HostInv => EnvironmentsAgree
  BY EnvListed, ListedAgrees DEF HostInv
<1>2. QED
  BY <1>1, HostInvariant, PTL

\* OutputInOrder: what fd_write has printed and what it still holds are the
\* bytes it was given, each once and in order, however writes split the lines.
THEOREM OutputOrdered == Spec => []OutputInOrder
<1>1. HostInv => OutputInOrder
  BY Zenon DEF HostInv, OutputInv, OutputInOrder, Shown, Of
<1>2. QED
  BY <1>1, HostInvariant, PTL

(***************************************************************************)
(* The rewriting, one instruction after the other.                         *)
(***************************************************************************)

\* The instructions of the rewritten module.
NewCode == Code \cup UNION {Range(RewriteOne(i)) : i \in Code}

SetI == [op |-> "set"]
GetI == [op |-> "get"]
MulI == [op |-> "mul"]
HookI == [op |-> "hook"]
PushI(v) == [op |-> "push", v |-> v]

IsStatic(i) == i.op \in {"struct", "fixed"} /\ Signed(Wrap(StaticSize(i))) > 0
IsDynamic(i) == i.op = "array" /\ i.elem \in Nat \ {0}

AddedOps == {"push", "set", "get", "mul", "hook"}

\* An instruction without a hook before it, of no or negative size if it is one
\* of those that could have one.
IsPlain(i) ==
    /\ i.op \notin AddedOps
    /\ i.op \in {"struct", "fixed"} => ~(Signed(Wrap(StaticSize(i))) > 0)
    /\ i.op = "array" => i.elem = 0

LEMMA CodeType == ASSUME NEW i \in Code PROVE IsInstr(i)
BY MemprofileAssumption DEF Code

LEMMA SeqsType == ASSUME NEW s \in DOMAIN Seqs PROVE Seqs[s] \in Seq(Code)
<1>1. Seqs[s] \in Seq(Range(Seqs[s])) /\ Range(Seqs[s]) \subseteq Code
  BY MemprofileAssumption DEF Code
<1>2. QED
  BY <1>1

\* A tuple with one more.
LEMMA AppendedTo ==
    ASSUME NEW T, NEW s \in Seq(T), NEW i \in T, NEW t \in Seq(T), Len(t) = Len(s) + 1,
           \A k \in 1..Len(s) : t[k] = s[k], t[Len(s) + 1] = i
    PROVE  Append(s, i) = t
<1> DEFINE u == Append(s, i)
<1>1. u \in Seq(T) /\ Len(u) = Len(s) + 1 /\ Len(s) \in Nat
  OBVIOUS
<1>2. \A k \in 1..Len(s) : u[k] = s[k]
  OBVIOUS
<1>3. u[Len(s) + 1] = i
  OBVIOUS
<1> HIDE DEF u
<1>4. \A k \in 1..Len(u) : u[k] = t[k]
  BY <1>1, <1>2, <1>3
<1>5. u = t
  BY <1>1, <1>4
<1>6. QED
  BY <1>5 DEF u

LEMMA AppendTwo ==
    ASSUME NEW a, NEW b, NEW i
    PROVE  Append(<<a, b>>, i) = <<a, b, i>>
<1> DEFINE s == <<a, b>>
           t == <<a, b, i>>
           T == {a, b, i}
<1>1. s \in Seq(T) /\ t \in Seq(T) /\ Len(s) = 2 /\ Len(t) = 3 /\ i \in T
  OBVIOUS
<1>2. t[1] = s[1] /\ t[2] = s[2] /\ t[3] = i
  OBVIOUS
<1> HIDE DEF s, t, T
<1>3. Append(s, i) = t
  <2>1. Len(t) = Len(s) + 1 /\ (\A k \in 1..Len(s) : t[k] = s[k]) /\ t[Len(s) + 1] = i
    BY <1>1, <1>2
  <2>2. QED
    BY <1>1, <2>1, AppendedTo, Zenon
<1>4. QED
  BY <1>3 DEF s, t

LEMMA AppendSix ==
    ASSUME NEW a, NEW b, NEW c, NEW d, NEW e, NEW f, NEW i
    PROVE  Append(<<a, b, c, d, e, f>>, i) = <<a, b, c, d, e, f, i>>
<1> DEFINE s == <<a, b, c, d, e, f>>
           t == <<a, b, c, d, e, f, i>>
           T == {a, b, c, d, e, f, i}
<1>1. s \in Seq(T) /\ t \in Seq(T) /\ Len(s) = 6 /\ Len(t) = 7 /\ i \in T
  OBVIOUS
<1>2. /\ t[1] = s[1] /\ t[2] = s[2] /\ t[3] = s[3] /\ t[4] = s[4] /\ t[5] = s[5]
      /\ t[6] = s[6] /\ t[7] = i
  OBVIOUS
<1> HIDE DEF s, t, T
<1>3. Append(s, i) = t
  <2>1. Len(t) = Len(s) + 1 /\ (\A k \in 1..Len(s) : t[k] = s[k]) /\ t[Len(s) + 1] = i
    BY <1>1, <1>2
  <2>2. QED
    BY <1>1, <2>1, AppendedTo, Zenon
<1>4. QED
  BY <1>3 DEF s, t

\* How an instruction is rewritten.
LEMMA Kinds ==
    ASSUME NEW i \in Code
    PROVE  \/ IsPlain(i) /\ RewriteOne(i) = <<i>>
           \/ IsStatic(i) /\ RewriteOne(i) = <<PushI(Wrap(StaticSize(i))), HookI, i>>
           \/ IsDynamic(i) /\ RewriteOne(i) = <<SetI, PushI(i.elem), GetI, MulI, HookI, GetI, i>>
<1>1. IsInstr(i)
  BY CodeType
<1>2. CASE i.op \in {"struct", "fixed"}
  <2>1. RewriteOne(i) = Append(IF Signed(Wrap(StaticSize(i))) > 0
                               THEN StaticHook(StaticSize(i)) ELSE <<>>, i)
    BY <1>2 DEF RewriteOne
  <2>2. CASE Signed(Wrap(StaticSize(i))) > 0
    <3>1. RewriteOne(i) = Append(<<PushI(Wrap(StaticSize(i))), HookI>>, i)
      BY <2>1, <2>2, Zenon DEF StaticHook, PushI, HookI
    <3>2. RewriteOne(i) = <<PushI(Wrap(StaticSize(i))), HookI, i>>
      BY <3>1, AppendTwo, Zenon
    <3>3. QED
      BY <1>2, <2>2, <3>2, Zenon DEF IsStatic
  <2>3. CASE ~(Signed(Wrap(StaticSize(i))) > 0)
    <3>1. RewriteOne(i) = Append(<<>>, i)
      BY <2>1, <2>3, Zenon
    <3>2. QED
      BY <1>2, <2>3, <3>1 DEF IsPlain, AddedOps
  <2>4. QED
    BY <2>2, <2>3
<1>3. CASE i.op = "array"
  <2>1. i.elem \in Nat
    BY <1>1, <1>3 DEF IsInstr
  <2>2. RewriteOne(i) = Append(IF i.elem > 0 THEN DynamicHook(i.elem) ELSE <<>>, i)
    BY <1>3 DEF RewriteOne
  <2>3. CASE i.elem > 0
    <3>1. RewriteOne(i) = Append(<<SetI, PushI(i.elem), GetI, MulI, HookI, GetI>>, i)
      BY <2>2, <2>3, Zenon DEF DynamicHook, SetI, PushI, GetI, MulI, HookI
    <3>2. RewriteOne(i) = <<SetI, PushI(i.elem), GetI, MulI, HookI, GetI, i>>
      BY <3>1, AppendSix, Zenon
    <3>3. IsDynamic(i)
      BY <1>3, <2>1, <2>3 DEF IsDynamic
    <3>4. QED
      BY <3>2, <3>3, Zenon
  <2>4. CASE ~(i.elem > 0)
    <3>1. RewriteOne(i) = Append(<<>>, i)
      BY <2>2, <2>4, Zenon
    <3>2. QED
      BY <1>3, <2>1, <2>4, <3>1 DEF IsPlain, AddedOps
  <2>5. QED
    BY <2>3, <2>4
<1>4. CASE i.op \notin {"struct", "fixed", "array"}
  <2>1. RewriteOne(i) = <<i>>
    BY <1>4 DEF RewriteOne
  <2>2. i.op \notin AddedOps
    BY <1>1 DEF IsInstr, AddedOps
  <2>3. QED
    BY <1>4, <2>1, <2>2 DEF IsPlain
<1>5. QED
  BY <1>2, <1>3, <1>4

LEMMA OneType == ASSUME NEW i \in Code PROVE RewriteOne(i) \in Seq(NewCode) \ {<<>>}
<1>1. \E n \in Nat \ {0} : DOMAIN RewriteOne(i) = 1..n /\ RewriteOne(i) \in Seq(Range(RewriteOne(i)))
  <2> DEFINE r == RewriteOne(i)
  <2>1. ASSUME NEW x, r = <<x>> PROVE DOMAIN r = 1..1 /\ r \in Seq(Range(r))
    BY <2>1 DEF Range
  <2>2. ASSUME NEW x, NEW y, NEW z, r = <<x, y, z>> PROVE DOMAIN r = 1..3 /\ r \in Seq(Range(r))
    BY <2>2 DEF Range
  <2>3. ASSUME NEW a, NEW b, NEW c, NEW d, NEW e, NEW f, NEW g, r = <<a, b, c, d, e, f, g>>
        PROVE  DOMAIN r = 1..7 /\ r \in Seq(Range(r))
    BY <2>3 DEF Range
  <2> HIDE DEF r
  <2>4. (DOMAIN r = 1..1 \/ DOMAIN r = 1..3 \/ DOMAIN r = 1..7) /\ r \in Seq(Range(r))
    <3>1. CASE IsPlain(i) /\ r = <<i>>
      BY <2>1, <3>1
    <3>2. CASE IsStatic(i) /\ r = <<PushI(Wrap(StaticSize(i))), HookI, i>>
      BY <2>2, <3>2
    <3>3. CASE IsDynamic(i) /\ r = <<SetI, PushI(i.elem), GetI, MulI, HookI, GetI, i>>
      BY <2>3, <3>3
    <3>4. QED
      BY <3>1, <3>2, <3>3, Kinds DEF r
  <2>5. QED
    BY <2>4 DEF r
<1>2. Range(RewriteOne(i)) \subseteq NewCode
  BY DEF NewCode
<1> DEFINE r == RewriteOne(i)
<1> HIDE DEF r
<1>3. r \in Seq(Range(r)) /\ r # <<>>
  BY <1>1 DEF r
<1>4. r \in Seq(NewCode)
  BY <1>2, <1>3 DEF r
<1>5. QED
  BY <1>3, <1>4 DEF r

\* What is left of a sequence when an instruction of the original begins.
Aligned == {Rewritten(rest) : rest \in Seq(Code)}

LEMMA AlignedCases ==
    ASSUME NEW w \in Aligned
    PROVE  /\ w \in Seq(NewCode)
           /\ w = <<>> \/ \E i \in Code : \E v \in Aligned : w = RewriteOne(i) \o v
<1>1. PICK rest \in Seq(Code) : w = Rewritten(rest)
  BY DEF Aligned
<1> DEFINE M(r) == [n \in DOMAIN r |-> RewriteOne(r[n])]
<1>2. ASSUME NEW r \in Seq(Code)
      PROVE  M(r) \in Seq(Seq(NewCode)) /\ Len(M(r)) = Len(r)
  <2>1. DOMAIN r = 1..Len(r) /\ Len(r) \in Nat /\ \A n \in DOMAIN r : r[n] \in Code
    OBVIOUS
  <2>2. \A n \in DOMAIN r : RewriteOne(r[n]) \in Seq(NewCode)
    BY <2>1, OneType
  <2>3. M(r) \in [1..Len(r) -> Seq(NewCode)]
    BY <2>1, <2>2, Zenon
  <2> HIDE DEF M
  <2>4. QED
    BY <2>1, <2>3
<1>3. w = FlattenSeq(M(rest))
  BY <1>1, Zenon DEF Rewritten
<1>4. w \in Seq(NewCode)
  <2> HIDE DEF M
  <2> QED
    BY <1>2, <1>3, FlattenType, Zenon
<1>5. CASE rest = <<>>
  <2>1. M(rest) = <<>>
    BY <1>5
  <2>2. QED
    BY <1>3, <1>4, <2>1, FlattenEmpty, Zenon
<1>6. CASE rest # <<>>
  <2>1. /\ Tail(rest) \in Seq(Code) /\ Head(rest) \in Code
        /\ Head(M(rest)) = RewriteOne(Head(rest)) /\ Tail(M(rest)) = M(Tail(rest))
        /\ M(rest) # <<>>
    BY <1>6
  <2> DEFINE v == Rewritten(Tail(rest))
  <2>2. v = FlattenSeq(M(Tail(rest)))
    BY Zenon DEF Rewritten
  <2>3. v \in Aligned
    BY <2>1 DEF Aligned
  <2>4. w = RewriteOne(Head(rest)) \o v
    <3>1. M(rest) \in Seq(Seq(NewCode))
      BY <1>2
    <3> HIDE DEF M, v
    <3>2. FlattenSeq(M(rest)) = Head(M(rest)) \o FlattenSeq(Tail(M(rest)))
      BY <2>1, <3>1, FlattenTail, Zenon
    <3>3. QED
      BY <1>3, <2>1, <2>2, <3>2, Zenon
  <2>5. QED
    BY <1>4, <2>1, <2>3, <2>4, Zenon
<1>7. QED
  BY <1>5, <1>6

\* The original's instructions among those of the rewritten sequence.
LEMMA RewrittenRange ==
    ASSUME NEW s \in DOMAIN Seqs
    PROVE  /\ Rewritten(Seqs[s]) \in Aligned
           /\ \A i \in Range(Rewritten(Seqs[s])) : i.op \notin AddedOps => i \in Range(Seqs[s])
<1> DEFINE T == UNION {Range(RewriteOne(j)) : j \in Range(Seqs[s])}
           all == [n \in DOMAIN Seqs[s] |-> RewriteOne(Seqs[s][n])]
<1>1. /\ DOMAIN Seqs[s] = 1..Len(Seqs[s]) /\ Len(Seqs[s]) \in Nat
      /\ \A n \in DOMAIN Seqs[s] : Seqs[s][n] \in Range(Seqs[s]) /\ Seqs[s][n] \in Code
  BY SeqsType DEF Range
<1>2. ASSUME NEW n \in DOMAIN Seqs[s] PROVE RewriteOne(Seqs[s][n]) \in Seq(T)
  <2> DEFINE r == RewriteOne(Seqs[s][n])
  <2>1. r \in Seq(NewCode)
    BY <1>1, OneType
  <2>2. Range(r) \subseteq T
    BY <1>1
  <2> HIDE DEF r, T
  <2>3. r \in Seq(Range(r))
    BY <2>1, InRange
  <2>4. r \in Seq(T)
    BY <2>2, <2>3
  <2>5. QED
    BY <2>4 DEF r
<1>3. all \in [1..Len(Seqs[s]) -> Seq(T)]
  BY <1>1, <1>2, Zenon
<1> HIDE DEF T
<1>4. FlattenSeq(all) \in Seq(T)
  <2>1. all \in Seq(Seq(T))
    BY <1>1, <1>3
  <2>2. QED
    BY <2>1, FlattenType, Zenon
<1>5. Rewritten(Seqs[s]) = FlattenSeq(all)
  BY Zenon DEF Rewritten
<1> HIDE DEF all
<1>6. Range(Rewritten(Seqs[s])) \subseteq T
  BY <1>4, <1>5 DEF Range
<1>7. ASSUME NEW i \in T, i.op \notin AddedOps PROVE i \in Range(Seqs[s])
  <2>1. PICK j \in Range(Seqs[s]) : i \in Range(RewriteOne(j))
    BY DEF T
  <2>2. j \in Code
    BY <2>1 DEF Code
  <2>3. PICK n \in DOMAIN RewriteOne(j) : i = RewriteOne(j)[n]
    BY <2>1 DEF Range
  <2>4. i = j
    <3> USE <1>7 DEF AddedOps
    <3>1. CASE RewriteOne(j) = <<j>>
      BY <2>3, <3>1
    <3>2. CASE RewriteOne(j) = <<PushI(Wrap(StaticSize(j))), HookI, j>>
      BY <2>3, <3>2 DEF PushI, HookI
    <3>3. CASE RewriteOne(j) = <<SetI, PushI(j.elem), GetI, MulI, HookI, GetI, j>>
      BY <2>3, <3>3 DEF SetI, PushI, GetI, MulI, HookI
    <3>4. QED
      BY <2>2, <3>1, <3>2, <3>3, Kinds
  <2>5. QED
    BY <2>1, <2>4
<1>8. Rewritten(Seqs[s]) \in Aligned
  BY SeqsType DEF Aligned
<1>9. QED
  BY <1>6, <1>7, <1>8

-----------------------------------------------------------------------------
(* Which sequences are found.                                              *)

LEMMA InnerType ==
    ASSUME NEW s \in DOMAIN Seqs, NEW i \in Range(Seqs[s])
    PROVE  /\ i \in Code /\ Inner(i) \subseteq DOMAIN Seqs /\ Followed(i) \subseteq Inner(i)
           /\ i.op = "call" => i.seq \in DOMAIN Seqs /\ i.seq \in Bodies
<1>1. i \in Code /\ IsInstr(i)
  BY CodeType DEF Code
<1>2. Inner(i) \subseteq DOMAIN Seqs
  BY <1>1 DEF IsInstr, Inner
<1>3. i.op = "call" => i.seq \in DOMAIN Seqs
  BY <1>1 DEF IsInstr
<1>4. QED
  BY <1>1, <1>2, <1>3 DEF Followed, Bodies

LEMMA BodiesFound == Bodies \subseteq Collected
<1>1. Bodies \subseteq DOMAIN Seqs
  <2>1. \A i \in Code : i.op = "call" => i.seq \in DOMAIN Seqs
    BY CodeType DEF IsInstr
  <2>2. QED
    BY <2>1, MemprofileAssumption DEF Bodies
<1>2. QED
  BY <1>1 DEF Collected

LEMMA FollowedFound ==
    ASSUME NEW s \in Collected, NEW i \in Range(Seqs[s])
    PROVE  Followed(i) \subseteq Collected
<1> SUFFICES ASSUME NEW u \in Followed(i) PROVE u \in Collected
  OBVIOUS
<1>1. s \in DOMAIN Seqs
  BY DEF Collected
<1>2. u \in DOMAIN Seqs
  BY <1>1, InnerType
<1>3. ASSUME NEW X \in SUBSET (DOMAIN Seqs \ Bodies),
             \A t \in Bodies \cup X : \A j \in Range(Seqs[t]) : Followed(j) \subseteq Bodies \cup X
      PROVE  u \in Bodies \cup X
  <2>1. s \in Bodies \cup X
    BY <1>3 DEF Collected
  <2>2. QED
    BY <1>3, <2>1
<1>4. QED
  BY <1>2, <1>3 DEF Collected

\* Nothing is found that no function and no sequence found leads to.
LEMMA NotFound ==
    ASSUME NEW u \in DOMAIN Seqs, u \notin Bodies,
           \A t \in Collected : \A j \in Range(Seqs[t]) : u \notin Followed(j)
    PROVE  u \notin Collected
<1> SUFFICES ASSUME u \in Collected PROVE FALSE
  OBVIOUS
<1> DEFINE X == Collected \ (Bodies \cup {u})
<1>1. X \in SUBSET (DOMAIN Seqs \ Bodies)
  BY DEF Collected
<1>2. Bodies \cup X = Collected \ {u}
  BY BodiesFound
<1> HIDE DEF X
<1>3. \A t \in Bodies \cup X : \A j \in Range(Seqs[t]) : Followed(j) \subseteq Bodies \cup X
  BY <1>2, FollowedFound
<1>4. u \in Bodies \cup X
  BY <1>1, <1>3 DEF Collected
<1>5. QED
  BY <1>2, <1>4

(***************************************************************************)
(* What the guest's state is around an allocation.                         *)
(***************************************************************************)

\* The sizes the hook takes, and what it makes of a word.
Hooked(w) == IF Signed(w) > 0 THEN <<Signed(w)>> ELSE <<>>

\* Nothing is under way.
Calm == stack = pure /\ asked = Logical(made)

\* The hook has seen the size of an allocation that is still to come.
Due(size) == asked = Logical(Append(made, size))

\* The length is in the local.
Saved == pure # <<>> /\ Last(pure) \in Word /\ scratch = Last(pure)

\* Within the expansion of i, todo still to run.
AtStatic(i, todo) ==
    /\ IsStatic(i)
    /\ \/ /\ todo = <<HookI, i>>
          /\ stack = Append(pure, Wrap(StaticSize(i))) /\ asked = Logical(made)
       \/ todo = <<i>> /\ stack = pure /\ Due(StaticSize(i))

AtDynamic(i, todo) ==
    /\ IsDynamic(i) /\ Saved
    /\ \/ /\ todo = <<PushI(i.elem), GetI, MulI, HookI, GetI, i>>
          /\ stack = Front(pure) /\ asked = Logical(made)
       \/ /\ todo = <<GetI, MulI, HookI, GetI, i>>
          /\ stack = Append(Front(pure), i.elem) /\ asked = Logical(made)
       \/ /\ todo = <<MulI, HookI, GetI, i>>
          /\ stack = Append(Append(Front(pure), i.elem), Last(pure)) /\ asked = Logical(made)
       \/ /\ todo = <<HookI, GetI, i>>
          /\ stack = Append(Front(pure), Wrap(Last(pure) * i.elem)) /\ asked = Logical(made)
       \/ todo = <<GetI, i>> /\ stack = Front(pure) /\ Due(i.elem * Last(pure))
       \/ todo = <<i>> /\ stack = pure /\ Due(i.elem * Last(pure))

Around(todo) ==
    \/ todo = <<>> /\ Calm
    \/ \E i \in Code : todo = RewriteOne(i) /\ Calm
    \/ \E i \in Code : AtStatic(i, todo)
    \/ \E i \in Code : AtDynamic(i, todo)

\* A frame is at the instructions of its sequence; the sequences within a try
\* are those that are not found.
Names == {"start", "moonbit.malloc"} \cup {i.fn : i \in Code}
Nested(f) == (f.tried <=> f.seq \notin Collected) /\ Range(f.todo) \subseteq Range(Instrument[f.seq])
Frame == {f \in [fn : Names, seq : DOMAIN Seqs, todo : Seq(NewCode), block : BOOLEAN, tried : BOOLEAN] :
             Nested(f)}

\* Not within an expansion.
Rests(f) == f.tried \/ f.todo \in Aligned

\* Only the last frame is within an expansion.
FramesInv ==
    /\ frames \in Seq(Frame) /\ frames # <<>> /\ ~frames[1].block
    /\ \A k \in 1..(Len(frames) - 1) : Rests(frames[k])
    /\ \/ Last(frames).tried /\ Calm
       \/ /\ ~Last(frames).tried
          /\ \E todo \in Seq(NewCode) : \E w \in Aligned :
                Last(frames).todo = todo \o w /\ Around(todo)

GuestType ==
    /\ pure \in Seq(Word \cup {Ref}) /\ made \in Seq(Int) /\ asked \in Seq(Int)
    /\ code \in Programs /\ rate \in SampleRates /\ round \in Nat \ {0}

GuestInv == GuestType /\ FramesInv

-----------------------------------------------------------------------------

LEMMA WrapType == ASSUME NEW n \in Int PROVE Wrap(n) \in Word /\ Signed(Wrap(n)) \in Int
<1>1. I32 \in Nat \ {0}
  BY MemprofileAssumption
<1>2. n % I32 \in 0..(I32 - 1)
  BY <1>1
<1>3. QED
  BY <1>1, <1>2 DEF Wrap, Word, Signed

LEMMA WrapWord == ASSUME NEW n \in Word PROVE Wrap(n) = n /\ Signed(n) \in Int
<1>1. I32 \in Nat \ {0}
  BY MemprofileAssumption
<1>2. n % I32 = n
  BY <1>1 DEF Word
<1>3. QED
  BY <1>1, <1>2 DEF Wrap, Word, Signed

LEMMA LogicalType == ASSUME NEW sizes \in Seq(Int) PROVE Logical(sizes) \in Seq(Int)
<1> DEFINE all == [i \in DOMAIN sizes |-> Hooked(Wrap(sizes[i]))]
<1>1. DOMAIN sizes = 1..Len(sizes) /\ Len(sizes) \in Nat /\ \A i \in DOMAIN sizes : sizes[i] \in Int
  OBVIOUS
<1>2. \A i \in DOMAIN sizes : Hooked(Wrap(sizes[i])) \in Seq(Int)
  BY <1>1, WrapType DEF Hooked
<1>3. all \in [1..Len(sizes) -> Seq(Int)]
  BY <1>1, <1>2, Zenon
<1>4. all \in Seq(Seq(Int))
  BY <1>1, <1>3
<1>5. QED
  BY <1>4, FlattenType, Zenon DEF Logical, Hooked

LEMMA LogicalAppend ==
    ASSUME NEW sizes \in Seq(Int), NEW n \in Int
    PROVE  Logical(Append(sizes, n)) = Logical(sizes) \o Hooked(Wrap(n))
<1> DEFINE all == [i \in DOMAIN sizes |-> Hooked(Wrap(sizes[i]))]
<1>1. DOMAIN sizes = 1..Len(sizes) /\ Len(sizes) \in Nat /\ \A i \in DOMAIN sizes : sizes[i] \in Int
  OBVIOUS
<1>2. /\ \A i \in DOMAIN sizes : Hooked(Wrap(sizes[i])) \in Seq(Int)
      /\ Hooked(Wrap(n)) \in Seq(Int)
  BY <1>1, WrapType DEF Hooked
<1>3. all \in [1..Len(sizes) -> Seq(Int)]
  BY <1>1, <1>2, Zenon
<1>4. all \in Seq(Seq(Int))
  BY <1>1, <1>3
<1>5. [i \in DOMAIN Append(sizes, n) |-> Hooked(Wrap(Append(sizes, n)[i]))]
        = Append(all, Hooked(Wrap(n)))
  OBVIOUS
<1>6. FlattenSeq(Append(all, Hooked(Wrap(n)))) = FlattenSeq(all) \o Hooked(Wrap(n))
  BY <1>2, <1>4, FlattenAppend, Zenon
<1>7. QED
  BY <1>5, <1>6, Zenon DEF Logical, Hooked

\* Sizes the hook is not called for, or does not count.
LEMMA LogicalSame ==
    ASSUME NEW sizes \in Seq(Int), NEW n \in Int, ~(Signed(Wrap(n)) > 0)
    PROVE  Logical(Append(sizes, n)) = Logical(sizes)
<1>1. Hooked(Wrap(n)) = <<>>
  BY DEF Hooked
<1>2. Logical(sizes) \in Seq(Int)
  BY LogicalType
<1>3. Logical(sizes) \o <<>> = Logical(sizes)
  BY <1>2
<1>4. QED
  BY <1>1, <1>3, LogicalAppend, Zenon

\* The hook called with a word.
LEMMA HookAsks ==
    ASSUME asked \in Seq(Int), NEW w \in Word, NEW fs, AllocHook(w, fs)
    PROVE  asked' = asked \o Hooked(w) /\ asked' \in Seq(Int)
<1>1. Signed(w) \in Int
  BY WrapWord
<1>2. CASE Signed(w) <= 0
  <2>1. asked' = asked /\ Hooked(w) = <<>>
    BY <1>1, <1>2 DEF AllocHook, hookVars, Hooked
  <2>2. asked \o <<>> = asked
    OBVIOUS
  <2>3. QED
    BY <2>1, <2>2
<1>3. CASE ~(Signed(w) <= 0)
  <2>1. asked' = Append(asked, Signed(w)) /\ Hooked(w) = <<Signed(w)>>
    BY <1>1, <1>3 DEF AllocHook, Hooked
  <2>2. Append(asked, Signed(w)) = asked \o <<Signed(w)>> /\ Append(asked, Signed(w)) \in Seq(Int)
    BY <1>1
  <2>3. QED
    BY <2>1, <2>2, Zenon
<1>4. QED
  BY <1>2, <1>3

LEMMA HeadTail ==
    ASSUME NEW T, NEW t \in Seq(T), t # <<>>, NEW w \in Seq(T)
    PROVE  t \o w # <<>> /\ Head(t \o w) = Head(t) /\ Tail(t \o w) = Tail(t) \o w
<1> DEFINE u == t \o w
<1>1. Len(t) \in Nat /\ Len(w) \in Nat /\ Len(t) > 0
  BY EmptySeq
<1>2. /\ u \in Seq(T) /\ Len(u) = Len(t) + Len(w)
      /\ \A k \in 1..Len(t) : u[k] = t[k]
      /\ \A k \in 1..Len(w) : u[Len(t) + k] = w[k]
  BY ConcatProperties
<1>3. Tail(t) \in Seq(T) /\ Len(Tail(t)) = Len(t) - 1
      /\ \A k \in 1..(Len(t) - 1) : Tail(t)[k] = t[k + 1]
  BY HeadTailProperties
<1> DEFINE r == Tail(t)
           v == r \o w
<1>4. /\ v \in Seq(T) /\ Len(v) = Len(r) + Len(w)
      /\ \A k \in 1..Len(r) : v[k] = r[k]
      /\ \A k \in 1..Len(w) : v[Len(r) + k] = w[k]
  BY <1>3, ConcatProperties
<1> HIDE DEF u, v, r
<1>5. u # <<>>
  BY <1>1, <1>2
<1>6. /\ Tail(u) \in Seq(T) /\ Len(Tail(u)) = Len(u) - 1
      /\ \A k \in 1..(Len(u) - 1) : Tail(u)[k] = u[k + 1]
  BY <1>2, <1>5, HeadTailProperties
<1>7. Head(u) = Head(t)
  <2>1. Head(u) = u[1] /\ Head(t) = t[1]
    BY <1>2, <1>5, HeadTailProperties
  <2>2. QED
    BY <1>1, <1>2, <2>1
<1>8. Len(Tail(u)) = Len(v) /\ Len(v) \in Nat
  BY <1>1, <1>2, <1>3, <1>4, <1>6 DEF r
<1>9. ASSUME NEW k \in 1..Len(v) PROVE Tail(u)[k] = v[k]
  <2>1. CASE k \in 1..Len(r)
    <3>1. k \in 1..(Len(u) - 1) /\ k \in 1..(Len(t) - 1) /\ k + 1 \in 1..Len(t)
      BY <1>1, <1>2, <1>3, <2>1 DEF r
    <3>2. Tail(u)[k] = u[k + 1] /\ u[k + 1] = t[k + 1]
      BY <1>2, <1>6, <3>1
    <3>3. v[k] = r[k] /\ r[k] = t[k + 1]
      BY <1>3, <1>4, <2>1, <3>1 DEF r
    <3>4. QED
      BY <3>2, <3>3
  <2>2. CASE k \notin 1..Len(r)
    <3> DEFINE j == k - Len(r)
    <3>1. j \in 1..Len(w) /\ k = Len(r) + j /\ k + 1 = Len(t) + j /\ k \in 1..(Len(u) - 1)
      BY <1>1, <1>2, <1>3, <1>4, <2>2 DEF r
    <3> HIDE DEF j
    <3>2. Tail(u)[k] = u[Len(t) + j] /\ u[Len(t) + j] = w[j]
      BY <1>2, <1>6, <3>1
    <3>3. v[k] = w[j]
      BY <1>4, <3>1
    <3>4. QED
      BY <3>2, <3>3
  <2>3. QED
    BY <2>1, <2>2
<1>10. Tail(u) = v
  <2> DEFINE x == Tail(u)
  <2>1. x \in Seq(T) /\ v \in Seq(T) /\ Len(x) = Len(v) /\ \A k \in 1..Len(v) : x[k] = v[k]
    BY <1>4, <1>6, <1>8, <1>9
  <2> HIDE DEF x
  <2>2. x = v
    BY <1>8, <2>1
  <2>3. QED
    BY <2>2 DEF x
<1>11. QED
  BY <1>5, <1>7, <1>10 DEF u, v, r

LEMMA AroundEmpty == ASSUME Around(<<>>) PROVE Calm
<1>1. \A i \in Code : ~AtStatic(i, <<>>)
  BY DEF AtStatic
<1>2. \A i \in Code : ~AtDynamic(i, <<>>)
  BY DEF AtDynamic
<1>3. QED
  BY <1>1, <1>2 DEF Around

\* Where an instruction is next.
LEMMA Begun ==
    ASSUME FramesInv, Last(frames).todo # <<>>, ~Last(frames).tried
    PROVE  \E todo \in Seq(NewCode) \ {<<>>} : \E w \in Aligned :
              /\ Last(frames).todo = todo \o w /\ Around(todo)
              /\ Instr = Head(todo)
<1>1. PICK todo \in Seq(NewCode) : \E w \in Aligned : Last(frames).todo = todo \o w /\ Around(todo)
  BY DEF FramesInv
<1>2. PICK w \in Aligned : Last(frames).todo = todo \o w /\ Around(todo)
  BY <1>1
<1>3. w \in Seq(NewCode)
  BY AlignedCases
<1>4. CASE todo # <<>>
  <2>1. Head(Last(frames).todo) = Head(todo)
    BY <1>2, <1>3, <1>4, HeadTail, Zenon
  <2>2. QED
    BY <1>2, <1>4, <2>1 DEF Instr
<1>5. CASE todo = <<>>
  <2>1. Last(frames).todo = w
    <3>1. <<>> \o w = w
      BY <1>3
    <3>2. QED
      BY <1>2, <1>5, <3>1, Zenon
  <2>2. PICK i \in Code : \E v \in Aligned : w = RewriteOne(i) \o v
    BY <2>1, AlignedCases, Zenon
  <2>3. PICK v \in Aligned : w = RewriteOne(i) \o v
    BY <2>2
  <2>4. RewriteOne(i) \in Seq(NewCode) \ {<<>>} /\ v \in Seq(NewCode)
    BY OneType, AlignedCases
  <2>5. Around(RewriteOne(i))
    BY <1>2, <1>5, AroundEmpty DEF Around
  <2>6. Instr = Head(RewriteOne(i))
    <3>1. Head(RewriteOne(i) \o v) = Head(RewriteOne(i))
      BY <2>4, HeadTail, Zenon
    <3>2. QED
      BY <2>1, <2>3, <3>1, Zenon DEF Instr
  <2>7. QED
    BY <2>1, <2>3, <2>4, <2>5, <2>6, Zenon
<1>6. QED
  BY <1>4, <1>5

LEMMA AdvanceFrames ==
    ASSUME frames \in Seq(Frame), frames # <<>>, Last(frames).todo # <<>>, NEW fs, fs = Advance
    PROVE  /\ fs \in Seq(Frame) /\ Len(fs) = Len(frames) /\ fs # <<>>
           /\ fs[1].block = frames[1].block
           /\ \A k \in 1..(Len(frames) - 1) : fs[k] = frames[k]
           /\ Last(fs).todo = Tail(Last(frames).todo) /\ Last(fs).tried = Last(frames).tried
<1> DEFINE n == Len(frames)
           f == frames[n]
           t == Tail(f.todo)
           e == [f EXCEPT !.todo = t]
<1>1. n \in Nat \ {0} /\ DOMAIN frames = 1..n /\ frames \in [1..n -> Frame]
  <2>1. frames \in Seq(Frame)
    OBVIOUS
  <2>2. QED
    BY <2>1, EmptySeq
<1>2. f \in Frame /\ f = Last(frames)
  BY <1>1 DEF Last
<1>3. f \in [fn : Names, seq : DOMAIN Seqs, todo : Seq(NewCode), block : BOOLEAN, tried : BOOLEAN]
      /\ Nested(f) /\ f.todo # <<>>
  BY <1>2 DEF Frame
<1>4. t \in Seq(NewCode) /\ Range(t) \subseteq Range(f.todo)
  <2> DEFINE old == f.todo
  <2>1. old \in Seq(NewCode) /\ old # <<>>
    BY <1>3
  <2> HIDE DEF old
  <2>2. /\ Tail(old) \in Seq(NewCode) /\ Len(Tail(old)) = Len(old) - 1 /\ Len(old) \in Nat
        /\ \A k \in 1..(Len(old) - 1) : Tail(old)[k] = old[k + 1]
    BY <2>1, HeadTailProperties
  <2>3. DOMAIN Tail(old) = 1..(Len(old) - 1) /\ DOMAIN old = 1..Len(old)
    BY <2>1, <2>2
  <2>4. \A k \in DOMAIN Tail(old) : k + 1 \in DOMAIN old /\ Tail(old)[k] = old[k + 1]
    BY <2>2, <2>3
  <2>5. QED
    BY <2>2, <2>4 DEF Range, old
<1>5. fs = [frames EXCEPT ![n] = e]
  BY DEF Advance
<1> HIDE DEF n, t, f
<1>6. /\ e \in [fn : Names, seq : DOMAIN Seqs, todo : Seq(NewCode), block : BOOLEAN, tried : BOOLEAN]
      /\ e.block = f.block /\ e.tried = f.tried /\ e.seq = f.seq /\ e.todo = t
  BY <1>3, <1>4
<1>7. e \in Frame
  BY <1>3, <1>4, <1>6 DEF Frame, Nested
<1> HIDE DEF e
<1>8. fs \in [1..n -> Frame] /\ fs[n] = e /\ \A k \in 1..(n - 1) : fs[k] = frames[k]
  BY <1>1, <1>5, <1>7
<1>9. fs \in Seq(Frame) /\ Len(fs) = n
  BY <1>1, <1>8
<1>10. fs[1].block = frames[1].block
  <2>1. CASE n = 1
    BY <1>6, <1>8, <2>1 DEF f
  <2>2. CASE n # 1
    BY <1>1, <1>8, <2>2
  <2>3. QED
    BY <2>1, <2>2
<1>11. Last(fs) = e
  BY <1>8, <1>9, Zenon DEF Last
<1>12. fs # <<>>
  BY <1>1, <1>9
<1>13. Last(fs).todo = Tail(Last(frames).todo) /\ Last(fs).tried = Last(frames).tried
  BY <1>2, <1>6, <1>11 DEF t
<1>14. QED
  BY <1>8, <1>9, <1>10, <1>12, <1>13 DEF n

\* A step within an expansion.
LEMMA Stepped ==
    ASSUME FramesInv, ~Last(frames).tried, NEW todo \in Seq(NewCode) \ {<<>>}, NEW w \in Aligned,
           Last(frames).todo = todo \o w, frames' = Advance, Around(Tail(todo))'
    PROVE  FramesInv'
<1>1. w \in Seq(NewCode)
  BY AlignedCases
<1>2. Last(frames).todo # <<>> /\ Tail(Last(frames).todo) = Tail(todo) \o w
  <2>1. todo \o w # <<>> /\ Tail(todo \o w) = Tail(todo) \o w
    BY <1>1, HeadTail, Zenon
  <2>2. QED
    BY <2>1
<1>3. /\ frames' \in Seq(Frame) /\ Len(frames') = Len(frames) /\ frames' # <<>>
      /\ frames'[1].block = frames[1].block
      /\ \A k \in 1..(Len(frames) - 1) : frames'[k] = frames[k]
      /\ Last(frames').todo = Tail(todo) \o w /\ Last(frames').tried = Last(frames).tried
  BY <1>2, AdvanceFrames DEF FramesInv
<1>4. Tail(todo) \in Seq(NewCode)
  OBVIOUS
<1>5. \E t \in Seq(NewCode) : \E v \in Aligned : Last(frames').todo = t \o v /\ Around(t)'
  BY <1>3, <1>4
<1>6. /\ ~frames[1].block
      /\ \A k \in 1..(Len(frames) - 1) : Rests(frames[k])
  BY DEF FramesInv
<1>7. \A k \in 1..(Len(frames') - 1) : Rests(frames'[k])
  BY <1>3, <1>6
<1>8. QED
  BY <1>3, <1>5, <1>6, <1>7 DEF FramesInv, Rests

\* An instruction of the original code, with its hook behind it if it has one.
OwnTurn(i) ==
    /\ stack = pure
    /\ \/ IsPlain(i) /\ Calm
       \/ IsStatic(i) /\ Due(StaticSize(i))
       \/ IsDynamic(i) /\ Saved /\ Due(i.elem * Last(pure))

LEMMA StaticOps == ASSUME NEW i, IsStatic(i) PROVE i.op \notin AddedOps
BY DEF IsStatic, AddedOps

LEMMA DynamicOps == ASSUME NEW i, IsDynamic(i) PROVE i.op \notin AddedOps
BY DEF IsDynamic, AddedOps

LEMMA Heads ==
    ASSUME NEW a, NEW b, NEW c, NEW d, NEW e, NEW f, NEW g
    PROVE  /\ Head(<<a>>) = a /\ Head(<<a, b>>) = a /\ Head(<<a, b, c>>) = a
           /\ Head(<<a, b, c, d>>) = a /\ Head(<<a, b, c, d, e>>) = a
           /\ Head(<<a, b, c, d, e, f>>) = a /\ Head(<<a, b, c, d, e, f, g>>) = a
OBVIOUS

LEMMA Tails ==
    ASSUME NEW a, NEW b, NEW c, NEW d, NEW e, NEW f, NEW g
    PROVE  /\ Tail(<<a>>) = <<>> /\ Tail(<<a, b>>) = <<b>> /\ Tail(<<a, b, c>>) = <<b, c>>
           /\ Tail(<<a, b, c, d>>) = <<b, c, d>> /\ Tail(<<a, b, c, d, e>>) = <<b, c, d, e>>
           /\ Tail(<<a, b, c, d, e, f>>) = <<b, c, d, e, f>>
           /\ Tail(<<a, b, c, d, e, f, g>>) = <<b, c, d, e, f, g>>
OBVIOUS

\* The steps of the two expansions before the allocation.
StaticTurn(i, todo) ==
    /\ IsStatic(i)
    /\ \/ todo = <<PushI(Wrap(StaticSize(i))), HookI, i>> /\ Calm
       \/ todo = <<HookI, i>> /\ stack = Append(pure, Wrap(StaticSize(i))) /\ asked = Logical(made)

DynamicTurn(i, todo) ==
    /\ IsDynamic(i)
    /\ \/ todo = <<SetI, PushI(i.elem), GetI, MulI, HookI, GetI, i>> /\ Calm
       \/ AtDynamic(i, todo) /\ todo # <<i>>

LEMMA Turns ==
    ASSUME NEW todo, todo # <<>>, Around(todo)
    PROVE  \/ \E i \in Code : todo = <<i>> /\ OwnTurn(i) /\ i.op \notin AddedOps
           \/ \E i \in Code : StaticTurn(i, todo)
           \/ \E i \in Code : DynamicTurn(i, todo)
<1>1. ASSUME NEW i \in Code, todo = RewriteOne(i), Calm
      PROVE  \/ todo = <<i>> /\ OwnTurn(i) /\ i.op \notin AddedOps
             \/ StaticTurn(i, todo)
             \/ DynamicTurn(i, todo)
  <2>1. IsPlain(i) => i.op \notin AddedOps
    BY DEF IsPlain
  <2>2. stack = pure
    BY <1>1 DEF Calm
  <2>3. QED
    BY <1>1, <2>1, <2>2, Kinds, Zenon DEF OwnTurn, StaticTurn, DynamicTurn
<1>2. ASSUME NEW i \in Code, AtStatic(i, todo)
      PROVE  \/ todo = <<i>> /\ OwnTurn(i) /\ i.op \notin AddedOps
             \/ StaticTurn(i, todo)
  BY <1>2, StaticOps, Zenon DEF AtStatic, OwnTurn, StaticTurn
<1>3. ASSUME NEW i \in Code, AtDynamic(i, todo)
      PROVE  \/ todo = <<i>> /\ OwnTurn(i) /\ i.op \notin AddedOps
             \/ DynamicTurn(i, todo)
  <2>1. CASE todo # <<i>>
    BY <1>3, <2>1, Zenon DEF AtDynamic, DynamicTurn
  <2>2. CASE todo = <<i>>
    <3>1. stack = pure /\ Due(i.elem * Last(pure))
      BY <1>3, <2>2 DEF AtDynamic
    <3>2. IsDynamic(i) /\ Saved
      BY <1>3, Zenon DEF AtDynamic
    <3>3. QED
      BY <2>2, <3>1, <3>2, DynamicOps, Zenon DEF OwnTurn
  <2>3. QED
    BY <2>1, <2>2, Zenon
<1>4. QED
  BY <1>1, <1>2, <1>3, Zenon DEF Around

\* The instruction an expansion is at.
LEMMA TurnOps ==
    ASSUME NEW todo
    PROVE  /\ \A i : StaticTurn(i, todo) => Head(todo).op \in {"push", "hook"}
           /\ \A i : DynamicTurn(i, todo) => Head(todo).op \in AddedOps
<1> USE DEF PushI, HookI, SetI, GetI, MulI, AddedOps
<1>1. ASSUME NEW i, StaticTurn(i, todo) PROVE Head(todo).op \in {"push", "hook"}
  BY <1>1 DEF StaticTurn
<1>2. ASSUME NEW i, DynamicTurn(i, todo) PROVE Head(todo).op \in AddedOps
  BY <1>2 DEF DynamicTurn, AtDynamic
<1>3. QED
  BY <1>1, <1>2

\* What comes next of the original code, found or not.
Turn(i) ==
    \/ Last(frames).tried /\ Calm
    \/ ~Last(frames).tried /\ OwnTurn(i)

LEMMA LastType == ASSUME NEW T, NEW s \in Seq(T), s # <<>> PROVE Last(s) \in T
BY EmptySeq DEF Last

\* In a sequence that was not found there is nothing else.
LEMMA TriedNext ==
    ASSUME FramesInv, Last(frames).todo # <<>>, Last(frames).tried
    PROVE  Instr \in Code /\ Instr.op \notin AddedOps /\ Calm
<1> DEFINE f == Last(frames)
<1>1. f \in Frame /\ f.todo # <<>> /\ f.tried
  <2>1. frames \in Seq(Frame) /\ frames # <<>>
    BY DEF FramesInv
  <2>2. f \in Frame
    BY <2>1, LastType
  <2>3. QED
    BY <2>2
<1>2. /\ f.seq \in DOMAIN Seqs /\ f.todo \in Seq(NewCode) /\ f.seq \notin Collected
      /\ Range(f.todo) \subseteq Range(Instrument[f.seq])
  BY <1>1 DEF Frame, Nested
<1>3. Instrument[f.seq] = Seqs[f.seq]
  BY <1>2 DEF Instrument
<1>4. Head(f.todo) \in Range(f.todo)
  <2> DEFINE t == f.todo
  <2>1. t \in Seq(NewCode) /\ t # <<>>
    BY <1>1, <1>2
  <2> HIDE DEF t
  <2>2. Head(t) = t[1] /\ 1 \in DOMAIN t
    BY <2>1, EmptySeq
  <2>3. QED
    BY <2>2 DEF Range, t
<1>5. Instr \in Range(Seqs[f.seq]) /\ Instr \in Code
  BY <1>2, <1>3, <1>4 DEF Instr, Code
<1>6. IsInstr(Instr)
  BY <1>5, CodeType
<1>7. Instr.op \notin AddedOps
  BY <1>6 DEF IsInstr, AddedOps
<1>8. Calm
  BY <1>1 DEF FramesInv
<1>9. QED
  BY <1>5, <1>7, <1>8

\* What is next when it is an instruction of the original.
LEMMA OwnNext ==
    ASSUME FramesInv, Last(frames).todo # <<>>, Instr.op \notin AddedOps
    PROVE  /\ \E i \in Code : i = Instr /\ Turn(i)
           /\ Last(frames).tried \/ Tail(Last(frames).todo) \in Aligned
<1>1. CASE Last(frames).tried
  BY <1>1, TriedNext DEF Turn
<1>2. CASE ~Last(frames).tried
  <2>1. PICK todo \in Seq(NewCode) \ {<<>>} : \E w \in Aligned :
           Last(frames).todo = todo \o w /\ Around(todo) /\ Instr = Head(todo)
    BY <1>2, Begun, Zenon
  <2>2. PICK w \in Aligned : Last(frames).todo = todo \o w /\ Around(todo) /\ Instr = Head(todo)
    BY <2>1, Zenon
  <2>3. Head(todo).op \notin AddedOps
    BY <2>2
  <2>4. PICK i \in Code : todo = <<i>> /\ OwnTurn(i)
    BY <2>2, <2>3, Turns, TurnOps DEF AddedOps
  <2>5. Head(<<i>>) = i /\ Tail(<<i>>) = <<>>
    OBVIOUS
  <2>6. i = Instr
    BY <2>2, <2>4, <2>5, Zenon
  <2>7. w \in Seq(NewCode)
    BY AlignedCases
  <2>8. <<>> \o w = w
    BY <2>7
  <2>9. Tail(todo \o w) = Tail(todo) \o w
    BY <2>7, HeadTail, Zenon
  <2>10. Tail(Last(frames).todo) = w
    BY <2>2, <2>4, <2>5, <2>8, <2>9, Zenon
  <2>11. QED
    BY <1>2, <2>4, <2>6, <2>10 DEF Turn
<1>3. QED
  BY <1>1, <1>2

LEMMA AddedNext ==
    ASSUME FramesInv, Last(frames).todo # <<>>, Instr.op \in AddedOps
    PROVE  /\ ~Last(frames).tried
           /\ \E todo \in Seq(NewCode) \ {<<>>} : \E w \in Aligned : \E i \in Code :
                 /\ Last(frames).todo = todo \o w /\ Instr = Head(todo)
                 /\ StaticTurn(i, todo) \/ DynamicTurn(i, todo)
<1>0. ~Last(frames).tried
  BY TriedNext
<1>1. PICK todo \in Seq(NewCode) \ {<<>>} : \E w \in Aligned :
         Last(frames).todo = todo \o w /\ Around(todo) /\ Instr = Head(todo)
  BY <1>0, Begun, Zenon
<1>2. PICK w \in Aligned : Last(frames).todo = todo \o w /\ Around(todo) /\ Instr = Head(todo)
  BY <1>1, Zenon
<1>3. Head(todo).op \in AddedOps
  BY <1>2
<1>4. \A i : i.op \notin AddedOps => todo # <<i>>
  BY <1>3
<1>5. PICK i \in Code : StaticTurn(i, todo) \/ DynamicTurn(i, todo)
  BY <1>2, <1>4, Turns
<1>6. QED
  BY <1>0, <1>2, <1>5, Zenon

\* The frames after an instruction of the original.
OwnAdvanced(fs) ==
    /\ fs \in Seq(Frame) /\ Len(fs) = Len(frames) /\ fs # <<>> /\ ~fs[1].block
    /\ \A k \in 1..Len(fs) : Rests(fs[k])

LEMMA OwnAdvance ==
    ASSUME FramesInv, Last(frames).todo # <<>>, Instr.op \notin AddedOps
    PROVE  OwnAdvanced(Advance)
<1> DEFINE fs == Advance
           n == Len(frames)
<1>1. frames \in Seq(Frame) /\ frames # <<>> /\ ~frames[1].block
      /\ \A k \in 1..(n - 1) : Rests(frames[k])
  BY DEF FramesInv
<1>2. /\ fs \in Seq(Frame) /\ Len(fs) = n /\ fs # <<>>
      /\ fs[1].block = frames[1].block
      /\ \A k \in 1..(n - 1) : fs[k] = frames[k]
      /\ Last(fs).todo = Tail(Last(frames).todo) /\ Last(fs).tried = Last(frames).tried
  BY <1>1, AdvanceFrames, Zenon
<1> HIDE DEF fs
<1>3. n \in Nat \ {0}
  BY <1>1, EmptySeq
<1>4. Rests(fs[n])
  <2>1. fs[n] = Last(fs)
    BY <1>2 DEF Last
  <2>2. QED
    BY <1>2, <2>1, OwnNext DEF Rests
<1> HIDE DEF n
<1>5. \A k \in 1..n : Rests(fs[k])
  BY <1>1, <1>2, <1>3, <1>4
<1>6. QED
  BY <1>1, <1>2, <1>5 DEF OwnAdvanced, fs, n

Value == Int \cup {Ref}

LEMMA Ends ==
    ASSUME NEW T, NEW s \in Seq(T), NEW x \in T
    PROVE  Front(Append(s, x)) = s /\ Last(Append(s, x)) = x /\ Append(s, x) \in Seq(T)
<1>1. /\ Append(s, x) \in Seq(T) /\ Len(Append(s, x)) = Len(s) + 1 /\ Len(s) \in Nat
      /\ Append(s, x)[Len(s) + 1] = x
  OBVIOUS
<1>2. Last(Append(s, x)) = x
  BY <1>1, Zenon DEF Last
<1>3. Front(Append(s, x)) = s
  BY <1>1 DEF Front
<1>4. QED
  BY <1>1, <1>2, <1>3

LEMMA Fronts ==
    ASSUME NEW T, NEW s \in Seq(T), s # <<>>
    PROVE  Front(s) \in Seq(T) /\ Last(s) \in T /\ Append(Front(s), Last(s)) = s
<1>1. Len(s) \in Nat \ {0}
  BY EmptySeq
<1>2. Last(s) \in T
  BY <1>1 DEF Last
<1>3. Front(s) \in Seq(T)
  BY <1>1, SubSeqProperties DEF Front
<1>4. Append(Front(s), Last(s)) = s
  BY <1>1 DEF Front, Last
<1>5. QED
  BY <1>2, <1>3, <1>4

LEMMA Wider == ASSUME NEW S, NEW T, S \subseteq T, NEW s \in Seq(S) PROVE s \in Seq(T)
OBVIOUS

LEMMA PureType == ASSUME GuestType PROVE pure \in Seq(Value)
<1>1. Word \subseteq Int
  BY MemprofileAssumption DEF Word
<1>2. Word \cup {Ref} \subseteq Value
  BY <1>1 DEF Value
<1>3. QED
  BY <1>2, Wider, Zenon DEF GuestType

LEMMA SizeType ==
    ASSUME NEW i \in Code
    PROVE  /\ i.op \in {"struct", "fixed"} => StaticSize(i) \in Nat /\ i.n \in Nat
           /\ i.op = "array" => i.elem \in Nat /\ i.below \in Nat
<1>1. IsInstr(i)
  BY CodeType
<1>2. CASE i.op = "struct"
  BY <1>1, <1>2 DEF IsInstr, StaticSize
<1>3. CASE i.op = "fixed"
  <2>1. i.n \in Nat /\ i.elem \in Nat
    BY <1>1, <1>3 DEF IsInstr
  <2>2. QED
    BY <1>3, <2>1 DEF StaticSize
<1>4. CASE i.op = "array"
  BY <1>1, <1>4 DEF IsInstr
<1>5. QED
  BY <1>2, <1>3, <1>4

-----------------------------------------------------------------------------
(* The instructions of the original code.                                  *)

\* Every frame at rest, and nothing under way.
Resting ==
    /\ frames \in Seq(Frame) /\ frames # <<>> /\ ~frames[1].block
    /\ \A k \in 1..Len(frames) : Rests(frames[k])
    /\ Calm

LEMMA CalmFrames == Resting => FramesInv
<1> SUFFICES ASSUME Resting PROVE FramesInv
  OBVIOUS
<1> USE DEF Resting
<1>1. Len(frames) \in Nat \ {0}
  BY EmptySeq
<1>2. Rests(Last(frames))
  BY <1>1 DEF Last
<1>3. CASE Last(frames).tried
  BY <1>1, <1>3 DEF FramesInv
<1>4. CASE ~Last(frames).tried
  <2> DEFINE w == Last(frames).todo
  <2>1. w \in Aligned
    BY <1>2, <1>4 DEF Rests
  <2>2. w \in Seq(NewCode)
    BY <2>1, AlignedCases
  <2> HIDE DEF w
  <2>3. w = <<>> \o w /\ <<>> \in Seq(NewCode)
    BY <2>2
  <2>4. Around(<<>>)
    BY DEF Around
  <2>5. \E t \in Seq(NewCode) : \E v \in Aligned : w = t \o v /\ Around(t)
    BY <2>1, <2>3, <2>4, Zenon
  <2>6. \E t \in Seq(NewCode) : \E v \in Aligned : Last(frames).todo = t \o v /\ Around(t)
    BY <2>5 DEF w
  <2>7. frames \in Seq(Frame) /\ frames # <<>> /\ ~frames[1].block
        /\ \A k \in 1..(Len(frames) - 1) : Rests(frames[k])
    BY <1>1
  <2>8. QED
    BY <1>4, <2>6, <2>7, Zenon DEF FramesInv
<1>5. QED
  BY <1>3, <1>4

LEMMA CalmFramesNext == (Resting => FramesInv)'
BY CalmFrames, PTL

\* A step of the original within a sequence.
LEMMA OwnStepped ==
    ASSUME FramesInv, Last(frames).todo # <<>>, Instr.op \notin AddedOps,
           frames' = Advance, Calm'
    PROVE  FramesInv'
<1>1. OwnAdvanced(Advance)
  BY OwnAdvance, Zenon
<1>2. Resting'
  BY <1>1 DEF Resting, OwnAdvanced
<1>3. QED
  BY <1>2, CalmFramesNext

LEMMA ConstStep == ASSUME GuestInv, Const PROVE GuestInv'
<1>1. Last(frames).todo # <<>> /\ Instr.op = "const" /\ FramesInv /\ frames' = Advance
  BY DEF Const, Running, GuestInv
<1>2. PICK i \in Code : i = Instr /\ Turn(i)
  BY <1>1, OwnNext DEF AddedOps
<1>3. IsInstr(i) /\ i.op = "const"
  BY <1>1, <1>2, CodeType
<1>4. Calm
  BY <1>2, <1>3 DEF Turn, OwnTurn, IsStatic, IsDynamic
<1>5. stack' = Append(stack, i.v) /\ pure' = Append(pure, i.v)
  BY <1>2 DEF Const, Push
<1>6. Calm'
  BY <1>4, <1>5 DEF Calm, Const, hookVars
<1>7. GuestType'
  <2>1. i.v \in Word
    BY <1>3 DEF IsInstr
  <2>2. pure' \in Seq(Word \cup {Ref})
    BY <1>5, <2>1 DEF GuestInv, GuestType
  <2>3. QED
    BY <2>2 DEF GuestInv, GuestType, Const, runVars, hookVars
<1>8. Instr.op \notin AddedOps
  BY <1>1 DEF AddedOps
<1>9. QED
  BY <1>1, <1>6, <1>7, <1>8, OwnStepped DEF GuestInv

LEMMA DropType ==
    ASSUME NEW T, NEW s \in Seq(T), NEW n \in Nat, Len(s) >= n, NEW x \in T
    PROVE  Push(Drop(s, n), x) \in Seq(T)
<1>1. SubSeq(s, 1, Len(s) - n) \in Seq(T)
  BY SubSeqProperties
<1>2. QED
  BY <1>1 DEF Push, Drop

LEMMA AllocateStep == ASSUME GuestInv, Allocate PROVE GuestInv'
<1>1. /\ Last(frames).todo # <<>> /\ Instr.op \in {"struct", "fixed", "array"}
      /\ FramesInv /\ frames' = Advance
  BY DEF Allocate, Running, GuestInv
<1>2. PICK i \in Code : i = Instr /\ Turn(i)
  BY <1>1, OwnNext DEF AddedOps
<1>3. /\ i.op \in {"struct", "fixed", "array"} /\ stack = pure
      /\ pure \in Seq(Word \cup {Ref}) /\ made \in Seq(Int)
  BY <1>1, <1>2 DEF Turn, OwnTurn, Calm, GuestInv, GuestType
<1>4. Operands \in Nat /\ Len(stack) >= Operands
  BY <1>2, <1>3, SizeType DEF Allocate, Finds, Operands
<1>5. i.op = "array" => Last(pure) \in Word
  <2> SUFFICES ASSUME i.op = "array" PROVE Last(pure) \in Word
    OBVIOUS
  <2>1. Len(pure) >= 1 /\ Len(pure) \in Nat
    BY <1>2, <1>3, <1>4, SizeType DEF Operands
  <2>2. \A k \in (Len(pure) - 1 + 1)..Len(pure) : pure[k] \in Word
    BY <1>2, <1>3 DEF Allocate, Finds
  <2>3. Len(pure) \in (Len(pure) - 1 + 1)..Len(pure)
    BY <2>1
  <2>4. QED
    BY <2>2, <2>3 DEF Last
<1> DEFINE size == LogicalSize
<1>6. /\ i.op = "array" => size = i.elem * Last(pure)
      /\ i.op # "array" => size = StaticSize(i)
  BY <1>2 DEF LogicalSize
<1> HIDE DEF size
<1>7. size \in Int
  <2>1. CASE i.op = "array"
    <3>1. Last(pure) \in Int /\ i.elem \in Int
      BY <1>5, <2>1, SizeType, MemprofileAssumption DEF Word
    <3>2. QED
      BY <1>6, <2>1, <3>1
  <2>2. CASE i.op # "array"
    BY <1>3, <1>6, <2>2, SizeType
  <2>3. QED
    BY <2>1, <2>2
<1>8. ~Last(frames).tried => asked = Logical(Append(made, size))
  <2> SUFFICES ASSUME ~Last(frames).tried PROVE asked = Logical(Append(made, size))
    OBVIOUS
  <2>1. CASE IsPlain(i) /\ Calm
    <3>1. ~(Signed(Wrap(size)) > 0)
      <4>1. CASE i.op = "array"
        <5>1. i.elem = 0 /\ Last(pure) \in Int
          BY <1>5, <2>1, <4>1, MemprofileAssumption DEF IsPlain, Word
        <5>2. size = 0
          BY <1>6, <4>1, <5>1
        <5>3. 0 \in Word
          BY MemprofileAssumption DEF Word
        <5>4. ~(Signed(0) > 0)
          BY MemprofileAssumption DEF Signed
        <5>5. QED
          BY <5>2, <5>3, <5>4, WrapWord
      <4>2. CASE i.op # "array"
        BY <1>3, <1>6, <2>1, <4>2 DEF IsPlain
      <4>3. QED
        BY <4>1, <4>2
    <3>2. QED
      BY <1>3, <1>7, <2>1, <3>1, LogicalSame, Zenon DEF Calm
  <2>2. CASE IsStatic(i) /\ Due(StaticSize(i))
    <3>1. i.op # "array"
      BY <2>2 DEF IsStatic
    <3>2. QED
      BY <1>6, <2>2, <3>1, Zenon DEF Due
  <2>3. CASE IsDynamic(i) /\ Due(i.elem * Last(pure))
    <3>1. i.op = "array"
      BY <2>3 DEF IsDynamic
    <3>2. QED
      BY <1>6, <2>3, <3>1, Zenon DEF Due
  <2>4. QED
    BY <1>2, <2>1, <2>2, <2>3, Zenon DEF Turn, OwnTurn
<1>8a. Last(frames).tried => asked = Logical(made)
  BY <1>2 DEF Turn, Calm
<1>9. /\ stack' = Push(Drop(stack, Operands), Ref) /\ pure' = Push(Drop(pure, Operands), Ref)
      /\ made' = IF Last(frames).tried THEN made ELSE Append(made, size)
      /\ UNCHANGED <<runVars, hookVars>>
  BY DEF Allocate, size
<1>10. Calm'
  BY <1>3, <1>8, <1>8a, <1>9 DEF Calm, hookVars
<1>11. GuestType'
  <2>1. pure' \in Seq(Word \cup {Ref})
    BY <1>3, <1>4, <1>9, DropType
  <2>2. made' \in Seq(Int)
    BY <1>3, <1>7, <1>9
  <2>3. QED
    BY <1>9, <2>1, <2>2 DEF GuestInv, GuestType, runVars, hookVars
<1>12. Instr.op \notin AddedOps
  BY <1>1 DEF AddedOps
<1>13. QED
  BY <1>1, <1>10, <1>11, <1>12, OwnStepped DEF GuestInv

-----------------------------------------------------------------------------
(* Calls, the host, and the loop over _start.                              *)

LEMMA HostOwnStep == ASSUME GuestInv, Host PROVE GuestInv'
<1>1. Last(frames).todo # <<>> /\ Instr.op = "host" /\ FramesInv /\ frames' = Advance
  BY DEF Host, Running, GuestInv
<1>2. PICK i \in Code : i = Instr /\ Turn(i)
  BY <1>1, OwnNext DEF AddedOps
<1>3. Calm
  BY <1>1, <1>2 DEF Turn, OwnTurn, IsStatic, IsDynamic
<1>4. Calm' /\ GuestType'
  BY <1>3 DEF Calm, Host, hookVars, runVars, GuestInv, GuestType
<1>5. Instr.op \notin AddedOps
  BY <1>1 DEF AddedOps
<1>6. QED
  BY <1>1, <1>4, <1>5, OwnStepped DEF GuestInv

\* A sequence begun, after an instruction that is at its end.
LEMMA BegunFrames ==
    ASSUME NEW fs, OwnAdvanced(fs), NEW f \in Frame, Rests(f), NEW new, new = Append(fs, f)
    PROVE  /\ new \in Seq(Frame) /\ new # <<>> /\ ~new[1].block
           /\ \A k \in 1..Len(new) : Rests(new[k])
<1> DEFINE n == Len(fs)
<1>1. fs \in Seq(Frame) /\ fs # <<>> /\ ~fs[1].block /\ \A k \in 1..n : Rests(fs[k])
  BY DEF OwnAdvanced
<1>2. n \in Nat \ {0}
  BY <1>1, EmptySeq
<1>3. /\ new \in Seq(Frame) /\ Len(new) = n + 1 /\ new[n + 1] = f
      /\ \A k \in 1..n : new[k] = fs[k]
  BY <1>1
<1> HIDE DEF n
<1>4. \A k \in 1..(n + 1) : Rests(new[k])
  BY <1>1, <1>2, <1>3
<1>5. QED
  BY <1>1, <1>2, <1>3, <1>4

\* A sequence of the module as a frame.
LEMMA FrameType ==
    ASSUME NEW fn \in Names, NEW s \in DOMAIN Seqs, NEW block \in BOOLEAN, NEW tried \in BOOLEAN,
           tried <=> s \notin Collected
    PROVE  /\ Begin(fn, s, block, tried) \in Frame /\ Rests(Begin(fn, s, block, tried))
           /\ Begin(fn, s, block, tried).block = block
<1> DEFINE f == Begin(fn, s, block, tried)
           w == Instrument[s]
<1>1. w \in Seq(NewCode) /\ (~tried => w \in Aligned)
  <2>1. CASE s \in Collected
    <3>1. w = Rewritten(Seqs[s])
      BY <2>1 DEF Instrument
    <3>2. w \in Aligned
      BY <3>1, RewrittenRange
    <3>3. QED
      BY <3>2, AlignedCases
  <2>2. CASE s \notin Collected
    <3>1. w = Seqs[s]
      BY <2>2 DEF Instrument
    <3>2. w \in Seq(NewCode)
      BY <3>1, SeqsType DEF NewCode
    <3>3. QED
      BY <2>2, <3>2
  <2>3. QED
    BY <2>1, <2>2
<1>2. f = [fn |-> fn, seq |-> s, todo |-> w, block |-> block, tried |-> tried]
  BY DEF Begin
<1> HIDE DEF f, w
<1>3. /\ f \in [fn : Names, seq : DOMAIN Seqs, todo : Seq(NewCode), block : BOOLEAN, tried : BOOLEAN]
      /\ f.fn = fn /\ f.seq = s /\ f.todo = w /\ f.block = block /\ f.tried = tried
  BY <1>1, <1>2
<1>4. Nested(f)
  BY <1>3 DEF Nested, w
<1>5. f \in Frame
  BY <1>3, <1>4 DEF Frame
<1>6. Rests(f)
  BY <1>1, <1>3 DEF Rests
<1>7. QED
  BY <1>3, <1>5, <1>6 DEF f

\* The instruction of the original that is next, in its sequence.
LEMMA OwnPlace ==
    ASSUME FramesInv, Last(frames).todo # <<>>, Instr.op \notin AddedOps
    PROVE  /\ Last(frames).seq \in DOMAIN Seqs /\ Instr \in Range(Seqs[Last(frames).seq])
           /\ Last(frames).tried <=> Last(frames).seq \notin Collected
           /\ Last(frames).tried \in BOOLEAN /\ Last(frames).fn \in Names
<1> DEFINE f == Last(frames)
<1>1. f \in Frame /\ f.todo # <<>>
  <2>1. frames \in Seq(Frame) /\ frames # <<>>
    BY DEF FramesInv
  <2>2. QED
    BY <2>1, LastType
<1>2. /\ f.seq \in DOMAIN Seqs /\ f.todo \in Seq(NewCode) /\ f.fn \in Names /\ f.tried \in BOOLEAN
      /\ f.tried <=> f.seq \notin Collected
      /\ Range(f.todo) \subseteq Range(Instrument[f.seq])
  BY <1>1 DEF Frame, Nested
<1>3. Head(f.todo) \in Range(f.todo)
  <2> DEFINE t == f.todo
  <2>1. t \in Seq(NewCode) /\ t # <<>>
    BY <1>1, <1>2
  <2> HIDE DEF t
  <2>2. Head(t) = t[1] /\ 1 \in DOMAIN t
    BY <2>1, EmptySeq
  <2>3. QED
    BY <2>2 DEF Range, t
<1>4. Instr \in Range(Instrument[f.seq])
  BY <1>2, <1>3 DEF Instr
<1>5. Instr \in Range(Seqs[f.seq])
  <2>1. CASE f.seq \in Collected
    <3>1. Instrument[f.seq] = Rewritten(Seqs[f.seq])
      BY <1>2, <2>1 DEF Instrument
    <3>2. QED
      BY <1>2, <1>4, <3>1, RewrittenRange
  <2>2. CASE f.seq \notin Collected
    BY <1>2, <1>4, <2>2 DEF Instrument
  <2>3. QED
    BY <2>1, <2>2
<1>6. QED
  BY <1>2, <1>5

\* Within an instruction, found just when it is not a try and not in one.
LEMMA InnerFound ==
    ASSUME NEW s \in DOMAIN Seqs, NEW i \in Range(Seqs[s]), NEW u \in Inner(i)
    PROVE  u \in DOMAIN Seqs /\ (u \in Collected <=> s \in Collected /\ i.op # "try")
<1>1. u \in DOMAIN Seqs /\ i \in Code
  BY InnerType
<1>2. i.op \in {"block", "try", "if"}
  BY DEF Inner
<1>3. CASE s \in Collected /\ i.op # "try"
  <2>1. u \in Followed(i)
    BY <1>2, <1>3 DEF Followed
  <2>2. QED
    BY <1>1, <1>3, <2>1, FollowedFound
<1>4. CASE ~(s \in Collected /\ i.op # "try")
  <2>1. u \notin Bodies
    BY <1>1, NestingAssumption
  <2>2. ASSUME NEW t \in Collected, NEW j \in Range(Seqs[t]), u \in Followed(j) PROVE FALSE
    <3>1. t \in DOMAIN Seqs
      BY DEF Collected
    <3>2. u \in Inner(i) \cap Inner(j)
      BY <2>2, <3>1, InnerType
    <3>3. s = t /\ i = j
      BY <3>1, <3>2, NestingAssumption
    <3>4. i.op # "try"
      BY <2>2, <3>3 DEF Followed
    <3>5. QED
      BY <1>4, <3>3, <3>4
  <2>3. u \notin Collected
    BY <1>1, <2>1, <2>2, NotFound
  <2>4. QED
    BY <1>1, <1>4, <2>3
<1>5. QED
  BY <1>3, <1>4

LEMMA EnterStep == ASSUME GuestInv, Enter PROVE GuestInv'
<1>1. Last(frames).todo # <<>> /\ FramesInv
  BY DEF Enter, Running, GuestInv, FramesInv
<1>2. Instr.op = "call" \/ Inner(Instr) # {}
  BY DEF Enter
<1>3. Instr.op \notin AddedOps /\ Instr.op \notin {"struct", "fixed", "array"}
  BY <1>2 DEF Inner, AddedOps
<1>4. PICK i \in Code : i = Instr /\ Turn(i)
  BY <1>1, <1>3, OwnNext, Zenon
<1>5. Calm
  BY <1>3, <1>4 DEF Turn, OwnTurn, IsStatic, IsDynamic
<1> DEFINE g == Last(frames)
<1>6. /\ g.seq \in DOMAIN Seqs /\ Instr \in Range(Seqs[g.seq])
      /\ g.tried <=> g.seq \notin Collected
      /\ g.tried \in BOOLEAN /\ g.fn \in Names
  BY <1>1, <1>3, OwnPlace, Zenon
<1> HIDE DEF g
<1>7. \E f \in Frame : Rests(f) /\ frames' = Append(Advance, f)
  <2>1. CASE Instr.op = "call" /\ frames' = Append(Advance, Begin(Instr.fn, Instr.seq, FALSE, FALSE))
    <3>1. Instr.seq \in DOMAIN Seqs /\ Instr.seq \in Collected
      BY <1>6, <2>1, InnerType, BodiesFound
    <3>2. Instr.fn \in Names
      BY <1>4 DEF Names
    <3>3. Begin(Instr.fn, Instr.seq, FALSE, FALSE) \in Frame /\ Rests(Begin(Instr.fn, Instr.seq, FALSE, FALSE))
      BY <3>1, <3>2, FrameType
    <3>4. QED
      BY <2>1, <3>3, Zenon
  <2>2. ASSUME NEW u \in Inner(Instr),
               frames' = Append(Advance, Begin(g.fn, u, TRUE, g.tried \/ Instr.op = "try"))
        PROVE  \E f \in Frame : Rests(f) /\ frames' = Append(Advance, f)
    <3> DEFINE tried == g.tried \/ Instr.op = "try"
    <3>1. u \in DOMAIN Seqs /\ (u \in Collected <=> g.seq \in Collected /\ Instr.op # "try")
      BY <1>6, InnerFound, Zenon
    <3>2. tried \in BOOLEAN /\ (tried <=> u \notin Collected)
      BY <1>6, <3>1
    <3> HIDE DEF tried
    <3>3. Begin(g.fn, u, TRUE, tried) \in Frame /\ Rests(Begin(g.fn, u, TRUE, tried))
      BY <1>6, <3>1, <3>2, FrameType
    <3>4. QED
      BY <2>2, <3>3, Zenon DEF tried
  <2>3. QED
    BY <2>1, <2>2 DEF Enter, g
<1>8. PICK f \in Frame : Rests(f) /\ frames' = Append(Advance, f)
  BY <1>7
<1>9. OwnAdvanced(Advance)
  BY <1>1, <1>3, OwnAdvance, Zenon
<1>10. Calm' /\ GuestType'
  BY <1>5 DEF Calm, Enter, hookVars, runVars, GuestInv, GuestType
<1>11. Resting'
  BY <1>8, <1>9, <1>10, BegunFrames DEF Resting
<1>12. QED
  BY <1>10, <1>11, CalmFramesNext DEF GuestInv

\* At the end of a sequence nothing is under way.
LEMMA EndCalm == ASSUME FramesInv, Last(frames).todo = <<>> PROVE Calm
<1>1. CASE Last(frames).tried
  BY <1>1 DEF FramesInv
<1>2. CASE ~Last(frames).tried
  <2>1. PICK todo \in Seq(NewCode) : \E w \in Aligned : Last(frames).todo = todo \o w /\ Around(todo)
    BY <1>2 DEF FramesInv
  <2>2. PICK w \in Aligned : Last(frames).todo = todo \o w /\ Around(todo)
    BY <2>1
  <2>3. w \in Seq(NewCode)
    BY AlignedCases
  <2>4. todo = <<>>
    BY <2>2, <2>3, HeadTail
  <2>5. QED
    BY <2>2, <2>4, AroundEmpty
<1>3. QED
  BY <1>1, <1>2

LEMMA LeaveStep == ASSUME GuestInv, Leave PROVE GuestInv'
<1> DEFINE n == Len(frames)
<1>1. /\ FramesInv /\ frames \in Seq(Frame) /\ n \in Nat /\ n > 1 /\ frames' = Front(frames)
      /\ Last(frames).todo = <<>>
  <2>1. FramesInv /\ frames \in Seq(Frame)
    BY DEF GuestInv, FramesInv
  <2>2. n \in Nat
    BY <2>1, EmptySeq
  <2>3. QED
    BY <2>1, <2>2 DEF Leave
<1>2. Calm' /\ GuestType'
  <2>1. Calm
    BY <1>1, EndCalm
  <2>2. QED
    BY <2>1 DEF Calm, Leave, hookVars, runVars, GuestInv, GuestType
<1>3. /\ frames' \in Seq(Frame) /\ Len(frames') = n - 1
      /\ \A k \in 1..(n - 1) : frames'[k] = frames[k]
  BY <1>1, SubSeqProperties DEF Front
<1>4. ~frames[1].block /\ \A k \in 1..(n - 1) : Rests(frames[k])
  BY <1>1 DEF FramesInv
<1> HIDE DEF n
<1>5. \A k \in 1..(n - 1) : Rests(frames'[k])
  BY <1>3, <1>4
<1>6. frames' # <<>> /\ ~frames'[1].block
  BY <1>1, <1>3, <1>4
<1>7. Resting'
  BY <1>2, <1>3, <1>5, <1>6 DEF Resting
<1>8. QED
  BY <1>2, <1>7, CalmFramesNext DEF GuestInv

LEMMA FramesAtEntry == code \in Programs /\ frames = Entry /\ Calm => FramesInv
<1> SUFFICES ASSUME code \in Programs, frames = Entry, Calm PROVE FramesInv
  OBVIOUS
<1> DEFINE f == Begin("start", code.entry, FALSE, FALSE)
<1>1. code.entry \in DOMAIN Seqs /\ code.entry \in Collected
  BY MemprofileAssumption, BodiesFound DEF Bodies
<1>2. f \in Frame /\ Rests(f) /\ f.block = FALSE
  BY <1>1, FrameType DEF Names
<1>3. frames = <<f>>
  BY DEF Entry
<1> HIDE DEF f
<1>4. Resting
  BY <1>2, <1>3 DEF Resting
<1>5. QED
  BY <1>4, CalmFrames

LEMMA FramesAtNextEntry == (code \in Programs /\ frames = Entry /\ Calm => FramesInv)'
BY FramesAtEntry, PTL

LEMMA AgainStep == ASSUME GuestInv, Again PROVE GuestInv'
<1>1. Calm
  BY EndCalm DEF Again, Returned, GuestInv
<1>2. Calm' /\ GuestType' /\ code' \in Programs
  BY <1>1 DEF Calm, Again, hookVars, GuestInv, GuestType
<1>3. frames' = Entry'
  BY DEF Again, Entry, Begin
<1>4. FramesInv'
  BY <1>2, <1>3, FramesAtNextEntry
<1>5. QED
  BY <1>2, <1>4 DEF GuestInv

-----------------------------------------------------------------------------
(* What the rewriting added.                                               *)

\* Where an expansion goes on.
LEMMA AroundStatic ==
    ASSUME NEW i \in Code, NEW todo, AtStatic(i, todo)' PROVE Around(todo)'
BY DEF Around

LEMMA AroundDynamic ==
    ASSUME NEW i \in Code, NEW todo, AtDynamic(i, todo)' PROVE Around(todo)'
BY DEF Around

\* The operand that Finds has found.
LEMMA Found ==
    ASSUME NEW T, stack \in Seq(T), Finds(1, 1)
    PROVE  stack # <<>> /\ Last(stack) \in Word
<1>1. Len(stack) >= 1 /\ Len(stack) \in Nat
  BY EmptySeq DEF Finds
<1>2. Len(stack) \in (Len(stack) - 1 + 1)..Len(stack)
  BY <1>1
<1>3. stack[Len(stack)] \in Word
  BY <1>2, Zenon DEF Finds
<1>4. QED
  BY <1>1, <1>3 DEF Last

LEMMA StackTwo ==
    ASSUME NEW s \in Seq(Value), NEW x \in Value, NEW y \in Value,
           stack = Append(Append(s, x), y)
    PROVE  Drop(stack, 2) = s /\ stack[Len(stack)] = y /\ stack[Len(stack) - 1] = x
<1> DEFINE u == Append(s, x)
<1>1. u \in Seq(Value) /\ Len(u) = Len(s) + 1 /\ Len(s) \in Nat /\ u[Len(s) + 1] = x
      /\ \A k \in 1..Len(s) : u[k] = s[k]
  OBVIOUS
<1> HIDE DEF u
<1>2. /\ stack \in Seq(Value) /\ Len(stack) = Len(s) + 2 /\ stack[Len(s) + 2] = y
      /\ \A k \in 1..(Len(s) + 1) : stack[k] = u[k]
  BY <1>1, AppendProperties DEF u
<1>3. stack[Len(stack)] = y /\ stack[Len(stack) - 1] = x
  BY <1>1, <1>2
<1>4. Drop(stack, 2) = s
  <2> DEFINE d == SubSeq(stack, 1, Len(s))
  <2>1. Drop(stack, 2) = d
    <3>1. Len(stack) - 2 = Len(s)
      BY <1>1, <1>2
    <3>2. QED
      BY <3>1, Zenon DEF Drop
  <2>2. d \in Seq(Value) /\ Len(d) = Len(s) /\ \A k \in 1..Len(s) : d[k] = stack[k]
    BY <1>1, <1>2, SubSeqProperties
  <2> HIDE DEF d
  <2>3. \A k \in 1..Len(s) : d[k] = s[k]
    BY <1>1, <1>2, <2>2
  <2>4. d = s
    BY <1>1, <2>2, <2>3
  <2>5. QED
    BY <2>1, <2>4
<1>5. QED
  BY <1>3, <1>4

LEMMA AddedAround ==
    ASSUME GuestType, Added, NEW i \in Code, NEW todo, Instr = Head(todo),
           StaticTurn(i, todo) \/ DynamicTurn(i, todo)
    PROVE  Around(Tail(todo))'
<1>1. /\ pure' = pure /\ made' = made /\ asked' = asked
      /\ pure \in Seq(Value)
  BY PureType DEF Added, hookVars
<1>2. /\ Instr.op = "push" => stack' = Append(stack, Instr.v) /\ scratch' = scratch
      /\ Instr.op = "set" => stack' = Front(stack) /\ scratch' = Last(stack) /\ Finds(1, 1)
      /\ Instr.op = "get" => stack' = Append(stack, scratch) /\ scratch' = scratch
      /\ Instr.op = "mul" => /\ stack' = Append(Drop(stack, 2),
                                     Wrap(stack[Len(stack)] * stack[Len(stack) - 1]))
                             /\ scratch' = scratch
      /\ Instr.op # "hook"
  BY DEF Added, Push
<1>3. CASE StaticTurn(i, todo)
  <2>1. todo = <<PushI(Wrap(StaticSize(i))), HookI, i>> /\ Calm
    <3>1. todo # <<HookI, i>>
      BY <1>2 DEF HookI
    <3>2. QED
      BY <1>3, <3>1, Zenon DEF StaticTurn
  <2>2. Head(todo) = PushI(Wrap(StaticSize(i))) /\ Tail(todo) = <<HookI, i>>
    BY <2>1, Heads, Tails
  <2>3. stack' = Append(stack, Wrap(StaticSize(i)))
    BY <1>2, <2>2 DEF PushI
  <2>4. stack' = Append(pure', Wrap(StaticSize(i))) /\ asked' = Logical(made')
    BY <1>1, <2>1, <2>3 DEF Calm
  <2>5. AtStatic(i, Tail(todo))'
    BY <1>3, <2>2, <2>4, Zenon DEF AtStatic, StaticTurn
  <2>6. QED
    BY <2>5, AroundStatic
<1>4. CASE DynamicTurn(i, todo)
  <2> DEFINE p == Front(pure)
             n == Last(pure)
  <2>1. IsDynamic(i) /\ i.elem \in Nat
    BY <1>4 DEF DynamicTurn, IsDynamic
  <2>2. CASE todo = <<SetI, PushI(i.elem), GetI, MulI, HookI, GetI, i>> /\ Calm
    <3>1. Head(todo) = SetI /\ Tail(todo) = <<PushI(i.elem), GetI, MulI, HookI, GetI, i>>
      BY <2>2, Heads, Tails
    <3>2. stack' = Front(stack) /\ scratch' = Last(stack) /\ Finds(1, 1)
      BY <1>2, <3>1 DEF SetI
    <3>3. pure # <<>> /\ Last(pure) \in Word /\ stack = pure /\ asked = Logical(made)
      BY <1>1, <2>2, <3>2, Found DEF Calm
    <3>4. Saved'
      BY <1>1, <3>2, <3>3 DEF Saved
    <3>5. stack' = Front(pure') /\ asked' = Logical(made')
      BY <1>1, <3>2, <3>3
    <3>6. AtDynamic(i, Tail(todo))'
      BY <2>1, <3>1, <3>4, <3>5, Zenon DEF AtDynamic
    <3>7. QED
      BY <3>6, AroundDynamic
  <2>3. CASE AtDynamic(i, todo) /\ todo # <<i>>
    <3>1. Saved /\ p \in Seq(Value) /\ n \in Value /\ n \in Word /\ scratch = n
      <4>1. Saved
        BY <2>3, Zenon DEF AtDynamic
      <4>2. QED
        BY <1>1, <4>1, Fronts DEF Saved
    <3>2. scratch' = scratch => Saved'
      BY <1>1, <3>1 DEF Saved
    <3>3. i.elem \in Value
      BY <2>1 DEF Value
    <3>4. CASE todo = <<PushI(i.elem), GetI, MulI, HookI, GetI, i>>
               /\ stack = Front(pure) /\ asked = Logical(made)
      <4>1. Head(todo) = PushI(i.elem) /\ Tail(todo) = <<GetI, MulI, HookI, GetI, i>>
        BY <3>4, Heads, Tails
      <4>2. stack' = Append(stack, i.elem) /\ scratch' = scratch
        BY <1>2, <4>1 DEF PushI
      <4>3. stack' = Append(Front(pure'), i.elem) /\ asked' = Logical(made')
        BY <1>1, <3>4, <4>2
      <4>4. AtDynamic(i, Tail(todo))'
        BY <2>1, <3>2, <4>1, <4>2, <4>3, Zenon DEF AtDynamic
      <4>5. QED
        BY <4>4, AroundDynamic
    <3>5. CASE todo = <<GetI, MulI, HookI, GetI, i>>
               /\ stack = Append(Front(pure), i.elem) /\ asked = Logical(made)
      <4>1. Head(todo) = GetI /\ Tail(todo) = <<MulI, HookI, GetI, i>>
        BY <3>5, Heads, Tails
      <4>2. stack' = Append(stack, scratch) /\ scratch' = scratch
        BY <1>2, <4>1 DEF GetI
      <4>3. stack' = Append(Append(Front(pure'), i.elem), Last(pure')) /\ asked' = Logical(made')
        BY <1>1, <3>1, <3>5, <4>2
      <4>4. AtDynamic(i, Tail(todo))'
        BY <2>1, <3>2, <4>1, <4>2, <4>3, Zenon DEF AtDynamic
      <4>5. QED
        BY <4>4, AroundDynamic
    <3>6. CASE todo = <<MulI, HookI, GetI, i>>
               /\ stack = Append(Append(Front(pure), i.elem), Last(pure)) /\ asked = Logical(made)
      <4>1. Head(todo) = MulI /\ Tail(todo) = <<HookI, GetI, i>>
        BY <3>6, Heads, Tails
      <4>2. /\ stack' = Append(Drop(stack, 2), Wrap(stack[Len(stack)] * stack[Len(stack) - 1]))
            /\ scratch' = scratch
        BY <1>2, <4>1 DEF MulI
      <4>3. Drop(stack, 2) = p /\ stack[Len(stack)] = n /\ stack[Len(stack) - 1] = i.elem
        <5> HIDE DEF p, n
        <5>1. stack = Append(Append(p, i.elem), n)
          BY <3>6 DEF p, n
        <5>2. p \in Seq(Value) /\ n \in Value /\ i.elem \in Value
          BY <3>1, <3>3
        <5>3. QED
          BY <5>1, <5>2, StackTwo, Zenon
      <4>4. stack' = Append(Front(pure'), Wrap(Last(pure') * i.elem)) /\ asked' = Logical(made')
        BY <1>1, <3>6, <4>2, <4>3
      <4>5. AtDynamic(i, Tail(todo))'
        BY <2>1, <3>2, <4>1, <4>2, <4>4, Zenon DEF AtDynamic
      <4>6. QED
        BY <4>5, AroundDynamic
    <3>7. CASE todo = <<GetI, i>> /\ stack = Front(pure) /\ Due(i.elem * Last(pure))
      <4>1. Head(todo) = GetI /\ Tail(todo) = <<i>>
        BY <3>7, Heads, Tails
      <4>2. stack' = Append(stack, scratch) /\ scratch' = scratch
        BY <1>2, <4>1 DEF GetI
      <4>3. stack' = pure'
        BY <1>1, <3>1, <3>7, <4>2, Fronts DEF Saved
      <4>4. Due(i.elem * Last(pure))'
        BY <1>1, <3>7 DEF Due
      <4>5. AtDynamic(i, Tail(todo))'
        BY <2>1, <3>2, <4>1, <4>2, <4>3, <4>4, Zenon DEF AtDynamic
      <4>6. QED
        BY <4>5, AroundDynamic
    <3>8. todo # <<HookI, GetI, i>>
      BY <1>2 DEF HookI
    <3>9. QED
      BY <2>3, <3>4, <3>5, <3>6, <3>7, <3>8, Zenon DEF AtDynamic
  <2>4. QED
    BY <1>4, <2>2, <2>3, Zenon DEF DynamicTurn
<1>5. QED
  BY <1>3, <1>4

LEMMA AddedStep == ASSUME GuestInv, Added PROVE GuestInv'
<1>1. /\ Last(frames).todo # <<>> /\ Instr.op \in AddedOps /\ FramesInv /\ frames' = Advance
  BY DEF Added, Running, GuestInv, AddedOps
<1>2. PICK todo \in Seq(NewCode) \ {<<>>} : \E w \in Aligned : \E i \in Code :
         /\ Last(frames).todo = todo \o w /\ Instr = Head(todo)
         /\ StaticTurn(i, todo) \/ DynamicTurn(i, todo)
  BY <1>1, AddedNext, Zenon
<1>3. PICK w \in Aligned : \E i \in Code :
         /\ Last(frames).todo = todo \o w /\ Instr = Head(todo)
         /\ StaticTurn(i, todo) \/ DynamicTurn(i, todo)
  BY <1>2
<1>4. Around(Tail(todo))'
  BY <1>3, AddedAround, Zenon DEF GuestInv
<1>5. FramesInv'
  BY <1>1, <1>3, <1>4, AddedNext, Stepped, Zenon
<1>6. GuestType'
  BY DEF GuestInv, GuestType, Added, runVars, hookVars
<1>7. QED
  BY <1>5, <1>6 DEF GuestInv

\* The hook before an allocation.
LEMMA HookDue ==
    ASSUME GuestType, asked = Logical(made), NEW n \in Int,
           AllocHook(Wrap(n), frames), made' = made
    PROVE  asked' = Logical(Append(made', n)) /\ asked' \in Seq(Int)
<1>1. Wrap(Wrap(n)) = Wrap(n) /\ Wrap(n) \in Word /\ made \in Seq(Int) /\ asked \in Seq(Int)
  BY WrapType, WrapWord DEF GuestType
<1>2. asked' = asked \o Hooked(Wrap(n)) /\ asked' \in Seq(Int)
  BY <1>1, HookAsks
<1>3. Logical(Append(made, n)) = Logical(made) \o Hooked(Wrap(n))
  BY <1>1, LogicalAppend
<1>4. QED
  BY <1>2, <1>3

LEMMA HookAround ==
    ASSUME GuestType, CallHook, NEW i \in Code, NEW todo, Instr = Head(todo),
           StaticTurn(i, todo) \/ DynamicTurn(i, todo)
    PROVE  Around(Tail(todo))' /\ asked' \in Seq(Int) /\ Last(stack) \in Word
<1>1. /\ pure' = pure /\ made' = made /\ scratch' = scratch /\ Instr.op = "hook"
      /\ pure \in Seq(Value) /\ stack' = Front(stack) /\ AllocHook(Last(stack), frames)
  BY PureType DEF CallHook
<1>2. Word \subseteq Value
  BY MemprofileAssumption DEF Word, Value
<1>3. CASE StaticTurn(i, todo)
  <2> DEFINE size == StaticSize(i)
  <2>1. todo # <<PushI(Wrap(size)), HookI, i>>
    BY <1>1 DEF PushI
  <2>2. IsStatic(i) /\ todo = <<HookI, i>> /\ stack = Append(pure, Wrap(size)) /\ asked = Logical(made)
    BY <1>3, <2>1, Zenon DEF StaticTurn
  <2>3. size \in Int /\ Wrap(size) \in Value /\ Wrap(size) \in Word
    BY <1>2, <2>2, SizeType, WrapType DEF IsStatic
  <2>4. stack' = pure /\ Last(stack) = Wrap(size)
    BY <1>1, <2>2, <2>3, Ends
  <2>5. Due(size)' /\ asked' \in Seq(Int)
    BY <1>1, <2>2, <2>3, <2>4, HookDue DEF Due
  <2>6. stack' = pure' /\ Tail(todo) = <<i>>
    BY <1>1, <2>2, <2>4, Tails
  <2>7. AtStatic(i, Tail(todo))'
    BY <2>2, <2>5, <2>6, Zenon DEF AtStatic
  <2>8. QED
    BY <2>3, <2>4, <2>5, <2>7, AroundStatic
<1>4. CASE DynamicTurn(i, todo)
  <2> DEFINE p == Front(pure)
             n == Last(pure)
  <2>1. /\ todo # <<SetI, PushI(i.elem), GetI, MulI, HookI, GetI, i>>
        /\ todo # <<PushI(i.elem), GetI, MulI, HookI, GetI, i>>
        /\ todo # <<GetI, MulI, HookI, GetI, i>>
        /\ todo # <<MulI, HookI, GetI, i>>
        /\ todo # <<GetI, i>>
    BY <1>1 DEF SetI, PushI, GetI, MulI
  <2>2. /\ IsDynamic(i) /\ Saved /\ todo = <<HookI, GetI, i>>
        /\ stack = Append(p, Wrap(n * i.elem)) /\ asked = Logical(made)
    BY <1>4, <2>1, Zenon DEF DynamicTurn, AtDynamic
  <2>3. n \in Word /\ n \in Int /\ i.elem \in Nat /\ p \in Seq(Value)
    <3>1. n \in Word /\ pure # <<>>
      BY <2>2 DEF Saved
    <3>2. n \in Int
      BY <3>1, MemprofileAssumption DEF Word
    <3>3. i.elem \in Nat
      BY <2>2 DEF IsDynamic
    <3>4. p \in Seq(Value)
      BY <1>1, <3>1, Fronts
    <3>5. QED
      BY <3>1, <3>2, <3>3, <3>4
  <2> HIDE DEF p, n
  <2>4. n * i.elem = i.elem * n /\ i.elem * n \in Int
    BY <2>3
  <2> DEFINE size == i.elem * n
  <2>5. Wrap(size) \in Value /\ Wrap(size) \in Word /\ stack = Append(p, Wrap(size))
    BY <1>2, <2>2, <2>4, WrapType
  <2> HIDE DEF size
  <2>6. stack' = p /\ Last(stack) = Wrap(size)
    BY <1>1, <2>3, <2>5, Ends
  <2>7. asked' = Logical(Append(made', size)) /\ asked' \in Seq(Int)
    <3>1. size \in Int
      BY <2>4 DEF size
    <3>2. AllocHook(Wrap(size), frames)
      BY <1>1, <2>6, Zenon
    <3>3. QED
      BY <1>1, <2>2, <3>1, <3>2, HookDue
  <2>8. Saved'
    BY <1>1, <2>2 DEF Saved
  <2>9. stack' = Front(pure') /\ Tail(todo) = <<GetI, i>> /\ Due(i.elem * Last(pure))'
    BY <1>1, <2>2, <2>6, <2>7, Tails DEF size, p, n, Due
  <2>10. AtDynamic(i, Tail(todo))'
    BY <2>2, <2>8, <2>9, Zenon DEF AtDynamic
  <2>11. QED
    BY <2>5, <2>6, <2>7, <2>10, AroundDynamic
<1>5. QED
  BY <1>3, <1>4

LEMMA CallHookStep == ASSUME GuestInv, CallHook PROVE GuestInv'
<1>1. /\ Last(frames).todo # <<>> /\ Instr.op \in AddedOps /\ FramesInv /\ frames' = Advance
  BY DEF CallHook, Running, GuestInv, AddedOps
<1>2. PICK todo \in Seq(NewCode) \ {<<>>} : \E w \in Aligned : \E i \in Code :
         /\ Last(frames).todo = todo \o w /\ Instr = Head(todo)
         /\ StaticTurn(i, todo) \/ DynamicTurn(i, todo)
  BY <1>1, AddedNext, Zenon
<1>3. PICK w \in Aligned : \E i \in Code :
         /\ Last(frames).todo = todo \o w /\ Instr = Head(todo)
         /\ StaticTurn(i, todo) \/ DynamicTurn(i, todo)
  BY <1>2
<1>4. Around(Tail(todo))' /\ asked' \in Seq(Int)
  BY <1>3, HookAround, Zenon DEF GuestInv
<1>5. FramesInv'
  BY <1>1, <1>3, <1>4, AddedNext, Stepped, Zenon
<1>6. GuestType'
  BY <1>4 DEF GuestInv, GuestType, CallHook, runVars
<1>7. QED
  BY <1>5, <1>6 DEF GuestInv

LEMMA MallocStep == ASSUME GuestInv, Malloc PROVE GuestInv'
<1>1. /\ Last(frames).todo # <<>> /\ Instr.op = "malloc" /\ FramesInv /\ frames' = Advance
      /\ Instr.op \notin AddedOps
  BY DEF Malloc, Running, GuestInv, AddedOps
<1>2. Calm
  BY <1>1, OwnNext DEF Turn, OwnTurn, IsStatic, IsDynamic
<1> DEFINE n == Last(pure)
           fs == Append(frames, [fn |-> "moonbit.malloc", block |-> FALSE])
<1>3. /\ stack = pure /\ asked = Logical(made) /\ Finds(1, 1) /\ AllocHook(n, fs)
      /\ made' = Append(made, n)
      /\ stack' = Append(Front(stack), Ref) /\ pure' = Append(Front(pure), Ref)
  BY <1>2 DEF Calm, Malloc, Push
<1> HIDE DEF fs
<1>4. pure \in Seq(Word \cup {Ref}) /\ asked \in Seq(Int) /\ made \in Seq(Int)
  BY DEF GuestInv, GuestType
<1>5. pure # <<>> /\ n \in Word /\ n \in Int
  <2>1. stack # <<>> /\ Last(stack) \in Word
    BY <1>3, <1>4, Found
  <2>2. QED
    BY <1>3, <2>1, MemprofileAssumption DEF Word
<1>6. pure' \in Seq(Word \cup {Ref})
  <2>1. Front(pure) \in Seq(Word \cup {Ref})
    BY <1>4, <1>5, Fronts
  <2>2. QED
    BY <1>3, <2>1
<1> HIDE DEF n
<1>7. asked' = asked \o Hooked(n) /\ asked' \in Seq(Int)
  BY <1>3, <1>4, <1>5, HookAsks
<1>8. Logical(Append(made, n)) = Logical(made) \o Hooked(n)
  <2>1. Wrap(n) = n
    BY <1>5, WrapWord
  <2>2. QED
    BY <1>4, <1>5, <2>1, LogicalAppend
<1>9. Calm'
  <2>1. stack' = pure'
    BY <1>3
  <2>2. asked' = Logical(made')
    BY <1>3, <1>7, <1>8
  <2>3. QED
    BY <2>1, <2>2 DEF Calm
<1>10. FramesInv'
  BY <1>1, <1>9, OwnStepped
<1>11. GuestType'
  <2>1. made' \in Seq(Int)
    BY <1>3, <1>4, <1>5
  <2>2. QED
    BY <1>6, <1>7, <2>1 DEF GuestInv, GuestType, Malloc, runVars
<1>12. QED
  BY <1>10, <1>11 DEF GuestInv

-----------------------------------------------------------------------------

LEMMA StillStep ==
    ASSUME GuestInv, UNCHANGED <<code, rate, round, frames, stack, scratch, hookVars, pure, made>>
    PROVE  GuestInv'
<1>1. GuestType'
  BY DEF GuestInv, GuestType, hookVars
<1>2. \A todo : Around(todo) => Around(todo)'
  BY Zenon DEF Around, AtStatic, AtDynamic, Calm, Due, Saved, hookVars
<1>3. Calm => Calm'
  BY DEF Calm, hookVars
<1>4. FramesInv'
  BY <1>2, <1>3, Zenon DEF GuestInv, FramesInv, Rests
<1>5. QED
  BY <1>1, <1>4 DEF GuestInv

LEMMA GuestInit == ASSUME Init PROVE GuestInv
<1>1. /\ code \in Programs /\ rate \in SampleRates /\ round = 1 /\ frames = Entry
      /\ stack = <<>> /\ pure = <<>> /\ made = <<>> /\ asked = <<>>
  BY DEF Init
<1>2. Logical(<<>>) = <<>>
  <2>1. [i \in DOMAIN <<>> |-> LET n == Signed(Wrap(<<>>[i])) IN IF n > 0 THEN <<n>> ELSE <<>>] = <<>>
    OBVIOUS
  <2>2. QED
    BY <2>1, FlattenEmpty, Zenon DEF Logical
<1>3. Calm
  BY <1>1, <1>2 DEF Calm
<1>4. QED
  BY <1>1, <1>3, FramesAtEntry DEF GuestInv, GuestType

\* The guest computes what the original code does, and the hook keeps up.
THEOREM GuestInvariant == Spec => []GuestInv
<1>1. Init => GuestInv
  BY GuestInit
<1>2. GuestInv /\ [Next]_vars => GuestInv'
  <2> SUFFICES ASSUME GuestInv, [Next]_vars PROVE GuestInv'
    OBVIOUS
  <2>1. CASE Const
    BY <2>1, ConstStep
  <2>2. CASE Allocate
    BY <2>2, AllocateStep
  <2>3. CASE Enter
    BY <2>3, EnterStep
  <2>4. CASE Leave
    BY <2>4, LeaveStep
  <2>5. CASE Added
    BY <2>5, AddedStep
  <2>6. CASE CallHook
    BY <2>6, CallHookStep
  <2>7. CASE Malloc
    BY <2>7, MallocStep
  <2>8. CASE Host
    BY <2>8, HostOwnStep
  <2>9. CASE Trap
    BY <2>9, StillStep DEF Trap
  <2>10. CASE Again
    BY <2>10, AgainStep
  <2>11. CASE WriteProfile
    BY <2>11, StillStep DEF WriteProfile
  <2>12. CASE UNCHANGED vars
    BY <2>12, StillStep DEF vars, runVars
  <2>13. QED
    BY <2>1, <2>2, <2>3, <2>4, <2>5, <2>6, <2>7, <2>8, <2>9, <2>10, <2>11, <2>12 DEF Next
<1>3. QED
  BY <1>1, <1>2, PTL DEF Spec

\* StackIntact: whatever is added around allocations, at any nesting and with
\* any of the hooks, every instruction of the original code finds the operands
\* it would find without it.
THEOREM OperandsIntact == Spec => []StackIntact
<1>1. GuestInv => StackIntact
  <2> SUFFICES ASSUME GuestInv, Running, Instr.op \notin AddedOps PROVE stack = pure
    BY DEF StackIntact, AddedOps
  <2>1. FramesInv /\ Last(frames).todo # <<>>
    BY DEF GuestInv, Running
  <2>2. QED
    BY <2>1, OwnNext DEF Turn, OwnTurn, Calm
<1>2. QED
  BY <1>1, GuestInvariant, PTL

\* HookSeesAllOutsideTry: when a call of _start returns, the hook has been
\* called for each allocation of the run outside of a try with its logical size
\* as an i32, in order, but for those of no or negative size, and for no other.
THEOREM AllOutsideTryHooked == Spec => []HookSeesAllOutsideTry
<1>1. GuestInv => HookSeesAllOutsideTry
  BY EndCalm DEF GuestInv, HookSeesAllOutsideTry, Returned, Calm
<1>2. QED
  BY <1>1, GuestInvariant, PTL

(***************************************************************************)
(* What the hook records.                                                  *)
(***************************************************************************)

Entries == [count : Int, bytes : Int]
Counts(map) == [s \in DOMAIN map |-> map[s].count]
ByteSums(map) == [s \in DOMAIN map |-> map[s].bytes]

\* The profile, and the trace beside it.
SamplesInv ==
    /\ IsFiniteSet(DOMAIN samples) /\ samples \in [DOMAIN samples -> Entries]
    /\ <<>> \notin DOMAIN samples
    /\ trace.objects = SumFunction(Counts(samples))
    /\ trace.bytes = SumFunction(ByteSums(samples))
    /\ trace \in [objects : Int, bytes : Int, events : Int]

\* The objects counted so far are the sampled ones, each for rate of them.
RateInv ==
    /\ counter = Len(asked)
    /\ \E k \in Nat : /\ trace.objects = rate * k
                      /\ counter <= rate * k /\ rate * k < counter + rate

FileInv ==
    /\ file # None => /\ status # "run" /\ file = samples /\ round = code.iterations
                      /\ Len(frames) = 1 /\ Last(frames).todo = <<>>
    /\ status = "ok" => file = samples

AccountsInv == SamplesInv /\ RateInv /\ FileInv

-----------------------------------------------------------------------------

LEMMA RateType == ASSUME GuestType PROVE rate \in Nat \ {0}
BY MemprofileAssumption DEF GuestType

\* What a backtrace is taken of: the frames, and moonbit.malloc over them.
CallFrame == Frame \cup {[fn |-> "moonbit.malloc", block |-> FALSE]}

LEMMA CallFrameType == ASSUME NEW f \in CallFrame PROVE f.fn \in Names
BY DEF CallFrame, Frame, Names

\* The stack of a guest function is not empty.
LEMMA BacktraceFound ==
    ASSUME NEW fs \in Seq(CallFrame), fs # <<>>, ~fs[1].block
    PROVE  Backtrace(fs) # <<>>
<1> DEFINE all == [i \in DOMAIN fs |-> IF fs[i].block THEN <<>> ELSE <<fs[i].fn>>]
<1>1. DOMAIN fs = 1..Len(fs) /\ Len(fs) \in Nat \ {0} /\ \A i \in DOMAIN fs : fs[i] \in CallFrame
  BY EmptySeq
<1>2. \A i \in DOMAIN fs : (IF fs[i].block THEN <<>> ELSE <<fs[i].fn>>) \in Seq(Names)
  <2>1. \A i \in DOMAIN fs : fs[i].fn \in Names
    BY <1>1, CallFrameType
  <2>2. QED
    BY <2>1
<1>3. all \in [1..Len(fs) -> Seq(Names)]
  BY <1>1, <1>2, Zenon
<1>4. all[1] = <<fs[1].fn>>
  BY <1>1
<1>5. Backtrace(fs) = Reverse(FlattenSeq(all))
  BY Zenon DEF Backtrace
<1> HIDE DEF all
<1>6. all \in Seq(Seq(Names)) /\ all # <<>> /\ Head(all) = all[1]
  BY <1>1, <1>3
<1> DEFINE rest == FlattenSeq(Tail(all))
<1>7. rest \in Seq(Names)
  <2>1. Tail(all) \in Seq(Seq(Names))
    BY <1>6
  <2>2. QED
    BY <2>1, FlattenType
<1>8. FlattenSeq(all) = <<fs[1].fn>> \o rest
  BY <1>4, <1>6, FlattenTail, Zenon
<1>9. fs[1].fn \in Names
  BY <1>1, CallFrameType
<1> HIDE DEF rest
<1> DEFINE u == <<fs[1].fn>> \o rest
<1>10. Len(u) \in Nat \ {0}
  BY <1>7, <1>9
<1> HIDE DEF u
<1>11. Reverse(u) # <<>>
  <2>1. DOMAIN Reverse(u) = 1..Len(u)
    BY DEF Reverse
  <2>2. 1 \in DOMAIN Reverse(u)
    BY <1>10, <2>1
  <2>3. QED
    BY <2>2
<1>12. QED
  BY <1>5, <1>8, <1>11 DEF u

\* A sample of count and bytes added to its stack's.
Credited(map, new, S, key, count, bytes) ==
    /\ new \in [S \cup {key} -> Entries]
    /\ SumFunction(Counts(new)) = SumFunction(Counts(map)) + count
    /\ SumFunction(ByteSums(new)) = SumFunction(ByteSums(map)) + bytes

InColumns(map, S) ==
    /\ Counts(map) \in [S -> Int] /\ ByteSums(map) \in [S -> Int]
    /\ \A s \in S : Counts(map)[s] = map[s].count /\ ByteSums(map)[s] = map[s].bytes

LEMMA Columns == ASSUME NEW S, NEW map \in [S -> Entries] PROVE InColumns(map, S)
<1>1. DOMAIN map = S /\ \A s \in S : map[s] \in Entries
  OBVIOUS
<1>2. \A s \in S : map[s].count \in Int /\ map[s].bytes \in Int
  BY <1>1 DEF Entries
<1>3. Counts(map) \in [S -> Int] /\ \A s \in S : Counts(map)[s] = map[s].count
  BY <1>1, <1>2 DEF Counts
<1>4. ByteSums(map) \in [S -> Int] /\ \A s \in S : ByteSums(map)[s] = map[s].bytes
  BY <1>1, <1>2 DEF ByteSums
<1>5. QED
  BY <1>3, <1>4 DEF InColumns

LEMMA CreditSums ==
    ASSUME NEW S, IsFiniteSet(S), NEW map \in [S -> Entries], NEW key,
           NEW scale \in Int, NEW size \in Int
    PROVE  Credited(map, Credit(map, key, scale, size), S, key, scale, size * scale)
<1> DEFINE R == S \cup {key}
           new == Credit(map, key, scale, size)
           old == IF key \in S THEN map[key] ELSE [count |-> 0, bytes |-> 0]
           more == [count |-> old.count + scale, bytes |-> old.bytes + size * scale]
<1>1. DOMAIN map = S /\ \A s \in S : map[s] \in Entries
  OBVIOUS
<1>2. size * scale \in Int
  OBVIOUS
<1>3. old \in Entries
  BY <1>1 DEF Entries
<1>4. /\ old.count = (IF key \in S THEN map[key].count ELSE 0)
      /\ old.bytes = (IF key \in S THEN map[key].bytes ELSE 0)
      /\ old.count \in Int /\ old.bytes \in Int
  BY <1>3 DEF Entries
<1>5. /\ more \in Entries /\ more.count = old.count + scale
      /\ more.bytes = old.bytes + size * scale
  BY <1>2, <1>4 DEF Entries
<1>6. /\ DOMAIN new = R
      /\ new[key] = more
      /\ \A s \in R \ {key} : s \in S /\ new[s] = map[s]
  BY <1>1 DEF Credit
<1>7. new = [s \in R |-> new[s]]
  BY <1>1 DEF Credit
<1> HIDE DEF R, new, old, more
<1>8. \A s \in R : new[s] \in Entries
  BY <1>1, <1>5, <1>6
<1>9. new \in [R -> Entries]
  BY <1>7, <1>8
<1>10. InColumns(map, S)
  BY Columns, Zenon
<1>11. InColumns(new, R)
  BY <1>9, Columns, Zenon
<1>12. key \in R
  BY DEF R
<1> DEFINE cm == Counts(map)
           cn == Counts(new)
           bm == ByteSums(map)
           bn == ByteSums(new)
<1>13. /\ \A s \in S \ {key} : cn[s] = cm[s] /\ bn[s] = bm[s]
       /\ cn[key] = old.count + scale /\ bn[key] = old.bytes + size * scale
       /\ key \in S => cm[key] = old.count /\ bm[key] = old.bytes
  <2>1. \A s \in S \ {key} : s \in R \ {key}
    BY DEF R
  <2>2. QED
    BY <1>4, <1>5, <1>6, <1>10, <1>11, <1>12, <2>1 DEF InColumns
<1>14. key \notin S => old.count = 0 /\ old.bytes = 0
  BY <1>4
<1>15. cm \in [S -> Int] /\ bm \in [S -> Int] /\ cn \in [S \cup {key} -> Int] /\ bn \in [S \cup {key} -> Int]
  BY <1>10, <1>11 DEF InColumns, R
<1> HIDE DEF cm, cn, bm, bn
<1>13a. \A s \in S \ {key} : cn[s] = cm[s]
  BY <1>13
<1>13b. \A s \in S \ {key} : bn[s] = bm[s]
  BY <1>13
<1>16. SumsMove(cm, cn, S, key)
  BY <1>13a, <1>15, SumChange, Zenon
<1>17. SumsMove(bm, bn, S, key)
  BY <1>13b, <1>15, SumChange, Zenon
<1>18. SumFunction(cn) = SumFunction(cm) + scale
  BY <1>4, <1>13, <1>14, <1>16 DEF SumsMove
<1>19. SumFunction(bn) = SumFunction(bm) + size * scale
  BY <1>2, <1>4, <1>13, <1>14, <1>17 DEF SumsMove
<1>20. QED
  BY <1>9, <1>18, <1>19 DEF Credited, R, new, cm, cn, bm, bn

\* A number in 1..n leaves the remainder it should.
LEMMA Residue ==
    ASSUME NEW n \in Nat, NEW q \in Nat, NEW R \in Nat \ {0}, NEW r \in 0..(R - 1),
           n = R * q + r
    PROVE  n % R = r
OBVIOUS

\* The next call is sampled exactly when the samples so far stand for no more
\* than those counted so far.
LEMMA NextScale ==
    ASSUME rate \in Nat \ {0}, counter \in Nat, NEW k \in Nat,
           counter <= rate * k, rate * k < counter + rate
    PROVE  Scale = IF counter = rate * k THEN rate ELSE 0
<1>1. CASE rate = 1
  BY <1>1 DEF Scale
<1>2. CASE rate > 1
  <2>1. Scale = IF counter % rate = 0 THEN rate ELSE 0
    BY <1>2 DEF Scale
  <2>2. CASE counter = rate * k
    <3>1. counter % rate = 0
      BY <2>2, Residue
    <3>2. QED
      BY <2>1, <2>2, <3>1
  <2>3. CASE counter # rate * k
    <3> DEFINE r == counter + rate - rate * k
    <3>1. rate * k \in Nat
      OBVIOUS
    <3>2. r \in 1..(rate - 1)
      BY <2>3, <3>1
    <3>3. k # 0
      BY <2>3
    <3>4. k - 1 \in Nat /\ rate * (k - 1) = rate * k - rate
      BY <3>3
    <3>5. counter = rate * (k - 1) + r
      BY <3>1, <3>4
    <3> HIDE DEF r
    <3>6. counter % rate = r
      BY <3>2, <3>4, <3>5, Residue
    <3>7. QED
      BY <2>1, <2>3, <3>2, <3>6
  <2>4. QED
    BY <2>2, <2>3
<1>3. QED
  BY <1>1, <1>2

\* The hook, called from a guest function.
LEMMA HookAccounts ==
    ASSUME GuestType, SamplesInv, RateInv, NEW w \in Word, NEW fs \in Seq(CallFrame), fs # <<>>,
           ~fs[1].block, AllocHook(w, fs), rate' = rate
    PROVE  SamplesInv' /\ RateInv'
<1>1. CASE Signed(w) <= 0
  <2>1. UNCHANGED <<counter, samples, trace, asked, rate>>
    BY <1>1 DEF AllocHook, hookVars
  <2>2. QED
    BY <2>1 DEF SamplesInv, RateInv
<1>2. CASE ~(Signed(w) <= 0)
  <2> DEFINE size == Signed(w)
             key == Backtrace(fs)
  <2>1. /\ counter' = counter + 1 /\ asked' = Append(asked, size)
        /\ Scale = 0 => UNCHANGED <<samples, trace>>
        /\ Scale # 0 => samples' = Credit(samples, key, Scale, size) /\ trace' = Record(Scale, size)
    BY <1>2 DEF AllocHook
  <2>2. size \in Int /\ key # <<>>
    BY WrapWord, BacktraceFound
  <2> HIDE DEF size, key
  <2>3. PICK k \in Nat : /\ trace.objects = rate * k
                         /\ counter <= rate * k /\ rate * k < counter + rate
    BY DEF RateInv
  <2>4. rate \in Nat \ {0} /\ asked \in Seq(Int) /\ counter = Len(asked) /\ counter \in Nat
    BY RateType DEF GuestType, RateInv
  <2>5. Scale = IF counter = rate * k THEN rate ELSE 0
    BY <2>3, <2>4, NextScale
  <2>6. counter' = Len(asked') /\ Len(asked') = counter + 1
    BY <2>1, <2>2, <2>4
  <2>7. CASE counter = rate * k
    <3>1. Scale = rate /\ rate # 0 /\ rate \in Int
      BY <2>4, <2>5, <2>7
    <3>2. samples' = Credit(samples, key, rate, size) /\ trace' = Record(rate, size)
      BY <2>1, <3>1
    <3>3. /\ IsFiniteSet(DOMAIN samples) /\ samples \in [DOMAIN samples -> Entries]
          /\ <<>> \notin DOMAIN samples
          /\ trace.objects = SumFunction(Counts(samples)) /\ trace.bytes = SumFunction(ByteSums(samples))
          /\ trace \in [objects : Int, bytes : Int, events : Int]
      BY DEF SamplesInv
    <3> DEFINE more == size * rate
    <3>3a. Credited(samples, samples', DOMAIN samples, key, rate, more)
      BY <2>2, <3>1, <3>2, <3>3, CreditSums, Zenon
    <3>4. /\ samples' \in [DOMAIN samples \cup {key} -> Entries]
          /\ SumFunction(Counts(samples')) = SumFunction(Counts(samples)) + rate
          /\ SumFunction(ByteSums(samples')) = SumFunction(ByteSums(samples)) + more
      BY <3>3a DEF Credited
    <3>5. DOMAIN samples' = DOMAIN samples \cup {key} /\ IsFiniteSet(DOMAIN samples')
      BY <3>3, <3>4, FS_AddElement
    <3>6. /\ trace' = [trace EXCEPT !.objects = @ + rate, !.bytes = @ + more, !.events = @ + 1]
          /\ more \in Int
      BY <2>2, <3>1, <3>2 DEF Record
    <3> HIDE DEF more
    <3>7. /\ trace'.objects = trace.objects + rate /\ trace'.bytes = trace.bytes + more
          /\ trace' \in [objects : Int, bytes : Int, events : Int]
      <4>1. trace \in [objects : Int, bytes : Int, events : Int] /\ rate \in Int /\ more \in Int
        BY <3>1, <3>3, <3>6
      <4>2. trace' = [objects |-> trace.objects + rate, bytes |-> trace.bytes + more,
                      events |-> trace.events + 1]
        BY <3>6, <4>1
      <4>3. QED
        BY <4>1, <4>2
    <3>8. SamplesInv'
      BY <2>2, <3>3, <3>4, <3>5, <3>7 DEF SamplesInv, Counts, Bytes
    <3>9. rate * (k + 1) = rate * k + rate /\ k + 1 \in Nat
      BY <2>4
    <3>10. /\ trace'.objects = rate' * (k + 1) /\ counter' <= rate' * (k + 1)
           /\ rate' * (k + 1) < counter' + rate'
      BY <2>1, <2>3, <2>4, <2>7, <3>7, <3>9
    <3>11. QED
      BY <2>6, <3>8, <3>9, <3>10 DEF RateInv
  <2>8. CASE counter # rate * k
    <3>1. UNCHANGED <<samples, trace>>
      BY <2>1, <2>5, <2>8
    <3>2. SamplesInv'
      BY <3>1 DEF SamplesInv
    <3>3. rate * k \in Nat
      BY <2>4
    <3>4. counter' <= rate * k /\ rate * k < counter' + rate
      BY <2>1, <2>3, <2>4, <2>8, <3>3
    <3>5. trace'.objects = rate' * k /\ counter' <= rate' * k /\ rate' * k < counter' + rate'
      BY <2>3, <3>1, <3>4
    <3>6. QED
      BY <2>6, <3>2, <3>5 DEF RateInv
  <2>9. QED
    BY <2>7, <2>8
<1>3. QED
  BY <1>1, <1>2

LEMMA HookCalled ==
    ASSUME GuestInv, CallHook
    PROVE  /\ Last(stack) \in Word /\ frames \in Seq(CallFrame) /\ frames # <<>> /\ ~frames[1].block
           /\ AllocHook(Last(stack), frames)
<1>1. Last(frames).todo # <<>> /\ Instr.op \in AddedOps /\ FramesInv
  BY DEF CallHook, Running, GuestInv, AddedOps
<1>2. PICK todo \in Seq(NewCode) \ {<<>>} : \E w \in Aligned : \E i \in Code :
         /\ Last(frames).todo = todo \o w /\ Instr = Head(todo)
         /\ StaticTurn(i, todo) \/ DynamicTurn(i, todo)
  BY <1>1, AddedNext, Zenon
<1>3. Last(stack) \in Word
  BY <1>2, HookAround, Zenon DEF GuestInv
<1>4. frames \in Seq(CallFrame)
  BY <1>1, Wider DEF FramesInv, CallFrame
<1>5. QED
  BY <1>1, <1>3, <1>4 DEF FramesInv, CallHook

LEMMA MallocCalled ==
    ASSUME GuestInv, Malloc
    PROVE  \E fs \in Seq(CallFrame) : /\ fs # <<>> /\ ~fs[1].block
                                  /\ Last(stack) \in Word /\ AllocHook(Last(stack), fs)
<1>1. /\ Last(frames).todo # <<>> /\ Instr.op = "malloc" /\ FramesInv /\ Finds(1, 1)
      /\ pure \in Seq(Word \cup {Ref})
  BY DEF Malloc, Running, GuestInv, GuestType
<1>2. stack = pure
  BY <1>1, OwnNext DEF AddedOps, Turn, OwnTurn, Calm
<1> DEFINE f == [fn |-> "moonbit.malloc", block |-> FALSE]
           fs == Append(frames, f)
<1>3. AllocHook(Last(stack), fs)
  BY DEF Malloc
<1>4. Last(stack) \in Word
  BY <1>1, <1>2, Found
<1>5. f \in CallFrame
  BY DEF CallFrame
<1> HIDE DEF f
<1>6. frames \in Seq(CallFrame) /\ frames # <<>> /\ ~frames[1].block
  BY <1>1, Wider DEF FramesInv, CallFrame
<1>7. fs \in Seq(CallFrame) /\ fs # <<>> /\ fs[1] = frames[1]
  <2>1. Len(frames) \in Nat \ {0}
    BY <1>6, EmptySeq
  <2>2. QED
    BY <1>5, <1>6, <2>1
<1>8. QED
  BY <1>3, <1>4, <1>6, <1>7

LEMMA AccountsInit == ASSUME Init PROVE AccountsInv
<1>1. /\ samples = [s \in {} |-> None] /\ trace = [objects |-> 0, bytes |-> 0, events |-> 0]
      /\ file = None /\ status = "run" /\ counter = 0 /\ asked = <<>> /\ rate \in SampleRates
  BY DEF Init
<1>2. /\ DOMAIN samples = {} /\ IsFiniteSet({}) /\ samples \in [{} -> Entries]
  BY <1>1, FS_EmptySet
<1>3. Counts(samples) \in [{} -> Int] /\ ByteSums(samples) \in [{} -> Int]
  BY <1>2 DEF Counts, ByteSums
<1>4. SumFunction(Counts(samples)) = 0 /\ SumFunction(ByteSums(samples)) = 0
  BY <1>3, SumEmpty
<1>5. SamplesInv
  BY <1>1, <1>2, <1>4 DEF SamplesInv
<1>6. RateInv
  <2>1. rate \in Nat \ {0}
    BY <1>1, MemprofileAssumption
  <2>2. trace.objects = rate * 0 /\ counter <= rate * 0 /\ rate * 0 < counter + rate
    BY <1>1, <2>1
  <2>3. QED
    BY <1>1, <2>2 DEF RateInv
<1>7. QED
  BY <1>1, <1>5, <1>6 DEF AccountsInv, FileInv

\* A step that calls no hook and writes no file.
LEMMA UnhookedAccounts ==
    ASSUME AccountsInv, UNCHANGED <<hookVars, rate>> PROVE SamplesInv' /\ RateInv'
BY DEF AccountsInv, SamplesInv, RateInv, hookVars

LEMMA UnwrittenFile ==
    ASSUME FileInv, status = "run", UNCHANGED file, status' # "ok" PROVE FileInv'
BY DEF FileInv

\* The profile and the trace are one account, kept to within a sample.
THEOREM AccountsInvariant == Spec => []AccountsInv
<1>1. Init => AccountsInv
  BY AccountsInit
<1>2. GuestInv /\ AccountsInv /\ [Next]_vars => AccountsInv'
  <2> SUFFICES ASSUME GuestInv, AccountsInv, [Next]_vars PROVE AccountsInv'
    OBVIOUS
  <2>1. GuestType /\ SamplesInv /\ RateInv /\ FileInv
    BY DEF GuestInv, AccountsInv
  <2>2. CASE Const \/ Allocate \/ Enter \/ Leave \/ Added \/ Host \/ Again \/ Trap
    <3>1. UNCHANGED <<hookVars, rate, file>> /\ status = "run" /\ status' # "ok"
      BY <2>2 DEF Const, Allocate, Enter, Leave, Added, Host, Again, Trap, runVars, Running, Returned
    <3>2. QED
      BY <2>1, <3>1, UnhookedAccounts, UnwrittenFile DEF AccountsInv
  <2>3. CASE CallHook
    <3>1. rate' = rate /\ UNCHANGED file /\ status = "run" /\ status' # "ok"
      BY <2>3 DEF CallHook, runVars, Running
    <3>2. SamplesInv' /\ RateInv'
      BY <2>1, <2>3, <3>1, HookCalled, HookAccounts, Zenon
    <3>3. QED
      BY <2>1, <3>1, <3>2, UnwrittenFile DEF AccountsInv
  <2>4. CASE Malloc
    <3>1. rate' = rate /\ UNCHANGED file /\ status = "run" /\ status' # "ok"
      BY <2>4 DEF Malloc, runVars, Running
    <3>2. PICK fs \in Seq(CallFrame) : /\ fs # <<>> /\ ~fs[1].block
                                   /\ Last(stack) \in Word /\ AllocHook(Last(stack), fs)
      BY <2>4, MallocCalled
    <3>3. SamplesInv' /\ RateInv'
      BY <2>1, <3>1, <3>2, HookAccounts, Zenon
    <3>4. QED
      BY <2>1, <3>1, <3>3, UnwrittenFile DEF AccountsInv
  <2>5. CASE WriteProfile
    <3>1. /\ UNCHANGED <<hookVars, rate, code, round, frames>> /\ round = code.iterations
          /\ Len(frames) = 1 /\ Last(frames).todo = <<>> /\ status' \in {"ok", "failed"}
          /\ file' # None => file' = Encode(samples)
          /\ status' = "ok" => file' = Encode(samples)
      BY <2>5 DEF WriteProfile, Returned
    <3>2. Encode(samples) = samples
      <4>1. {t \in DOMAIN samples : t # <<>>} = DOMAIN samples
        BY <2>1 DEF SamplesInv
      <4>2. samples = [s \in DOMAIN samples |-> samples[s]]
        BY <2>1 DEF SamplesInv
      <4>3. QED
        BY <4>1, <4>2, Zenon DEF Encode
    <3>3. FileInv'
      BY <3>1, <3>2 DEF FileInv, hookVars
    <3>4. QED
      BY <3>1, <3>3, UnhookedAccounts DEF AccountsInv
  <2>6. CASE UNCHANGED vars
    <3>1. UNCHANGED <<hookVars, rate, file, status, round, code, frames>>
      BY <2>6 DEF vars, runVars
    <3>2. FileInv'
      BY <2>1, <3>1 DEF FileInv, hookVars
    <3>3. QED
      BY <3>1, <3>2, UnhookedAccounts DEF AccountsInv
  <2>7. QED
    BY <2>2, <2>3, <2>4, <2>5, <2>6 DEF Next
<1>3. QED
  BY <1>1, <1>2, GuestInvariant, PTL DEF Spec

\* AccountsAgree: the trace of the allocations has the totals of the profile;
\* at any --sample-rate the objects are estimated to within one rate, over all
\* calls of _start; and a profile is at --out only when every call returned.
THEOREM AccountsAlwaysAgree == Spec => []AccountsAgree
<1>1. AccountsInv => AccountsAgree
  BY DEF AccountsInv, SamplesInv, RateInv, FileInv, AccountsAgree, Counts, ByteSums
<1>2. QED
  BY <1>1, AccountsInvariant, PTL
===========================================================================
