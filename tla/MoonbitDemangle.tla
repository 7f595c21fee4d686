-------------------------- MODULE MoonbitDemangle --------------------------
(***************************************************************************)
(* moonbit_demangle::demangle: _M0FP26mizchi5bench3fib is read from its    *)
(* end, one <length><identifier> at a time.  A symbol is a sequence of     *)
(* characters; "::" in a readable name is one element.                     *)
(* MAX_SEGMENTS is out of reach of the symbols here and left out.          *)
(***************************************************************************)
EXTENDS Integers, SequencesExt, FiniteSetsExt

MaxSegmentLen == 64
Digits == <<"0", "1", "2", "3", "4", "5", "6", "7", "8", "9">>
IsDigit(c) == c \in Range(Digits)
IsUpper(c) == c \in {"B", "C", "E", "F", "G", "M", "P"}
IsAlphabetic(c) == ~IsDigit(c) /\ c \notin {"_", "."}
IsIdent(s) == s # <<>> /\ ~IsDigit(s[1]) /\ "." \notin Range(s)

Itoa(n) == IF n < 10 THEN <<Digits[n + 1]>>
           ELSE <<Digits[(n \div 10) + 1], Digits[(n % 10) + 1]>>

\* Everything from M0 on, or the empty sequence.
StripPrefix(s) ==
    LET k == SelectInSeq(s, LAMBDA c : c # "_")
        t == IF k = 0 THEN <<>> ELSE SubSeq(s, k, Len(s))
    IN  IF Len(t) >= 3 /\ SubSeq(t, 1, 2) = <<"M", "0">> /\ IsUpper(t[3]) THEN t ELSE <<>>

\* A last G<letters>E is dropped.
StripGenericSuffix(s) ==
    LET n == Len(s)
        marks == {g \in 1..(n - 1) : /\ s[g] = "G"
                                     /\ \A i \in (g + 1)..(n - 1) : IsAlphabetic(s[i]) /\ s[i] # "G"}
    IN  IF n >= 3 /\ s[n] = "E" /\ marks # {} THEN SubSeq(s, 1, Max(marks) - 1) ELSE s

\* The lengths n of the identifiers that end at i and come after their own
\* length in decimal, which may be part of a longer run of digits.
Lengths(s, i) ==
    {n \in 1..Min({i - 1, MaxSegmentLen}) :
        LET d == i - n IN
        /\ IsIdent(SubSeq(s, d + 1, i))
        /\ d >= Len(Itoa(n))
        /\ SubSeq(s, d - Len(Itoa(n)) + 1, d) = Itoa(n)}

\* Mutant: the shortest identifier is taken.
ShortestSegment(s, i) == IF i <= 1 \/ Lengths(s, i) = {} THEN 0 ELSE Min(Lengths(s, i))

\* The longest is; 0 for none.
FindSegmentEnd(s, i) == IF i <= 1 \/ Lengths(s, i) = {} THEN 0 ELSE Max(Lengths(s, i))

Parts(s) ==
    LET parts[i \in 0..Len(s)] ==
            LET n == FindSegmentEnd(s, i) IN
            IF n = 0 THEN <<>>
            ELSE Append(parts[i - n - Len(Itoa(n))], SubSeq(s, i - n + 1, i))
    IN  parts[Len(s)]

Join(parts) ==
    FlattenSeq([i \in DOMAIN parts |-> IF i = 1 THEN parts[i] ELSE <<"::">> \o parts[i]])

Demangle(s) ==
    LET parts == Parts(StripGenericSuffix(StripPrefix(s))) IN
    IF parts = <<>> THEN s ELSE Join(parts)

-----------------------------------------------------------------------------
(* Reference: how the compiler mangles, from the examples of lib.rs.       *)

Segment(x) == Itoa(Len(x)) \o x

\* path: the components of the package, then the name; up to component k.
SymbolUpTo(path, k) ==
    <<"_", "M", "0", "F", "P">> \o Itoa(Len(path) - 1)
        \o FlattenSeq([i \in 1..k |-> Segment(path[i])])

Mangle(path) == SymbolUpTo(path, Len(path))

\* Another identifier ends where component k does: a longer one, which begins
\* before the component and comes after its own length.  The digits of that
\* length may be those of a length, those a name ends in, or some of both.
LongerReading(path, k) ==
    LET text == SymbolUpTo(path, k) IN
    \E n \in (Len(path[k]) + 1)..(Len(text) - 1) :
        /\ n <= MaxSegmentLen
        /\ ~IsDigit(text[Len(text) - n + 1])
        /\ IsSuffix(Itoa(n), SubSeq(text, 1, Len(text) - n))

\* What the symbol does not tell: a name that can be read longer than it is, a
\* name above the cap, a last name that ends like the arguments of a generic
\* function.
Ambiguous(path) ==
    \/ \E k \in DOMAIN path : LongerReading(path, k) \/ Len(path[k]) > MaxSegmentLen
    \/ StripGenericSuffix(Mangle(path)) # Mangle(path)
=============================================================================
