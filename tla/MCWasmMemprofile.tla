-------------------------- MODULE MCWasmMemprofile --------------------------
(* Programs of a few instructions over 4-bit words: arrays whose size        *)
(* overflows, nested sequences, tries, moonbit.gc.malloc over               *)
(* moonbit.malloc, host calls between allocations, and a program for each    *)
(* group of host calls.                                                      *)
EXTENDS WasmMemprofile

Const_(v) == [op |-> "const", v |-> v]
Array(below, elem) == [op |-> "array", below |-> below, elem |-> elem]
Struct(n, size) == [op |-> "struct", n |-> n, size |-> size]
Fixed(n, elem) == [op |-> "fixed", n |-> n, elem |-> elem]
MallocOf(n) == <<Const_(n), [op |-> "malloc"]>>
Calls(group, n) == [i \in 1..n |-> [op |-> "host", group |-> group]]
Call(fn, seq) == [op |-> "call", fn |-> fn, seq |-> seq]

MCSeqs == [
    arrays |-> <<Const_(7), Const_(2), Array(1, 3)>> \o Calls("env", 1) \o
               <<Struct(1, 5), Const_(3), Array(0, 4)>>,
    nested |-> <<[op |-> "block", seq |-> "block"],
                 [op |-> "if", consequent |-> "then", alternative |-> "else"]>>,
    block |-> <<Const_(2), Array(0, 2), Const_(3)>>,
    then |-> <<Fixed(2, 2), Const_(0), Array(0, 1)>>,
    else |-> <<Const_(3), Fixed(3, 4), Struct(1, 0), Fixed(1, 3)>>,
    tries |-> <<Const_(2), Array(0, 1), [op |-> "try", seq |-> "tried"],
                Struct(0, 4)>>,
    tried |-> <<Struct(0, 3), [op |-> "block", seq |-> "inTry"], Call("g", "g")>> \o MallocOf(1),
    inTry |-> <<Const_(5), Array(0, 1)>>,
    g |-> <<[op |-> "block", seq |-> "inG"]>>,
    inG |-> <<Fixed(0, 1), Struct(0, 2)>>,
    mallocs |-> <<Call("f", "f1")>> \o MallocOf(2) \o <<Call("f", "f2")>>,
    f1 |-> <<Call("moonbit.gc.malloc", "gc")>>,
    gc |-> MallocOf(3),
    f2 |-> MallocOf(3) \o MallocOf(4),
    strings |-> Calls("string", 6),
    lists |-> Calls("array", 5),
    environment |-> Calls("string", 2) \o Calls("env", 3) \o Calls("array", 2),
    output |-> Calls("output", 4)]

Prog(entry, n) == [entry |-> entry, iterations |-> n]

MCPrograms == {Prog("arrays", 2), Prog("nested", 2), Prog("tries", 2), Prog("mallocs", 1), Prog("strings", 1),
               Prog("lists", 1), Prog("environment", 1), Prog("output", 1)}

MCKeys == {<<"k">>, <<"q">>}
MCArgs == <<<<"a">>, <<"pair", "a">>>>
MCSentinel == <<"ffi_end_of_/string_array">>
MCHostEnv == [k \in Keys |-> IF k = <<"k">> THEN <<"a">> ELSE None]
MCWrites == {<<<<"a">>>>, <<<<"b", "nl">>>>, <<<<"a">>, <<"nl", "b">>>>, <<<<"a">>, BadIov>>}
=============================================================================
