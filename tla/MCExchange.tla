----------------------------- MODULE MCExchange -----------------------------
(* One set of tables and any one or two of its samples: a function in two  *)
(* files, a separator in a name and a name that is the same without it, an *)
(* inlined call, recursion, a comment for a root, a value that rounds to   *)
(* no microsecond, and none.                                               *)
EXTENDS Exchange

F(key, name, url) == [key |-> key, name |-> name, file |-> url, start |-> 9]
Functions == <<F(1, <<"m">>, "a"), F(2, <<"f">>, "a"), F(3, <<"f">>, "b"), F(4, <<"p", ";", "q">>, "a"),
               F(5, <<"p", ":", "q">>, "a"), F(6, <<"malloc">>, "a"), F(7, <<"#">>, "a")>>
L(fn, line) == [fn |-> fn, line |-> line]
Locations ==
    [i \in 1..8 |-> [key |-> i, mapping |-> 1,
        lines |-> IF i = 8 THEN <<L(6, 3), L(2, 4)>> ELSE <<L(i, i - 1)>>]]

S(location, value) == [location |-> location, value |-> value]
Samples == {
    S(<<2, 1>>, <<2, 1499>>), S(<<3, 1>>, <<3, 2000>>), S(<<4, 1>>, <<1, 400>>),
    S(<<5, 1>>, <<1, 3000>>), S(<<8, 2, 2, 1>>, <<1, 1000>>), S(<<6, 3>>, <<4, 2000>>),
    S(<<2, 1>>, <<0, 600>>), S(<<1>>, <<1, 0>>), S(<<>>, <<1, 5>>)}

Made(types, samples, drop) ==
    [types |-> types, mappings |-> {1}, functions |-> SubSeq(Functions, 1, 6),
     locations |-> [i \in 1..7 |-> Locations[IF i = 7 THEN 8 ELSE i]],
     samples |-> [i \in DOMAIN samples |->
        [samples[i] EXCEPT !.location = [j \in DOMAIN @ |-> IF @[j] = 8 THEN 7 ELSE @[j]]]],
     drop |-> drop]
Commented == [Made(<<Sampled, <<"wall", "milliseconds">>>>, <<S(<<7>>, <<1, 2>>), S(<<2, 1>>, <<2, 3>>)>>, {})
                EXCEPT !.functions = Functions, !.locations = SubSeq(Locations, 1, 7)]

Types == {<<Sampled, <<"cpu", "nanoseconds">>>>, <<Sampled, <<"delay", "microseconds">>>>,
          <<<<"alloc_objects", "count">>, <<"alloc_space", "bytes">>>>}
MCProfiles ==
    {Made(types, samples, drop) :
        types \in Types, drop \in {{}, {<<"malloc">>}}, samples \in [1..1 -> Samples] \cup [1..2 -> Samples]}
    \cup {Commented, Made(<<Sampled, <<"cpu", "seconds">>>>, <<S(<<2, 1>>, <<1, 1>>)>>, {})}

Line(text, value) == [text |-> text, value |-> value]
Frame(name) == [name |-> name, file |-> "", line |-> 0]
Speedscope(type, samples) ==
    [format |-> "speedscope", content |->
        [frames |-> <<Frame(<<"m">>), Frame(<<>>)>>,
         profiles |-> <<[type |-> "sampled", unit |-> "none", samples |-> samples, weights |-> <<3, 0>>],
                        [type |-> type, unit |-> "seconds", samples |-> <<>>, weights |-> <<>>]>>]]
MCFiles ==
    {[format |-> "folded", content |-> lines] : lines \in {
        <<Line(<<"#", "c">>, None), Line(<<>>, None), Line(<<" ", "m", " ", ";", "f">>, 2),
          Line(<<"m", ";", "f">>, 0), Line(<<"m", ";", "f">>, 1)>>,
        <<Line(<<"m">>, 1), Line(<<"m", ";", ";", "f">>, 2)>>,
        <<Line(<<"m">>, 1), Line(<<>>, 3)>>}}
    \cup {Speedscope(type, <<<<0, 1>>, <<1>>, <<0, 1, 0>>, <<2>>>>) : type \in {"sampled", "evented"}}

MCFoldedTypes == {<<"delay", "microseconds">>, <<"cpu", "nanoseconds">>}
MCMemNames == {<<"malloc">>}
=============================================================================
