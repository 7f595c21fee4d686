----------------------------- MODULE MCIngest -----------------------------
(* A few elements of each kind of input: symbols that read the same, lines *)
(* that are out of place, samples of two threads with the same indices, a  *)
(* symbol table with a gap and an inlined call, trees with two functions   *)
(* of one name, and chunks of two profiles in any order.                   *)
EXTENDS Ingest

Fun(name) == [name |-> name, url |-> "u", script |-> 1, line |-> 0]
Plain == <<"m">>
Mangled == <<"M", "0", "F", "1", "a">>
Mangled2 == <<"_", "M", "0", "F", "1", "a">>

Frame(symbol, dso) == [t |-> "frame", symbol |-> symbol, dso |-> dso]
PerfLines == {[t |-> "blank"], [t |-> "text"],
    [t |-> "header", period |-> None], [t |-> "header", period |-> 0], [t |-> "header", period |-> 2],
    Frame(Mangled, "x"), Frame(Mangled2, "x"), Frame(Plain, "y")}

Paths == {<<"f">>, <<"a", "1", "b">>, <<"G", "P", "E">>, <<"b", "e", "n", "c", "h">>,
          <<"a", "c", "k", "e", "r", "m", "a", "n", "n">>, <<"f", "2">>,
          <<"x", "1">>, [i \in 1..65 |-> "l"]}

GuestSamples == [thread : 1..2, stack : {None, 1, 2}, weight : {None}, dt : {3}]
    \cup [thread : 1..2, stack : {2, 3}, weight : {2}, dt : {0}]

F(func, line, address) == [func |-> func, line |-> line, address |-> address]
Fn(name) == [name |-> name, file |-> "", lib |-> None]
MCThreads ==
    <<[frames |-> <<F(1, 1, 10), F(2, 1, 20), F(2, 1, 20)>>, funcs |-> <<Fn(Plain), Fn(Mangled)>>,
       stacks |-> <<[frame |-> 1, prefix |-> None], [frame |-> 2, prefix |-> 1],
                    [frame |-> 3, prefix |-> 1]>>],
      [frames |-> <<F(2, 1, 20), F(1, 2, 11)>>, funcs |-> <<Fn(Plain), Fn(Mangled2)>>,
       stacks |-> <<[frame |-> 1, prefix |-> None], [frame |-> 1, prefix |-> 1],
                    [frame |-> 2, prefix |-> 2]>>]>>

Sym(rva, size, name, inlined) == [rva |-> rva, size |-> size, name |-> name, inlined |-> inlined]
Symbols == {Sym(0, 2, Plain, <<>>), Sym(3, 1, <<"z">>, <<>>), Sym(4, 2, Mangled,
    <<[name |-> <<"o">>, file |-> "c", line |-> 7], [name |-> <<>>, file |-> "c", line |-> 8]>>)}
MCSamplyProfile ==
    [libs |-> <<"exe", "libc">>,
     threads |-> <<
        [frames |-> [i \in 1..8 |-> F(IF i = 8 THEN 2 ELSE 1, 0, i - 1)],
         funcs |-> <<[name |-> <<>>, file |-> "", lib |-> 1], [name |-> <<>>, file |-> "", lib |-> 2]>>,
         stacks |-> [i \in 1..8 |-> [frame |-> i, prefix |-> None]],
         samples |-> [i \in 1..8 |-> [stack |-> i, weight |-> None, dt |-> None]]]>>]

Nodes(sizes) == [t : {"node"}, parent : 0..3, fn : {Fun(<<>>), Fun(Mangled)}, size : sizes]

N(id, parent, name, children) ==
    [id |-> id, parent |-> parent, fn |-> Fun(name), children |-> children]
Chunk(key, ts, nodes, samples, deltas) ==
    [name |-> "ProfileChunk", key |-> key, ts |-> ts,
     data |-> [nodes |-> nodes, samples |-> samples, deltas |-> deltas]]
Events == {
    [name |-> "Profile", key |-> 1, ts |-> 0, data |-> None],
    [name |-> "Other", key |-> 2, ts |-> 0, data |-> None],
    Chunk(1, 1, <<N(1, 0, Plain, <<>>), N(2, 1, Mangled, <<>>)>>, <<2>>, <<1>>),
    Chunk(1, 2, <<N(3, 2, <<"f">>, <<>>)>>, <<3, 2>>, <<2, 3>>),
    Chunk(1, 3, <<N(1, 0, Plain, <<4>>), N(4, 0, <<"g">>, <<>>)>>, <<4>>, <<>>),
    Chunk(2, 2, <<N(1, 0, <<"w">>, <<>>)>>, <<1, 1>>, <<4>>)}

MCElements ==
    ("symbol" :> Paths) @@ ("perf" :> PerfLines) @@ ("guest" :> GuestSamples) @@
    ("samply" :> Symbols) @@ ("heap" :> Nodes({0, 2}) \cup [t : {"sample"}, id : 1..2]) @@
    ("cpu" :> Nodes({0}) \cup [t : {"sample"}, id : {1, 2, 9}] \cup [t : {"delta"}, us : {1, 2}]) @@
    ("trace" :> Events)
MCMaxInput ==
    ("symbol" :> 3) @@ ("perf" :> 5) @@ ("guest" :> 3) @@ ("samply" :> 3) @@
    ("heap" :> 4) @@ ("cpu" :> 4) @@ ("trace" :> 4)
=============================================================================
