--------------------------- MODULE MCBenchMatrix ---------------------------
(* Two projects of one name, one workload on two of two backends.            *)
EXTENDS BenchMatrix

MCNameOf == [b \in Benches |-> "bench"]
MCTargets == <<"wasm", "native">>
MCSymmetry == Permutations(Benches)
=============================================================================
