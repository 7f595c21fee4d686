SPECIFICATION Spec
CONSTANTS
    Benches = {x, y}
    Diffs = {d}
    NameOf <- MCNameOf
    Targets <- MCTargets
    MaxCommands = 2
    None = None
    Workloads = {w}
    TimedOn = {"wasm", "native"}
    Runs = 1
    MaxBenches = 1
SYMMETRY MCSymmetry
INVARIANTS BaselineKept CellsAreOfTheirPhase RowsCompareOneChange
CHECK_DEADLOCK FALSE
