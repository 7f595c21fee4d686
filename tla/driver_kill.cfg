SPECIFICATION Spec
CONSTANTS
    None = None
    q1 = q1
    q2 = q2
    q3 = q3
    Pids = {q1, q2, q3}
    MaxRuns = 1
PROPERTY SignalsOwnChild
