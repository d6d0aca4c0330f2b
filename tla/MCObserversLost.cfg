CONSTANTS
    Notifiers = {n1, n2}
    Observers = {o1, o2}
    Filtered = {o2}
    Pullers = {p1}
    MaxEpoch = 4
    MaxBatch = 2
    MaxBuffer = 2
SPECIFICATION Spec
INVARIANTS AtLeastOnce
