CONSTANTS
    Nodes = {1, 2}
    MaxTime = 2
    MaxLogical = 1
    MaxCommits = 2
    MaxRestarts = 1
SPECIFICATION Spec
CONSTRAINT Few
INVARIANTS CommitOrder
