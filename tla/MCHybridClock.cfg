CONSTANTS
    Nodes = {1, 2, 3}
    MaxTime = 1
    MaxLogical = 1
    MaxCommits = 3
    MaxRestarts = 1
SPECIFICATION Spec
CONSTRAINT Few
INVARIANTS CausalOrder FrontierExact
PROPERTIES TickAfterPast
