CONSTANTS
    Txs = {t1, t2, t3}
    NoTx = NoTx
    Epochs = {1, 2, 3}
    TornAppend = FALSE
    Kill = TRUE
    PowerLoss = TRUE
    MaxCrashes = 2
    Writers = {w1, w2}
    NoWriter = NoWriter
    MaxConcurrentWrites = 2
    MaxBatch = 2
SPECIFICATION Spec
SYMMETRY Symmetry
INVARIANTS BatchAllOrNothing
