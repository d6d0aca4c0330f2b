CONSTANTS
    Txs = {t1, t2}
    NoTx = NoTx
    Epochs = {1, 2}
    TornAppend = FALSE
    Kill = TRUE
    PowerLoss = TRUE
    MaxCrashes = 3
    Checkpointers = {c1, c2}
    MaxCheckpoints = 2
    InPlace = TRUE
    OpenErrors = TRUE
SPECIFICATION Spec
SYMMETRY Symmetry
INVARIANTS TypeOK ConfirmedSurvive EpochsIncrease  CheckpointWhole OneHistory
CHECK_DEADLOCK FALSE
