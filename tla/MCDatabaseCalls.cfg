CONSTANTS
    Txs = {t1, t2}
    NoTx = NoTx
    Epochs = {1, 2}
    TornAppend = FALSE
    Kill = TRUE
    PowerLoss = TRUE
    MaxCrashes = 0
    Writers = {w1, w2, w3}
    NoWriter = NoWriter
    MaxConcurrentWrites = 2
    MaxBatch = 0
SPECIFICATION FairSpec
INVARIANTS GuardsBounded CountExact  
PROPERTIES CallsReturn
