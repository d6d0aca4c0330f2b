CONSTANTS
    Txs = {t1, t2}
    NoTx = NoTx
    Epochs = {1, 2, 3}
    TornAppend = TRUE
    Kill = TRUE
    PowerLoss = TRUE
    MaxCrashes = 3
    MaxFrames = 4
SPECIFICATION WalSpec
CONSTRAINT Short
SYMMETRY TxSymmetry
INVARIANTS ConfirmedSurvive
