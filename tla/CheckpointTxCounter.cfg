SPECIFICATION Spec
CONSTANTS
    Tasks = {t1, t2}
    NoTask = NoTask
    TX_BATCH_SIZE = 3
    MAX_RAW = 5
SYMMETRY TaskSymmetry
INVARIANT FreshTx
