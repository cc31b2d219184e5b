SPECIFICATION Spec
CONSTANTS
    Txs = {1, 2, 3}
    memtable_size_limit = 1
    encryption_at_rest = TRUE
    Environment = {}
INVARIANT AckedDurable
