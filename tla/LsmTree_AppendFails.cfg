SPECIFICATION Spec
CHECK_DEADLOCK FALSE
CONSTANTS
    k1 = k1
    Keys = {k1}
    Readers = {}
    MAX_TX = 2
    MAX_CRASHES = 0
    MAX_FILES = 0
    memtable_size_limit = 1
    min_sstables_per_tier = 2
    encryption_at_rest = FALSE
    Environment = {"append error"}
INVARIANT ReadLatest
