SPECIFICATION Spec
CHECK_DEADLOCK FALSE
CONSTANTS
    k1 = k1
    Keys = {k1}
    r1 = r1
    Readers = {r1}
    MAX_TX = 3
    MAX_CRASHES = 0
    MAX_FILES = 1
    memtable_size_limit = 1
    min_sstables_per_tier = 2
    encryption_at_rest = TRUE
    Environment = {"caller flush", "flush error", "unlink error"}
INVARIANTS TypeOK ReadLatest GetUndisturbed
