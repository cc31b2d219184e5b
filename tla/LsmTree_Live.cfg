SPECIFICATION FairSpec
CHECK_DEADLOCK FALSE
CONSTANTS
    k1 = k1
    Keys = {k1}
    Readers = {}
    MAX_TX = 2
    MAX_CRASHES = 2
    MAX_FILES = 2
    memtable_size_limit = 1
    min_sstables_per_tier = 2
    encryption_at_rest = TRUE
    Environment = {"append error", "caller flush", "flush error", "unlink error", "rollover"}
PROPERTIES ComesUp CommitReturns
