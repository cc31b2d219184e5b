SPECIFICATION Spec
SYMMETRY KeySymmetry
CHECK_DEADLOCK FALSE
CONSTANTS
    k1 = k1
    k2 = k2
    Keys = {k1, k2}
    Readers = {}
    MAX_TX = 5
    MAX_CRASHES = 2
    MAX_FILES = 0
    memtable_size_limit = 1
    min_sstables_per_tier = 2
    encryption_at_rest = TRUE
    Environment = {"delete", "append error"}
INVARIANTS ReadLatest ScanLatest SeqAboveStored ActiveLogKept
