SPECIFICATION FairSpec
CONSTANTS
    d1 = d1
    d2 = d2
    Docs = {d1, d2}
    Txs = {1, 2}
    MAX_CRASHES = 1
    Environment = {"stage error", "storage error", "commit timeout", "index error", "text error", "graph error", "compensation error", "marker error", "repair error", "settle error", "cancel"}
INVARIANTS TypeOK Agreement
PROPERTIES AtomicSpec CommitReturns Reopens
CHECK_DEADLOCK FALSE
