SPECIFICATION Spec
CONSTANTS
    d1 = d1
    d2 = d2
    a = a
    b = b
    Docs = {d1, d2}
    Terms = {a}
    Txs = {t1, t2, t3}
    t1 = t1
    t2 = t2
    t3 = t3
    WIDTH = 4
    MAX_CRASHES = 1
    Environment = {"upsert", "update", "delete", "resolve", "search", "rollback", "index error", "stats error"}
SYMMETRY Symmetry
INVARIANTS TypeOK PostingsKept NoGhost StatsExact
CHECK_DEADLOCK FALSE
