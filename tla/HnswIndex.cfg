SPECIFICATION Spec
CHECK_DEADLOCK FALSE
SYMMETRY Symmetry
CONSTANTS
    d1 = d1
    d2 = d2
    Docs = {d1, d2}
    r1 = r1
    Readers = {r1}
    MAX_TX = 4
    rebuild_threshold = 90
    Environment = {"compute_error", "rebuild_error"}
INVARIANTS TypeOK IndexLatest NoGhost PinnedFound
