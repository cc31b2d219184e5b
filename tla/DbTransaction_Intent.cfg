SPECIFICATION Spec
CONSTANTS
    d1 = d1
    d2 = d2
    Docs = {d1}
    Txs = {1, 2}
    MAX_CRASHES = 1
    Environment = {}
INVARIANT IntentTrue
CHECK_DEADLOCK FALSE
