SPECIFICATION FairSpec
CONSTANTS
    INTERNAL_BASE = 1000
    MIN_ENTRIES_FOR_SSTABLE_REBUILD = 2
    encryption_at_rest = TRUE
    Tasks = {1}
    NodeType <- MCNodeType
    Edges <- MCEdges
    Entry = "start"
    Tokens = {0, 3}
    handler <- MCHandler
    estimated_cost <- MCEstimates
    usable_budget = 3
    max_attempts = 2
    MAX_WORKFLOW_STEPS = 2
    MAX_STEPS = 3
    MAX_COLLECTION_SEQUENCE = 900
    Limits <- MCLimits
    MAX_DISTURBANCES = 2
    Environment = {"tool_error"}
INVARIANTS TypeOK CommittedAudited BudgetCovers BudgetReturned
PROPERTIES CommittedKept ReplayExact RunReturns
CHECK_DEADLOCK FALSE
