SPECIFICATION FairSpec
CONSTANTS
    Txs = {1, 2, 3, 4}
    memtable_size_limit = 2
    encryption_at_rest = TRUE
    Environment = {"append error", "timeout", "torn write"}
INVARIANTS TypeOK DurableUntilFlush ChainIntact AckedReadable LogInOrder FailedAbsent
PROPERTIES EveryoneAnswered
