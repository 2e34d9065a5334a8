SPECIFICATION Spec
CONSTANTS
    Entry = {ok, failed}
    NoEntry = zero
    Size = 3
    MaxRecords = 8
INVARIANTS TypeOK NewestFirst
CHECK_DEADLOCK FALSE
