CONSTANT
    MaxLoads = 4
SPECIFICATION SyncedSpec
INVARIANTS
    ActiveBankIsWrittenAfterFailure
PROPERTIES
    ImplementsSwitch
    AcceptedIsExecuted
CHECK_DEADLOCK FALSE
