CONSTANTS
    MaxAttempts <- MCMaxAttempts
    Backoff <- MCBackoff
    Grace <- MCGrace
    PollTimeout <- MCPollTimeout
    ReadyTimeout <- MCReadyTimeout
    SendDelay <- MCSendDelay
    WaitTimes <- MCWaitTimes
    MaxNoise <- MCMaxNoise
    MaxReboots <- MCMaxReboots
    MaxFaults <- MCMaxFaults
SPECIFICATION FairSpec
INVARIANTS SuccessImpliesApplied AckWaitNotCutShort
PROPERTIES Progress ImplementsAbstract AckNeverDiscarded
CHECK_DEADLOCK FALSE
