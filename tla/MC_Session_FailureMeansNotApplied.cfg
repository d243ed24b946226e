CONSTANTS
    MaxAttempts <- MCMaxAttempts
    Backoff <- MCBackoff
    Grace <- MCGrace
    PollTimeout <- MCPollTimeout
    ReadyTimeout <- MCReadyTimeout
    SendDelay <- MCSendDelay
    WaitTimes <- MCWaitTimes
    MaxNoise <- MCMaxNoise
    MaxReboots <- MCMaxReboots
    MaxFaults <- MCMaxFaults
SPECIFICATION FairSpec
INVARIANTS FailureMeansNotApplied
CHECK_DEADLOCK FALSE
