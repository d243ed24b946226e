CONSTANTS
    MaxAttempts <- MCMaxAttempts
    Backoff <- MCBackoff
    Grace <- MCGrace
    PollTimeout <- MCPollTimeout
    ReadyTimeout <- MCReadyTimeout
    SendDelay <- MCSendDelay
    WaitTimes <- MCWaitTimes
    MaxNoise <- MCMaxNoise
    MaxReboots <- MCMaxReboots
    MaxFaults <- MCMaxFaults
SPECIFICATION FairSpec
INVARIANTS ReadyWaitBounded
CHECK_DEADLOCK FALSE
