CONSTANTS
    PortTimeout <- MCPortTimeout
    RetrySleep <- MCRetrySleep
    MaxInterrupts <- MCMaxInterrupts
SPECIFICATION Spec
INVARIANTS GdbUsesOwnServer
CHECK_DEADLOCK FALSE
