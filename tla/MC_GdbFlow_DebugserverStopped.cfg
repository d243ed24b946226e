CONSTANTS
    PortTimeout <- MCPortTimeout
    RetrySleep <- MCRetrySleep
    MaxInterrupts <- MCMaxInterrupts
SPECIFICATION Spec
INVARIANTS DebugserverStopped
CHECK_DEADLOCK FALSE
