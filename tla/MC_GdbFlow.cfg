CONSTANTS
    PortTimeout <- MCPortTimeout
    RetrySleep <- MCRetrySleep
    MaxInterrupts <- MCMaxInterrupts
SPECIFICATION FairSpec
INVARIANTS TypeOK TeardownStopsServer
PROPERTIES EndsUnlessGdbWaits
CHECK_DEADLOCK FALSE
