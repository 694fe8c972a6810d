SPECIFICATION FairSpec
CONSTANTS
    ApiEnabled = TRUE
    MaxFailures = 3
INVARIANT DatabaseOutlivesServers
PROPERTY OneStopsAll
PROPERTY ComesBack
