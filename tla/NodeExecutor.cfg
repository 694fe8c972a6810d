SPECIFICATION FairSpec
CONSTANTS
    r1 = r1
    r2 = r2
    r3 = r3
    Requests <- MCTwoRequests
    MaxConcurrentTasks = 1
    MaxWaitingRequests = 2
INVARIANT ModesRespected
INVARIANT PlacesAccounted
PROPERTY ImplementsTaskLocks
PROPERTY EveryRequestAnswered
PROPERTY ListenerReturns
