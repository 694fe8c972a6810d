SPECIFICATION FairSpec
CONSTANTS
    n1 = n1
    n2 = n2
    s1 = s1
    s2 = s2
    s3 = s3
    a1 = a1
    Nodes <- MCOneNode
    Streams <- MCTwoStreams
    Admins <- MCAdmins
    MaxTasks = 1
INVARIANT OneSessionPerNode
INVARIANT ClosesOwnOpenChannel
INVARIANT ResponderWithinSession
INVARIANT ShutdownChannelIsOpen
INVARIANT DispatchableMatchesChannel
INVARIANT ConnectedHasSession
PROPERTY ImplementsSlot
PROPERTY SessionEnds
