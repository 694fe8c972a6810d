SPECIFICATION FairSpec
CONSTANTS
    n1 = n1
    n2 = n2
    c1 = c1
    collector = collector
    None = None
    Branch = Branch
    Calls = {c1}
    Collector = collector
    Nodes <- MCOneNode
    Request <- MCOneNodeRequest
    IdOrders <- MCOneNodeIdOrders
    SpecsOf <- MCSpecsOf
    Queries <- MCQueries
    Listings <- MCListings
    PageLimit = 2
    MaxFailures = 1
    MaxSessions = 2
    MaxWorkers = 2
CHECK_DEADLOCK FALSE
PROPERTY CallReturns
PROPERTY PlaceIsFreed
INVARIANT PagesCoverListing
