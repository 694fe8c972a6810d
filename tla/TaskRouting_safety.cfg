SPECIFICATION Spec
CONSTANTS
    n1 = n1
    n2 = n2
    c1 = c1
    collector = collector
    None = None
    Branch = Branch
    Calls = {c1}
    Collector = collector
    Nodes <- MCNodes
    Request <- MCRequest
    IdOrders <- MCIdOrders
    SpecsOf <- MCSpecsOf
    Queries <- MCQueries
    Listings <- MCListings
    PageLimit = 2
    MaxFailures = 1
    MaxSessions = 2
    MaxWorkers = 2
CHECK_DEADLOCK FALSE
SYMMETRY MCSymmetry
INVARIANT TypeOK
INVARIANT ReportedIsStored
INVARIANT KeptIsListedOnce
PROPERTY ImplementsDelivery
INVARIANT ResponderNeverWaits
INVARIANT QuerySelectsSatisfying
INVARIANT ResultLeadsToRequest
