SPECIFICATION TaskSpec
CONSTANTS
    r1 = r1
    r2 = r2
    None = None
    Requests = {r1, r2}
    MaxConcurrentTasks = 2
    MaxWaitingRequests = 2
    PluginNames = {"p"}
    Programs <- MCPrograms
    Commands <- MCCommands
    Posts <- MCPosts
    Htpasswd <- MCHtpasswd
    RolesOf <- MCRolesOf
    Permissions <- MCPermissions
SYMMETRY MCSymmetry
INVARIANT TaskKeepsPlugin
INVARIANT OnlyPermittedRun
INVARIANT SuccessMeansEnded
