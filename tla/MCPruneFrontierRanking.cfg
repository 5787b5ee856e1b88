CONSTANTS
    k1 = k1  k2 = k2  k3 = k3  k4 = k4  k5 = k5
    h1 = h1  h2 = h2  o1 = o1  o2 = o2
    NotFound = NotFound
    Keys = {k1, k2}
    Hosts = {h1, h2}
    Orgs = {o1}
    HostOf <- MCHostOf
    PeerOrg <- MCPeerOrgOne
    HealthScores = {0, 1}
    SoftNumNeighbors = 1
    SoftMaxNeighborsPerOrg = 1
    SoftNumClients = 1
    SoftMaxClientsPerHost = 1
    MaxTime = 4
    MaxPasses = 1
SPECIFICATION PassSpec
INVARIANT PrunesWorstFirst
CHECK_DEADLOCK FALSE
SYMMETRY KeySymmetry
