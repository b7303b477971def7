CONSTANTS
    a = a
    b = b
    c = c
    q1 = q1
    q2 = q2
    ip = ip
    domain = domain
    Query = {q1, q2}
    Node = {a, b, c}
    Group = {ip, domain}
    NoChart = NoChart
    NoCluster = NoCluster
    Loses = {}
    MaxAsked = 1
    Red <- MCRed
    GroupOf <- MCGroupOf
    Answers <- MCAnswers
    Neighbors <- MCNeighbors
    Files <- MCFiles
    NoNode = NoNode
    Dashboard <- MCDashboard
SPECIFICATION Spec
CHECK_DEADLOCK FALSE
INVARIANT Remembered
