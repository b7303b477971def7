CONSTANTS
    a = a
    b = b
    c = c
    q1 = q1
    q2 = q2
    ip = ip
    domain = domain
    Query = {q1, q2}
    Node = {a, b, c}
    Group = {ip, domain}
    NoChart = NoChart
    NoCluster = NoCluster
    Loses = {"sql", "open"}
    MaxAsked = 1
    Red <- MCRed
    GroupOf <- MCGroupOf
    Answers <- MCAnswers
    Neighbors <- MCNeighbors
    Files <- MCFiles
    NoNode = NoNode
    Dashboard <- MCDashboard
SPECIFICATION Spec
CONSTRAINT Small
VIEW Program
INVARIANT TypeOK
INVARIANT NoOrphans
 
INVARIANT TagsAreCurrent
 
INVARIANT ExportHoldsTheVisible
 
CHECK_DEADLOCK FALSE
