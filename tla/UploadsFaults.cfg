CONSTANTS
    u1 = u1  u2 = u2  c1 = c1  c2 = c2  f1 = f1  f2 = f2
    Users = {u1,u2}
    Conns = {c1,c2}
    Files = {f1,f2}
    Owner <- TwoOwners
    UserOf <- TwoUserOf
    NoConn = NoConn
    Boot = Boot
    Aging = {f1}
    MaxNotes = 1
    MaxCrashes = 1
    MaxFaults = 1
    MaxDrops = 0
SPECIFICATION Spec
INVARIANTS TypeOK  NoDuplicateListing QueuedForOwner
CHECK_DEADLOCK FALSE
