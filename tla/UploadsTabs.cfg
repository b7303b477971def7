CONSTANTS
    u1 = u1  u2 = u2  c1 = c1  c2 = c2  f1 = f1  f2 = f2
    Users = {u1}
    Conns = {c1,c2}
    Files = {f1,f2}
    Owner <- OneOwner
    UserOf <- OneUserOf
    NoConn = NoConn
    Boot = Boot
    Aging = {}
    MaxNotes = 1
    MaxCrashes = 1
    MaxFaults = 0
    MaxDrops = 1
SPECIFICATION Spec
SYMMETRY Interchangeable
INVARIANTS  ListedIsConsumed
 
CHECK_DEADLOCK FALSE
