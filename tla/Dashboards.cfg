CONSTANTS
    User = {u1, u2}
    Name = {n, m}
    Nobody = Nobody
    Nothing = Nothing
    MaxSends = 3
    MaxOut = 1
    MaxFaults = 1
SPECIFICATION Spec
SYMMETRY Interchangeable
INVARIANTS TypeOK MenuAgrees 
PROPERTY NotOverwritten
CHECK_DEADLOCK FALSE
