CONSTANTS
    User = {u1, u2}
    Name = {n, m}
    Nobody = Nobody
    Nothing = Nothing
    MaxSends = 3
    MaxOut = 1
    MaxFaults = 1
SPECIFICATION Spec
PROPERTY DeletesSelected
CHECK_DEADLOCK FALSE
