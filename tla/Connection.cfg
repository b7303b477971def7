CONSTANTS
    a = a
    b = b
    bEncoded = bEncoded
    Element = {a, b}
    NoElement = NoElement
    Key = {a, b, bEncoded}
    EncodeURI <- MCEncodeURI
    Text = {t}
    NoText = NoText
    File = {f, g}
    NoLists = NoLists
    Restored = 1
    MaxAttempts = 1
    MaxOut = 3
    MaxDrops = 1
    MaxJobs = 2
SPECIFICATION FairSpec
INVARIANT TypeOK
 
INVARIANT LockedOffline
 
INVARIANT QueueIsCounted
 
PROPERTY ReconnectEnds
CHECK_DEADLOCK FALSE
