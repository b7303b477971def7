CONSTANTS
    q1 = q1  q2 = q2  a = a  b = b  p1 = p1  p2 = p2
    start = start  again = again  more = more  global = global  None = None
    Requests = {q1,q2}
    Http = {q1,q2}
    Early = {}
    Target <- TwoToOne
    Key <- SharedKey
    ShowLimited = {q2}
    Sources = {a,b}
    InGlobal = {a,b}
    Global = global
    Split <- TwoParts
    Unparsable <- NoneUnparsable
    CacheOn = TRUE
    Setups = {start}
    Main = start
    Definitions <- TwoSources
    Plugins = {p1,p2}
    Processors <- TwoProcessors
    Flaky = {a,p2}
SPECIFICATION FairSpec
INVARIANTS TypeOK CachedIsFinal
PROPERTIES QueryEnds ImplementsQueryService
CHECK_DEADLOCK FALSE
