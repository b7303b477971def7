CONSTANTS
    q1 = q1  q2 = q2  a = a  b = b  p1 = p1  p2 = p2
    start = start  again = again  more = more  global = global  None = None
    Requests = {q1}
    Http = {}
    Early = {q1}
    Target <- ToAll
    Key <- OwnKey
    ShowLimited = {}
    Sources = {a,b}
    InGlobal = {a,b}
    Global = global
    Split <- OneEach
    Unparsable <- NoneUnparsable
    CacheOn = FALSE
    Setups = {start,again,more}
    Main = start
    Definitions <- TwoSources
    Plugins = {p1,p2}
    Processors <- TwoProcessors
    Flaky = {a}
SPECIFICATION Spec
INVARIANTS WholeAnswer ReloadRestores ProcessorsInOrder
PROPERTIES AnswerStands
CHECK_DEADLOCK FALSE
