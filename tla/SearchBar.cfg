CONSTANTS
    a = a
    dash = dash
    Space = Space
    Comma = Comma
    Or = Or
    Backtick = Backtick
    Letter = {a}
    Other = {Space, Comma, dash}
    Quoted = {dash}
    FIELDS <- MCFIELDS
    SourceFields <- MCSourceFields
    Group <- MCGroup
    Matches <- MCMatches
    Filter <- MCFilter
    Today <- MCToday
    MaxLen = 3
    MaxRangeLen = 0
SPECIFICATION Spec
CONSTRAINT RangeAlone
INVARIANTS TypeOK FocusInList MonthsAreWhole
  
CHECK_DEADLOCK FALSE
