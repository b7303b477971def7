------------------------------ MODULE SearchBar ------------------------------
(***************************************************************************)
(* The search input (search.js), the completion of field names             *)
(* (sql-autocomplete.js), the formatting of a list of indicators, and the  *)
(* time range the queries are sent with (calendar.js).                     *)
(*                                                                         *)
(* The input is a sequence of symbols; an expression that format() writes  *)
(* is one of them.  Letter case is left out.  The caret stands behind a    *)
(* number of symbols, and a list of completions stays open while the user  *)
(* types.  What run() does with the input is in Filters.                   *)
(***************************************************************************)
EXTENDS Integers, Sequences, FiniteSets, SequencesExt

CONSTANTS
    Letter,         \* symbols of words, [\w.] in the code
    Other,          \* symbols that are not
    Space, Comma, Or, Backtick,
                    \* " ", ",", " OR ", "`"
    Quoted,         \* those that make a field name be put in backticks
    FIELDS,         \* sequence of all field names, sorted
    SourceFields,   \* the fields of each data source, "global" included
    Group,          \* the groups of FORMATS in their order
    Matches,        \* the group and indicators that match one of its expressions
    Filter,         \* queries of filters, without their data source
    Today,          \* dates, as <<year, month from 0, day>>
    MaxLen,         \* bound: symbols in the input when it is edited
    MaxRangeLen     \* bound: the same when the time range is set

Term == [group : ToSet(Group), value : Seq(Letter \cup Other)]
Plain == Letter \cup Other \cup {Backtick, Or}

Periods == {"lastHour", "last12hours", "lastDay", "lastWeek", "lastMonth", "last6months"}

\* The calendar; months are counted from 0.
IsLeap(y) == y % 4 = 0 /\ (y % 100 # 0 \/ y % 400 = 0)
DaysIn(y, m) ==
    IF m = 1 THEN (IF IsLeap(y) THEN 29 ELSE 28) ELSE IF m \in {3, 5, 8, 10} THEN 30 ELSE 31

ASSUME SearchBarAssumption ==
    /\ {Space, Comma} \subseteq Other /\ Quoted \subseteq Other
    /\ Letter \cap Other = {}
    /\ FIELDS \in Seq(Seq(Letter \cup Quoted))
    /\ \A s \in DOMAIN SourceFields : SourceFields[s] \subseteq ToSet(FIELDS)
    /\ Matches \subseteq ToSet(Group) \X Seq(Letter \cup Other)
    /\ Group \in Seq(ToSet(Group))
    /\ Filter \subseteq Seq(Plain)
    /\ Today \subseteq {date \in Int \X (0..11) \X (1..31) : date[3] <= DaysIn(date[1], date[2])}
    /\ MaxLen \in Nat /\ MaxRangeLen \in Nat

VARIABLES
    input, caret,       \* the search input and its caret
    source,             \* the data source of the dropdown
    list,               \* the fields of the autocomplete list
    span,               \* the bounds of the word the list was built for
    currentFocus,       \* the highlighted one, from 0, or -1
    fresh,              \* nothing was typed since the list was built (not
                        \* state of the program)
    range               \* the period of the time range and the hours it goes back

completion == <<list, span, currentFocus, fresh>>
vars == <<input, caret, source, completion, range>>

TypeOK ==
    /\ input \in Seq(Plain \cup Term)
    /\ caret \in 0..Len(input)
    /\ source \in DOMAIN SourceFields
    /\ list \in Seq(ToSet(FIELDS)) /\ Len(list) <= Len(FIELDS)
    /\ span \in Nat \X Nat
    /\ currentFocus \in -1..Len(FIELDS)
    /\ fresh \in BOOLEAN
    /\ range \in Periods \X Nat

Init ==
    /\ input = <<>> /\ caret = 0
    /\ source \in DOMAIN SourceFields
    /\ list = <<>> /\ span = <<0, 0>> /\ currentFocus = -1 /\ fresh = FALSE
    /\ range = <<"lastDay", 24>>
-----------------------------------------------------------------------------
(***************************************************************************)
(* Typing, and clicks that place the caret.                                *)
(***************************************************************************)
Edited(text, pos) ==
    /\ input' = text /\ caret' = pos
    /\ fresh' = FALSE
    /\ UNCHANGED <<source, list, span, currentFocus, range>>

Type(c) ==
    /\ Len(input) < MaxLen
    /\ Edited(InsertAt(input, caret + 1, c), caret + 1)

Erase ==
    /\ caret > 0 /\ Len(input) <= MaxLen
    /\ Edited(RemoveAt(input, caret), caret - 1)

MoveCaret(pos) ==
    /\ caret' = pos
    /\ UNCHANGED <<input, source, completion, range>>

\* closeList(): what is highlighted stays.
CloseList ==
    /\ list' = <<>> /\ span' = <<0, 0>> /\ fresh' = FALSE
    /\ UNCHANGED currentFocus

\* A click that is not in the input, on the search button for instance
ClickElsewhere ==
    /\ CloseList
    /\ UNCHANGED <<input, caret, source, range>>

\* The dropdown of data sources
SelectSource(s) ==
    /\ source' = s
    /\ CloseList
    /\ UNCHANGED <<input, caret, range>>

\* edit() of a filter; the caret of an input that is written goes to its end.
EditFilter(q, s) ==
    /\ input' = q /\ caret' = Len(q) /\ source' = s
    /\ CloseList
    /\ UNCHANGED range

\* clearAll(), by the button that clears the input
Clear ==
    /\ input' = <<>> /\ caret' = 0
    /\ CloseList
    /\ UNCHANGED <<source, range>>
-----------------------------------------------------------------------------
(***************************************************************************)
(* Completion.                                                             *)
(***************************************************************************)
\* The positions of K in their order, and what a sequence has there
Ordered(K) == [i \in 1..Cardinality(K) |-> CHOOSE k \in K : Cardinality({j \in K : j < k}) = i - 1]
Pick(s, K) == [i \in 1..Cardinality(K) |-> s[Ordered(K)[i]]]

IsLetter(c) == c \in Letter

\* Mutant of GetFieldAt: the word ends at the caret.
GetFieldBefore(text, pos) ==
    <<SelectLastInSubSeq(text, 1, pos, LAMBDA c : ~IsLetter(c)), pos>>

\* getFieldAt(): the letters before the caret and behind it
GetFieldAt(text, pos) ==
    LET before == SelectLastInSubSeq(text, 1, pos, LAMBDA c : ~IsLetter(c))
        behind == SelectInSubSeq(text, pos + 1, Len(text), LAMBDA c : ~IsLetter(c))
    IN <<before, IF behind = 0 THEN Len(text) ELSE behind - 1>>

\* build(): the fields of the source that begin with the word
Offers(s, word) ==
    Pick(FIELDS, {k \in DOMAIN FIELDS : FIELDS[k] \in SourceFields[s] /\ IsStrictPrefix(word, FIELDS[k])})

Tab ==
    /\ LET at == GetFieldAt(input, caret) IN
       /\ list' = Offers(source, SubSeq(input, at[1] + 1, at[2]))
       /\ span' = IF list' = <<>> THEN <<0, 0>> ELSE at
    /\ currentFocus' = -1 /\ fresh' = TRUE
    /\ UNCHANGED <<input, caret, source, range>>

\* Mutants of Wrapped: one too far; no way from the first to the last
WrappedLate(focus, n) == IF focus > n THEN 0 ELSE IF focus < 0 THEN n - 1 ELSE focus

WrappedDown(focus, n) == IF focus >= n THEN 0 ELSE focus

Wrapped(focus, n) == IF focus >= n THEN 0 ELSE IF focus < 0 THEN n - 1 ELSE focus

\* setActive()
Arrow(step) ==
    /\ currentFocus' = IF list = <<>> THEN currentFocus ELSE Wrapped(currentFocus + step, Len(list))
    /\ UNCHANGED <<input, caret, source, list, span, fresh, range>>

\* The field as it is put into the input
Value(f) == IF ToSet(f) \cap Quoted # {} THEN <<Backtick>> \o f \o <<Backtick>> ELSE f

\* substring(0, n)
Upto(text, n) == SubSeq(text, 1, IF n < Len(text) THEN n ELSE Len(text))

\* A click on the i-th completion.  The bounds are those of the input the list
\* was built for.
Choose(i) ==
    /\ i \in DOMAIN list /\ Len(input) <= MaxLen
    /\ list' = <<>> /\ span' = <<0, 0>> /\ fresh' = FALSE
    /\ currentFocus' = -1
    /\ LET left == Upto(input, span[1]) \o Value(list[i]) IN
       /\ input' = left \o SubSeq(input, span[2] + 1, Len(input))
       /\ caret' = Len(left)
    /\ UNCHANGED <<source, range>>
-----------------------------------------------------------------------------
(***************************************************************************)
(* The Enter key and the button that formats.                              *)
(***************************************************************************)
\* The Enter key clicks what is highlighted, if there is a list, and runs the
\* search when nothing is.
Enter ==
    \/ /\ currentFocus > -1 /\ list # <<>>
       /\ Choose(currentFocus + 1)
    \/ /\ currentFocus = -1 \/ list = <<>>
       /\ UNCHANGED vars

\* split(): what is between the separators, the empty pieces included
Split(text, sep) ==
    LET at == {k \in DOMAIN text : text[k] = sep}
        cuts == <<0>> \o Ordered(at) \o <<Len(text) + 1>>
    IN [i \in 1..Cardinality(at) + 1 |-> SubSeq(text, cuts[i] + 1, cuts[i + 1] - 1)]

\* / *, */ takes the spaces on both sides of a comma.
TrimLeft(s) == LET i == SelectInSeq(s, LAMBDA c : c # Space) IN
    IF i = 0 THEN <<>> ELSE SubSeq(s, i, Len(s))
TrimRight(s) == SubSeq(s, 1, SelectLastInSeq(s, LAMBDA c : c # Space))
Parts(text) ==
    LET parts == Split(text, Comma) n == Len(parts) IN
    IF n = 1 THEN Split(text, Space)
    ELSE [i \in 1..n |-> LET left == IF i = 1 THEN parts[i] ELSE TrimLeft(parts[i]) IN
                         IF i = n THEN left ELSE TrimRight(left)]

\* The groups one of whose expressions matches
Groups(part) == Pick(Group, {g \in DOMAIN Group : <<Group[g], part>> \in Matches})

\* Mutant of Filled: the last piece is taken for what is behind a separator.
FilledFront(parts) == Pick(parts, {i \in DOMAIN parts : parts[i] # <<>> /\ i < Len(parts)})

\* Empty values are skipped.
Filled(parts) == Pick(parts, {i \in DOMAIN parts : parts[i] # <<>>})

\* format()
Format ==
    /\ CloseList
    /\ LET parts == Filled(Parts(input))
           term(i) == [group |-> Head(Groups(parts[i])), value |-> parts[i]]
       IN IF \A i \in DOMAIN parts : Groups(parts[i]) # <<>>
          THEN /\ input' = [k \in 1..2 * Len(parts) - 1 |->
                                IF k % 2 = 1 THEN term((k + 1) \div 2) ELSE Or]
               /\ caret' = Len(input')
          ELSE UNCHANGED <<input, caret>>
    /\ UNCHANGED <<source, range>>
-----------------------------------------------------------------------------
(***************************************************************************)
(* setDatetimeRange().  A month's setMonth() that has no such day runs     *)
(* into the next month.  Changes of the clock are left out.                *)
(***************************************************************************)
\* The days of a year before its month m
DaysBefore(y, m) ==
    <<0, 31, 59, 90, 120, 151, 181, 212, 243, 273, 304, 334, 365>>[m + 1]
        + IF m > 1 /\ IsLeap(y) THEN 1 ELSE 0

\* The day a date is, counted from the start of the year before
DayNumber(year, date) ==
    (IF date[1] = year THEN DaysBefore(year - 1, 12) ELSE 0)
        + DaysBefore(date[1], date[2]) + date[3]

\* Mutant of MonthsAgo: the year is kept.
MonthsAgoSameYear(date, k) == <<date[1], (date[2] - k + 12) % 12, date[3]>>

\* The date may have a day its month does not have.
MonthsAgo(date, k) ==
    IF date[2] >= k THEN <<date[1], date[2] - k, date[3]>>
    ELSE <<date[1] - 1, date[2] - k + 12, date[3]>>

HoursOf(today, k) ==
    24 * (DayNumber(today[1], today) - DayNumber(today[1], MonthsAgo(today, k)))

Back(period, today) ==
    CASE period = "lastHour" -> 1
      [] period = "last12hours" -> 12
      [] period = "lastDay" -> 24
      [] period = "lastWeek" -> 24 * 7
      [] period = "lastMonth" -> HoursOf(today, 1)
      [] period = "last6months" -> HoursOf(today, 6)

SetDatetimeRange(period, today) ==
    /\ Len(input) <= MaxRangeLen
    /\ range' = <<period, Back(period, today)>>
    /\ CloseList
    /\ UNCHANGED <<input, caret, source>>
-----------------------------------------------------------------------------
Next ==
    \/ \E c \in Letter \cup Other : Type(c)
    \/ Erase
    \/ \E pos \in 0..Len(input) : MoveCaret(pos)
    \/ ClickElsewhere
    \/ \E s \in DOMAIN SourceFields : SelectSource(s)
    \/ \E q \in Filter, s \in DOMAIN SourceFields : EditFilter(q, s)
    \/ Clear
    \/ Tab
    \/ \E step \in {-1, 1} : Arrow(step)
    \/ \E i \in DOMAIN list : Choose(i)
    \/ Enter
    \/ Format
    \/ \E period \in Periods, today \in Today : SetDatetimeRange(period, today)

Spec == Init /\ [][Next]_vars
-----------------------------------------------------------------------------
(***************************************************************************)
(* Properties.                                                             *)
(***************************************************************************)
\* The highlighted completion is one of the list, whatever was clicked and typed
\* before: Enter never reaches behind the list (setActive(), closeList(), build()).
FocusInList == list # <<>> => currentFocus < Len(list)

\* A completion replaces the word around the caret, and nothing else, while the
\* input is the one the list was built for ("a word under a cursor will be
\* replaced", docs/search.md:99; build(), getFieldAt(), setCaretPosition()).
WordAt(text, i, j) ==
    /\ \A k \in (i + 1)..j : IsLetter(text[k])
    /\ i > 0 => ~IsLetter(text[i])
    /\ j < Len(text) => ~IsLetter(text[j + 1])
CompletesWord ==
    [][\A k \in DOMAIN list : fresh /\ Choose(k) =>
        \E i, j \in 0..Len(input) :
            /\ i <= j /\ WordAt(input, i, j)
            /\ input' = SubSeq(input, 1, i) \o Value(list[k]) \o SubSeq(input, j + 1, Len(input))
            /\ SubSeq(input', 1, caret') = SubSeq(input, 1, i) \o Value(list[k])]_vars

\* Formatting asks for every indicator of the input, once and in its order, or
\* leaves the input alone (docs/search.md:153, format()).
Indicators(text) ==
    FoldLeft(LAMBDA found, k :
        IF text[k] \in {Space, Comma} THEN found
        ELSE IF k > 1 /\ text[k - 1] \notin {Space, Comma}
             THEN Front(found) \o <<Append(Last(found), text[k])>>
             ELSE Append(found, <<text[k]>>),
        <<>>, [k \in DOMAIN text |-> k])
Asked(text) == LET terms == SelectSeq(text, LAMBDA c : c # Or) IN
    [k \in DOMAIN terms |-> terms[k].value]
FormatKeepsAll ==
    [][input' # input /\ Format => Asked(input') = Indicators(input)]_vars

\* A range of months ends today and goes back that many months, shorter by the
\* days the earlier month lacks at most, also over the end of a year
\* (setDatetimeRange()).
MonthsAreWhole ==
    /\ range[1] = "lastMonth" => range[2] \in (24 * 28)..(24 * 31)
    /\ range[1] = "last6months" => range[2] \in (24 * 181)..(24 * 184)
=============================================================================
