--------------------------- MODULE SearchBarProofs ---------------------------
(***************************************************************************)
(* The safety properties of SearchBar hold for any symbols, fields, data   *)
(* sources, groups and dates, and inputs of any length.  The completion    *)
(* rests on what getFieldAt() finds being a word of the input as long as   *)
(* nobody types, the ranges of months on the arithmetic of dates.          *)
(***************************************************************************)
EXTENDS SearchBar, FiniteSetTheorems, TLAPS

-----------------------------------------------------------------------------
(* The inductive invariant.                                                *)

\* While nobody types, the list is for a word of the input.
WordInv == fresh /\ list # <<>> =>
    /\ span[1] <= span[2] /\ span[2] <= Len(input)
    /\ WordAt(input, span[1], span[2])

IInv == TypeOK /\ FocusInList /\ WordInv /\ MonthsAreWhole
-----------------------------------------------------------------------------
(* Positions in their order.                                               *)

Below(K, k) == {j \in K : j < k}

LEMMA BelowIsSmaller ==
    ASSUME NEW K \in SUBSET Nat, IsFiniteSet(K), NEW k \in K
    PROVE  /\ IsFiniteSet(Below(K, k))
           /\ Cardinality(K) \in Nat
           /\ Cardinality(Below(K, k)) \in 0..Cardinality(K) - 1
           /\ Cardinality(Below(K, k)) = Cardinality(K) - 1 => Below(K, k) = K \ {k}
<1>1. IsFiniteSet(K \ {k}) /\ Cardinality(K \ {k}) = Cardinality(K) - 1
  BY FS_RemoveElement
<1>2. Below(K, k) \in SUBSET (K \ {k})
  BY DEF Below
<1>3. /\ IsFiniteSet(Below(K, k))
      /\ Cardinality(Below(K, k)) <= Cardinality(K \ {k})
      /\ Cardinality(K \ {k}) = Cardinality(Below(K, k)) => K \ {k} = Below(K, k)
  BY <1>1, <1>2, FS_Subset
<1>4. Cardinality(K) \in Nat /\ Cardinality(Below(K, k)) \in Nat
  BY <1>3, FS_CardinalityType
<1> QED BY <1>1, <1>3, <1>4

LEMMA BelowGrows ==
    ASSUME NEW K \in SUBSET Nat, IsFiniteSet(K), NEW j \in K, NEW k \in K, j < k
    PROVE  Cardinality(Below(K, j)) < Cardinality(Below(K, k))
<1>1. /\ IsFiniteSet(Below(K, j)) /\ IsFiniteSet(Below(K, k))
      /\ Cardinality(Below(K, j)) \in Nat /\ Cardinality(Below(K, k)) \in Nat
  BY BelowIsSmaller
<1>2. Below(K, j) \cup {j} \in SUBSET Below(K, k) /\ j \notin Below(K, j)
  <2>1. j \in Nat /\ k \in Nat /\ \A x \in K : x \in Nat
    OBVIOUS
  <2>2. \A x \in K : x < j => x < k
    BY <2>1
  <2>3. ~ j < j
    BY <2>1
  <2> QED BY <2>2, <2>3 DEF Below
<1>3. Cardinality(Below(K, j) \cup {j}) = Cardinality(Below(K, j)) + 1
  BY <1>1, <1>2, FS_AddElement
<1>4. Cardinality(Below(K, j) \cup {j}) <= Cardinality(Below(K, k))
  BY <1>1, <1>2, FS_Subset
<1> QED BY <1>1, <1>3, <1>4

\* Each rank is that of an element: ranks differ and there are as many as elements.
LEMMA RankExists ==
    ASSUME NEW K \in SUBSET Nat, IsFiniteSet(K), NEW n \in 0..Cardinality(K) - 1
    PROVE  \E k \in K : Cardinality(Below(K, k)) = n
<1> DEFINE T == 0..Cardinality(K) - 1
           rank == [k \in K |-> Cardinality(Below(K, k))]
<1>1. Cardinality(K) \in Nat
  BY FS_CardinalityType
<1>2. IsFiniteSet(T) /\ Cardinality(T) = Cardinality(K)
  <2>1. \A b \in Int : IsFiniteSet(0..b) /\ Cardinality(0..b) = IF 0 > b THEN 0 ELSE b - 0 + 1
    BY FS_Interval
  <2>2. Cardinality(K) - 1 \in Int
    BY <1>1
  <2> QED BY <1>1, <2>1, <2>2
<1>3. \A k \in K : Cardinality(Below(K, k)) \in T
  BY BelowIsSmaller
<1>4. rank \in [K -> T]
  BY <1>3
<1>5. ASSUME NEW j \in K, NEW k \in K, rank[j] = rank[k] PROVE j = k
  <2>1. j \in Nat /\ k \in Nat
    OBVIOUS
  <2>2. CASE j < k
    BY <1>3, <1>5, <2>2, BelowGrows
  <2>3. CASE k < j
    BY <1>3, <1>5, <2>3, BelowGrows
  <2> QED BY <2>1, <2>2, <2>3
<1> HIDE DEF rank, T
<1>6. rank \in Injection(K, T)
  BY <1>4, <1>5 DEF Injection, IsInjective
<1>7. rank \in Surjection(K, T)
  BY <1>2, <1>6, FS_Injection
<1>8. n \in T /\ \A k \in K : rank[k] = Cardinality(Below(K, k))
  BY DEF rank, T
<1> QED BY <1>7, <1>8 DEF Surjection

LEMMA OrderedElements ==
    ASSUME NEW K \in SUBSET Nat, IsFiniteSet(K)
    PROVE  /\ Cardinality(K) \in Nat
           /\ Ordered(K) \in [1..Cardinality(K) -> K]
<1>1. Cardinality(K) \in Nat
  BY FS_CardinalityType
<1>2. ASSUME NEW i \in 1..Cardinality(K) PROVE Ordered(K)[i] \in K
  <2>1. i - 1 \in 0..Cardinality(K) - 1
    BY <1>1
  <2>2. \E k \in K : Cardinality({j \in K : j < k}) = i - 1
    BY <2>1, RankExists DEF Below
  <2> QED BY <2>2 DEF Ordered
<1> QED BY <1>1, <1>2 DEF Ordered

LEMMA MaxExists ==
    ASSUME NEW K \in SUBSET Nat, IsFiniteSet(K), K # {}
    PROVE  Max(K) \in K /\ \A y \in K : Max(K) >= y
<1>1. Cardinality(K) \in Nat /\ Cardinality(K) # 0
  BY FS_CardinalityType, FS_EmptySet
<1>2. PICK k \in K : Cardinality(Below(K, k)) = Cardinality(K) - 1
  BY <1>1, RankExists
<1>3. Below(K, k) = K \ {k}
  BY <1>2, BelowIsSmaller
<1>4. \A y \in K : k >= y
  BY <1>3 DEF Below
<1> QED BY <1>4 DEF Max

LEMMA MinExists ==
    ASSUME NEW K \in SUBSET Nat, IsFiniteSet(K), K # {}
    PROVE  Min(K) \in K /\ \A y \in K : Min(K) <= y
<1>1. Cardinality(K) \in Nat /\ Cardinality(K) # 0
  BY FS_CardinalityType, FS_EmptySet
<1>2. PICK k \in K : Cardinality(Below(K, k)) = 0
  BY <1>1, RankExists
<1>3. Below(K, k) = {}
  BY <1>2, BelowIsSmaller, FS_EmptySet
<1>4. \A y \in K : k <= y
  BY <1>3 DEF Below
<1> QED BY <1>4 DEF Min

LEMMA PositionsAreFinite ==
    ASSUME NEW n \in Nat, NEW K \in SUBSET (1..n)
    PROVE  K \in SUBSET Nat /\ IsFiniteSet(K) /\ Cardinality(K) \in 0..n
<1>1. IsFiniteSet(1..n) /\ Cardinality(1..n) = n
  <2>1. IsFiniteSet(1..n) /\ Cardinality(1..n) = IF 1 > n THEN 0 ELSE n - 1 + 1
    BY FS_Interval
  <2> QED BY <2>1
<1>2. IsFiniteSet(K) /\ Cardinality(K) <= n
  BY <1>1, FS_Subset
<1> QED BY <1>2, FS_CardinalityType

\* What is picked from a sequence is a sequence of some of its elements.
LEMMA PickType ==
    ASSUME NEW S, NEW s \in Seq(S), NEW K \in SUBSET DOMAIN s
    PROVE  /\ Pick(s, K) \in Seq(S)
           /\ Len(Pick(s, K)) = Cardinality(K)
           /\ Cardinality(K) \in 0..Len(s)
<1>1. /\ K \in SUBSET Nat /\ IsFiniteSet(K) /\ Cardinality(K) \in 0..Len(s)
  BY PositionsAreFinite
<1>2. Ordered(K) \in [1..Cardinality(K) -> K] /\ Cardinality(K) \in Nat
  BY <1>1, OrderedElements
<1>3. \A i \in 1..Cardinality(K) : s[Ordered(K)[i]] \in S
  BY <1>2
<1> QED BY <1>1, <1>2, <1>3 DEF Pick
-----------------------------------------------------------------------------
(* Words and pieces.                                                       *)

\* getFieldAt() finds the bounds of a word.
LEMMA FieldIsWord ==
    ASSUME NEW S, NEW text \in Seq(S), NEW pos \in 0..Len(text)
    PROVE  /\ GetFieldAt(text, pos) \in Nat \X Nat
           /\ GetFieldAt(text, pos)[1] <= GetFieldAt(text, pos)[2]
           /\ GetFieldAt(text, pos)[2] <= Len(text)
           /\ WordAt(text, GetFieldAt(text, pos)[1], GetFieldAt(text, pos)[2])
<1> DEFINE A == {i \in 1..pos : ~IsLetter(text[i])}
           B == {i \in pos + 1..Len(text) : ~IsLetter(text[i])}
           before == IF A # {} THEN Max(A) ELSE 0
           behind == IF B # {} THEN Min(B) ELSE 0
           right == IF behind = 0 THEN Len(text) ELSE behind - 1
<1>1. GetFieldAt(text, pos) = <<before, right>>
  BY DEF GetFieldAt, SelectLastInSubSeq, SelectInSubSeq
<1>2. Len(text) \in Nat /\ pos \in Nat /\ pos <= Len(text)
  OBVIOUS
<1>3. /\ A \in SUBSET Nat /\ IsFiniteSet(A)
      /\ B \in SUBSET Nat /\ IsFiniteSet(B)
  <2>1. A \in SUBSET (1..Len(text)) /\ B \in SUBSET (1..Len(text))
    BY <1>2
  <2> QED BY <1>2, <2>1, PositionsAreFinite
<1>4. /\ before \in 0..pos
      /\ before > 0 => ~IsLetter(text[before])
      /\ \A k \in before + 1..pos : IsLetter(text[k])
  <2>1. CASE A = {}
    BY <1>2, <2>1
  <2>2. CASE A # {}
    <3>1. before \in A /\ \A y \in A : before >= y
      BY <1>3, <2>2, MaxExists
    <3> HIDE DEF before
    <3> QED BY <1>2, <3>1
  <2> QED BY <2>1, <2>2
<1>5. /\ right \in pos..Len(text)
      /\ right < Len(text) => ~IsLetter(text[right + 1])
      /\ \A k \in pos + 1..right : IsLetter(text[k])
  <2>1. CASE B = {}
    <3>1. right = Len(text)
      BY <2>1
    <3>2. \A k \in pos + 1..Len(text) : IsLetter(text[k])
      BY <2>1
    <3> HIDE DEF right
    <3> QED BY <1>2, <3>1, <3>2
  <2>2. CASE B # {}
    <3>1. behind \in B /\ \A y \in B : behind <= y
      BY <1>3, <2>2, MinExists
    <3> HIDE DEF behind
    <3>2. behind \in pos + 1..Len(text) /\ ~IsLetter(text[behind])
      BY <3>1
    <3>3. right = behind - 1
      BY <1>2, <3>2
    <3> HIDE DEF right
    <3>4. right + 1 = behind
      BY <1>2, <3>2, <3>3
    <3> QED BY <1>2, <3>1, <3>2, <3>3, <3>4
  <2> QED BY <2>1, <2>2
<1> HIDE DEF A, B, before, behind, right
<1>6. \A k \in before + 1..right : k \in before + 1..pos \/ k \in pos + 1..right
  BY <1>2, <1>4, <1>5
<1>7. WordAt(text, before, right)
  BY <1>4, <1>5, <1>6 DEF WordAt
<1> QED BY <1>1, <1>2, <1>4, <1>5, <1>7

LEMMA FunctionIsSeq ==
    ASSUME NEW S, NEW n \in Nat, NEW f \in [1..n -> S]
    PROVE  f \in Seq(S) /\ Len(f) = n
OBVIOUS

\* The pieces between separators are sequences of the symbols of the text.
LEMMA SplitType ==
    ASSUME NEW S, NEW text \in Seq(S), NEW sep
    PROVE  Split(text, sep) \in Seq(Seq(S)) /\ Len(Split(text, sep)) >= 1
<1> DEFINE at == {k \in DOMAIN text : text[k] = sep}
           c == Cardinality(at)
           n == Len(text)
           cuts == <<0>> \o Ordered(at) \o <<n + 1>>
<1>1. n \in Nat /\ DOMAIN text = 1..n
  OBVIOUS
<1>2. /\ c \in Nat /\ Ordered(at) \in [1..c -> at]
      /\ at \in SUBSET (1..n)
  BY <1>1, PositionsAreFinite, OrderedElements
<1>3. Split(text, sep) = [i \in 1..c + 1 |-> SubSeq(text, cuts[i] + 1, cuts[i + 1] - 1)]
  BY DEF Split
<1> HIDE DEF at, c
<1>4. Ordered(at) \in Seq(1..n) /\ Len(Ordered(at)) = c
  <2>1. Ordered(at) \in [1..c -> 1..n]
    BY <1>2
  <2> QED BY <1>2, <2>1, FunctionIsSeq
<1>5. cuts \in Seq(0..n + 1) /\ Len(cuts) = c + 2
  BY <1>1, <1>4
<1> HIDE DEF cuts
<1>6. ASSUME NEW i \in 1..c + 1
      PROVE  SubSeq(text, cuts[i] + 1, cuts[i + 1] - 1) \in Seq(S)
  <2>1. cuts[i] \in 0..n + 1 /\ cuts[i + 1] \in 0..n + 1
    BY <1>2, <1>5
  <2> QED BY <1>1, <2>1
<1>7. Split(text, sep) \in [1..c + 1 -> Seq(S)] /\ c + 1 \in Nat /\ c + 1 >= 1
  BY <1>2, <1>3, <1>6
<1>8. Split(text, sep) \in Seq(Seq(S)) /\ Len(Split(text, sep)) = c + 1
  BY <1>7, FunctionIsSeq
<1> QED BY <1>7, <1>8

LEMMA TrimType ==
    ASSUME NEW S, NEW text \in Seq(S)
    PROVE  TrimLeft(text) \in Seq(S) /\ TrimRight(text) \in Seq(S)
<1> DEFINE I == {i \in 1..Len(text) : text[i] # Space}
           first == IF I # {} THEN Min(I) ELSE 0
           last == IF I # {} THEN Max(I) ELSE 0
<1>1. /\ TrimLeft(text) = IF first = 0 THEN <<>> ELSE SubSeq(text, first, Len(text))
      /\ TrimRight(text) = SubSeq(text, 1, last)
  BY DEF TrimLeft, TrimRight, SelectInSeq, SelectLastInSeq
<1>2. Len(text) \in Nat /\ I \in SUBSET Nat /\ IsFiniteSet(I)
  BY PositionsAreFinite
<1>3. first \in 0..Len(text) /\ last \in 0..Len(text)
  <2>1. CASE I = {}
    BY <1>2, <2>1
  <2>2. CASE I # {}
    <3>1. Min(I) \in I /\ Max(I) \in I /\ I \in SUBSET (1..Len(text))
      BY <1>2, <2>2, MinExists, MaxExists
    <3>2. first = Min(I) /\ last = Max(I)
      BY <2>2
    <3> HIDE DEF I, first, last
    <3>3. first \in 1..Len(text) /\ last \in 1..Len(text)
      BY <3>1, <3>2
    <3> QED BY <1>2, <3>3
  <2> QED BY <2>1, <2>2
<1> HIDE DEF first, last
<1> QED BY <1>1, <1>2, <1>3

LEMMA PartsType ==
    ASSUME NEW S, NEW text \in Seq(S) PROVE Parts(text) \in Seq(Seq(S))
<1> DEFINE parts == Split(text, Comma)
           n == Len(parts)
           left(i) == IF i = 1 THEN parts[i] ELSE TrimLeft(parts[i])
           piece(i) == IF i = n THEN left(i) ELSE TrimRight(left(i))
<1>1. parts \in Seq(Seq(S)) /\ n \in Nat /\ Split(text, Space) \in Seq(Seq(S))
  BY SplitType
<1>2. Parts(text) = IF n = 1 THEN Split(text, Space) ELSE [i \in 1..n |-> piece(i)]
  BY DEF Parts
<1>3. ASSUME NEW i \in 1..n PROVE piece(i) \in Seq(S)
  <2>1. parts[i] \in Seq(S)
    BY <1>1
  <2>2. left(i) \in Seq(S)
    BY <2>1, TrimType
  <2> QED BY <2>2, TrimType
<1> HIDE DEF parts, n, piece
<1> QED BY <1>1, <1>2, <1>3
-----------------------------------------------------------------------------
(* The time range.                                                         *)

Date == {date \in Int \X (0..11) \X (1..31) : date[3] <= DaysIn(date[1], date[2])}

\* What the table says, months and the leap day apart.
Days(m) == <<0, 31, 59, 90, 120, 151, 181, 212, 243, 273, 304, 334, 365>>[m + 1]
LeapDay(y) == IF IsLeap(y) THEN 1 ELSE 0

LEMMA DaysInYear ==
    /\ Days(0) = 0 /\ Days(1) = 31 /\ Days(2) = 59 /\ Days(3) = 90 /\ Days(4) = 120
    /\ Days(5) = 151 /\ Days(6) = 181 /\ Days(7) = 212 /\ Days(8) = 243
    /\ Days(9) = 273 /\ Days(10) = 304 /\ Days(11) = 334 /\ Days(12) = 365
BY DEF Days

LEMMA DaysAndLeapDay ==
    ASSUME NEW y \in Int, NEW m \in 0..12
    PROVE  /\ Days(m) \in Nat /\ LeapDay(y) \in 0..1
           /\ DaysBefore(y, m) = IF m > 1 THEN Days(m) + LeapDay(y) ELSE Days(m)
<1>1. Days(m) \in Nat
  BY DaysInYear
<1>2. DaysBefore(y, m) = Days(m) + IF m > 1 /\ IsLeap(y) THEN 1 ELSE 0
  BY DEF DaysBefore, Days
<1>3. CASE IsLeap(y)
  BY <1>1, <1>2, <1>3 DEF LeapDay
<1>4. CASE ~IsLeap(y)
  BY <1>1, <1>2, <1>4 DEF LeapDay
<1> QED BY <1>3, <1>4

\* The days of the months that lie between, the last of the earlier year included.
LEMMA MonthsInDays ==
    ASSUME NEW today \in Date, NEW k \in {1, 6}
    PROVE  DayNumber(today[1], today) - DayNumber(today[1], MonthsAgo(today, k))
              \in IF k = 1 THEN 28..31 ELSE 181..184
<1> DEFINE y == today[1]  m == today[2]  d == today[3]
           there == DayNumber(y, MonthsAgo(today, k))
<1>1. y \in Int /\ m \in 0..11 /\ d \in 1..31 /\ y - 1 # y /\ y - 1 \in Int
  BY DEF Date
<1>2. DayNumber(y, today) = DaysBefore(y - 1, 12) + DaysBefore(y, m) + d
  BY DEF DayNumber
<1>3. /\ LeapDay(y) \in 0..1 /\ LeapDay(y - 1) \in 0..1
      /\ DaysBefore(y - 1, 12) = 365 + LeapDay(y - 1)
      /\ DaysBefore(y, m) = IF m > 1 THEN Days(m) + LeapDay(y) ELSE Days(m)
  BY <1>1, DaysInYear, DaysAndLeapDay
<1>4. CASE m >= k
  <2>1. there = DaysBefore(y - 1, 12) + DaysBefore(y, m - k) + d
    BY <1>4 DEF MonthsAgo, DayNumber
  <2>2. /\ m - k \in 0..11
        /\ DaysBefore(y, m - k) =
              IF m - k > 1 THEN Days(m - k) + LeapDay(y) ELSE Days(m - k)
    BY <1>1, <1>4, DaysAndLeapDay
  <2> HIDE DEF y, m, d, there
  <2>3. DayNumber(y, today) - there = DaysBefore(y, m) - DaysBefore(y, m - k)
    <3>1. DaysBefore(y, m) \in Nat /\ DaysBefore(y, m - k) \in Nat
      BY <1>1, <1>3, <2>2, DaysAndLeapDay
    <3> QED BY <1>1, <1>2, <1>3, <2>1, <3>1
  <2>4. DaysBefore(y, m) - DaysBefore(y, m - k) \in IF k = 1 THEN 28..31 ELSE 181..184
    BY <1>1, <1>3, <1>4, <2>2, DaysInYear
  <2> QED BY <2>3, <2>4 DEF y, there
<1>5. CASE m < k
  <2>1. there = DaysBefore(y - 1, m - k + 12) + d
    <3>1. MonthsAgo(today, k) = <<y - 1, m - k + 12, d>>
      BY <1>1, <1>5 DEF MonthsAgo
    <3>2. DayNumber(y, <<y - 1, m - k + 12, d>>) = 0 + DaysBefore(y - 1, m - k + 12) + d
      BY <1>1 DEF DayNumber
    <3>3. DaysBefore(y - 1, m - k + 12) \in Nat
      BY <1>1, <1>5, DaysAndLeapDay
    <3> QED BY <1>1, <3>1, <3>2, <3>3
  <2>2. /\ m - k + 12 \in 6..11
        /\ DaysBefore(y - 1, m - k + 12) = Days(m - k + 12) + LeapDay(y - 1)
    BY <1>1, <1>5, DaysAndLeapDay
  <2> HIDE DEF y, m, d, there
  <2>3. DayNumber(y, today) - there
            = 365 + DaysBefore(y, m) - Days(m - k + 12)
    <3>1. DaysBefore(y, m) \in Nat /\ Days(m - k + 12) \in Nat
      BY <1>1, <1>3, <2>2, DaysAndLeapDay
    <3> QED BY <1>1, <1>2, <1>3, <2>1, <2>2, <3>1
  <2>4. 365 + DaysBefore(y, m) - Days(m - k + 12) \in IF k = 1 THEN 28..31 ELSE 181..184
    BY <1>1, <1>3, <1>5, <2>2, DaysInYear
  <2> QED BY <2>3, <2>4 DEF y, there
<1> QED BY <1>1, <1>4, <1>5

LEMMA BetweenNats == ASSUME NEW a \in Nat, NEW b \in Nat, NEW h \in a..b PROVE h \in Nat
OBVIOUS

\* The hours a period goes back.
LEMMA BackType ==
    ASSUME SearchBarAssumption, NEW period \in Periods, NEW today \in Today
    PROVE  /\ Back(period, today) \in Nat
           /\ period = "lastMonth" => Back(period, today) \in (24 * 28)..(24 * 31)
           /\ period = "last6months" => Back(period, today) \in (24 * 181)..(24 * 184)
<1>1. today \in Date
  BY DEF SearchBarAssumption, Date
<1> DEFINE days(k) == DayNumber(today[1], today) - DayNumber(today[1], MonthsAgo(today, k))
<1>2. days(1) \in 28..31 /\ days(6) \in 181..184
  BY <1>1, MonthsInDays
<1>3. HoursOf(today, 1) = 24 * days(1) /\ HoursOf(today, 6) = 24 * days(6)
  BY DEF HoursOf
<1> HIDE DEF days
<1>4. /\ HoursOf(today, 1) \in (24 * 28)..(24 * 31)
      /\ HoursOf(today, 6) \in (24 * 181)..(24 * 184)
  <2>1. PICK m \in 28..31, n \in 181..184 : m = days(1) /\ n = days(6)
    BY <1>2
  <2>2. 24 * m \in (24 * 28)..(24 * 31) /\ 24 * n \in (24 * 181)..(24 * 184)
    OBVIOUS
  <2> QED BY <1>3, <2>1, <2>2
<1>5. CASE period \in {"lastHour", "last12hours", "lastDay", "lastWeek"}
  BY <1>5 DEF Back
<1>6. CASE period = "lastMonth"
  <2>1. Back(period, today) = HoursOf(today, 1)
    BY <1>6 DEF Back
  <2>2. Back(period, today) \in (24 * 28)..(24 * 31)
    BY <1>4, <2>1
  <2>3. PICK h \in (24 * 28)..(24 * 31) : h = Back(period, today)
    BY <2>2
  <2>4. h \in Nat
    BY 24 * 28 \in Nat, 24 * 31 \in Nat, BetweenNats
  <2> QED BY <1>6, <2>2, <2>3, <2>4
<1>7. CASE period = "last6months"
  <2>1. Back(period, today) = HoursOf(today, 6)
    BY <1>7 DEF Back
  <2>2. Back(period, today) \in (24 * 181)..(24 * 184)
    BY <1>4, <2>1
  <2>3. PICK h \in (24 * 181)..(24 * 184) : h = Back(period, today)
    BY <2>2
  <2>4. h \in Nat
    BY 24 * 181 \in Nat, 24 * 184 \in Nat, BetweenNats
  <2> QED BY <1>7, <2>2, <2>3, <2>4
<1> QED BY <1>5, <1>6, <1>7 DEF Periods
-----------------------------------------------------------------------------
(* The steps.                                                              *)

Symbol == Plain \cup Term
Facts == SearchBarAssumption /\ IInv

\* The input and its caret, and the list of completions.
InputTypes == input \in Seq(Symbol) /\ caret \in 0..Len(input)
ListTypes ==
    /\ list \in Seq(ToSet(FIELDS)) /\ Len(list) <= Len(FIELDS)
    /\ span \in Nat \X Nat
    /\ currentFocus \in -1..Len(FIELDS)
    /\ fresh \in BOOLEAN

LEMMA Types ==
    TypeOK <=> /\ InputTypes /\ ListTypes
               /\ source \in DOMAIN SourceFields /\ range \in Periods \X Nat
BY DEF TypeOK, InputTypes, ListTypes, Symbol

LEMMA TypesAfter ==
    ASSUME InputTypes', ListTypes', (source \in DOMAIN SourceFields)',
           (range \in Periods \X Nat)'
    PROVE  TypeOK'
BY DEF TypeOK, InputTypes, ListTypes, Symbol

\* Closing the list keeps its part of the invariant, whatever happens to the input.
LEMMA CloseListStep ==
    ASSUME Facts, CloseList
    PROVE  ListTypes' /\ FocusInList' /\ WordInv'
<1>1. ListTypes /\ list' = <<>> /\ span' = <<0, 0>> /\ fresh' = FALSE
      /\ currentFocus' = currentFocus
  BY Types DEF Facts, IInv, CloseList
<1>2. Len(FIELDS) \in Nat
  BY DEF Facts, SearchBarAssumption
<1>3. <<>> \in Seq(ToSet(FIELDS)) /\ Len(<<>>) = 0
  OBVIOUS
<1>4. ListTypes'
  <2>1. (list \in Seq(ToSet(FIELDS)) /\ Len(list) <= Len(FIELDS))'
    BY <1>1, <1>2, <1>3
  <2> QED BY <1>1, <2>1 DEF ListTypes
<1> QED BY <1>1, <1>4 DEF FocusInList, WordInv

\* Typing leaves the list open, for an input that is no longer that of the list.
LEMMA EditedStep ==
    ASSUME Facts, NEW text \in Seq(Symbol), NEW pos \in 0..Len(text), Edited(text, pos)
    PROVE  IInv'
<1>1. /\ input' = text /\ caret' = pos /\ fresh' = FALSE
      /\ UNCHANGED <<source, list, span, currentFocus, range>>
  BY DEF Edited
<1>2. TypeOK /\ FocusInList /\ MonthsAreWhole
  BY DEF Facts, IInv
<1>3. InputTypes' /\ ListTypes'
  BY <1>1, <1>2, Types DEF InputTypes, ListTypes
<1>4. TypeOK'
  BY <1>1, <1>2, <1>3, Types, TypesAfter
<1>5. FocusInList' /\ WordInv' /\ MonthsAreWhole'
  BY <1>1, <1>2 DEF FocusInList, WordInv, MonthsAreWhole
<1> QED BY <1>4, <1>5 DEF IInv

LEMMA JoinType ==
    ASSUME NEW S, NEW s \in Seq(S), NEW t \in Seq(S)
    PROVE  s \o t \in Seq(S) /\ Len(s \o t) = Len(s) + Len(t)
OBVIOUS

LEMMA NoList ==
    ASSUME SearchBarAssumption
    PROVE  /\ <<>> \in Seq(ToSet(FIELDS)) /\ Len(<<>>) <= Len(FIELDS)
           /\ <<0, 0>> \in Nat \X Nat /\ -1 \in -1..Len(FIELDS)
<1>1. Len(FIELDS) \in Nat
  BY DEF SearchBarAssumption
<1>2. <<>> \in Seq(ToSet(FIELDS)) /\ Len(<<>>) = 0
  OBVIOUS
<1>3. -1 \in -1..Len(FIELDS)
  BY <1>1
<1> QED BY <1>1, <1>2, <1>3

LEMMA TypeStep ==
    ASSUME Facts, NEW c \in Letter \cup Other, Type(c) PROVE IInv'
<1>1. InputTypes /\ c \in Symbol
  BY Types DEF Facts, IInv, Symbol, Plain
<1>2. /\ SubSeq(input, 1, caret + 1 - 1) \in Seq(Symbol)
      /\ Len(SubSeq(input, 1, caret + 1 - 1)) = caret
      /\ SubSeq(input, caret + 1, Len(input)) \in Seq(Symbol)
      /\ Len(SubSeq(input, caret + 1, Len(input))) = Len(input) - caret
  BY <1>1 DEF InputTypes
<1>3. /\ InsertAt(input, caret + 1, c) \in Seq(Symbol)
      /\ Len(InsertAt(input, caret + 1, c)) = Len(input) + 1
  <2> DEFINE left == SubSeq(input, 1, (caret + 1) - 1)
             right == SubSeq(input, caret + 1, Len(input))
  <2>1. <<c>> \in Seq(Symbol) /\ Len(<<c>>) = 1
    BY <1>1
  <2>2. InsertAt(input, caret + 1, c) = (left \o <<c>>) \o right
    BY DEF InsertAt, left, right
  <2> HIDE DEF left, right
  <2>3. left \o <<c>> \in Seq(Symbol) /\ Len(left \o <<c>>) = caret + 1
    BY <1>2, <2>1, JoinType DEF left
  <2>4. /\ (left \o <<c>>) \o right \in Seq(Symbol)
        /\ Len((left \o <<c>>) \o right) = caret + 1 + (Len(input) - caret)
    BY <1>2, <2>3, JoinType DEF right
  <2>5. caret + 1 + (Len(input) - caret) = Len(input) + 1
    BY <1>1 DEF InputTypes
  <2> QED BY <2>2, <2>4, <2>5
<1>4. caret + 1 \in 0..Len(input) + 1
  BY <1>1 DEF InputTypes
<1> QED BY <1>3, <1>4, EditedStep DEF Type

LEMMA EraseStep ==
    ASSUME Facts, Erase PROVE IInv'
<1>1. InputTypes /\ caret > 0
  BY Types DEF Facts, IInv, Erase
<1>2. /\ SubSeq(input, 1, caret - 1) \in Seq(Symbol)
      /\ Len(SubSeq(input, 1, caret - 1)) = caret - 1
      /\ SubSeq(input, caret + 1, Len(input)) \in Seq(Symbol)
      /\ Len(SubSeq(input, caret + 1, Len(input))) = Len(input) - caret
  BY <1>1 DEF InputTypes
<1>3. /\ RemoveAt(input, caret) \in Seq(Symbol)
      /\ Len(RemoveAt(input, caret)) = Len(input) - 1
  <2> DEFINE left == SubSeq(input, 1, caret - 1)
             right == SubSeq(input, caret + 1, Len(input))
  <2>1. RemoveAt(input, caret) = left \o right
    BY DEF RemoveAt
  <2> HIDE DEF left, right
  <2>2. left \o right \in Seq(Symbol) /\ Len(left \o right) = caret - 1 + (Len(input) - caret)
    BY <1>2, JoinType DEF left, right
  <2> QED BY <1>1, <2>1, <2>2 DEF InputTypes
<1>4. caret - 1 \in 0..Len(input) - 1
  BY <1>1 DEF InputTypes
<1> QED BY <1>3, <1>4, EditedStep DEF Erase

LEMMA MoveCaretStep ==
    ASSUME Facts, NEW pos \in 0..Len(input), MoveCaret(pos) PROVE IInv'
<1>1. caret' = pos /\ UNCHANGED <<input, source, list, span, currentFocus, fresh, range>>
  BY DEF MoveCaret, completion
<1>2. TypeOK /\ FocusInList /\ WordInv /\ MonthsAreWhole
  BY DEF Facts, IInv
<1>3. InputTypes' /\ ListTypes'
  BY <1>1, <1>2, Types DEF InputTypes, ListTypes
<1>4. TypeOK'
  BY <1>1, <1>2, <1>3, Types, TypesAfter
<1>5. FocusInList' /\ WordInv' /\ MonthsAreWhole'
  BY <1>1, <1>2 DEF FocusInList, WordInv, MonthsAreWhole, WordAt
<1> QED BY <1>4, <1>5 DEF IInv

\* The steps that close the list and leave the time range alone.
LEMMA ClosingStep ==
    ASSUME Facts, CloseList, InputTypes', source' \in DOMAIN SourceFields, UNCHANGED range
    PROVE  IInv'
<1>1. ListTypes' /\ FocusInList' /\ WordInv'
  BY CloseListStep
<1>2. range \in Periods \X Nat /\ MonthsAreWhole
  BY Types DEF Facts, IInv
<1>3. TypeOK'
  BY <1>1, <1>2, TypesAfter
<1>4. MonthsAreWhole'
  BY <1>2 DEF MonthsAreWhole
<1> QED BY <1>1, <1>3, <1>4 DEF IInv

LEMMA ClosingSteps ==
    ASSUME Facts,
           \/ ClickElsewhere
           \/ \E s \in DOMAIN SourceFields : SelectSource(s)
           \/ \E q \in Filter, s \in DOMAIN SourceFields : EditFilter(q, s)
           \/ Clear
    PROVE  IInv'
<1>1. InputTypes /\ source \in DOMAIN SourceFields
  BY Types DEF Facts, IInv
<1>2. CASE ClickElsewhere \/ \E s \in DOMAIN SourceFields : SelectSource(s)
  <2>1. CloseList /\ UNCHANGED <<input, caret, range>> /\ source' \in DOMAIN SourceFields
    BY <1>1, <1>2 DEF ClickElsewhere, SelectSource
  <2>2. InputTypes'
    BY <1>1, <2>1 DEF InputTypes
  <2> QED BY <2>1, <2>2, ClosingStep
<1>3. CASE \E q \in Filter, s \in DOMAIN SourceFields : EditFilter(q, s)
  <2>1. PICK q \in Filter, s \in DOMAIN SourceFields : EditFilter(q, s)
    BY <1>3
  <2>2. q \in Seq(Plain)
    BY DEF Facts, SearchBarAssumption
  <2>3. q \in Seq(Symbol) /\ Len(q) \in Nat
    BY <2>2 DEF Symbol
  <2>4. CloseList /\ input' = q /\ caret' = Len(q) /\ source' = s /\ UNCHANGED range
    BY <2>1 DEF EditFilter
  <2>5. InputTypes'
    BY <2>3, <2>4 DEF InputTypes
  <2> QED BY <2>4, <2>5, ClosingStep
<1>4. CASE Clear
  <2>1. CloseList /\ input' = <<>> /\ caret' = 0 /\ UNCHANGED <<source, range>>
    BY <1>4 DEF Clear
  <2>2. InputTypes'
    BY <2>1 DEF InputTypes
  <2> QED BY <1>1, <2>1, <2>2, ClosingStep
<1> QED BY <1>2, <1>3, <1>4

LEMMA FieldSymbols ==
    ASSUME SearchBarAssumption, NEW f \in ToSet(FIELDS)
    PROVE  Value(f) \in Seq(Symbol)
<1>1. f \in Seq(Letter \cup Quoted)
  BY DEF SearchBarAssumption, ToSet
<1>2. Letter \cup Quoted \subseteq Symbol /\ Backtick \in Symbol
  BY DEF SearchBarAssumption, Symbol, Plain
<1>3. f \in Seq(Symbol)
  BY <1>1, <1>2
<1>4. <<Backtick>> \in Seq(Symbol)
  BY <1>2
<1>5. <<Backtick>> \o f \in Seq(Symbol)
  BY <1>3, <1>4, JoinType
<1>6. (<<Backtick>> \o f) \o <<Backtick>> \in Seq(Symbol)
  BY <1>4, <1>5, JoinType
<1> QED BY <1>3, <1>6 DEF Value

LEMMA TabStep ==
    ASSUME Facts, Tab PROVE IInv'
<1> DEFINE at == GetFieldAt(input, caret)
           word == SubSeq(input, at[1] + 1, at[2])
           K == {k \in DOMAIN FIELDS : FIELDS[k] \in SourceFields[source]
                                       /\ IsStrictPrefix(word, FIELDS[k])}
<1>1. /\ list' = Pick(FIELDS, K)
      /\ span' = IF list' = <<>> THEN <<0, 0>> ELSE at
      /\ currentFocus' = -1 /\ fresh' = TRUE
      /\ UNCHANGED <<input, caret, source, range>>
  BY DEF Tab, Offers
<1>2. TypeOK /\ InputTypes /\ MonthsAreWhole
  BY Types DEF Facts, IInv
<1>3. /\ at \in Nat \X Nat /\ at[1] <= at[2] /\ at[2] <= Len(input)
      /\ WordAt(input, at[1], at[2])
  BY <1>2, FieldIsWord DEF InputTypes
<1> HIDE DEF at
<1>4. FIELDS \in Seq(ToSet(FIELDS)) /\ Len(FIELDS) \in Nat
  <2>1. FIELDS \in Seq(Seq(Letter \cup Quoted))
    BY DEF Facts, SearchBarAssumption
  <2> QED BY <2>1 DEF ToSet
<1>5. Pick(FIELDS, K) \in Seq(ToSet(FIELDS)) /\ Len(Pick(FIELDS, K)) \in 0..Len(FIELDS)
  BY <1>4, PickType
<1> HIDE DEF K
<1>6. ListTypes'
  <2>1. span' \in Nat \X Nat
    BY <1>1, <1>3
  <2>2. (list \in Seq(ToSet(FIELDS)) /\ Len(list) <= Len(FIELDS))'
    BY <1>1, <1>4, <1>5
  <2>3. currentFocus' \in -1..Len(FIELDS)
    BY <1>1, <1>4
  <2> QED BY <1>1, <2>1, <2>2, <2>3 DEF ListTypes
<1>7. TypeOK'
  <2>1. InputTypes'
    BY <1>1, <1>2 DEF InputTypes
  <2> QED BY <1>1, <1>2, <1>6, <2>1, Types, TypesAfter
<1>8. FocusInList'
  BY <1>1, <1>5 DEF FocusInList
<1>9. WordInv'
  <2>1. list' # <<>> => span' = at
    BY <1>1
  <2>2. WordAt(input, at[1], at[2])' <=> WordAt(input, at[1], at[2])
    BY <1>1 DEF WordAt, at
  <2>3. list' # <<>> => WordAt(input, span[1], span[2])'
    BY <1>1, <1>3, <2>1 DEF WordAt
  <2> QED BY <1>1, <1>3, <2>1, <2>3 DEF WordInv
<1>10. MonthsAreWhole'
  BY <1>1, <1>2 DEF MonthsAreWhole
<1> QED BY <1>7, <1>8, <1>9, <1>10 DEF IInv

LEMMA ArrowStep ==
    ASSUME Facts, NEW step \in {-1, 1}, Arrow(step) PROVE IInv'
<1>1. /\ UNCHANGED <<input, caret, source, list, span, fresh, range>>
      /\ currentFocus' = IF list = <<>> THEN currentFocus
                         ELSE Wrapped(currentFocus + step, Len(list))
  BY DEF Arrow
<1>2. TypeOK /\ InputTypes /\ ListTypes /\ FocusInList /\ WordInv /\ MonthsAreWhole
  BY Types DEF Facts, IInv
<1>3. Len(FIELDS) \in Nat
  BY DEF Facts, SearchBarAssumption
<1>4. list # <<>> => Len(list) \in Nat \ {0}
  BY <1>2 DEF ListTypes
<1>5. list # <<>> => currentFocus' \in 0..Len(list) - 1
  BY <1>1, <1>2, <1>3, <1>4 DEF Wrapped, ListTypes
<1>6. ListTypes'
  <2>1. currentFocus' \in -1..Len(FIELDS)
    BY <1>1, <1>2, <1>3, <1>4, <1>5 DEF ListTypes
  <2> QED BY <1>1, <1>2, <2>1 DEF ListTypes
<1>7. TypeOK'
  <2>1. InputTypes'
    BY <1>1, <1>2 DEF InputTypes
  <2> QED BY <1>1, <1>2, <1>6, <2>1, Types, TypesAfter
<1>8. FocusInList'
  BY <1>1, <1>4, <1>5 DEF FocusInList
<1>9. WordInv' /\ MonthsAreWhole'
  BY <1>1, <1>2 DEF WordInv, WordAt, MonthsAreWhole
<1> QED BY <1>7, <1>8, <1>9 DEF IInv

LEMMA ChooseStep ==
    ASSUME Facts, NEW i \in DOMAIN list, Choose(i) PROVE IInv'
<1> DEFINE n == IF span[1] < Len(input) THEN span[1] ELSE Len(input)
           head == SubSeq(input, 1, n)
           tail == SubSeq(input, span[2] + 1, Len(input))
           left == head \o Value(list[i])
<1>1. /\ list' = <<>> /\ span' = <<0, 0>> /\ fresh' = FALSE /\ currentFocus' = -1
      /\ input' = left \o tail /\ caret' = Len(left)
      /\ UNCHANGED <<source, range>>
  BY DEF Choose, Upto
<1>2. TypeOK /\ InputTypes /\ ListTypes /\ MonthsAreWhole
  BY Types DEF Facts, IInv
<1>3. Value(list[i]) \in Seq(Symbol)
  BY <1>2, FieldSymbols DEF Facts, ListTypes
<1>4. head \in Seq(Symbol) /\ tail \in Seq(Symbol)
  <2>1. input \in Seq(Symbol) /\ n \in 0..Len(input) /\ span[2] \in Nat
    BY <1>2 DEF InputTypes, ListTypes
  <2> HIDE DEF n
  <2> QED BY <2>1
<1> HIDE DEF head, tail
<1>5. left \in Seq(Symbol) /\ Len(left) \in Nat
  BY <1>3, <1>4, JoinType
<1> HIDE DEF left
<1>6. left \o tail \in Seq(Symbol) /\ Len(left \o tail) = Len(left) + Len(tail)
      /\ Len(tail) \in Nat
  BY <1>4, <1>5, JoinType
<1>7. InputTypes'
  BY <1>1, <1>5, <1>6 DEF InputTypes
<1>8. ListTypes'
  <2>1. (list \in Seq(ToSet(FIELDS)) /\ Len(list) <= Len(FIELDS))'
    BY <1>1, NoList DEF Facts
  <2>2. span' \in Nat \X Nat
    BY <1>1, NoList DEF Facts
  <2>3. currentFocus' \in -1..Len(FIELDS)
    BY <1>1, NoList DEF Facts
  <2> QED BY <1>1, <2>1, <2>2, <2>3 DEF ListTypes
<1>9. TypeOK'
  BY <1>1, <1>2, <1>7, <1>8, Types, TypesAfter
<1>10. FocusInList' /\ WordInv' /\ MonthsAreWhole'
  BY <1>1, <1>2 DEF FocusInList, WordInv, MonthsAreWhole
<1> QED BY <1>9, <1>10 DEF IInv

LEMMA UnchangedStep ==
    ASSUME Facts, UNCHANGED vars PROVE IInv'
<1>1. UNCHANGED <<input, caret, source, list, span, currentFocus, fresh, range>>
  BY DEF vars, completion
<1>2. IInv
  BY DEF Facts
<1> QED BY <1>1, <1>2 DEF IInv, TypeOK, FocusInList, WordInv, WordAt, MonthsAreWhole

LEMMA EnterStep ==
    ASSUME Facts, Enter PROVE IInv'
<1>1. CASE currentFocus > -1 /\ list # <<>> /\ Choose(currentFocus + 1)
  BY <1>1, ChooseStep DEF Choose
<1>2. CASE UNCHANGED vars
  BY <1>2, UnchangedStep
<1> QED BY <1>1, <1>2 DEF Enter

LEMMA FormatStep ==
    ASSUME Facts, Format PROVE IInv'
<1> DEFINE parts == Filled(Parts(input))
           n == Len(parts)
           term(i) == [group |-> Head(Groups(parts[i])), value |-> parts[i]]
           text == [k \in 1..2 * n - 1 |-> IF k % 2 = 1 THEN term((k + 1) \div 2) ELSE Or]
<1>1. /\ CloseList /\ UNCHANGED <<source, range>>
      /\ IF \A i \in DOMAIN parts : Groups(parts[i]) # <<>>
         THEN input' = text /\ caret' = Len(text)
         ELSE UNCHANGED <<input, caret>>
  BY DEF Format
<1>2. InputTypes /\ source \in DOMAIN SourceFields
  BY Types DEF Facts, IInv
<1>3. parts \in Seq(Seq(Symbol)) /\ n \in Nat
  <2>1. Parts(input) \in Seq(Seq(Symbol))
    BY <1>2, PartsType DEF InputTypes
  <2> QED BY <2>1, PickType DEF Filled
<1> HIDE DEF parts
<1>4. ASSUME \A i \in DOMAIN parts : Groups(parts[i]) # <<>>
      PROVE  text \in Seq(Symbol) /\ Len(text) \in Nat
  <2>1. ASSUME NEW i \in DOMAIN parts PROVE term(i) \in Symbol
    <3> DEFINE G == {g \in DOMAIN Group : <<Group[g], parts[i]>> \in Matches}
    <3>1. Groups(parts[i]) = Pick(Group, G) /\ Groups(parts[i]) # <<>>
      BY <1>4, <2>1 DEF Groups
    <3>2. Group \in Seq(ToSet(Group)) /\ G \in SUBSET DOMAIN Group
      BY DEF Facts, SearchBarAssumption
    <3>3. Groups(parts[i]) \in Seq(ToSet(Group))
      BY <3>1, <3>2, PickType
    <3>4. Head(Groups(parts[i])) \in ToSet(Group)
      BY <3>1, <3>3
    <3>5. G # {}
      <4>1. Len(Pick(Group, G)) = Cardinality(G)
        BY <3>2, PickType
      <4>2. G = {} => Cardinality(G) = 0
        BY FS_EmptySet
      <4> QED BY <3>1, <3>3, <4>1, <4>2
    <3>6. parts[i] \in Seq(Letter \cup Other)
      BY <3>5 DEF Facts, SearchBarAssumption
    <3> QED BY <3>4, <3>6 DEF Symbol, Term
  <2>2. Or \in Symbol
    BY DEF Symbol, Plain
  <2>3. ASSUME NEW k \in 1..2 * n - 1, k % 2 = 1 PROVE (k + 1) \div 2 \in DOMAIN parts
    BY <1>3, <2>3
  <2> HIDE DEF term, n
  <2>4. \A k \in 1..2 * n - 1 :
            (IF k % 2 = 1 THEN term((k + 1) \div 2) ELSE Or) \in Symbol
    BY <2>1, <2>2, <2>3
  <2>5. CASE n = 0
    <3>1. 1..2 * n - 1 = 1..0
      <4>1. 2 * n - 1 = -1 /\ 1..-1 = 1..0
        BY <2>5
      <4> QED BY <4>1
    <3>2. text \in [1..2 * n - 1 -> Symbol]
      BY <2>4
    <3> HIDE DEF text
    <3>3. text \in [1..0 -> Symbol]
      BY <3>1, <3>2
    <3> QED BY <3>3, FunctionIsSeq
  <2>6. CASE n # 0
    <3>1. 2 * n - 1 \in Nat
      BY <1>3, <2>6 DEF n
    <3>2. text \in [1..2 * n - 1 -> Symbol]
      BY <2>4
    <3> QED BY <3>1, <3>2, FunctionIsSeq
  <2> QED BY <2>5, <2>6
<1> HIDE DEF text
<1>5. InputTypes'
  BY <1>1, <1>2, <1>4 DEF InputTypes
<1> QED BY <1>1, <1>2, <1>5, ClosingStep

LEMMA SetDatetimeRangeStep ==
    ASSUME Facts, NEW period \in Periods, NEW today \in Today,
           SetDatetimeRange(period, today)
    PROVE  IInv'
<1>1. /\ range' = <<period, Back(period, today)>> /\ CloseList
      /\ UNCHANGED <<input, caret, source>>
  BY DEF SetDatetimeRange
<1>2. InputTypes /\ source \in DOMAIN SourceFields
  BY Types DEF Facts, IInv
<1>3. ListTypes' /\ FocusInList' /\ WordInv'
  BY <1>1, CloseListStep
<1>4. /\ Back(period, today) \in Nat
      /\ period = "lastMonth" => Back(period, today) \in (24 * 28)..(24 * 31)
      /\ period = "last6months" => Back(period, today) \in (24 * 181)..(24 * 184)
  BY BackType DEF Facts
<1>5. TypeOK'
  <2>1. InputTypes'
    BY <1>1, <1>2 DEF InputTypes
  <2> QED BY <1>1, <1>2, <1>3, <1>4, <2>1, TypesAfter
<1>6. MonthsAreWhole'
  BY <1>1, <1>4 DEF MonthsAreWhole
<1> QED BY <1>3, <1>5, <1>6 DEF IInv
-----------------------------------------------------------------------------
(* The theorems.                                                           *)

LEMMA InitIInv == SearchBarAssumption /\ Init => IInv
<1> SUFFICES ASSUME SearchBarAssumption, Init PROVE IInv
  OBVIOUS
<1>1. /\ input = <<>> /\ caret = 0 /\ source \in DOMAIN SourceFields
      /\ list = <<>> /\ span = <<0, 0>> /\ currentFocus = -1 /\ fresh = FALSE
      /\ range = <<"lastDay", 24>>
  BY DEF Init
<1>2. InputTypes
  BY <1>1 DEF InputTypes
<1>3. ListTypes
  <2>1. list \in Seq(ToSet(FIELDS)) /\ Len(list) <= Len(FIELDS)
    BY <1>1, NoList
  <2>2. span \in Nat \X Nat
    BY <1>1, NoList
  <2>3. currentFocus \in -1..Len(FIELDS)
    BY <1>1, NoList
  <2> QED BY <1>1, <2>1, <2>2, <2>3 DEF ListTypes
<1>4. range \in Periods \X Nat
  BY <1>1 DEF Periods
<1>5. TypeOK
  BY <1>1, <1>2, <1>3, <1>4, Types
<1> QED BY <1>1, <1>5 DEF IInv, FocusInList, WordInv, MonthsAreWhole

LEMMA NextIInv == SearchBarAssumption /\ IInv /\ [Next]_vars => IInv'
<1> SUFFICES ASSUME Facts, [Next]_vars PROVE IInv'
  BY DEF Facts
<1>1. CASE (\E c \in Letter \cup Other : Type(c)) \/ Erase
  BY <1>1, TypeStep, EraseStep
<1>2. CASE \E pos \in 0..Len(input) : MoveCaret(pos)
  BY <1>2, MoveCaretStep
<1>3. CASE \/ ClickElsewhere
           \/ \E s \in DOMAIN SourceFields : SelectSource(s)
           \/ \E q \in Filter, s \in DOMAIN SourceFields : EditFilter(q, s)
           \/ Clear
  BY <1>3, ClosingSteps
<1>4. CASE Tab \/ \E step \in {-1, 1} : Arrow(step)
  BY <1>4, TabStep, ArrowStep
<1>5. CASE (\E i \in DOMAIN list : Choose(i)) \/ Enter
  BY <1>5, ChooseStep, EnterStep
<1>6. CASE Format
  BY <1>6, FormatStep
<1>7. CASE \E period \in Periods, today \in Today : SetDatetimeRange(period, today)
  BY <1>7, SetDatetimeRangeStep
<1>8. CASE UNCHANGED vars
  BY <1>8, UnchangedStep
<1> QED BY <1>1, <1>2, <1>3, <1>4, <1>5, <1>6, <1>7, <1>8 DEF Next

\* Every reachable state satisfies the inductive invariant.
THEOREM Invariance == Spec => []IInv
BY InitIInv, NextIInv, SearchBarAssumption, PTL DEF Spec

\* The input, its caret, the list of completions and the time range keep their
\* types, through completion, formatting and editing of any length.
THEOREM TypeCorrect == Spec => []TypeOK
<1>1. IInv => TypeOK
  BY DEF IInv
<1> QED BY <1>1, Invariance, PTL

\* The highlighted completion is one of the list (setActive(), closeList()).
THEOREM FocusStays == Spec => []FocusInList
<1>1. IInv => FocusInList
  BY DEF IInv
<1> QED BY <1>1, Invariance, PTL

\* A range of months goes back that many, for every date there is
\* (setDatetimeRange()).
THEOREM RangesAreWhole == Spec => []MonthsAreWhole
<1>1. IInv => MonthsAreWhole
  BY DEF IInv
<1> QED BY <1>1, Invariance, PTL

\* A completion replaces the word around the caret and nothing else, while nobody
\* typed since the list was built (build(), getFieldAt()).
THEOREM WordIsCompleted == Spec => CompletesWord
<1> DEFINE Completes ==
        \A k \in DOMAIN list : fresh /\ Choose(k) =>
            \E i, j \in 0..Len(input) :
                /\ i <= j /\ WordAt(input, i, j)
                /\ input' = SubSeq(input, 1, i) \o Value(list[k]) \o SubSeq(input, j + 1, Len(input))
                /\ SubSeq(input', 1, caret') = SubSeq(input, 1, i) \o Value(list[k])
<1>1. SearchBarAssumption /\ IInv => Completes
  <2> SUFFICES ASSUME Facts, NEW k \in DOMAIN list, fresh, Choose(k)
               PROVE  \E i, j \in 0..Len(input) :
                        /\ i <= j /\ WordAt(input, i, j)
                        /\ input' = SubSeq(input, 1, i) \o Value(list[k]) \o SubSeq(input, j + 1, Len(input))
                        /\ SubSeq(input', 1, caret') = SubSeq(input, 1, i) \o Value(list[k])
    BY DEF Facts
  <2> DEFINE head == SubSeq(input, 1, span[1])
             tail == SubSeq(input, span[2] + 1, Len(input))
             left == head \o Value(list[k])
  <2>1. InputTypes /\ ListTypes /\ WordInv
    BY Types DEF Facts, IInv
  <2>2. /\ span[1] \in Nat /\ span[2] \in Nat /\ Len(input) \in Nat
        /\ span[1] <= span[2] /\ span[2] <= Len(input)
        /\ WordAt(input, span[1], span[2])
    BY <2>1 DEF WordInv, InputTypes, ListTypes
  <2>3. Upto(input, span[1]) = head
    <3>1. span[1] < Len(input) \/ span[1] = Len(input)
      BY <2>2
    <3> QED BY <2>2, <3>1 DEF Upto
  <2>4. input' = left \o tail /\ caret' = Len(left)
    BY <2>3 DEF Choose
  <2>5. left \in Seq(Symbol) /\ tail \in Seq(Symbol)
    <3>1. head \in Seq(Symbol) /\ tail \in Seq(Symbol)
      BY <2>1, <2>2 DEF InputTypes
    <3>2. Value(list[k]) \in Seq(Symbol)
      BY <2>1, FieldSymbols DEF Facts, ListTypes
    <3> QED BY <3>1, <3>2, JoinType
  <2>6. SubSeq(left \o tail, 1, Len(left)) = left
    <3> HIDE DEF left, tail
    <3> QED BY <2>5
  <2>7. span[1] \in 0..Len(input) /\ span[2] \in 0..Len(input)
    BY <2>2
  <2> QED BY <2>2, <2>4, <2>6, <2>7
<1>2. SearchBarAssumption /\ IInv => [Completes]_vars
  BY <1>1
<1> QED BY <1>2, Invariance, SearchBarAssumption, PTL DEF CompletesWord
=============================================================================
