---------------------------- MODULE QueriesProofs ----------------------------
(***************************************************************************)
(* The safety invariants of Queries hold for any queries, sources, set-ups *)
(* and bounds.  The inductive invariant says what a set-up has stored so   *)
(* far, what each query has started so far, and that a search which was    *)
(* started is under way or has left its trace.                             *)
(***************************************************************************)
EXTENDS Queries, TLAPS

-----------------------------------------------------------------------------
(* The inductive invariant                                                 *)

\* A definition that was gone through and can be set up is in the map.
Stored(r, i) == Definitions[i] \notin Flaky => Definitions[i] \in names[r]

SetupInv ==
    /\ \A r \in Setups : /\ setup[r] \in {"idle", "sources"} => next[r] = 1
                         /\ setup[r] = "idle" => current # r
                         /\ setup[r] # "idle" => current # None
    /\ current # None =>
        \A i \in 1..Len(Definitions) :
            \/ setup[current] = "collecting" /\ i < next[current]
            \/ setup[current] \in {"processors", "appending", "done"}
            => Stored(current, i)

\* A query has searches under way only between their start and the wait.
IdleInv ==
    \A q \in Requests :
        /\ pc[q] \in {"idle", "dispatch", "save", "process", "done"} => running[q] = {}
        /\ pc[q] \in {"idle", "dispatch"} => visited[q] = {}
        /\ source[q] # None => pc[q] = "done"
        /\ pc[q] = "global" => Target[q] = Global

\* What became of the search of q in s: an error was noted, or each of its
\* sub-queries is under way or has ended in one of the three ways.
Handled(q, s) ==
    \/ err[q] # ""
    \/ groupErr[q]
    \/ \A x \in SubQueries(q, s) :
            x \in running[q] \/ x \in rows[q] \/ x \in limited[q]

LoopInv ==
    \A q \in Requests : pc[q] = "global" =>
        \A s \in visited[q] \cap InGlobal : Handled(q, s)

AfterInv ==
    \A q \in Requests :
        source[q] = None /\ pc[q] \in {"wait", "save", "process", "done"} =>
            \A s \in Needed(q) : Handled(q, s)

ErrInv ==
    \A q \in Requests :
        source[q] = None /\ pc[q] \in {"save", "process", "done"} =>
            (groupErr[q] => err[q] # "")

LimitInv ==
    \A q \in Requests :
        source[q] = None /\ limited[q] # {} => stats[q] # None

CachedInv ==
    \A k \in DOMAIN cache : cache[k] # None =>
        LET q == cache[k].by
        IN  /\ Key[q] = k
            /\ pc[q] \in {"process", "done"}
            /\ rows[q] = cache[k].rows /\ stats[q] = cache[k].stats

\* Without an overlap only the set-up that owns the current map is under way, and
\* the processors are those it has gone through.
OrderInv ==
    ~ overlap =>
        /\ \A r \in Setups : Busy(r) => r = current
        /\ current # None =>
            /\ setup[current] = "processors" => processors = <<>> /\ next[current] = 1
            /\ setup[current] = "appending" =>
                    next[current] <= Len(Processors) + 1 /\ InOrder(next[current] - 1)
            /\ setup[current] = "done" => InOrder(Len(Processors))

QueryInv == IdleInv /\ LoopInv /\ AfterInv /\ ErrInv /\ LimitInv /\ CachedInv

IInv == TypeOK /\ SetupInv /\ OrderInv /\ QueryInv

-----------------------------------------------------------------------------
(* The types                                                               *)

Entries == {None} \cup Entry

LEMMA SubQueriesAreSearches ==
    ASSUME NEW q \in Requests, NEW s \in Sources
    PROVE  SubQueries(q, s) \subseteq Searches
BY DEF Searches

LEMMA SearchSource ==
    ASSUME NEW x \in Searches PROVE x[1] \in Sources
<1>1. PICK q \in Requests, s \in Sources : x \in SubQueries(q, s)
  BY DEF Searches
<1>2. PICK p \in Split[<<q, s>>] : x = <<s, p>>
  BY <1>1 DEF SubQueries
<1> QED BY <1>2

LEMMA CollectorsAreSources ==
    ASSUME TypeOK PROVE Collectors \in SUBSET Sources
BY DEF TypeOK, Collectors

\* The types of the variables that only queries change, and of the others.
QueryTypes ==
    /\ pc \in [Requests -> PC]
    /\ iter \in [Requests -> Setups \cup {None}]
    /\ found \in [Requests -> SUBSET Sources]
    /\ visited \in [Requests -> SUBSET Sources]
    /\ running \in [Requests -> SUBSET Searches]
    /\ groupErr \in [Requests -> BOOLEAN]
    /\ limited \in [Requests -> SUBSET Searches]
    /\ rows \in [Requests -> SUBSET Searches]
    /\ stats \in [Requests -> Sources \cup {None}]
    /\ err \in [Requests -> Errors]
    /\ source \in [Requests -> Requests \cup {None}]
    /\ cache \in [{Key[q] : q \in Requests} -> Entries]
    /\ passed \in [Requests -> Seq(Plugins)]

SetupTypes ==
    /\ current \in Setups \cup {None}
    /\ names \in [Setups -> SUBSET Sources]
    /\ processors \in Seq(Plugins)
    /\ setup \in [Setups -> SetupPC]
    /\ next \in [Setups -> Nat \ {0}]
    /\ overlap \in BOOLEAN

StoppedType == stopped \in {"no", "nil collector", "map race", "fatal"}

LEMMA Types == TypeOK <=> QueryTypes /\ SetupTypes /\ StoppedType
BY DEF TypeOK, QueryTypes, SetupTypes, StoppedType, Entries, Entry

\* What a query step leaves alone, and what a set-up step leaves alone.
SetupVars == <<maps, setups>>
QueryVars == <<pc, loop, searches, answer, cache, passed>>

LEMMA QueryFrame ==
    ASSUME SetupTypes, SetupInv, UNCHANGED SetupVars
    PROVE  SetupTypes' /\ SetupInv'
BY DEF SetupTypes, SetupInv, Stored, SetupVars, maps, setups

LEMMA SetupFrame ==
    ASSUME QueryTypes, QueryInv, UNCHANGED QueryVars
    PROVE  QueryTypes' /\ QueryInv'
<1> USE DEF QueryVars, loop, searches, answer
<1>1. QueryTypes'
  BY DEF QueryTypes, searches
<1>2. IdleInv' /\ LoopInv' /\ AfterInv' /\ ErrInv' /\ LimitInv' /\ CachedInv'
  BY DEF QueryInv, IdleInv, LoopInv, AfterInv, ErrInv, LimitInv, CachedInv,
         Handled, Needed
<1> QED BY <1>1, <1>2 DEF QueryInv
-----------------------------------------------------------------------------
(* Set-ups                                                                 *)

SetupFacts == QueriesAssumption /\ SetupTypes /\ SetupInv

\* The steps that change nothing but the place of a set-up.
LEMMA MoveSteps ==
    ASSUME SetupFacts, NEW r \in Setups,
           DirectoryUnreadable(r) \/ ReadSources(r) \/ ReadProcessors(r) \/ SetupEnds(r)
    PROVE  SetupTypes' /\ SetupInv'
<1> USE DEF SetupFacts
<1>1. PICK place \in SetupPC :
        /\ setup' = [setup EXCEPT ![r] = place]
        /\ UNCHANGED <<current, names, processors, next, overlap>>
        /\ \/ setup[r] \in {"sources", "processors"} /\ place = "failed"
           \/ setup[r] = "sources" /\ place = "collecting"
           \/ setup[r] = "processors" /\ place = "appending"
           \/ setup[r] = "appending" /\ place = "done"
  BY SMTT(30) DEF DirectoryUnreadable, ReadSources, ReadProcessors, SetupEnds, In,
     Move, maps, SetupPC
<1>2. SetupTypes'
  BY <1>1 DEF SetupTypes
<1>3. /\ setup[r] # "idle" /\ setup'[r] \notin {"idle", "sources"}
      /\ \A t \in Setups \ {r} : setup'[t] = setup[t]
  BY <1>1 DEF SetupTypes
<1>4. next[r] = 1 \/ setup[r] # "sources"
  BY DEF SetupInv
<1>5. \A t \in Setups : /\ setup'[t] \in {"idle", "sources"} => next'[t] = 1
                        /\ setup'[t] = "idle" => current' # t
                        /\ setup'[t] # "idle" => current' # None
  BY <1>1, <1>3 DEF SetupInv
<1>6. ASSUME current' # None, NEW i \in 1..Len(Definitions),
             \/ setup'[current'] = "collecting" /\ i < next'[current']
             \/ setup'[current'] \in {"processors", "appending", "done"}
      PROVE  Stored(current, i)'
  <2>1. CASE current # r
    BY <1>1, <1>3, <1>6, <2>1 DEF SetupInv, SetupTypes, Stored
  <2>2. CASE current = r
    <3>1. \/ setup[r] = "sources" /\ setup'[r] = "collecting"
          \/ setup[r] \in {"processors", "appending"}
      BY <1>1, <1>6, <2>2 DEF SetupTypes
    <3>2. CASE setup[r] = "sources" /\ setup'[r] = "collecting"
      BY <1>1, <1>4, <1>6, <2>2, <3>2
    <3>3. CASE setup[r] \in {"processors", "appending"}
      BY <1>1, <1>6, <2>2, <3>3 DEF SetupInv, SetupTypes, Stored
    <3> QED BY <3>1, <3>2, <3>3
  <2> QED BY <2>1, <2>2
<1> QED BY <1>2, <1>5, <1>6 DEF SetupInv, Stored

LEMMA ClearCollectorsStep ==
    ASSUME SetupFacts, NEW r \in Setups, ClearCollectors(r)
    PROVE  SetupTypes' /\ SetupInv'
<1> USE DEF SetupFacts
<1>1. /\ setup[r] = "idle" /\ setup' = [setup EXCEPT ![r] = "sources"]
      /\ current' = r /\ UNCHANGED <<names, processors, next>>
      /\ overlap' \in BOOLEAN
  BY DEF ClearCollectors, In, Move, SetupTypes
<1>2. SetupTypes'
  BY <1>1 DEF SetupTypes, SetupPC
<1>3. setup'[r] = "sources" /\ \A t \in Setups \ {r} : setup'[t] = setup[t]
  BY <1>1 DEF SetupTypes
<1>4. r # None
  BY DEF QueriesAssumption
<1> QED BY <1>1, <1>2, <1>3, <1>4 DEF SetupInv

LEMMA StoreCollectorStep ==
    ASSUME SetupFacts, NEW r \in Setups, StoreCollector(r) \/ SkipSource(r)
    PROVE  SetupTypes' /\ SetupInv'
<1> USE DEF SetupFacts
<1>1. /\ setup[r] = "collecting" /\ next[r] <= Len(Definitions)
      /\ next' = [next EXCEPT ![r] = @ + 1]
      /\ UNCHANGED <<current, processors, setup, overlap>>
  BY DEF StoreCollector, SkipSource, In, maps
<1>2. next[r] \in 1..Len(Definitions) /\ Definitions[next[r]] \in Sources
  BY <1>1 DEF SetupTypes, QueriesAssumption
<1>3. current \in Setups
  BY <1>1 DEF SetupInv, SetupTypes
<1>4. /\ names' \in [Setups -> SUBSET Sources]
      /\ \A t \in Setups : names[t] \subseteq names'[t]
      /\ Definitions[next[r]] \notin Flaky => Definitions[next[r]] \in names'[current]
  <2>1. CASE StoreCollector(r)
    BY <1>2, <1>3, <2>1 DEF StoreCollector, SetupTypes
  <2>2. CASE SkipSource(r)
    BY <2>2 DEF SkipSource, SetupTypes, maps
  <2> QED BY <2>1, <2>2
<1>5. next' \in [Setups -> Nat \ {0}]
  BY <1>1 DEF SetupTypes
<1>6. SetupTypes'
  BY <1>1, <1>4, <1>5 DEF SetupTypes
<1>7. next'[r] = next[r] + 1 /\ \A t \in Setups \ {r} : next'[t] = next[t]
  BY <1>1 DEF SetupTypes
<1>8. \A t \in Setups : /\ setup'[t] \in {"idle", "sources"} => next'[t] = 1
                        /\ setup'[t] = "idle" => current' # t
                        /\ setup'[t] # "idle" => current' # None
  BY <1>1, <1>7 DEF SetupInv
<1>9. ASSUME NEW i \in 1..Len(Definitions),
             \/ setup'[current'] = "collecting" /\ i < next'[current']
             \/ setup'[current'] \in {"processors", "appending", "done"}
      PROVE  Stored(current, i)'
  <2>1. CASE i = next[r] /\ current = r
    BY <1>1, <1>4, <2>1 DEF Stored
  <2>2. CASE i # next[r] \/ current # r
    <3>1. \/ setup[current] = "collecting" /\ i < next[current]
          \/ setup[current] \in {"processors", "appending", "done"}
      BY <1>1, <1>3, <1>7, <1>9, <2>2 DEF SetupTypes
    <3>2. Stored(current, i)
      BY <1>3, <3>1, QueriesAssumption DEF SetupInv, SetupTypes, QueriesAssumption
    <3> QED BY <1>1, <1>3, <1>4, <3>2 DEF Stored
  <2> QED BY <2>1, <2>2
<1> QED BY <1>6, <1>8, <1>9 DEF SetupInv

\* The steps that deal with the processors and not with the collectors.
LEMMA ProcessorSteps ==
    ASSUME SetupFacts, NEW r \in Setups,
           ClearProcessors(r) \/ SkipProcessor(r) \/ AppendProcessor(r)
    PROVE  SetupTypes' /\ SetupInv'
<1> USE DEF SetupFacts
<1>1. CASE ClearProcessors(r)
  <2>1. /\ setup[r] = "collecting" /\ next[r] > Len(Definitions)
        /\ processors' = <<>>
        /\ next' = [next EXCEPT ![r] = 1]
        /\ setup' = [setup EXCEPT ![r] = "processors"]
        /\ UNCHANGED <<current, names, overlap>>
    BY <1>1 DEF ClearProcessors, In, Move
  <2>2. SetupTypes'
    BY <2>1 DEF SetupTypes, SetupPC
  <2>3. /\ setup'[r] = "processors"
        /\ \A t \in Setups \ {r} : setup'[t] = setup[t] /\ next'[t] = next[t]
    BY <2>1 DEF SetupTypes
  <2>4. current = r => \A i \in 1..Len(Definitions) : i < next[r]
    BY <2>1, QueriesAssumption DEF SetupTypes, QueriesAssumption
  <2> QED BY <2>1, <2>2, <2>3, <2>4 DEF SetupInv, Stored, SetupTypes
<1>2. CASE SkipProcessor(r) \/ AppendProcessor(r)
  <2>1. /\ setup[r] = "appending" /\ next[r] <= Len(Processors)
        /\ next' = [next EXCEPT ![r] = @ + 1]
        /\ processors' \in {processors, Append(processors, Processors[next[r]])}
        /\ UNCHANGED <<current, names, setup, overlap>>
    BY <1>2 DEF SkipProcessor, AppendProcessor, In, maps
  <2>2. Processors[next[r]] \in Plugins
    BY <2>1 DEF SetupTypes, QueriesAssumption
  <2>3. next' \in [Setups -> Nat \ {0}]
    BY <2>1 DEF SetupTypes
  <2>6. processors' \in Seq(Plugins)
    <3>1. processors \in Seq(Plugins)
      BY DEF SetupTypes
    <3>2. Append(processors, Processors[next[r]]) \in Seq(Plugins)
      BY <2>2, <3>1
    <3> QED BY <2>1, <3>1, <3>2
  <2>4. SetupTypes'
    BY <2>1, <2>3, <2>6 DEF SetupTypes
  <2>5. \A t \in Setups \ {r} : next'[t] = next[t]
    BY <2>1 DEF SetupTypes
  <2> QED BY <2>1, <2>4, <2>5 DEF SetupInv, Stored, SetupTypes
<1> QED BY <1>1, <1>2
LEMMA SetupStep ==
    ASSUME SetupFacts, NEW r \in Setups, Setup(r)
    PROVE  SetupTypes' /\ SetupInv'
BY MoveSteps, ClearCollectorsStep, StoreCollectorStep, ProcessorSteps DEF Setup

-----------------------------------------------------------------------------
(* The order of the processors                                             *)

LEMMA NoneInOrder ==
    ASSUME processors = <<>> PROVE InOrder(0)
<1>1. DOMAIN processors = {}
  OBVIOUS
<1> DEFINE at == [i \in {} |-> 0]
<1>2. at \in [DOMAIN processors -> 1..0] /\ \A k \in 1..0 : FALSE
  BY <1>1
<1> SUFFICES \E f \in [DOMAIN processors -> 1..0] : TRUE
  BY <1>1, <1>2 DEF InOrder
<1> QED BY <1>2

LEMMA SkippedInOrder ==
    ASSUME NEW n \in Nat, InOrder(n), Processors[n + 1] \in Flaky
    PROVE  InOrder(n + 1)
<1>1. PICK at \in [DOMAIN processors -> 1..n] :
        /\ \A i \in DOMAIN processors : processors[i] = Processors[at[i]]
        /\ \A i, j \in DOMAIN processors : i < j => at[i] < at[j]
        /\ \A k \in 1..n : Processors[k] \notin Flaky => \E i \in DOMAIN processors : at[i] = k
  BY DEF InOrder
<1>2. at \in [DOMAIN processors -> 1..(n + 1)]
  OBVIOUS
<1>3. \A k \in 1..(n + 1) : k \in 1..n \/ k = n + 1
  OBVIOUS
<1> QED BY <1>1, <1>2, <1>3 DEF InOrder

LEMMA AppendedInOrder ==
    ASSUME processors \in Seq(Plugins), NEW n \in Nat, InOrder(n),
           Processors[n + 1] \in Plugins,
           processors' = Append(processors, Processors[n + 1])
    PROVE  InOrder(n + 1)'
<1>1. PICK at \in [DOMAIN processors -> 1..n] :
        /\ \A i \in DOMAIN processors : processors[i] = Processors[at[i]]
        /\ \A i, j \in DOMAIN processors : i < j => at[i] < at[j]
        /\ \A k \in 1..n : Processors[k] \notin Flaky => \E i \in DOMAIN processors : at[i] = k
  BY DEF InOrder
<1> DEFINE m == Len(processors)
<1>2. /\ m \in Nat /\ DOMAIN processors = 1..m /\ DOMAIN processors' = 1..(m + 1)
      /\ \A i \in 1..m : processors'[i] = processors[i]
      /\ processors'[m + 1] = Processors[n + 1]
  OBVIOUS
<1> HIDE DEF m
<1> DEFINE to == [i \in 1..(m + 1) |-> IF i = m + 1 THEN n + 1 ELSE at[i]]
<1>7. /\ \A i \in 1..m : i \in 1..(m + 1) /\ i # m + 1 /\ at[i] \in 1..n /\ at[i] \in 1..(n + 1)
      /\ m + 1 \in 1..(m + 1) /\ n + 1 \in 1..(n + 1)
      /\ \A i \in 1..(m + 1) : i = m + 1 \/ i \in 1..m
  BY <1>2
<1>3. /\ to \in [1..(m + 1) -> 1..(n + 1)]
      /\ to[m + 1] = n + 1
      /\ \A i \in 1..m : to[i] = at[i] /\ to[i] \in 1..n
      /\ \A i \in 1..(m + 1) : i = m + 1 \/ i \in 1..m
  BY <1>7
<1> HIDE DEF to
<1>4. \A i \in 1..(m + 1) : processors'[i] = Processors[to[i]]
  BY <1>1, <1>2, <1>3
<1>5. ASSUME NEW i \in 1..(m + 1), NEW j \in 1..(m + 1), i < j PROVE to[i] < to[j]
  <2>1. i \in 1..m
    BY <1>2, <1>5
  <2>2. CASE j = m + 1
    BY <1>3, <2>1, <2>2
  <2>3. CASE j \in 1..m
    BY <1>1, <1>2, <1>3, <1>5, <2>1, <2>3
  <2> QED BY <1>3, <2>2, <2>3
<1>6. ASSUME NEW k \in 1..(n + 1), Processors[k] \notin Flaky
      PROVE  \E i \in 1..(m + 1) : to[i] = k
  <2>1. CASE k = n + 1
    BY <1>2, <1>3, <2>1
  <2>2. CASE k \in 1..n
    <3>1. PICK i \in 1..m : at[i] = k
      BY <1>1, <1>2, <1>6, <2>2
    <3> QED BY <1>2, <1>3, <3>1
  <2> QED BY <2>1, <2>2
<1>8. /\ to \in [DOMAIN processors' -> 1..(n + 1)]
      /\ \A i \in DOMAIN processors' : processors'[i] = Processors[to[i]]
      /\ \A i, j \in DOMAIN processors' : i < j => to[i] < to[j]
      /\ \A k \in 1..(n + 1) :
            Processors[k] \notin Flaky => \E i \in DOMAIN processors' : to[i] = k
  BY <1>2, <1>3, <1>4, <1>5, <1>6
<1> QED BY <1>8 DEF InOrder

\* InOrder only depends on the processors.
LEMMA OrderKept ==
    ASSUME UNCHANGED processors, NEW n PROVE InOrder(n)' <=> InOrder(n)
BY DEF InOrder

LEMMA OrderFrame ==
    ASSUME OrderInv, UNCHANGED SetupVars PROVE OrderInv'
BY DEF OrderInv, Busy, InOrder, SetupVars, maps, setups

\* Without an overlap a set-up that takes a step owns the current map.
LEMMA OrderStep ==
    ASSUME SetupFacts, OrderInv, NEW r \in Setups, Setup(r)
    PROVE  OrderInv'
<1> USE DEF SetupFacts
<1> SUFFICES ASSUME ~ overlap' PROVE OrderInv'
  BY DEF OrderInv
<1>1. CASE ClearCollectors(r)
  <2>1. /\ \A t \in Setups : ~ Busy(t)
        /\ current' = r /\ setup' = [setup EXCEPT ![r] = "sources"]
    BY <1>1 DEF ClearCollectors, Move, SetupTypes
  <2>2. setup'[r] = "sources" /\ \A t \in Setups \ {r} : setup'[t] = setup[t]
    BY <2>1 DEF SetupTypes
  <2>3. \A t \in Setups : Busy(t)' => t = r
    BY <2>1, <2>2 DEF Busy
  <2> QED BY <2>1, <2>2, <2>3 DEF OrderInv
<1> SUFFICES ASSUME ~ ClearCollectors(r) PROVE OrderInv'
  BY <1>1
<1>2. Busy(r) /\ UNCHANGED <<current, overlap>>
  BY DEF Setup, DirectoryUnreadable, ReadSources, SkipSource, StoreCollector,
     ClearProcessors, ReadProcessors, SkipProcessor, AppendProcessor, SetupEnds, In,
     Busy, maps
<1>3. r = current /\ current # None
  BY <1>2 DEF OrderInv, QueriesAssumption
<1>4. \A t \in Setups \ {r} : ~ Busy(t) /\ setup'[t] = setup[t] /\ ~ Busy(t)'
  <2>1. \A t \in Setups \ {r} : ~ Busy(t)
    BY <1>2, <1>3 DEF OrderInv
  <2>2. \A t \in Setups \ {r} : setup'[t] = setup[t]
    BY DEF Setup, DirectoryUnreadable, ReadSources, SkipSource, StoreCollector,
       ClearProcessors, ReadProcessors, SkipProcessor, AppendProcessor, SetupEnds,
       Move, maps, SetupTypes
  <2> QED BY <2>1, <2>2 DEF Busy
<1>5. SUFFICES /\ setup'[r] = "processors" => processors' = <<>> /\ next'[r] = 1
               /\ setup'[r] = "appending" =>
                    next'[r] <= Len(Processors) + 1 /\ InOrder(next[r] - 1)'
               /\ setup'[r] = "done" => InOrder(Len(Processors))'
  BY <1>2, <1>3, <1>4 DEF OrderInv
<1>6. CASE DirectoryUnreadable(r) \/ ReadSources(r) \/ SkipSource(r) \/ StoreCollector(r)
  <2>1. setup'[r] \in {"failed", "collecting"}
    BY <1>6 DEF DirectoryUnreadable, ReadSources, SkipSource, StoreCollector, In, Move,
       SetupTypes
  <2> QED BY <2>1
<1>7. CASE ClearProcessors(r)
  <2>1. setup'[r] = "processors" /\ processors' = <<>> /\ next'[r] = 1
    BY <1>7 DEF ClearProcessors, Move, SetupTypes
  <2> QED BY <2>1
<1>8. CASE ReadProcessors(r)
  <2>1. /\ setup[r] = "processors" /\ setup'[r] = "appending"
        /\ processors' = processors /\ next'[r] = next[r]
    BY <1>8 DEF ReadProcessors, In, Move, maps, SetupTypes
  <2>2. processors = <<>> /\ next[r] = 1
    BY <1>2, <1>3, <2>1 DEF OrderInv
  <2>3. InOrder(0)'
    BY <2>1, <2>2, NoneInOrder, OrderKept
  <2>4. Len(Processors) \in Nat
    BY DEF QueriesAssumption
  <2> QED BY <2>1, <2>2, <2>3, <2>4
<1>9. CASE SkipProcessor(r) \/ AppendProcessor(r)
  <2>1. /\ setup[r] = "appending" /\ setup'[r] = "appending"
        /\ next[r] <= Len(Processors) /\ next'[r] = next[r] + 1
    BY <1>9 DEF SkipProcessor, AppendProcessor, In, maps, SetupTypes
  <2>2. /\ next[r] \in Nat \ {0} /\ Len(Processors) \in Nat
        /\ processors \in Seq(Plugins) /\ Processors[next[r]] \in Plugins
    BY <2>1 DEF SetupTypes, QueriesAssumption
  <2>3. PICK n \in Nat : next[r] = n + 1
    <3>1. next[r] - 1 \in Nat /\ next[r] = (next[r] - 1) + 1
      BY <2>2
    <3> QED BY <3>1
  <2>4. InOrder(n)
    <3>1. InOrder(next[r] - 1)
      BY <1>2, <1>3, <2>1 DEF OrderInv
    <3>2. next[r] - 1 = n
      BY <2>3
    <3> QED BY <3>1, <3>2
  <2>5. InOrder(n + 1)'
    <3>1. CASE SkipProcessor(r)
      <4>1. InOrder(n + 1) /\ processors' = processors
        BY <2>3, <2>4, <3>1, SkippedInOrder DEF SkipProcessor, maps
      <4> QED BY <4>1, OrderKept
    <3>2. CASE AppendProcessor(r)
      BY <2>2, <2>3, <2>4, <3>2, AppendedInOrder DEF AppendProcessor
    <3> QED BY <1>9, <3>1, <3>2
  <2>6. next'[r] - 1 = n + 1 /\ next'[r] <= Len(Processors) + 1
    BY <2>1, <2>2, <2>3
  <2> QED BY <2>1, <2>5, <2>6
<1>10. CASE SetupEnds(r)
  <2>1. /\ setup[r] = "appending" /\ setup'[r] = "done"
        /\ next[r] > Len(Processors) /\ processors' = processors
    BY <1>10 DEF SetupEnds, In, Move, maps, SetupTypes
  <2>2. next[r] <= Len(Processors) + 1 /\ InOrder(next[r] - 1)
    BY <1>2, <1>3, <2>1 DEF OrderInv
  <2>3. next[r] - 1 = Len(Processors)
    BY <2>1, <2>2 DEF SetupTypes, QueriesAssumption
  <2>4. InOrder(Len(Processors))'
    BY <2>1, <2>2, <2>3, OrderKept
  <2> QED BY <2>1, <2>4
<1> QED BY <1>6, <1>7, <1>8, <1>9, <1>10 DEF Setup

LEMMA SetupLeavesQueries ==
    ASSUME NEW r \in Setups, Setup(r), StoppedType
    PROVE  UNCHANGED QueryVars /\ StoppedType'
<1> USE DEF QueryVars, StoppedType
<1>1. CASE ClearCollectors(r) \/ ReadSources(r) \/ SkipSource(r) \/ StoreCollector(r)
  BY <1>1 DEF ClearCollectors, ReadSources, SkipSource, StoreCollector
<1>2. CASE ClearProcessors(r) \/ ReadProcessors(r) \/ SkipProcessor(r)
           \/ AppendProcessor(r) \/ SetupEnds(r)
  BY <1>2 DEF ClearProcessors, ReadProcessors, SkipProcessor, AppendProcessor,
     SetupEnds
<1>3. CASE DirectoryUnreadable(r)
  BY <1>3 DEF DirectoryUnreadable
<1> QED BY <1>1, <1>2, <1>3 DEF Setup

-----------------------------------------------------------------------------
(* Queries                                                                 *)

QueryFacts == QueriesAssumption /\ TypeOK /\ QueryInv

\* A step of q leaves what is known of the other queries alone.
Mine(q) ==
    \A t \in Requests \ {q} :
        /\ pc'[t] = pc[t] /\ found'[t] = found[t] /\ visited'[t] = visited[t]
        /\ running'[t] = running[t] /\ groupErr'[t] = groupErr[t]
        /\ limited'[t] = limited[t] /\ rows'[t] = rows[t] /\ stats'[t] = stats[t]
        /\ err'[t] = err[t] /\ source'[t] = source[t]

\* The invariants of one query.
IdleOf(q) ==
    /\ pc[q] \in {"idle", "dispatch", "save", "process", "done"} => running[q] = {}
    /\ pc[q] \in {"idle", "dispatch"} => visited[q] = {}
    /\ source[q] # None => pc[q] = "done"
    /\ pc[q] = "global" => Target[q] = Global
LoopOf(q) == pc[q] = "global" => \A s \in visited[q] \cap InGlobal : Handled(q, s)
AfterOf(q) ==
    source[q] = None /\ pc[q] \in {"wait", "save", "process", "done"} =>
        \A s \in Needed(q) : Handled(q, s)
ErrOf(q) ==
    source[q] = None /\ pc[q] \in {"save", "process", "done"} =>
        (groupErr[q] => err[q] # "")
LimitOf(q) == source[q] = None /\ limited[q] # {} => stats[q] # None
OfQuery(q) == IdleOf(q) /\ LoopOf(q) /\ AfterOf(q) /\ ErrOf(q) /\ LimitOf(q)

LEMMA OfQueries ==
    QueryInv <=> CachedInv /\ \A q \in Requests : OfQuery(q)
BY DEF QueryInv, IdleInv, LoopInv, AfterInv, ErrInv, LimitInv, OfQuery, IdleOf,
   LoopOf, AfterOf, ErrOf, LimitOf

LEMMA OtherQueries ==
    ASSUME QueryFacts, NEW q \in Requests, Mine(q), OfQuery(q)'
    PROVE  \A t \in Requests : OfQuery(t)'
<1> SUFFICES ASSUME NEW t \in Requests, t # q PROVE OfQuery(t)'
  OBVIOUS
<1>1. /\ pc'[t] = pc[t] /\ found'[t] = found[t] /\ visited'[t] = visited[t]
      /\ running'[t] = running[t] /\ groupErr'[t] = groupErr[t]
      /\ limited'[t] = limited[t] /\ rows'[t] = rows[t] /\ stats'[t] = stats[t]
      /\ err'[t] = err[t] /\ source'[t] = source[t]
  BY DEF Mine
<1>2. OfQuery(t)
  BY OfQueries DEF QueryFacts
<1>3. \A s : Handled(t, s)' <=> Handled(t, s)
  BY <1>1 DEF Handled
<1>4. Needed(t)' = Needed(t)
  BY <1>1 DEF Needed
<1> QED BY <1>1, <1>2, <1>3, <1>4 DEF OfQuery, IdleOf, LoopOf, AfterOf, ErrOf,
           LimitOf

\* The cache is not touched, and the step does not write the answer of a query
\* that has stored its own.
LEMMA CacheKept ==
    ASSUME QueryFacts, NEW q \in Requests, UNCHANGED cache,
           \A t \in Requests \ {q} :
               pc'[t] = pc[t] /\ rows'[t] = rows[t] /\ stats'[t] = stats[t],
           pc[q] \in {"process", "done"} =>
               /\ pc'[q] \in {"process", "done"}
               /\ rows'[q] = rows[q] /\ stats'[q] = stats[q]
    PROVE  CachedInv'
<1>1. ASSUME NEW k \in DOMAIN cache, cache[k] # None
      PROVE  LET t == cache[k].by
             IN  /\ Key[t] = k
                 /\ pc'[t] \in {"process", "done"}
                 /\ rows'[t] = cache[k].rows /\ stats'[t] = cache[k].stats
  <2>1. cache[k].by \in Requests
    BY <1>1 DEF Entry, QueryFacts, TypeOK
  <2>2. LET t == cache[k].by
        IN  /\ Key[t] = k
            /\ pc[t] \in {"process", "done"}
            /\ rows[t] = cache[k].rows /\ stats[t] = cache[k].stats
    BY <1>1 DEF QueryFacts, QueryInv, CachedInv
  <2> QED BY <2>1, <2>2
<1> QED BY <1>1 DEF CachedInv

LEMMA Compose ==
    ASSUME QueryFacts, NEW q \in Requests, Mine(q), OfQuery(q)', CachedInv'
    PROVE  QueryInv'
<1>1. \A t \in Requests : OfQuery(t)'
  BY OtherQueries
<1> QED BY <1>1 DEF QueryInv, IdleInv, LoopInv, AfterInv, ErrInv, LimitInv,
           OfQuery, IdleOf, LoopOf, AfterOf, ErrOf, LimitOf

LEMMA Mean ==
    ASSUME QueryFacts, NEW q \in Requests
    PROVE  /\ QueryTypes /\ SetupTypes /\ StoppedType /\ OfQuery(q) /\ CachedInv
BY Types, OfQueries DEF QueryFacts

LEMMA HitStep ==
    ASSUME QueryFacts, NEW q \in Requests, Hit(q)
    PROVE  QueryTypes' /\ QueryInv'
<1>1. /\ pc[q] = "idle" /\ cache[Key[q]] # None
      /\ rows' = [rows EXCEPT ![q] = cache[Key[q]].rows]
      /\ stats' = [stats EXCEPT ![q] = cache[Key[q]].stats]
      /\ source' = [source EXCEPT ![q] = cache[Key[q]].by]
      /\ pc' = [pc EXCEPT ![q] = "done"]
      /\ UNCHANGED <<iter, found, visited, running, groupErr, limited, err,
                     cache, passed>>
  BY DEF Hit, Go, loop, searches
<1>2. QueryTypes /\ OfQuery(q) /\ CachedInv
  BY Mean
<1>3. /\ cache[Key[q]] \in [rows : SUBSET Searches, stats : Sources \cup {None},
                            by : Requests]
      /\ cache[Key[q]].by # None
  BY <1>1, <1>2 DEF QueryTypes, Entries, Entry, QueryFacts, QueriesAssumption
<1>4. QueryTypes'
  BY <1>1, <1>2, <1>3 DEF QueryTypes, PC, Running
<1>5. /\ pc'[q] = "done" /\ source'[q] = cache[Key[q]].by
      /\ running'[q] = running[q]
  BY <1>1, <1>2 DEF QueryTypes
<1>6. Mine(q)
  BY <1>1, <1>2 DEF QueryTypes, Mine
<1>7. OfQuery(q)'
  BY <1>1, <1>2, <1>3, <1>5 DEF OfQuery, IdleOf, LoopOf, AfterOf, ErrOf, LimitOf
<1>8. CachedInv'
  BY <1>1, <1>6, CacheKept DEF Mine
<1> QED BY <1>4, <1>6, <1>7, <1>8, Compose

LEMMA MissStep ==
    ASSUME QueryFacts, NEW q \in Requests, Miss(q)
    PROVE  QueryTypes' /\ QueryInv'
<1>1. /\ pc[q] = "idle" /\ pc' = [pc EXCEPT ![q] = "dispatch"]
      /\ err' = err \/ err' = [err EXCEPT ![q] = "cache"]
      /\ UNCHANGED <<iter, found, visited, running, groupErr, limited, rows,
                     stats, source, cache, passed>>
  BY DEF Miss, Go, loop, searches
<1>2. QueryTypes /\ OfQuery(q)
  BY Mean
<1>3. err' \in [Requests -> Errors] /\ \A t \in Requests \ {q} : err'[t] = err[t]
  BY <1>1, <1>2 DEF QueryTypes, Errors
<1>4. QueryTypes'
  BY <1>1, <1>2, <1>3 DEF QueryTypes, PC, Running
<1>5. pc'[q] = "dispatch" /\ \A t \in Requests \ {q} : pc'[t] = pc[t]
  BY <1>1, <1>2 DEF QueryTypes
<1>6. Mine(q)
  BY <1>1, <1>3, <1>5 DEF Mine
<1>7. OfQuery(q)'
  BY <1>1, <1>2, <1>5 DEF OfQuery, IdleOf, LoopOf, AfterOf, ErrOf, LimitOf
<1>8. CachedInv'
  BY <1>1, <1>5, CacheKept
<1> QED BY <1>4, <1>6, <1>7, <1>8, Compose

\* The searches of one source are started, or its query can't be parsed: it
\* is handled, and so stays what was handled before.
LEMMA Starting ==
    ASSUME QueryFacts, NEW q \in Requests, NEW s \in Sources, StartSearches(q, s),
           UNCHANGED <<groupErr, limited, rows>>
    PROVE  /\ running' \in [Requests -> SUBSET Searches]
           /\ err' \in [Requests -> Errors]
           /\ \A t \in Requests \ {q} : running'[t] = running[t] /\ err'[t] = err[t]
           /\ Handled(q, s)'
           /\ \A t \in Sources : Handled(q, t) => Handled(q, t)'
<1>1. QueryTypes /\ SubQueries(q, s) \subseteq Searches
  BY Mean, SubQueriesAreSearches
<1>2. CASE <<q, s>> \in Unparsable
  <2>1. err' = [err EXCEPT ![q] = "parse"] /\ UNCHANGED running
    BY <1>2 DEF StartSearches
  <2>2. err'[q] = "parse"
    BY <1>1, <2>1 DEF QueryTypes
  <2> QED BY <1>1, <2>1, <2>2 DEF QueryTypes, Errors, Handled
<1>3. CASE <<q, s>> \notin Unparsable
  <2>1. running' = [running EXCEPT ![q] = @ \cup SubQueries(q, s)] /\ UNCHANGED err
    BY <1>3 DEF StartSearches
  <2>2. running'[q] = running[q] \cup SubQueries(q, s)
    BY <1>1, <2>1 DEF QueryTypes
  <2>3. running' \in [Requests -> SUBSET Searches]
    BY <1>1, <2>1 DEF QueryTypes
  <2> QED BY <1>1, <2>1, <2>2, <2>3 DEF QueryTypes, Handled
<1> QED BY <1>2, <1>3

LEMMA SearchOneStep ==
    ASSUME QueryFacts, NEW q \in Requests, SearchOne(q)
    PROVE  QueryTypes' /\ QueryInv'
<1>1. /\ pc[q] = "dispatch" /\ Target[q] \in Collectors
      /\ found' = [found EXCEPT ![q] = {Target[q]}]
      /\ StartSearches(q, Target[q])
      /\ pc' = [pc EXCEPT ![q] = "wait"]
      /\ UNCHANGED <<iter, visited, groupErr, limited, rows, stats, source,
                     cache, passed>>
  BY DEF SearchOne, At, Go
<1>2. QueryTypes /\ OfQuery(q)
  BY Mean
<1>3. Target[q] \in Sources /\ Target[q] # Global
  BY <1>1, CollectorsAreSources DEF QueryFacts, QueriesAssumption
<1>4. /\ running' \in [Requests -> SUBSET Searches]
      /\ err' \in [Requests -> Errors]
      /\ \A t \in Requests \ {q} : running'[t] = running[t] /\ err'[t] = err[t]
      /\ Handled(q, Target[q])'
  BY <1>1, <1>3, Starting
<1>5. /\ found' \in [Requests -> SUBSET Sources] /\ pc' \in [Requests -> PC]
      /\ found'[q] = {Target[q]} /\ pc'[q] = "wait"
      /\ \A t \in Requests \ {q} : pc'[t] = pc[t] /\ found'[t] = found[t]
  BY <1>1, <1>2, <1>3 DEF QueryTypes, PC, Running
<1>6. QueryTypes'
  BY <1>1, <1>2, <1>4, <1>5 DEF QueryTypes
<1>7. Mine(q)
  BY <1>1, <1>4, <1>5 DEF Mine
<1>8. Needed(q)' = {Target[q]}
  BY <1>3, <1>5 DEF Needed
<1>9. IdleOf(q)' /\ LoopOf(q)' /\ AfterOf(q)' /\ ErrOf(q)' /\ LimitOf(q)'
  <2>1. AfterOf(q)'
    BY <1>4, <1>8 DEF AfterOf
  <2> QED BY <1>1, <1>2, <1>5, <2>1 DEF OfQuery, IdleOf, LoopOf, ErrOf, LimitOf
<1>10. CachedInv'
  BY <1>1, <1>5, CacheKept
<1> QED BY <1>6, <1>7, <1>9, <1>10, Compose DEF OfQuery

LEMMA SearchGlobalStep ==
    ASSUME QueryFacts, NEW q \in Requests, SearchGlobal(q)
    PROVE  QueryTypes' /\ QueryInv'
<1>1. /\ pc[q] = "dispatch" /\ Target[q] = Global
      /\ iter' = [iter EXCEPT ![q] = current]
      /\ found' = [found EXCEPT ![q] = Collectors]
      /\ pc' = [pc EXCEPT ![q] = "global"]
      /\ UNCHANGED <<visited, running, groupErr, limited, rows, stats, err,
                     source, cache, passed>>
  BY DEF SearchGlobal, At, Go, searches, answer
<1>2. QueryTypes /\ OfQuery(q) /\ current \in Setups \cup {None}
  BY Mean DEF SetupTypes
<1>3. Collectors \in SUBSET Sources
  BY CollectorsAreSources DEF QueryFacts
<1>4. QueryTypes'
  BY <1>1, <1>2, <1>3 DEF QueryTypes, PC, Running
<1>5. pc'[q] = "global" /\ \A t \in Requests \ {q} : pc'[t] = pc[t] /\ found'[t] = found[t]
  BY <1>1, <1>2 DEF QueryTypes
<1>6. Mine(q)
  BY <1>1, <1>5 DEF Mine
<1>7. visited'[q] = {}
  BY <1>1, <1>2 DEF OfQuery, IdleOf
<1>8. OfQuery(q)'
  BY <1>1, <1>2, <1>5, <1>7 DEF OfQuery, IdleOf, LoopOf, AfterOf, ErrOf, LimitOf
<1>9. CachedInv'
  BY <1>1, <1>5, CacheKept
<1> QED BY <1>4, <1>6, <1>8, <1>9, Compose

LEMMA SearchUnknownStep ==
    ASSUME QueryFacts, NEW q \in Requests, SearchUnknown(q)
    PROVE  QueryTypes' /\ QueryInv'
<1>1. /\ pc[q] = "dispatch" /\ pc' = [pc EXCEPT ![q] = "wait"]
      /\ err' = [err EXCEPT ![q] = "unknown"]
      /\ UNCHANGED <<iter, found, visited, running, groupErr, limited, rows,
                     stats, source, cache, passed>>
  BY DEF SearchUnknown, At, Go, loop, searches
<1>2. QueryTypes /\ OfQuery(q)
  BY Mean
<1>3. QueryTypes'
  BY <1>1, <1>2 DEF QueryTypes, PC, Running, Errors
<1>4. /\ pc'[q] = "wait" /\ err'[q] = "unknown"
      /\ \A t \in Requests \ {q} : pc'[t] = pc[t] /\ err'[t] = err[t]
  BY <1>1, <1>2 DEF QueryTypes
<1>5. Mine(q)
  BY <1>1, <1>4 DEF Mine
<1>6. OfQuery(q)'
  BY <1>1, <1>2, <1>4 DEF OfQuery, IdleOf, LoopOf, AfterOf, ErrOf, LimitOf, Handled
<1>7. CachedInv'
  BY <1>1, <1>4, CacheKept
<1> QED BY <1>3, <1>5, <1>6, <1>7, Compose

LEMMA SearchNextStep ==
    ASSUME QueryFacts, NEW q \in Requests, SearchNext(q)
    PROVE  QueryTypes' /\ QueryInv'
<1>1. PICK s \in Collectors :
        /\ pc[q] = "global"
        /\ visited' = [visited EXCEPT ![q] = @ \cup {s}]
        /\ IF s \in InGlobal THEN StartSearches(q, s) ELSE UNCHANGED <<running, err>>
        /\ UNCHANGED <<pc, iter, found, groupErr, limited, rows, stats, source,
                       cache, passed>>
  BY DEF SearchNext, At
<1>2. QueryTypes /\ OfQuery(q) /\ s \in Sources
  BY Mean, CollectorsAreSources DEF QueryFacts
<1>3. /\ running' \in [Requests -> SUBSET Searches]
      /\ err' \in [Requests -> Errors]
      /\ \A t \in Requests \ {q} : running'[t] = running[t] /\ err'[t] = err[t]
      /\ s \in InGlobal => Handled(q, s)'
      /\ \A t \in Sources : Handled(q, t) => Handled(q, t)'
  <2>1. CASE s \in InGlobal
    BY <1>1, <1>2, <2>1, Starting
  <2>2. CASE s \notin InGlobal
    BY <1>1, <1>2, <2>2 DEF QueryTypes, Handled
  <2> QED BY <2>1, <2>2
<1>4. /\ visited' \in [Requests -> SUBSET Sources]
      /\ visited'[q] = visited[q] \cup {s}
      /\ \A t \in Requests \ {q} : visited'[t] = visited[t]
  BY <1>1, <1>2 DEF QueryTypes
<1>5. QueryTypes'
  BY <1>1, <1>2, <1>3, <1>4 DEF QueryTypes
<1>6. Mine(q)
  BY <1>1, <1>3, <1>4 DEF Mine
<1>7. LoopOf(q)'
  <2>1. SUFFICES ASSUME NEW t \in visited'[q] \cap InGlobal PROVE Handled(q, t)'
    BY DEF LoopOf
  <2>2. t = s \/ t \in visited[q]
    BY <1>4
  <2>3. t \in Sources
    BY DEF QueryFacts, QueriesAssumption
  <2>4. t \in visited[q] => Handled(q, t)
    BY <1>1, <1>2 DEF OfQuery, LoopOf
  <2> QED BY <1>3, <2>2, <2>3, <2>4
<1>8. OfQuery(q)'
  BY <1>1, <1>2, <1>7 DEF OfQuery, IdleOf, AfterOf, ErrOf, LimitOf
<1>9. CachedInv'
  BY <1>1, CacheKept
<1> QED BY <1>5, <1>6, <1>8, <1>9, Compose

LEMMA SearchNilStep ==
    ASSUME QueryFacts, NEW q \in Requests, SearchNil(q)
    PROVE  QueryTypes' /\ QueryInv'
<1>1. /\ pc[q] = "global"
      /\ pc' = pc \/ pc' = [pc EXCEPT ![q] = "aborted"]
      /\ UNCHANGED <<iter, found, visited, running, groupErr, limited, rows,
                     stats, err, source, cache, passed>>
  BY DEF SearchNil, At, Go, loop, searches, answer
<1>2. QueryTypes /\ OfQuery(q)
  BY Mean
<1>3. pc' \in [Requests -> PC] /\ pc'[q] \in {pc[q], "aborted"}
      /\ \A t \in Requests \ {q} : pc'[t] = pc[t]
  BY <1>1, <1>2 DEF QueryTypes, PC
<1>4. QueryTypes'
  BY <1>1, <1>2, <1>3 DEF QueryTypes
<1>5. Mine(q)
  BY <1>1, <1>3 DEF Mine
<1>6. pc[q] = "global"
  BY DEF SearchNil, At
<1>7. source[q] = None
  BY <1>2, <1>6 DEF OfQuery, IdleOf
<1>8. OfQuery(q)'
  <2>2. IdleOf(q)' /\ AfterOf(q)' /\ ErrOf(q)' /\ LimitOf(q)'
    BY <1>1, <1>2, <1>3, <1>6, <1>7 DEF OfQuery, IdleOf, AfterOf, ErrOf, LimitOf
  <2>3. LoopOf(q)'
    BY <1>1, <1>2, <1>3, <1>6 DEF OfQuery, LoopOf, Handled
  <2> QED BY <2>2, <2>3 DEF OfQuery
<1>9. CachedInv'
  BY <1>1, <1>3, <1>6, CacheKept
<1> QED BY <1>4, <1>5, <1>8, <1>9, Compose

LEMMA SearchedAllStep ==
    ASSUME QueryFacts, NEW q \in Requests, SearchedAll(q)
    PROVE  QueryTypes' /\ QueryInv'
<1>1. /\ pc[q] = "global" /\ found[q] \subseteq visited[q]
      /\ pc' = [pc EXCEPT ![q] = "wait"]
      /\ UNCHANGED <<iter, found, visited, running, groupErr, limited, rows,
                     stats, err, source, cache, passed>>
  BY DEF SearchedAll, At, Go, loop, searches, answer
<1>2. QueryTypes /\ OfQuery(q)
  BY Mean
<1>3. pc' \in [Requests -> PC] /\ pc'[q] = "wait"
      /\ \A t \in Requests \ {q} : pc'[t] = pc[t]
  BY <1>1, <1>2 DEF QueryTypes, PC, Running
<1>4. QueryTypes'
  BY <1>1, <1>2, <1>3 DEF QueryTypes
<1>5. Mine(q)
  BY <1>1, <1>3 DEF Mine
<1>6. AfterOf(q)'
  <2>1. Needed(q)' = found[q] \cap InGlobal
    BY <1>1, <1>2 DEF Needed, OfQuery, IdleOf
  <2>2. \A s \in found[q] \cap InGlobal : Handled(q, s)
    BY <1>1, <1>2 DEF OfQuery, LoopOf
  <2>3. \A s : Handled(q, s)' <=> Handled(q, s)
    BY <1>1 DEF Handled
  <2> QED BY <2>1, <2>2, <2>3 DEF AfterOf
<1>7. OfQuery(q)'
  BY <1>1, <1>2, <1>3, <1>6 DEF OfQuery, IdleOf, LoopOf, ErrOf, LimitOf
<1>8. CachedInv'
  BY <1>1, <1>3, CacheKept
<1> QED BY <1>4, <1>5, <1>7, <1>8, Compose

\* A search that ends leaves rows, the limit or the group's error.
LEMMA SearchEndsStep ==
    ASSUME QueryFacts, NEW q \in Requests, SearchEnds(q)
    PROVE  QueryTypes' /\ QueryInv'
<1>1. PICK x \in Searches :
        SearchSucceeds(q, x) \/ SearchLimited(q, x) \/ SearchFails(q, x)
  BY DEF SearchEnds
<1>2. /\ x \in running[q] /\ running' = [running EXCEPT ![q] = @ \ {x}]
      /\ UNCHANGED <<pc, iter, found, visited, err, source, cache, passed>>
  BY <1>1 DEF SearchSucceeds, SearchLimited, SearchFails, loop, answer
<1>3. QueryTypes /\ OfQuery(q) /\ x[1] \in Sources
  BY Mean, SearchSource
<1>4. /\ rows' \in [Requests -> SUBSET Searches] /\ rows[q] \subseteq rows'[q]
      /\ limited' \in [Requests -> SUBSET Searches]
      /\ limited[q] \subseteq limited'[q]
      /\ groupErr' \in [Requests -> BOOLEAN] /\ (groupErr[q] => groupErr'[q])
      /\ stats' \in [Requests -> Sources \cup {None}]
      /\ x \in rows'[q] \/ x \in limited'[q] \/ groupErr'[q]
      /\ stats'[q] \in Sources \/ (stats'[q] = stats[q] /\ limited'[q] = limited[q])
      /\ \A t \in Requests \ {q} :
            /\ rows'[t] = rows[t] /\ limited'[t] = limited[t]
            /\ stats'[t] = stats[t] /\ groupErr'[t] = groupErr[t]
  <2>1. CASE SearchSucceeds(q, x)
    BY <1>3, <2>1 DEF SearchSucceeds, QueryTypes
  <2>2. CASE SearchLimited(q, x)
    <3>1. /\ limited' = [limited EXCEPT ![q] = @ \cup {x}]
          /\ stats' = [stats EXCEPT ![q] = x[1]]
          /\ rows' \in {rows, [rows EXCEPT ![q] = @ \cup {x}]}
          /\ groupErr' = groupErr
      BY <2>2 DEF SearchLimited
    <3>2. /\ rows' \in [Requests -> SUBSET Searches] /\ rows[q] \subseteq rows'[q]
          /\ \A t \in Requests \ {q} : rows'[t] = rows[t]
      <4>1. CASE rows' = rows
        BY <1>3, <4>1 DEF QueryTypes
      <4>2. CASE rows' = [rows EXCEPT ![q] = @ \cup {x}]
        BY <1>3, <4>2 DEF QueryTypes
      <4> QED BY <3>1, <4>1, <4>2
    <3>3. /\ limited' \in [Requests -> SUBSET Searches]
          /\ limited'[q] = limited[q] \cup {x}
          /\ \A t \in Requests \ {q} : limited'[t] = limited[t]
      BY <1>3, <3>1 DEF QueryTypes
    <3>4. /\ stats' \in [Requests -> Sources \cup {None}] /\ stats'[q] \in Sources
          /\ \A t \in Requests \ {q} : stats'[t] = stats[t]
      BY <1>3, <3>1 DEF QueryTypes
    <3> QED BY <1>3, <3>1, <3>2, <3>3, <3>4 DEF QueryTypes
  <2>3. CASE SearchFails(q, x)
    BY <1>3, <2>3 DEF SearchFails, QueryTypes, answer
  <2> QED BY <1>1, <2>1, <2>2, <2>3
<1>5. /\ running' \in [Requests -> SUBSET Searches]
      /\ running'[q] = running[q] \ {x}
      /\ \A t \in Requests \ {q} : running'[t] = running[t]
  BY <1>2, <1>3 DEF QueryTypes
<1>6. QueryTypes'
  BY <1>2, <1>3, <1>4, <1>5 DEF QueryTypes
<1>7. Mine(q)
  BY <1>2, <1>4, <1>5 DEF Mine
<1>8. pc[q] \notin {"idle", "dispatch", "save", "process", "done"}
  BY <1>2, <1>3 DEF OfQuery, IdleOf
<1>9. \A s : Handled(q, s) => Handled(q, s)'
  BY <1>2, <1>4, <1>5 DEF Handled
<1>10. IdleOf(q)' /\ ErrOf(q)'
  BY <1>2, <1>3, <1>8 DEF OfQuery, IdleOf, ErrOf
<1>11. LoopOf(q)' /\ AfterOf(q)'
  <2>1. Needed(q)' = Needed(q)
    BY <1>2 DEF Needed
  <2> QED BY <1>2, <1>3, <1>9, <2>1 DEF OfQuery, LoopOf, AfterOf
<1>12. LimitOf(q)'
  <2>1. None \notin Sources
    BY DEF QueryFacts, QueriesAssumption
  <2> QED BY <1>2, <1>3, <1>4, <2>1 DEF OfQuery, LimitOf
<1>13. CachedInv'
  BY <1>2, <1>4, <1>8, CacheKept
<1> QED BY <1>6, <1>7, <1>10, <1>11, <1>12, <1>13, Compose DEF OfQuery

LEMMA WaitStep ==
    ASSUME QueryFacts, NEW q \in Requests, Wait(q)
    PROVE  QueryTypes' /\ QueryInv'
<1>1. /\ pc[q] = "wait" /\ running[q] = {}
      /\ err' = IF groupErr[q] THEN [err EXCEPT ![q] = "search"] ELSE err
      /\ pc' = [pc EXCEPT ![q] = IF CacheOn THEN "save" ELSE "process"]
      /\ UNCHANGED <<iter, found, visited, running, groupErr, limited, rows,
                     stats, source, cache, passed>>
  BY DEF Wait, At, Go, loop, searches
<1>2. QueryTypes /\ OfQuery(q)
  BY Mean
<1>3. /\ err' \in [Requests -> Errors]
      /\ groupErr[q] => err'[q] = "search"
      /\ err[q] # "" => err'[q] # ""
      /\ \A t \in Requests \ {q} : err'[t] = err[t]
  BY <1>1, <1>2 DEF QueryTypes, Errors
<1>4. /\ pc' \in [Requests -> PC] /\ pc'[q] \in {"save", "process"}
      /\ \A t \in Requests \ {q} : pc'[t] = pc[t]
  BY <1>1, <1>2 DEF QueryTypes, PC, Running
<1>5. QueryTypes'
  BY <1>1, <1>2, <1>3, <1>4 DEF QueryTypes
<1>6. Mine(q)
  BY <1>1, <1>3, <1>4 DEF Mine
<1>7. AfterOf(q)'
  <2>1. \A s : Handled(q, s) => Handled(q, s)'
    BY <1>1, <1>3 DEF Handled
  <2>2. Needed(q)' = Needed(q)
    BY <1>1 DEF Needed
  <2> QED BY <1>1, <1>2, <2>1, <2>2 DEF OfQuery, AfterOf
<1>8. OfQuery(q)'
  BY <1>1, <1>2, <1>3, <1>4, <1>7 DEF OfQuery, IdleOf, LoopOf, ErrOf, LimitOf
<1>9. CachedInv'
  BY <1>1, <1>4, CacheKept
<1> QED BY <1>5, <1>6, <1>8, <1>9, Compose

LEMMA SaveInCacheStep ==
    ASSUME QueryFacts, NEW q \in Requests, SaveInCache(q)
    PROVE  QueryTypes' /\ QueryInv'
<1> DEFINE entry == [rows |-> rows[q], stats |-> stats[q], by |-> q]
<1>1. /\ pc[q] = "save" /\ pc' = [pc EXCEPT ![q] = "process"]
      /\ cache' = [cache EXCEPT ![Key[q]] = entry] \/ cache' = cache
      /\ UNCHANGED <<iter, found, visited, running, groupErr, limited, rows,
                     stats, err, source, passed>>
  BY DEF SaveInCache, At, Go, loop, searches, answer
<1>2. QueryTypes /\ OfQuery(q) /\ CachedInv
  BY Mean
<1>3. entry \in Entries /\ entry.by = q
  BY <1>2 DEF QueryTypes, Entries, Entry
<1>4. cache' \in [{Key[t] : t \in Requests} -> Entries]
  BY <1>1, <1>2, <1>3 DEF QueryTypes
<1>5. /\ pc' \in [Requests -> PC] /\ pc'[q] = "process"
      /\ \A t \in Requests \ {q} : pc'[t] = pc[t]
  BY <1>1, <1>2 DEF QueryTypes, PC, Running
<1>6. QueryTypes'
  BY <1>1, <1>2, <1>4, <1>5 DEF QueryTypes
<1>7. Mine(q)
  BY <1>1, <1>5 DEF Mine
<1>8. OfQuery(q)'
  <2>1. \A s : Handled(q, s)' <=> Handled(q, s)
    BY <1>1 DEF Handled
  <2>2. Needed(q)' = Needed(q)
    BY <1>1 DEF Needed
  <2> QED BY <1>1, <1>2, <1>5, <2>1, <2>2
          DEF OfQuery, IdleOf, LoopOf, AfterOf, ErrOf, LimitOf
<1>9. CASE cache' = cache
  <2>1. CachedInv'
    BY <1>1, <1>5, <1>9, CacheKept
  <2> QED BY <1>6, <1>7, <1>8, <2>1, Compose
<1>10. CASE cache' = [cache EXCEPT ![Key[q]] = entry]
  <2>1. /\ DOMAIN cache' = DOMAIN cache
        /\ \A k \in DOMAIN cache : cache'[k] = IF k = Key[q] THEN entry ELSE cache[k]
    BY <1>2, <1>10 DEF QueryTypes
  <2>2. ASSUME NEW k \in DOMAIN cache, cache'[k] # None
        PROVE  LET t == cache'[k].by
               IN  /\ Key[t] = k
                   /\ pc'[t] \in {"process", "done"}
                   /\ rows'[t] = cache'[k].rows /\ stats'[t] = cache'[k].stats
    <3>1. CASE k = Key[q]
      <4>1. cache'[k] = entry
        BY <2>1, <3>1
      <4> QED BY <1>1, <1>5, <3>1, <4>1
    <3>2. CASE k # Key[q]
      <4>1. cache'[k] = cache[k] /\ cache[k] # None
        BY <2>1, <2>2, <3>2
      <4>2. cache[k].by \in Requests
        BY <1>2, <4>1 DEF QueryTypes, Entries, Entry
      <4>3. LET t == cache[k].by
            IN  /\ Key[t] = k
                /\ pc[t] \in {"process", "done"}
                /\ rows[t] = cache[k].rows /\ stats[t] = cache[k].stats
        BY <1>2, <4>1 DEF CachedInv
      <4> QED BY <1>1, <1>5, <4>1, <4>2, <4>3
    <3> QED BY <3>1, <3>2
  <2>3. CachedInv'
    BY <2>1, <2>2 DEF CachedInv
  <2> QED BY <1>6, <1>7, <1>8, <2>3, Compose
<1> QED BY <1>1, <1>9, <1>10

LEMMA ProcessStep ==
    ASSUME QueryFacts, NEW q \in Requests, Process(q)
    PROVE  QueryTypes' /\ QueryInv'
<1>1. /\ pc[q] = "process" /\ pc' = [pc EXCEPT ![q] = "done"]
      /\ passed' = [passed EXCEPT ![q] = processors]
      /\ err' = err \/ err' = [err EXCEPT ![q] = "processor"]
      /\ UNCHANGED <<iter, found, visited, running, groupErr, limited, rows,
                     stats, source, cache>>
  BY DEF Process, At, Go, loop, searches
<1>2. QueryTypes /\ OfQuery(q) /\ processors \in Seq(Plugins)
  BY Mean DEF SetupTypes
<1>3. /\ err' \in [Requests -> Errors]
      /\ err[q] # "" => err'[q] # ""
      /\ \A t \in Requests \ {q} : err'[t] = err[t]
  BY <1>1, <1>2 DEF QueryTypes, Errors
<1>4. /\ pc' \in [Requests -> PC] /\ pc'[q] = "done"
      /\ \A t \in Requests \ {q} : pc'[t] = pc[t]
  BY <1>1, <1>2 DEF QueryTypes, PC, Running
<1>5. passed' \in [Requests -> Seq(Plugins)]
  BY <1>1, <1>2 DEF QueryTypes
<1>6. QueryTypes'
  BY <1>1, <1>2, <1>3, <1>4, <1>5 DEF QueryTypes
<1>7. Mine(q)
  BY <1>1, <1>3, <1>4 DEF Mine
<1>8. OfQuery(q)'
  <2>1. \A s : Handled(q, s) => Handled(q, s)'
    BY <1>1, <1>3 DEF Handled
  <2>2. Needed(q)' = Needed(q)
    BY <1>1 DEF Needed
  <2> QED BY <1>1, <1>2, <1>3, <1>4, <2>1, <2>2
          DEF OfQuery, IdleOf, LoopOf, AfterOf, ErrOf, LimitOf
<1>9. CachedInv'
  BY <1>1, <1>4, CacheKept
<1> QED BY <1>6, <1>7, <1>8, <1>9, Compose

LEMMA ExpireStep ==
    ASSUME QueryFacts, NEW k \in DOMAIN cache, Expire(k)
    PROVE  QueryTypes' /\ QueryInv'
<1>1. /\ cache' = [cache EXCEPT ![k] = None]
      /\ UNCHANGED <<pc, iter, found, visited, running, groupErr, limited, rows,
                     stats, err, source, passed>>
  BY DEF Expire, loop, searches, answer
<1>2. QueryTypes /\ QueryInv
  BY Types DEF QueryFacts
<1>3. QueryTypes'
  BY <1>1, <1>2 DEF QueryTypes, Entries, Entry
<1>4. CachedInv'
  BY <1>1, <1>2 DEF QueryTypes, QueryInv, CachedInv
<1>5. IdleInv' /\ LoopInv' /\ AfterInv' /\ ErrInv' /\ LimitInv'
  BY <1>1, <1>2 DEF QueryInv, IdleInv, LoopInv, AfterInv, ErrInv, LimitInv,
     Handled, Needed
<1> QED BY <1>3, <1>4, <1>5 DEF QueryInv

LEMMA QueryStep ==
    ASSUME QueryFacts, NEW q \in Requests, Query(q) \/ SearchEnds(q)
    PROVE  QueryTypes' /\ QueryInv'
BY HitStep, MissStep, SearchOneStep, SearchGlobalStep, SearchUnknownStep,
   SearchNextStep, SearchNilStep, SearchedAllStep, WaitStep, SaveInCacheStep,
   ProcessStep, SearchEndsStep DEF Query

LEMMA QueryLeavesSetups ==
    ASSUME NEW q \in Requests, Query(q) \/ SearchEnds(q), StoppedType
    PROVE  UNCHANGED SetupVars /\ StoppedType'
<1> USE DEF SetupVars, StoppedType
<1>1. CASE Hit(q) \/ Miss(q) \/ SearchOne(q) \/ SearchGlobal(q) \/ SearchUnknown(q)
  BY <1>1 DEF Hit, Miss, SearchOne, SearchGlobal, SearchUnknown
<1>2. CASE SearchNext(q) \/ SearchNil(q) \/ SearchedAll(q)
  BY <1>2 DEF SearchNext, SearchNil, SearchedAll
<1>3. CASE Wait(q) \/ SaveInCache(q) \/ Process(q)
  BY <1>3 DEF Wait, SaveInCache, Process
<1>4. CASE SearchEnds(q)
  BY <1>4 DEF SearchEnds, SearchSucceeds, SearchLimited, SearchFails
<1> QED BY <1>1, <1>2, <1>3, <1>4 DEF Query

-----------------------------------------------------------------------------
(* The theorems                                                            *)

LEMMA First == 1 \in Nat \ {0}
OBVIOUS

LEMMA NoPlugins == <<>> \in Seq(Plugins)
OBVIOUS

LEMMA InitIInv == QueriesAssumption /\ Init => IInv
<1> SUFFICES ASSUME QueriesAssumption, Init PROVE IInv
  OBVIOUS
<1> USE DEF Init
<1>1. TypeOK
  <2>1. SetupTypes /\ StoppedType
    <3>1. names \in [Setups -> SUBSET Sources]
      <4>1. {} \in SUBSET Sources
        OBVIOUS
      <4> QED BY <4>1
    <3>3. setup \in [Setups -> SetupPC]
      BY DEF SetupPC
    <3>4. next \in [Setups -> Nat \ {0}]
      BY First
    <3>2. processors = <<>>
      OBVIOUS
    <3> QED BY NoPlugins, <3>1, <3>2, <3>3, <3>4 DEF SetupTypes, StoppedType
  <2>2. pc \in [Requests -> PC] /\ groupErr \in [Requests -> BOOLEAN]
    BY DEF PC
  <2>3. err \in [Requests -> Errors]
    <3>1. "" \in Errors
      BY DEF Errors
    <3> QED BY <3>1
  <2>4. cache \in [{Key[q] : q \in Requests} -> Entries]
    <3> DEFINE Keys == {Key[q] : q \in Requests}
    <3>1. None \in Entries
      BY DEF Entries, Entry
    <3>2. cache = [k \in Keys |-> None]
      OBVIOUS
    <3> HIDE DEF Keys, Init
    <3>3. cache \in [Keys -> Entries]
      BY <3>1, <3>2
    <3> QED BY <3>3 DEF Keys
  <2>5. /\ passed \in [Requests -> Seq(Plugins)]
        /\ stats \in [Requests -> Sources \cup {None}]
    BY NoPlugins
  <2>6. /\ iter \in [Requests -> Setups \cup {None}]
        /\ source \in [Requests -> Requests \cup {None}]
    OBVIOUS
  <2>7. found \in [Requests -> SUBSET Sources] /\ visited \in [Requests -> SUBSET Sources]
    <3>1. {} \in SUBSET Sources
      OBVIOUS
    <3> QED BY <3>1
  <2>8. running \in [Requests -> SUBSET Searches] /\ limited \in [Requests -> SUBSET Searches]
    <3>1. {} \in SUBSET Searches
      OBVIOUS
    <3> QED BY <3>1
  <2>9. rows \in [Requests -> SUBSET Searches]
    OBVIOUS
  <2> QED BY <2>1, <2>2, <2>3, <2>4, <2>5, <2>6, <2>7, <2>8, <2>9, Types DEF QueryTypes
<1>2. SetupInv
  BY DEF SetupInv, QueriesAssumption
<1>4. OrderInv
  BY DEF OrderInv, Busy
<1>3. QueryInv
  BY DEF QueryInv, IdleInv, LoopInv, AfterInv, ErrInv, LimitInv, CachedInv
<1> QED BY <1>1, <1>2, <1>3, <1>4 DEF IInv

LEMMA NextIInv == QueriesAssumption /\ IInv /\ [Next]_vars => IInv'
<1> SUFFICES ASSUME QueriesAssumption, IInv, [Next]_vars PROVE IInv'
  OBVIOUS
<1>1. QueryTypes /\ SetupTypes /\ StoppedType /\ SetupInv /\ OrderInv /\ QueryInv
  BY Types DEF IInv
<1>2. QueryFacts /\ SetupFacts
  BY <1>1 DEF IInv, QueryFacts, SetupFacts
<1>3. SUFFICES (QueryTypes /\ SetupTypes /\ StoppedType /\ SetupInv /\ OrderInv /\ QueryInv)'
  BY DEF IInv, TypeOK, QueryTypes, SetupTypes, StoppedType, Entries, Entry
<1>4. CASE \E q \in Requests : Query(q) \/ SearchEnds(q)
  BY <1>1, <1>2, <1>4, QueryStep, QueryLeavesSetups, QueryFrame,
     OrderFrame
<1>5. CASE \E r \in Setups : Setup(r)
  BY <1>1, <1>2, <1>5, SetupStep, SetupLeavesQueries, SetupFrame,
     OrderStep
<1>6. CASE \E k \in DOMAIN cache : Expire(k)
  <2>1. QueryTypes' /\ QueryInv'
    BY <1>2, <1>6, ExpireStep
  <2>2. UNCHANGED <<SetupVars, stopped>>
    BY <1>6 DEF Expire, SetupVars
  <2> QED BY <1>1, <2>1, <2>2, QueryFrame, OrderFrame DEF StoppedType
<1>7. CASE MapRace
  <2>1. UNCHANGED SetupVars /\ UNCHANGED QueryVars /\ stopped' = "map race"
    BY <1>7 DEF MapRace, SetupVars, QueryVars
  <2> QED BY <1>1, <2>1, QueryFrame, SetupFrame, OrderFrame DEF StoppedType
<1>8. CASE UNCHANGED vars
  <2>1. UNCHANGED SetupVars /\ UNCHANGED QueryVars /\ UNCHANGED stopped
    BY <1>8 DEF vars, SetupVars, QueryVars
  <2> QED BY <1>1, <2>1, QueryFrame, SetupFrame, OrderFrame DEF StoppedType
<1> QED BY <1>4, <1>5, <1>6, <1>7, <1>8 DEF Next

\* Every reachable state satisfies the inductive invariant.
THEOREM Invariance == Spec => []IInv
BY InitIInv, NextIInv, QueriesAssumption, PTL DEF Spec

\* The variables keep their types, for any queries, sources and set-ups.
THEOREM TypeCorrect == Spec => []TypeOK
<1>1. IInv => TypeOK
  BY DEF IInv
<1> QED BY <1>1, Invariance, PTL

\* An answer without an error holds the rows of every search it needs, or
\* statistics that tell of a limit (querySources).
THEOREM AnswersAreWhole == Spec => []WholeAnswer
<1>1. IInv => WholeAnswer
  BY DEF IInv, QueryInv, IdleInv, AfterInv, ErrInv, LimitInv, Handled, WholeAnswer
<1> QED BY <1>1, Invariance, PTL

\* A cached answer is what a finished query with that key had (setCache).
THEOREM CacheIsFinal == Spec => []CachedIsFinal
<1>1. IInv => CachedIsFinal
  <2> SUFFICES ASSUME IInv, NEW k \in DOMAIN cache, cache[k] # None
               PROVE  LET q == cache[k].by
                      IN  /\ Key[q] = k
                          /\ running[q] = {}
                          /\ rows[q] = cache[k].rows /\ stats[q] = cache[k].stats
    BY DEF CachedIsFinal
  <2>1. cache[k].by \in Requests
    BY DEF Entry, IInv, TypeOK
  <2> QED BY <2>1 DEF IInv, QueryInv, IdleInv, CachedInv
<1> QED BY <1>1, Invariance, PTL

\* A returned answer is never written again: no search is left behind
\* (errgroup Wait in querySources).
THEOREM AnswersStand == Spec => AnswerStands
<1>1. ASSUME IInv, [Next]_vars
      PROVE  [\A q \in Requests : pc[q] = "done" =>
                rows'[q] = rows[q] /\ stats'[q] = stats[q] /\ err'[q] = err[q]]_vars
  <2> SUFFICES ASSUME Next, NEW q \in Requests, pc[q] = "done"
               PROVE  rows'[q] = rows[q] /\ stats'[q] = stats[q] /\ err'[q] = err[q]
    BY <1>1
  <2>1. QueryTypes /\ running[q] = {}
    BY <1>1, Types DEF IInv, QueryInv, IdleInv
  <2>2. CASE \E t \in Requests : Query(t)
    <3>1. PICK t \in Requests : Query(t)
      BY <2>2
    <3>2. t # q
      BY <3>1 DEF Query, Hit, Miss, SearchOne, SearchGlobal, SearchUnknown, SearchNext,
         SearchNil, SearchedAll, Wait, SaveInCache, Process, At
    <3>3. CASE Hit(t) \/ Miss(t) \/ SearchOne(t) \/ SearchGlobal(t) \/ SearchUnknown(t)
      BY <2>1, <3>2, <3>3 DEF Hit, Miss, SearchOne, SearchGlobal, SearchUnknown,
         StartSearches, QueryTypes, answer
    <3>4. CASE SearchNext(t) \/ SearchNil(t) \/ SearchedAll(t)
      BY <2>1, <3>2, <3>4 DEF SearchNext, SearchNil, SearchedAll, StartSearches,
         QueryTypes, answer
    <3>5. CASE Wait(t) \/ SaveInCache(t) \/ Process(t)
      BY <2>1, <3>2, <3>5 DEF Wait, SaveInCache, Process, QueryTypes, answer
    <3> QED BY <3>1, <3>3, <3>4, <3>5 DEF Query
  <2>3. CASE \E t \in Requests : SearchEnds(t)
    <3>1. PICK t \in Requests, x \in Searches :
             SearchSucceeds(t, x) \/ SearchLimited(t, x) \/ SearchFails(t, x)
      BY <2>3 DEF SearchEnds
    <3>2. t # q
      BY <2>1, <3>1 DEF SearchSucceeds, SearchLimited, SearchFails
    <3> QED BY <2>1, <3>1, <3>2 DEF SearchSucceeds, SearchLimited, SearchFails,
               QueryTypes, answer
  <2>4. CASE \E r \in Setups : Setup(r)
    <3>1. UNCHANGED QueryVars
      BY <1>1, <2>4, Types, SetupLeavesQueries DEF IInv
    <3> QED BY <3>1 DEF QueryVars, answer
  <2>5. CASE MapRace \/ \E k \in DOMAIN cache : Expire(k)
    BY <2>5 DEF MapRace, Expire, answer
  <2> QED BY <2>2, <2>3, <2>4, <2>5 DEF Next
<1> QED BY <1>1, Invariance, PTL DEF Spec, AnswerStands

\* After a set-up that went well and no later one, each reliable source can be
\* queried, however many set-ups overlapped (setupCollectors).
THEOREM ReloadsRestore == Spec => []ReloadRestores
<1>1. IInv => ReloadRestores
  <2> SUFFICES ASSUME IInv, current # None, setup[current] = "done",
                      NEW i \in DOMAIN Definitions, Definitions[i] \notin Flaky
               PROVE  Definitions[i] \in Collectors
    BY DEF ReloadRestores, Reliable
  <2>1. i \in 1..Len(Definitions)
    BY QueriesAssumption DEF QueriesAssumption
  <2> QED BY <2>1 DEF IInv, SetupInv, Stored, Collectors
<1> QED BY <1>1, Invariance, PTL

\* After set-ups that did not overlap, the processors are those of the definition
\* files in their order, each as often as it is defined (setupProcessors).
THEOREM ProcessorsAreOrdered == Spec => []ProcessorsInOrder
<1>1. IInv => ProcessorsInOrder
  BY DEF IInv, OrderInv, ProcessorsInOrder
<1> QED BY <1>1, Invariance, PTL
=============================================================================
