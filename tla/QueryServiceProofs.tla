------------------------- MODULE QueryServiceProofs -------------------------
(***************************************************************************)
(* Queries implements QueryService: what its goroutines collect step by    *)
(* step is seen from outside as one step.  The invariant that is needed    *)
(* next to the one of QueriesProofs says that a query holds nothing but    *)
(* its own, nothing before it looked at the sources, and an error when the *)
(* source it names was not there.                                          *)
(***************************************************************************)
EXTENDS QueriesProofs

-----------------------------------------------------------------------------
(* The invariant                                                           *)

Wanted(q) == IF Target[q] = Global THEN InGlobal ELSE {Target[q]}
Parts(q, from) == UNION {SubQueries(q, s) : s \in from \cap Wanted(q)}

OwnOf(q) == source[q] = None => rows[q] \cup running[q] \subseteq Parts(q, Sources)
NewOf(q) ==
    /\ pc[q] \in {"idle", "dispatch"} => found[q] = {} /\ rows[q] = {} /\ stats[q] = None
    /\ pc[q] = "idle" => err[q] = ""
RefusedOf(q) ==
    Phase(q) = "refused" => /\ rows[q] = {} /\ running[q] = {} /\ stats[q] = None
                            /\ err[q] # ""
PartOf(q) == OwnOf(q) /\ NewOf(q) /\ RefusedOf(q)
PartInv == \A q \in Requests : PartOf(q)

\* The variables of QueryService.
phases == [q \in Requests |-> Phase(q)]
plans == [q \in Requests |-> UNION {SubQueries(q, s) : s \in Needed(q)}]
results == [q \in Requests |-> Result(q)]
keeps == [k \in {Key[q] : q \in Requests} |->
            IF cache[k] = None THEN {} ELSE {[rows |-> cache[k].rows, stats |-> cache[k].stats]}]

Nothing(failed) == [rows |-> {}, stats |-> None, failed |-> failed]

ServiceFacts == QueryFacts /\ PartInv

-----------------------------------------------------------------------------
(* One query moves                                                         *)

LEMMA ServiceParts ==
    ASSUME NEW q, NEW from PROVE Service!Parts(q, from) = Parts(q, from)
BY DEF Service!Parts, Service!Asked, Service!SubQueries, Parts, Wanted, SubQueries

LEMMA PartsGrow ==
    ASSUME NEW q, NEW S, NEW T, S \subseteq T PROVE Parts(q, S) \subseteq Parts(q, T)
BY DEF Parts

LEMMA PartsOfOne ==
    ASSUME NEW q, NEW s \in Sources, s \in Wanted(q) PROVE SubQueries(q, s) \subseteq Parts(q, Sources)
BY DEF Parts

\* The other queries stay as they are, inside and seen from outside.
LEMMA OneMoves ==
    ASSUME ServiceFacts, NEW q \in Requests, Mine(q)
    PROVE  /\ phases' = [phases EXCEPT ![q] = Phase(q)']
           /\ plans' = [plans EXCEPT ![q] = UNION {SubQueries(q, s) : s \in Needed(q)'}]
           /\ results' = [results EXCEPT ![q] = Result(q)']
           /\ PartOf(q)' => PartInv'
<1>1. ASSUME NEW t \in Requests \ {q}
      PROVE  /\ Phase(t)' = Phase(t) /\ Needed(t)' = Needed(t)
             /\ Result(t)' = Result(t) /\ PartOf(t)'
  <2>1. /\ pc'[t] = pc[t] /\ found'[t] = found[t] /\ running'[t] = running[t]
        /\ rows'[t] = rows[t] /\ stats'[t] = stats[t] /\ err'[t] = err[t]
        /\ source'[t] = source[t]
    BY DEF Mine
  <2>2. Phase(t)' = Phase(t) /\ Needed(t)' = Needed(t) /\ Result(t)' = Result(t)
    BY <2>1 DEF Phase, Needed, Result
  <2>3. PartOf(t)
    BY DEF ServiceFacts, PartInv
  <2> QED BY <2>1, <2>2, <2>3 DEF PartOf, OwnOf, NewOf, RefusedOf
<1>2. phases' = [phases EXCEPT ![q] = Phase(q)']
  BY <1>1 DEF phases
<1>3. results' = [results EXCEPT ![q] = Result(q)']
  BY <1>1 DEF results
<1>4. plans' = [plans EXCEPT ![q] = UNION {SubQueries(q, s) : s \in Needed(q)'}]
  BY <1>1 DEF plans
<1> QED BY <1>1, <1>2, <1>3, <1>4 DEF PartInv

\* A query is what its variables are.
LEMMA ServiceMean ==
    ASSUME ServiceFacts, NEW q \in Requests
    PROVE  /\ QueryTypes /\ OfQuery(q) /\ PartOf(q) /\ Collectors \in SUBSET Sources
           /\ phases[q] = Phase(q) /\ results[q] = Result(q)
           /\ plans[q] = UNION {SubQueries(q, s) : s \in Needed(q)}
BY Mean, CollectorsAreSources DEF ServiceFacts, QueryFacts, PartInv, phases, results, plans

\* What a step of one query leaves alone.
LEMMA QueryMoves ==
    ASSUME ServiceFacts, NEW q \in Requests, Query(q) \/ SearchEnds(q)
    PROVE  Mine(q) /\ Collectors' = Collectors
<1>1. QueryTypes /\ StoppedType
  BY Types DEF ServiceFacts, QueryFacts
<1>2. Mine(q)
  <2>1. CASE Hit(q) \/ Miss(q) \/ SearchGlobal(q) \/ SearchUnknown(q)
    BY <1>1, <2>1 DEF Hit, Miss, SearchGlobal, SearchUnknown, Go, Mine, QueryTypes, loop,
       searches, answer
  <2>2. CASE SearchOne(q) \/ SearchNext(q)
    <3>1. ASSUME NEW s, StartSearches(q, s)
          PROVE  \A t \in Requests \ {q} : running'[t] = running[t] /\ err'[t] = err[t]
      BY <1>1, <3>1 DEF StartSearches, QueryTypes
    <3>2. CASE SearchOne(q)
      BY <1>1, <3>1, <3>2 DEF SearchOne, Go, Mine, QueryTypes
    <3>3. CASE SearchNext(q)
      <4>1. \A t \in Requests \ {q} : running'[t] = running[t] /\ err'[t] = err[t]
        BY <3>1, <3>3 DEF SearchNext
      <4>2. \A t \in Requests \ {q} : visited'[t] = visited[t]
        BY <1>1, <3>3 DEF SearchNext, QueryTypes
      <4> QED BY <3>3, <4>1, <4>2 DEF SearchNext, Mine
    <3> QED BY <2>2, <3>2, <3>3
  <2>3. CASE SearchNil(q) \/ SearchedAll(q) \/ Wait(q) \/ SaveInCache(q) \/ Process(q)
    BY <1>1, <2>3 DEF SearchNil, SearchedAll, Wait, SaveInCache, Process, Go, Mine,
       QueryTypes, loop, searches, answer
  <2>4. CASE SearchEnds(q)
    <3>1. PICK x \in Searches : SearchSucceeds(q, x) \/ SearchLimited(q, x) \/ SearchFails(q, x)
      BY <2>4 DEF SearchEnds
    <3>2. CASE SearchSucceeds(q, x)
      BY <1>1, <3>2 DEF SearchSucceeds, Mine, QueryTypes, loop
    <3>3. CASE SearchLimited(q, x)
      BY <1>1, <3>3 DEF SearchLimited, Mine, QueryTypes, loop
    <3>4. CASE SearchFails(q, x)
      BY <1>1, <3>4 DEF SearchFails, Mine, QueryTypes, loop, answer
    <3> QED BY <3>1, <3>2, <3>3, <3>4
  <2> QED BY <2>1, <2>2, <2>3, <2>4 DEF Query
<1>3. UNCHANGED SetupVars
  BY <1>1, QueryLeavesSetups
<1> QED BY <1>2, <1>3 DEF SetupVars, maps, Collectors

\* A step of q that changes its phase only as Next of QueryService allows.
LEMMA ServiceStep ==
    ASSUME NEW q \in Requests, UNCHANGED Collectors,
           phases' = [phases EXCEPT ![q] = Phase(q)'],
           plans' = [plans EXCEPT ![q] = UNION {SubQueries(q, s) : s \in Needed(q)'}],
           results' = [results EXCEPT ![q] = Result(q)'],
           phases[q] = Phase(q), results[q] = Result(q),
           plans[q] = UNION {SubQueries(q, s) : s \in Needed(q)}
    PROVE  /\ /\ Phase(q) = "new" /\ Phase(q)' = "searching"
              /\ Target[q] \in Collectors \cup {Global}
              /\ UNION {SubQueries(q, s) : s \in Needed(q)'} = Parts(q, Collectors)
              /\ Result(q)' = Result(q) /\ UNCHANGED keeps
              => Service!Look(q)
           /\ /\ Phase(q) = "new" /\ Phase(q)' = "refused"
              /\ Target[q] \notin Collectors \cup {Global}
              /\ Needed(q)' = Needed(q) /\ Result(q)' = Result(q) /\ UNCHANGED keeps
              => Service!Refuse(q)
           /\ /\ Phase(q) = "searching" /\ Phase(q)' = "collected"
              /\ Result(q)'.rows \subseteq Parts(q, Sources)
              /\ \/ plans[q] \subseteq Result(q)'.rows
                 \/ Result(q)'.stats # None
                 \/ Result(q)'.failed
              /\ Needed(q)' = Needed(q) /\ UNCHANGED keeps
              => Service!Collect(q, Result(q)')
           /\ /\ Phase(q) = "refused" /\ Phase(q)' = "collected"
              /\ Result(q)' = Nothing(TRUE)
              /\ Needed(q)' = Needed(q) /\ UNCHANGED keeps
              => Service!CollectNothing(q)
           /\ /\ Phase(q) = "searching" /\ Phase(q)' = "lost" /\ Target[q] = Global
              /\ Needed(q)' = Needed(q) /\ Result(q)' = Result(q) /\ UNCHANGED keeps
              => Service!Lose(q)
           /\ /\ Phase(q)' = Phase(q) /\ Needed(q)' = Needed(q) /\ Result(q)' = Result(q)
              /\ UNCHANGED keeps
              => UNCHANGED Service!vars
<1>1. /\ Needed(q)' = Needed(q) => plans' = plans
      /\ Result(q)' = Result(q) => results' = results
      /\ Phase(q)' = Phase(q) => phases' = phases
  BY DEF plans, results, phases
<1> USE DEF phases, plans, results, keeps, Service!Move
<1>2. /\ Phase(q) = "new" /\ Phase(q)' = "searching"
      /\ Target[q] \in Collectors \cup {Global}
      /\ UNION {SubQueries(q, s) : s \in Needed(q)'} = Parts(q, Collectors)
      /\ Result(q)' = Result(q) /\ UNCHANGED keeps
      => Service!Look(q)
  BY <1>1, ServiceParts DEF Service!Look
<1>3. /\ Phase(q) = "new" /\ Phase(q)' = "refused"
      /\ Target[q] \notin Collectors \cup {Global}
      /\ Needed(q)' = Needed(q) /\ Result(q)' = Result(q) /\ UNCHANGED keeps
      => Service!Refuse(q)
  BY <1>1 DEF Service!Refuse
<1>4. /\ Phase(q) = "searching" /\ Phase(q)' = "collected"
      /\ Result(q)'.rows \subseteq Parts(q, Sources)
      /\ \/ plans[q] \subseteq Result(q)'.rows
         \/ Result(q)'.stats # None
         \/ Result(q)'.failed
      /\ Needed(q)' = Needed(q) /\ UNCHANGED keeps
      => Service!Collect(q, Result(q)')
  BY <1>1, ServiceParts DEF Service!Collect
<1>5. /\ Phase(q) = "refused" /\ Phase(q)' = "collected"
      /\ Result(q)' = Nothing(TRUE)
      /\ Needed(q)' = Needed(q) /\ UNCHANGED keeps
      => Service!CollectNothing(q)
  BY <1>1 DEF Service!CollectNothing, Service!Nothing, Nothing
<1>6. /\ Phase(q) = "searching" /\ Phase(q)' = "lost" /\ Target[q] = Global
      /\ Needed(q)' = Needed(q) /\ Result(q)' = Result(q) /\ UNCHANGED keeps
      => Service!Lose(q)
  BY <1>1 DEF Service!Lose
<1>7. /\ Phase(q)' = Phase(q) /\ Needed(q)' = Needed(q) /\ Result(q)' = Result(q)
      /\ UNCHANGED keeps
      => UNCHANGED Service!vars
  BY <1>1 DEF Service!vars
<1> QED BY <1>2, <1>3, <1>4, <1>5, <1>6, <1>7

\* What a step of one query shows.
View(q) ==
    \/ Service!Look(q) \/ Service!Refuse(q) \/ Service!CollectNothing(q) \/ Service!Keep(q)
    \/ Service!AnswerKept(q) \/ Service!Lose(q)
    \/ \E r \in Service!Results(q) : Service!Collect(q, r)
    \/ \E failed \in BOOLEAN : Service!Answer(q, failed)
    \/ UNCHANGED Service!vars

\* The facts that each step starts from.
LEMMA Moving ==
    ASSUME ServiceFacts, NEW q \in Requests, Query(q) \/ SearchEnds(q)
    PROVE  /\ QueryTypes /\ OfQuery(q) /\ PartOf(q) /\ Collectors \in SUBSET Sources
           /\ UNCHANGED Collectors /\ QueryTypes'
           /\ phases' = [phases EXCEPT ![q] = Phase(q)']
           /\ plans' = [plans EXCEPT ![q] = UNION {SubQueries(q, s) : s \in Needed(q)'}]
           /\ results' = [results EXCEPT ![q] = Result(q)']
           /\ phases[q] = Phase(q) /\ results[q] = Result(q)
           /\ plans[q] = UNION {SubQueries(q, s) : s \in Needed(q)}
BY ServiceMean, QueryMoves, OneMoves, QueryStep DEF ServiceFacts

LEMMA KeepsStay == ASSUME UNCHANGED cache PROVE UNCHANGED keeps
BY DEF keeps

LEMMA MissView ==
    ASSUME ServiceFacts, NEW q \in Requests, Miss(q) PROVE PartOf(q)' /\ View(q)
<1>1. /\ pc[q] = "idle" /\ pc' = [pc EXCEPT ![q] = "dispatch"]
      /\ UNCHANGED <<found, running, rows, stats, source, cache>>
  BY DEF Miss, Go, loop, searches
<1>2. Query(q)
  BY DEF Query
<1>3. QueryTypes /\ PartOf(q) /\ pc'[q] = "dispatch"
  BY <1>1, <1>2, Moving DEF QueryTypes
<1>4. PartOf(q)'
  BY <1>1, <1>3 DEF PartOf, OwnOf, NewOf, RefusedOf, Phase
<1>5. Phase(q)' = Phase(q) /\ Needed(q)' = Needed(q) /\ Result(q)' = Result(q)
  BY <1>1, <1>3 DEF Phase, Needed, Result
<1>6. UNCHANGED Service!vars
  BY <1>1, <1>2, <1>5, Moving, ServiceStep, KeepsStay
<1> QED BY <1>4, <1>6 DEF View

LEMMA SearchOneView ==
    ASSUME ServiceFacts, NEW q \in Requests, SearchOne(q) PROVE PartOf(q)' /\ View(q)
<1>1. /\ pc[q] = "dispatch" /\ Target[q] \in Collectors
      /\ pc' = [pc EXCEPT ![q] = "wait"]
      /\ found' = [found EXCEPT ![q] = {Target[q]}]
      /\ StartSearches(q, Target[q])
      /\ UNCHANGED <<rows, stats, source, cache>>
  BY DEF SearchOne, At, Go
<1>2. Query(q)
  BY DEF Query
<1>3. /\ QueryTypes /\ PartOf(q) /\ OfQuery(q) /\ Target[q] \in Sources
      /\ pc'[q] = "wait" /\ found'[q] = {Target[q]} /\ Target[q] # Global
  BY <1>1, <1>2, Moving DEF QueryTypes, ServiceFacts, QueryFacts, QueriesAssumption
<1>4. running'[q] \subseteq running[q] \cup SubQueries(q, Target[q])
  BY <1>1, <1>3 DEF StartSearches, QueryTypes
<1>5. SubQueries(q, Target[q]) \subseteq Parts(q, Sources)
  BY <1>3, PartsOfOne DEF Wanted
<1>6. Phase(q)' = "searching" /\ Phase(q) = "new"
  BY <1>1, <1>3 DEF Phase
<1>7. PartOf(q)'
  BY <1>1, <1>3, <1>4, <1>5, <1>6 DEF PartOf, OwnOf, NewOf, RefusedOf
<1>8. UNION {SubQueries(q, s) : s \in Needed(q)'} = Parts(q, Collectors)
  <2>1. Needed(q)' = Collectors \cap Wanted(q)
    BY <1>1, <1>3 DEF Needed, Wanted
  <2> QED BY <2>1 DEF Parts
<1>9. Result(q)' = Result(q)
  BY <1>1, <1>3 DEF Result
<1>10. Service!Look(q)
  BY <1>1, <1>2, <1>6, <1>8, <1>9, Moving, ServiceStep, KeepsStay
<1> QED BY <1>7, <1>10 DEF View

LEMMA SearchGlobalView ==
    ASSUME ServiceFacts, NEW q \in Requests, SearchGlobal(q) PROVE PartOf(q)' /\ View(q)
<1>1. /\ pc[q] = "dispatch" /\ Target[q] = Global
      /\ pc' = [pc EXCEPT ![q] = "global"]
      /\ found' = [found EXCEPT ![q] = Collectors]
      /\ UNCHANGED <<running, rows, stats, source, cache>>
  BY DEF SearchGlobal, At, Go, searches, answer
<1>2. Query(q)
  BY DEF Query
<1>3. /\ QueryTypes /\ PartOf(q) /\ Collectors \in SUBSET Sources
      /\ pc'[q] = "global" /\ found'[q] = Collectors
  BY <1>1, <1>2, Moving DEF QueryTypes
<1>4. Phase(q)' = "searching" /\ Phase(q) = "new"
  BY <1>1, <1>3 DEF Phase
<1>5. PartOf(q)'
  BY <1>1, <1>3, <1>4 DEF PartOf, OwnOf, NewOf, RefusedOf
<1>6. UNION {SubQueries(q, s) : s \in Needed(q)'} = Parts(q, Collectors)
  BY <1>1, <1>3 DEF Needed, Wanted, Parts
<1>7. Result(q)' = Result(q)
  BY <1>1, <1>3 DEF Result
<1>8. Service!Look(q)
  BY <1>1, <1>2, <1>4, <1>6, <1>7, Moving, ServiceStep, KeepsStay
<1> QED BY <1>5, <1>8 DEF View

LEMMA SearchUnknownView ==
    ASSUME ServiceFacts, NEW q \in Requests, SearchUnknown(q) PROVE PartOf(q)' /\ View(q)
<1>1. /\ pc[q] = "dispatch" /\ Target[q] \notin Collectors \cup {Global}
      /\ pc' = [pc EXCEPT ![q] = "wait"]
      /\ err' = [err EXCEPT ![q] = "unknown"]
      /\ UNCHANGED <<found, running, rows, stats, source, cache>>
  BY DEF SearchUnknown, At, Go, loop, searches
<1>2. Query(q)
  BY DEF Query
<1>3. /\ QueryTypes /\ PartOf(q) /\ OfQuery(q) /\ pc'[q] = "wait" /\ err'[q] = "unknown"
  BY <1>1, <1>2, Moving DEF QueryTypes
<1>4. found[q] = {} /\ rows[q] = {} /\ stats[q] = None /\ running[q] = {}
  BY <1>1, <1>3 DEF PartOf, NewOf, OfQuery, IdleOf
<1>5. Phase(q)' = "refused" /\ Phase(q) = "new"
  BY <1>1, <1>3, <1>4 DEF Phase
<1>6. PartOf(q)'
  BY <1>1, <1>3, <1>4 DEF PartOf, OwnOf, NewOf, RefusedOf
<1>7. Needed(q)' = Needed(q) /\ Result(q)' = Result(q)
  BY <1>1, <1>3 DEF Needed, Result
<1>8. Service!Refuse(q)
  BY <1>1, <1>2, <1>5, <1>7, Moving, ServiceStep, KeepsStay
<1> QED BY <1>6, <1>8 DEF View

LEMMA SearchNextView ==
    ASSUME ServiceFacts, NEW q \in Requests, SearchNext(q) PROVE PartOf(q)' /\ View(q)
<1>1. PICK s \in Collectors :
        /\ pc[q] = "global"
        /\ IF s \in InGlobal THEN StartSearches(q, s) ELSE UNCHANGED <<running, err>>
        /\ UNCHANGED <<pc, found, rows, stats, source, cache>>
  BY DEF SearchNext, At
<1>2. Query(q)
  BY DEF Query
<1>3. QueryTypes /\ PartOf(q) /\ OfQuery(q) /\ s \in Sources
  BY <1>2, Moving
<1>4. Target[q] = Global
  BY <1>1, <1>3 DEF OfQuery, IdleOf
<1>5. running'[q] \subseteq running[q] \cup Parts(q, Sources)
  <2>1. CASE s \in InGlobal
    <3>1. SubQueries(q, s) \subseteq Parts(q, Sources)
      BY <1>3, <1>4, <2>1, PartsOfOne DEF Wanted
    <3> QED BY <1>1, <1>3, <2>1, <3>1 DEF StartSearches, QueryTypes
  <2>2. CASE s \notin InGlobal
    BY <1>1, <2>2
  <2> QED BY <2>1, <2>2
<1>6. Phase(q)' = Phase(q) /\ Needed(q)' = Needed(q) /\ Result(q)' = Result(q)
  BY <1>1 DEF Phase, Needed, Result
<1>7. PartOf(q)'
  <2>1. Phase(q)' # "refused"
    BY <1>1, <1>4 DEF Phase
  <2> QED BY <1>1, <1>3, <1>5, <2>1 DEF PartOf, OwnOf, NewOf, RefusedOf
<1>8. UNCHANGED Service!vars
  BY <1>1, <1>2, <1>6, Moving, ServiceStep, KeepsStay
<1> QED BY <1>7, <1>8 DEF View

LEMMA SearchNilView ==
    ASSUME ServiceFacts, NEW q \in Requests, SearchNil(q) PROVE PartOf(q)' /\ View(q)
<1>1. /\ pc[q] = "global"
      /\ pc' = pc \/ pc' = [pc EXCEPT ![q] = "aborted"]
      /\ UNCHANGED <<found, running, rows, stats, err, source, cache>>
  BY DEF SearchNil, At, Go, loop, searches, answer
<1>2. Query(q)
  BY DEF Query
<1>3. /\ QueryTypes /\ PartOf(q) /\ OfQuery(q)
      /\ pc'[q] = "global" \/ pc'[q] = "aborted"
  BY <1>1, <1>2, Moving DEF QueryTypes
<1>4. Target[q] = Global
  BY <1>1, <1>3 DEF OfQuery, IdleOf
<1>5. PartOf(q)'
  BY <1>1, <1>3, <1>4 DEF PartOf, OwnOf, NewOf, RefusedOf, Phase
<1>6. /\ Phase(q) = "searching" /\ Needed(q)' = Needed(q) /\ Result(q)' = Result(q)
      /\ Phase(q)' = "searching" \/ Phase(q)' = "lost"
  BY <1>1, <1>3, <1>4 DEF Phase, Needed, Result
<1>7. Service!Lose(q) \/ UNCHANGED Service!vars
  BY <1>1, <1>2, <1>4, <1>6, Moving, ServiceStep, KeepsStay
<1> QED BY <1>5, <1>7 DEF View

LEMMA SearchedAllView ==
    ASSUME ServiceFacts, NEW q \in Requests, SearchedAll(q) PROVE PartOf(q)' /\ View(q)
<1>1. /\ pc[q] = "global" /\ pc' = [pc EXCEPT ![q] = "wait"]
      /\ UNCHANGED <<found, running, rows, stats, err, source, cache>>
  BY DEF SearchedAll, At, Go, loop, searches, answer
<1>2. Query(q)
  BY DEF Query
<1>3. QueryTypes /\ PartOf(q) /\ OfQuery(q) /\ pc'[q] = "wait"
  BY <1>1, <1>2, Moving DEF QueryTypes
<1>4. Target[q] = Global
  BY <1>1, <1>3 DEF OfQuery, IdleOf
<1>5. PartOf(q)'
  BY <1>1, <1>3, <1>4 DEF PartOf, OwnOf, NewOf, RefusedOf, Phase
<1>6. Phase(q)' = Phase(q) /\ Needed(q)' = Needed(q) /\ Result(q)' = Result(q)
  BY <1>1, <1>3, <1>4 DEF Phase, Needed, Result
<1>7. UNCHANGED Service!vars
  BY <1>1, <1>2, <1>6, Moving, ServiceStep, KeepsStay
<1> QED BY <1>5, <1>7 DEF View

\* The end of a search is not seen from outside.
LEMMA SearchEndsView ==
    ASSUME ServiceFacts, NEW q \in Requests, SearchEnds(q) PROVE PartOf(q)' /\ View(q)
<1>1. PICK x \in Searches : SearchSucceeds(q, x) \/ SearchLimited(q, x) \/ SearchFails(q, x)
  BY DEF SearchEnds
<1>2. /\ x \in running[q] /\ running' = [running EXCEPT ![q] = @ \ {x}]
      /\ rows' = rows \/ rows' = [rows EXCEPT ![q] = @ \cup {x}]
      /\ UNCHANGED <<pc, found, err, source, cache>>
  BY <1>1 DEF SearchSucceeds, SearchLimited, SearchFails, loop, answer
<1>3. /\ QueryTypes /\ PartOf(q) /\ OfQuery(q)
      /\ running'[q] = running[q] \ {x} /\ rows'[q] \subseteq rows[q] \cup {x}
  BY <1>2, Moving DEF QueryTypes
<1>4. pc[q] \notin {"idle", "dispatch", "save", "process", "done"}
  BY <1>2, <1>3 DEF OfQuery, IdleOf
<1>5. Phase(q)' = Phase(q) /\ Phase(q) # "refused"
  BY <1>2, <1>3 DEF Phase, PartOf, RefusedOf
<1>6. PartOf(q)'
  BY <1>2, <1>3, <1>4, <1>5 DEF PartOf, OwnOf, NewOf, RefusedOf
<1>7. Needed(q)' = Needed(q) /\ Result(q)' = Result(q)
  BY <1>2, <1>4 DEF Needed, Result
<1>8. UNCHANGED Service!vars
  BY <1>2, <1>5, <1>7, Moving, ServiceStep, KeepsStay
<1> QED BY <1>6, <1>8 DEF View

\* The wait ends: everything that was collected is seen at once, and it covers what
\* the query had to ask or tells that it does not.
LEMMA WaitView ==
    ASSUME ServiceFacts, NEW q \in Requests, Wait(q) PROVE PartOf(q)' /\ View(q)
<1>1. /\ pc[q] = "wait" /\ running[q] = {}
      /\ err' = IF groupErr[q] THEN [err EXCEPT ![q] = "search"] ELSE err
      /\ pc' = [pc EXCEPT ![q] = "save"] \/ pc' = [pc EXCEPT ![q] = "process"]
      /\ UNCHANGED <<found, running, rows, stats, source, cache>>
  BY DEF Wait, At, Go, loop, searches
<1>2. Query(q)
  BY DEF Query
<1>3. /\ QueryTypes /\ QueryTypes' /\ PartOf(q) /\ OfQuery(q)
      /\ pc'[q] = "save" \/ pc'[q] = "process"
      /\ err'[q] = IF groupErr[q] THEN "search" ELSE err[q]
  BY <1>1, <1>2, Moving DEF QueryTypes
<1>4. source[q] = None
  BY <1>1, <1>3 DEF OfQuery, IdleOf
<1>0. PICK bad \in BOOLEAN : bad = (err'[q] # "")
  OBVIOUS
<1>5. /\ Phase(q)' = "collected" /\ Needed(q)' = Needed(q)
      /\ Result(q)' = [rows |-> rows[q], stats |-> stats[q], failed |-> bad]
  BY <1>0, <1>1, <1>3 DEF Phase, Needed, Result
<1>6. PartOf(q)'
  BY <1>1, <1>3, <1>5 DEF PartOf, OwnOf, NewOf, RefusedOf
<1>7. CASE Phase(q) = "refused"
  <2>1. rows[q] = {} /\ stats[q] = None /\ err'[q] # ""
    BY <1>3, <1>7 DEF PartOf, RefusedOf
  <2>2. Result(q)' = Nothing(TRUE)
    <3>1. bad = TRUE
      BY <1>0, <2>1
    <3>2. Result(q)' = [rows |-> {}, stats |-> None, failed |-> TRUE]
      BY <1>5, <2>1, <3>1
    <3> QED BY <3>2 DEF Nothing
  <2>3. Service!CollectNothing(q)
    BY <1>1, <1>2, <1>5, <1>7, <2>2, Moving, ServiceStep, KeepsStay
  <2> QED BY <1>6, <2>3 DEF View
<1>8. CASE Phase(q) # "refused"
  <2>1. Phase(q) = "searching"
    BY <1>1, <1>8 DEF Phase
  <2>2. rows[q] \subseteq Parts(q, Sources)
    BY <1>3, <1>4 DEF PartOf, OwnOf
  <2>3. plans[q] \subseteq rows[q] \/ stats[q] # None \/ err'[q] # ""
    <3>0. plans[q] = UNION {SubQueries(q, s) : s \in Needed(q)}
      BY <1>2, Moving
    <3>1. SUFFICES ASSUME stats[q] = None, err'[q] = "",
                          NEW s \in Needed(q), NEW x \in SubQueries(q, s)
                   PROVE  x \in rows[q]
      BY <3>0
    <3>2. err[q] = "" /\ ~ groupErr[q]
      BY <1>3, <3>1
    <3>3. limited[q] = {}
      BY <1>3, <1>4, <3>1 DEF OfQuery, LimitOf
    <3>4. Handled(q, s)
      BY <1>1, <1>3, <1>4 DEF OfQuery, AfterOf
    <3> QED BY <1>1, <3>2, <3>3, <3>4 DEF Handled
  <2>4. /\ Result(q)'.rows = rows[q] /\ Result(q)'.stats = stats[q]
        /\ Result(q)'.failed = bad
    BY <1>5
  <2>5. Service!Collect(q, Result(q)')
    BY <1>0, <1>1, <1>2, <1>5, <2>1, <2>2, <2>3, <2>4, Moving, ServiceStep, KeepsStay
  <2>6. Result(q)' \in Service!Results(q)
    <3>2. rows[q] \in SUBSET Parts(q, Sources) /\ stats[q] \in Sources \cup {None}
      BY <1>3, <2>2 DEF QueryTypes
    <3>3. Result(q)' \in [rows : SUBSET Parts(q, Sources), stats : Sources \cup {None},
                          failed : BOOLEAN]
      BY <1>5, <3>2
    <3> QED BY <3>3, ServiceParts DEF Service!Results
  <2> QED BY <1>6, <2>5, <2>6 DEF View
<1> QED BY <1>7, <1>8

LEMMA SaveInCacheView ==
    ASSUME ServiceFacts, NEW q \in Requests, SaveInCache(q) PROVE PartOf(q)' /\ View(q)
<1>1. /\ pc[q] = "save" /\ pc' = [pc EXCEPT ![q] = "process"]
      /\ \/ cache' = [cache EXCEPT ![Key[q]] = [rows |-> rows[q], stats |-> stats[q], by |-> q]]
         \/ UNCHANGED cache
      /\ UNCHANGED <<found, running, rows, stats, err, source>>
  BY DEF SaveInCache, At, Go, loop, searches, answer
<1>2. Query(q)
  BY DEF Query
<1>3. QueryTypes /\ PartOf(q) /\ pc'[q] = "process"
  BY <1>1, <1>2, Moving DEF QueryTypes
<1>4. /\ Phase(q) = "collected" /\ Phase(q)' = Phase(q)
      /\ Needed(q)' = Needed(q) /\ Result(q)' = Result(q)
      /\ Result(q).rows = rows[q] /\ Result(q).stats = stats[q]
  BY <1>1, <1>3 DEF Phase, Needed, Result
<1>5. PartOf(q)'
  BY <1>1, <1>3, <1>4 DEF PartOf, OwnOf, NewOf, RefusedOf
<1>6. CASE UNCHANGED cache
  <2>1. UNCHANGED Service!vars
    BY <1>2, <1>4, <1>6, Moving, ServiceStep, KeepsStay
  <2> QED BY <1>5, <2>1 DEF View
<1>7. CASE cache' = [cache EXCEPT ![Key[q]] = [rows |-> rows[q], stats |-> stats[q], by |-> q]]
  <2> DEFINE entry == [rows |-> rows[q], stats |-> stats[q], by |-> q]
  <2>1. entry.rows = rows[q] /\ entry.stats = stats[q]
    OBVIOUS
  <2>2. entry # None
    <3>1. entry \in Entry
      BY <1>3 DEF QueryTypes, Entry
    <3> HIDE DEF entry
    <3> QED BY <3>1 DEF ServiceFacts, QueryFacts, QueriesAssumption
  <2> HIDE DEF entry
  <2>3. keeps' = [keeps EXCEPT ![Key[q]] = {[rows |-> rows[q], stats |-> stats[q]]}]
    <3>1. cache' = [cache EXCEPT ![Key[q]] = entry]
      BY <1>7 DEF entry
    <3> QED BY <1>3, <2>1, <2>2, <3>1 DEF keeps, QueryTypes
  <2>4. Service!Keep(q)
    <3>1. /\ phases[q] = "collected" /\ phases' = phases /\ plans' = plans
          /\ results' = results /\ results[q] = Result(q) /\ UNCHANGED Collectors
      BY <1>2, <1>4, Moving DEF phases, plans, results
    <3> QED BY <1>4, <2>3, <3>1 DEF Service!Keep, phases, plans, results, keeps
  <2> QED BY <1>5, <2>4 DEF View
<1> QED BY <1>1, <1>6, <1>7

\* The processors may only add an error.
LEMMA ProcessView ==
    ASSUME ServiceFacts, NEW q \in Requests, Process(q) PROVE PartOf(q)' /\ View(q)
<1>1. /\ pc[q] = "process" /\ pc' = [pc EXCEPT ![q] = "done"]
      /\ err' = err \/ err' = [err EXCEPT ![q] = "processor"]
      /\ UNCHANGED <<found, running, rows, stats, source, cache>>
  BY DEF Process, At, Go, loop, searches
<1>2. Query(q)
  BY DEF Query
<1>3. /\ QueryTypes /\ PartOf(q) /\ pc'[q] = "done"
      /\ err[q] # "" => err'[q] # ""
  BY <1>1, <1>2, Moving DEF QueryTypes
<1>4. PICK bad \in BOOLEAN : bad = (err'[q] # "")
  OBVIOUS
<1>5. PICK before \in BOOLEAN : before = (err[q] # "")
  OBVIOUS
<1>6. /\ Phase(q) = "collected" /\ Phase(q)' = "answered" /\ Needed(q)' = Needed(q)
      /\ Result(q) = [rows |-> rows[q], stats |-> stats[q], failed |-> before]
      /\ Result(q)' = [rows |-> rows[q], stats |-> stats[q], failed |-> bad]
  BY <1>1, <1>3, <1>4, <1>5 DEF Phase, Needed, Result
<1>7. PartOf(q)'
  BY <1>1, <1>3, <1>6 DEF PartOf, OwnOf, NewOf, RefusedOf
<1>8. Service!Answer(q, bad)
  <2>1. /\ phases[q] = "collected" /\ phases' = [phases EXCEPT ![q] = "answered"]
        /\ plans' = plans /\ keeps' = keeps /\ UNCHANGED Collectors
        /\ results' = [results EXCEPT ![q] = Result(q)'] /\ results[q] = Result(q)
    BY <1>1, <1>2, <1>6, Moving, KeepsStay DEF plans
  <2>2. results' = [results EXCEPT ![q].failed = bad]
    <3>1. [Result(q) EXCEPT !.failed = bad] = Result(q)'
      BY <1>6
    <3> QED BY <2>1, <3>1
  <2>3. before => bad
    BY <1>3, <1>4, <1>5
  <2>4. results[q].failed = before
    BY <1>6, <2>1
  <2> QED BY <2>1, <2>2, <2>3, <2>4
          DEF Service!Answer, Service!Move, phases, plans, results, keeps
<1> QED BY <1>7, <1>8 DEF View

LEMMA HitView ==
    ASSUME ServiceFacts, NEW q \in Requests, Hit(q) PROVE PartOf(q)' /\ View(q)
<1>1. /\ pc[q] = "idle" /\ cache[Key[q]] # None
      /\ rows' = [rows EXCEPT ![q] = cache[Key[q]].rows]
      /\ stats' = [stats EXCEPT ![q] = cache[Key[q]].stats]
      /\ source' = [source EXCEPT ![q] = cache[Key[q]].by]
      /\ pc' = [pc EXCEPT ![q] = "done"]
      /\ UNCHANGED <<found, err, cache>>
  BY DEF Hit, Go, loop
<1>2. Query(q)
  BY DEF Query
<1>3. /\ QueryTypes /\ PartOf(q) /\ pc'[q] = "done"
      /\ rows'[q] = cache[Key[q]].rows /\ stats'[q] = cache[Key[q]].stats
      /\ source'[q] = cache[Key[q]].by
  BY <1>1, <1>2, Moving DEF QueryTypes
<1>4. source'[q] # None
  BY <1>1, <1>3 DEF QueryTypes, Entries, Entry, ServiceFacts, QueryFacts, QueriesAssumption
<1>5. err[q] = ""
  BY <1>1, <1>3 DEF PartOf, NewOf
<1>6. /\ Phase(q) = "new" /\ Phase(q)' = "answered" /\ Needed(q)' = Needed(q)
      /\ Result(q)' = [rows |-> cache[Key[q]].rows, stats |-> cache[Key[q]].stats,
                       failed |-> FALSE]
  BY <1>1, <1>3, <1>5 DEF Phase, Needed, Result
<1>7. PartOf(q)'
  BY <1>3, <1>4, <1>6 DEF PartOf, OwnOf, NewOf, RefusedOf
<1>8. Service!AnswerKept(q)
  <2> DEFINE r == [rows |-> cache[Key[q]].rows, stats |-> cache[Key[q]].stats]
  <2>1. /\ phases[q] = "new" /\ phases' = [phases EXCEPT ![q] = "answered"]
        /\ plans' = plans /\ keeps' = keeps /\ UNCHANGED Collectors
        /\ results' = [results EXCEPT ![q] = Result(q)']
    BY <1>1, <1>2, <1>6, Moving, KeepsStay DEF plans
  <2>2. r \in keeps[Key[q]] /\ r.rows = cache[Key[q]].rows /\ r.stats = cache[Key[q]].stats
    BY <1>1 DEF keeps
  <2>3. \E e \in keeps[Key[q]] :
            results' = [results EXCEPT ![q] = [rows |-> e.rows, stats |-> e.stats,
                                               failed |-> FALSE]]
    BY <1>6, <2>1, <2>2
  <2> QED BY <2>1, <2>3
          DEF Service!AnswerKept, Service!Move, phases, plans, results, keeps
<1> QED BY <1>7, <1>8 DEF View

-----------------------------------------------------------------------------
(* The theorem                                                             *)

LEMMA QueryView ==
    ASSUME ServiceFacts, NEW q \in Requests, Query(q) \/ SearchEnds(q)
    PROVE  PartInv' /\ [Service!Next]_(Service!vars)
<1>1. PartOf(q)' /\ View(q)
  BY HitView, MissView, SearchOneView, SearchGlobalView, SearchUnknownView, SearchNextView,
     SearchNilView, SearchedAllView, SearchEndsView, WaitView, SaveInCacheView, ProcessView
     DEF Query
<1>2. PartInv'
  BY <1>1, QueryMoves, OneMoves
<1> QED BY <1>1, <1>2 DEF View, Service!Next

\* Of a set-up only the sources are seen.
LEMMA OtherView ==
    ASSUME ServiceFacts, UNCHANGED <<pc, loop, searches, answer, cache>>,
           Collectors' \in SUBSET Sources
    PROVE  PartInv' /\ Service!Change
<1>1. UNCHANGED <<pc, found, running, rows, stats, err, source, cache>>
  BY DEF loop, searches, answer
<1>2. \A q \in Requests : /\ Phase(q)' = Phase(q) /\ Needed(q)' = Needed(q)
                          /\ Result(q)' = Result(q) /\ PartOf(q)'
  BY <1>1 DEF Phase, Needed, Result, PartOf, OwnOf, NewOf, RefusedOf, ServiceFacts, PartInv
<1>3. UNCHANGED <<phases, plans, results, keeps>>
  BY <1>1, <1>2 DEF phases, plans, results, keeps
<1> QED BY <1>2, <1>3 DEF PartInv, Service!Change, phases, plans, results, keeps

LEMMA ExpireView ==
    ASSUME ServiceFacts, NEW k \in DOMAIN cache, Expire(k)
    PROVE  PartInv' /\ [Service!Next]_(Service!vars)
<1>1. /\ cache' = [cache EXCEPT ![k] = None]
      /\ UNCHANGED <<pc, found, running, rows, stats, err, source>> /\ UNCHANGED Collectors
  BY DEF Expire, loop, searches, answer, maps, Collectors
<1>2. \A q \in Requests : /\ Phase(q)' = Phase(q) /\ Needed(q)' = Needed(q)
                          /\ Result(q)' = Result(q) /\ PartOf(q)'
  BY <1>1 DEF Phase, Needed, Result, PartOf, OwnOf, NewOf, RefusedOf, ServiceFacts, PartInv
<1>3. UNCHANGED <<phases, plans, results>>
  BY <1>2 DEF phases, plans, results
<1>4. keeps' = [keeps EXCEPT ![k] = {}] /\ k \in DOMAIN keeps
  <2>1. cache \in [{Key[q] : q \in Requests} -> Entries]
    BY Mean, Types DEF ServiceFacts, QueryFacts, QueryTypes
  <2> QED BY <1>1, <2>1 DEF keeps
<1>5. Service!Forget(k)
  BY <1>1, <1>3, <1>4 DEF Service!Forget, phases, plans, results, keeps
<1> QED BY <1>2, <1>4, <1>5 DEF PartInv, Service!Next, keeps

LEMMA InitView == QueriesAssumption /\ Init => PartInv /\ Service!Init
<1> SUFFICES ASSUME QueriesAssumption, Init PROVE PartInv /\ Service!Init
  OBVIOUS
<1>1. ASSUME NEW q \in Requests
      PROVE  /\ Phase(q) = "new" /\ Needed(q) = {} /\ PartOf(q)
             /\ Result(q) = Service!Nothing(FALSE)
  BY DEF Init, Phase, Needed, PartOf, OwnOf, NewOf, RefusedOf, Result, Service!Nothing
<1>2. Collectors = {}
  BY DEF Init, Collectors
<1>3. phases = [q \in Requests |-> "new"] /\ plans = [q \in Requests |-> {}]
  BY <1>1 DEF phases, plans
<1>4. results = [q \in Requests |-> Service!Nothing(FALSE)]
  BY <1>1 DEF results
<1>5. keeps = [k \in {Key[q] : q \in Requests} |-> {}]
  BY DEF Init, keeps
<1> QED BY <1>1, <1>2, <1>3, <1>4, <1>5
        DEF PartInv, Service!Init, phases, plans, results, keeps

LEMMA NextView ==
    QueriesAssumption /\ IInv /\ IInv' /\ PartInv /\ [Next]_vars
    => PartInv' /\ [Service!Next]_(Service!vars)
<1> SUFFICES ASSUME QueriesAssumption, IInv, IInv', PartInv, [Next]_vars
             PROVE  PartInv' /\ [Service!Next]_(Service!vars)
  OBVIOUS
<1>1. ServiceFacts
  BY DEF ServiceFacts, QueryFacts, IInv
<1>2. Collectors' \in SUBSET Sources
  BY DEF Collectors, IInv, TypeOK
<1>3. CASE \E q \in Requests : Query(q) \/ SearchEnds(q)
  BY <1>1, <1>3, QueryView
<1>4. CASE \E r \in Setups : Setup(r)
  <2>1. UNCHANGED QueryVars
    BY <1>4, SetupLeavesQueries, Types DEF IInv
  <2> QED BY <1>1, <1>2, <2>1, OtherView DEF QueryVars, Service!Next
<1>5. CASE \E k \in DOMAIN cache : Expire(k)
  BY <1>1, <1>5, ExpireView
<1>6. CASE MapRace \/ UNCHANGED vars
  BY <1>1, <1>2, <1>6, OtherView DEF MapRace, vars, Service!Next
<1> QED BY <1>3, <1>4, <1>5, <1>6 DEF Next

\* What a query was answered or is being collected is seen from outside as the
\* module QueryService says, for any queries, sources, reloads and failures
\* (querySources()).
THEOREM Refinement == Spec => ImplementsQueryService
<1>1. Init => PartInv /\ Service!Init
  BY InitView, QueriesAssumption
<1>2. IInv /\ IInv' /\ PartInv /\ [Next]_vars => PartInv' /\ [Service!Next]_(Service!vars)
  BY NextView, QueriesAssumption
<1> QED BY <1>1, <1>2, Invariance, PTL DEF Spec, ImplementsQueryService, Service!Spec
=============================================================================
