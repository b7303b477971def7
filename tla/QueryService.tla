---------------------------- MODULE QueryService ----------------------------
(***************************************************************************)
(* What the query engine promises to those who ask, with its goroutines,   *)
(* its maps and its processors hidden: a query is looked at once, when it  *)
(* is known which sources there are; all it needs is then collected as if  *)
(* at once; the answer holds everything, or tells that it does not, and is *)
(* never touched again.  Or the answer is what was collected for a query   *)
(* with the same key.                                                      *)
(***************************************************************************)
CONSTANTS
    Requests,       \* the queries
    Target,         \* the data source a query names
    Key,            \* queries with the same key are the same question
    Sources,        \* names of data sources
    InGlobal,       \* those that take part in the global search
    Global,         \* the name of the global search
    Split,          \* the parts of a query for a source
    None

VARIABLES
    available,      \* the sources that can be queried now
    phase,          \* how far a query is
    plan,           \* the parts its answer has to cover
    result,         \* what was collected for it
    kept            \* per key, the rows and statistics kept for the next one, if any

vars == <<available, phase, plan, result, kept>>

SubQueries(q, s) == {<<s, p>> : p \in Split[<<q, s>>]}
Nothing(failed) == [rows |-> {}, stats |-> None, failed |-> failed]

\* The sources a query asks, of those there are
Asked(q, from) == IF Target[q] = Global THEN from \cap InGlobal ELSE from \cap {Target[q]}
Parts(q, from) == UNION {SubQueries(q, s) : s \in Asked(q, from)}

Init ==
    /\ available = {}
    /\ phase = [q \in Requests |-> "new"]
    /\ plan = [q \in Requests |-> {}]
    /\ result = [q \in Requests |-> Nothing(FALSE)]
    /\ kept = [k \in {Key[q] : q \in Requests} |-> {}]

Move(q, from, to) == phase[q] = from /\ phase' = [phase EXCEPT ![q] = to]

\* Sources come and go.
Change ==
    /\ available' \in SUBSET Sources
    /\ UNCHANGED <<phase, plan, result, kept>>

Look(q) ==
    /\ Move(q, "new", "searching")
    /\ Target[q] \in available \cup {Global}
    /\ plan' = [plan EXCEPT ![q] = Parts(q, available)]
    /\ UNCHANGED <<available, result, kept>>

\* The query names a source there is not.
Refuse(q) ==
    /\ Move(q, "new", "refused")
    /\ Target[q] \notin available \cup {Global}
    /\ UNCHANGED <<available, plan, result, kept>>

\* What is collected is the query's own, and whole unless statistics or an error
\* tell that it is not.
Collect(q, r) ==
    /\ Move(q, "searching", "collected")
    /\ r.rows \subseteq Parts(q, Sources)
    /\ plan[q] \subseteq r.rows \/ r.stats # None \/ r.failed
    /\ result' = [result EXCEPT ![q] = r]
    /\ UNCHANGED <<available, plan, kept>>

\* Who asks a source there is not is told so.
CollectNothing(q) ==
    /\ Move(q, "refused", "collected")
    /\ result' = [result EXCEPT ![q] = Nothing(TRUE)]
    /\ UNCHANGED <<available, plan, kept>>

Keep(q) ==
    /\ phase[q] = "collected"
    /\ kept' = [kept EXCEPT ![Key[q]] = {[rows |-> result[q].rows, stats |-> result[q].stats]}]
    /\ UNCHANGED <<available, phase, plan, result>>

Forget(k) ==
    /\ kept' = [kept EXCEPT ![k] = {}]
    /\ UNCHANGED <<available, phase, plan, result>>

\* Only an error may be added before the answer is given.
Answer(q, failed) ==
    /\ Move(q, "collected", "answered")
    /\ result[q].failed => failed
    /\ result' = [result EXCEPT ![q].failed = failed]
    /\ UNCHANGED <<available, plan, kept>>

AnswerKept(q) ==
    /\ Move(q, "new", "answered")
    /\ \E r \in kept[Key[q]] :
         result' = [result EXCEPT ![q] = [rows |-> r.rows, stats |-> r.stats, failed |-> FALSE]]
    /\ UNCHANGED <<available, plan, kept>>

\* The connection of a global search is closed without an answer.
Lose(q) ==
    /\ Target[q] = Global
    /\ Move(q, "searching", "lost")
    /\ UNCHANGED <<available, plan, result, kept>>

Results(q) ==
    [rows : SUBSET Parts(q, Sources), stats : Sources \cup {None}, failed : BOOLEAN]

Next ==
    \/ Change
    \/ \E q \in Requests :
         \/ Look(q) \/ Refuse(q) \/ CollectNothing(q) \/ Keep(q) \/ AnswerKept(q) \/ Lose(q)
         \/ \E r \in Results(q) : Collect(q, r)
         \/ \E failed \in BOOLEAN : Answer(q, failed)
    \/ \E k \in DOMAIN kept : Forget(k)

Spec == Init /\ [][Next]_vars
=============================================================================
