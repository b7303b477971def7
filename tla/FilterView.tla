----------------------------- MODULE FilterView -----------------------------
(***************************************************************************)
(* What the search page promises about green filters, whatever messages,   *)
(* clusters and disabled filters there are: a node an enabled filter found *)
(* is on the screen until the last such filter is withdrawn or the user    *)
(* removes the node.                                                       *)
(***************************************************************************)
CONSTANTS
    Node,       \* what can be on the screen
    Query       \* what filters are made of

VARIABLES
    shown,      \* the nodes on the screen
    support     \* pairs: a node and an enabled filter that found it

vars == <<shown, support>>

Init == shown = {} /\ support = {}

Supported(n) == \E q \in Query : <<n, q>> \in support

\* A filter's answer came, or a disabled filter is enabled again.
Find(q, ns) ==
    /\ shown' = shown \cup ns
    /\ support' = support \cup (ns \X {q})

\* Nodes of no filter: common neighbours and imported files.
ShowLoose(ns) ==
    /\ shown' = shown \cup ns
    /\ UNCHANGED support

\* A filter is disabled or deleted: its nodes leave the screen except those
\* another enabled filter found; a node without any may leave with them.
Withdraw(q) ==
    /\ support' = support \ (Node \X {q})
    /\ shown' \subseteq shown
    /\ \A n \in shown :
         /\ Supported(n)' => n \in shown'
         /\ Supported(n) /\ ~Supported(n)' => n \notin shown'

\* The user removes nodes.
Remove(ns) ==
    /\ shown' = shown \ ns
    /\ support' = support \ (ns \X Query)

Next ==
    \/ \E q \in Query, ns \in SUBSET Node : Find(q, ns)
    \/ \E ns \in SUBSET Node : ShowLoose(ns)
    \/ \E q \in Query : Withdraw(q)
    \/ \E ns \in SUBSET shown : Remove(ns)

Spec == Init /\ [][Next]_vars

-----------------------------------------------------------------------------
\* What an enabled filter found is on the screen (showGreenNodes(),
\* hideGreenNodes() and deleteGreen() of filters.js).
SupportedAreShown == \A n \in Node : Supported(n) => n \in shown
=============================================================================
