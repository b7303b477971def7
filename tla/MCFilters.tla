------------------------------ MODULE MCFilters ------------------------------
(***************************************************************************)
(* A graph of three nodes, two of a group, and two queries that share one; *)
(* one relation between nodes no filter has to hold, and an exported file  *)
(* with a node without neighbours.                                         *)
(***************************************************************************)
EXTENDS Filters, TLC

CONSTANTS a, b, c, q1, q2, ip, domain

MCGroupOf == (a :> domain) @@ (b :> ip) @@ (c :> ip)
MCAnswers == (q1 :> {<<<<a, b>>, <<a, c>>>>}) @@ (q2 :> {<<<<a, c>>>>})
MCNeighbors == {<<<<a, b>>>>}
MCFiles == {<<<<b, NoNode>>>>}
MCRed == {[field |-> ip, value |-> b]}
MCDashboard ==
    [green |-> (q1 :> "on") @@ (q2 :> "off"), red |-> [r \in MCRed |-> "none"]]

\* A red filter matches no node (Excludes): one node is enough for its steps.  A
\* dashboard's page saves nothing and starts with other filters: what differs is
\* seen without charts and clusters.
Small ==
    /\ Cardinality(nodes) <= 1 \/ \A r \in Red : red[r] = "none"
    /\ dashboard => charts = NoChart /\ Clusters(inside) = {}

\* No action reads mine and no property but Remembered is about it.
Program == <<stored, page, dashboard, filters, graph, clusters, tags, cut>>
=============================================================================
