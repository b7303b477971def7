------------------------------- MODULE Filters -------------------------------
(***************************************************************************)
(* The search page's filters and graph (filters.js, and what search.js,    *)
(* graph.js, charts.js and tags.js do to the nodes and edges they share).  *)
(* A green filter is a query whose answer brought nodes; a red filter is   *)
(* to hide nodes by a field.  Answers arrive whenever the server sends     *)
(* them, whatever the user has done to the filter in the meantime.  Each   *)
(* change of the filters is sent to be saved and a page that is loaded     *)
(* starts the saved queries again.                                         *)
(*                                                                         *)
(* A green filter is named by its query: addGreen() never keeps two with   *)
(* the same query, and the id of a deleted one is gone from every node.    *)
(* Positions, sizes, labels and colours are left out, and so is the option *)
(* inCluster, which the selection by a rectangle reads.  vis-network's part *)
(* is modelled as the vendored version does it: an edge of the data set is *)
(* drawn only while both its ends exist, adding an edge the data set has   *)
(* already raises an error, and a cluster with fewer than two nodes opens. *)
(***************************************************************************)
EXTENDS Naturals, Sequences, FiniteSets

CONSTANTS
    Query,          \* queries of green filters
    Red,            \* red filters, records with a field and a value
    Node,           \* values that can become nodes
    Group,          \* groups of nodes, which are field names as well
    GroupOf,        \* the group of a node
    NoNode,         \* the missing end of a relation of an exported file
    Answers,        \* the lists of relations a query can be answered with
    Neighbors,      \* the lists of common neighbours
    Files,          \* the lists of files to import
    Dashboard,      \* the filters of the dashboard a page can be opened with
    NoChart,        \* no charts on the screen
    NoCluster,      \* not in a cluster
    Loses,          \* what can fail: "sql" a search, "filters" a save, "open" the
                    \* first attempt to connect
    MaxAsked        \* bound: searches of one query under way

Relation == Node \X Node
Item == (Node \cup {NoNode}) \X (Node \cup {NoNode})
Cluster == Node \X Group
Kept == [green: [Query -> {"none", "on", "off"}], red: [Red -> {"none", "on", "off"}]]

ASSUME FiltersAssumption ==
    /\ IsFiniteSet(Node)
    /\ Red \subseteq [field: Group, value: Node]
    /\ GroupOf \in [Node -> Group]
    /\ Answers \in [Query -> SUBSET Seq(Relation)]
    /\ NoNode \notin Node
    /\ Neighbors \subseteq Seq(Relation)
    /\ Files \subseteq Seq(Item)
    /\ Dashboard \in Kept
    /\ NoChart \notin Query
    /\ NoCluster \notin Cluster
    /\ Loses \subseteq {"sql", "filters", "open"}
    /\ MaxAsked \in Nat \ {0}

VARIABLES
    \* The field filters of the user's database record, and the filters the
    \* user made and did not delete (not state of the program).
    stored, mine,
    \* Where the page is, whether it was opened with a dashboard, the searches
    \* under way, both maps of filters and the filter the charts belong to.
    page, dashboard, asked, green, red, charts,
    \* The graph: nodes, edges of the data set, greenFiltersID and
    \* redFiltersID of each node, its option hidden.
    nodes, edges, flag, excluded, hidden,
    \* vis-network's clusteredNodes and the clusters that are hidden.
    inside, shut,
    \* The elements the tags count, and whether an error left them behind.
    tags, cut

kept == <<stored, mine, page, dashboard>>
filters == <<asked, green, red, charts>>
graph == <<nodes, edges, flag, excluded, hidden>>
clusters == <<inside, shut>>
vars == <<kept, filters, graph, clusters, tags, cut>>

TypeOK ==
    /\ stored \in Kept
    /\ mine \subseteq Query
    /\ page \in {"loaded", "live"}
    /\ dashboard \in BOOLEAN
    /\ asked \in [Query -> Nat]
    /\ green \in [Query -> {"none", "on", "off", "empty"}]
    /\ red \in [Red -> {"none", "on", "off"}]
    /\ charts \in Query \cup {NoChart}
    /\ nodes \subseteq Node
    /\ edges \subseteq Relation
    /\ flag \in [Node -> [Query -> {"none", "on", "off"}]]
    /\ excluded \subseteq Node \X Red
    /\ hidden \subseteq nodes
    /\ inside \in [Node -> Cluster \cup {NoCluster}]
    /\ shut \subseteq Cluster
    /\ tags \subseteq Node \cup Cluster
    /\ cut \in BOOLEAN
-----------------------------------------------------------------------------
(***************************************************************************)
(* The graph.                                                              *)
(***************************************************************************)
NoFlag == [q \in Query |-> "none"]
NoFlags == [n \in Node |-> NoFlag]

\* Mutant of HasEnabled: every filter must be enabled, not one.
AllEnabled(f) == \A q \in Query : f[q] \in {"none", "on"}

\* hasEnabled() of greenFiltersID
HasEnabled(f) == \E q \in Query : f[q] = "on"

\* An attribute of a node: merge() makes every value an array of strings.
Attribute(n, field) ==
    IF field = GroupOf[n] THEN [type |-> "array", value |-> n]
                          ELSE [type |-> "undefined", value |-> n]

\* The comparison of hideRedNodes() and checkDisplayRedNode():
\* attributes[field] === value, where value is a string.
Excludes(r, n) == Attribute(n, r.field) = [type |-> "string", value |-> r.value]

\* checkDisplayRedNode(): the filters that flag a node, up to the first
\* enabled one, and whether there is one
Excluders(n) == {r \in Red : red[r] = "on" /\ Excludes(r, n)}
DisplayRed(n) == Excluders(n) # {}
Reflagged(ns) ==
    (excluded \ {x \in ns \X Red : red[x[2]] = "off" /\ Excludes(x[2], x[1])})
        \cup {<<n, CHOOSE r \in Excluders(n) : TRUE>> : n \in {m \in ns : DisplayRed(m)}}

\* The edges vis-network draws, and those of a set of nodes.
Drawn == {e \in edges : e[1] \in nodes /\ e[2] \in nodes}
EdgesOf(ns) == {e \in Drawn : e[1] \in ns \/ e[2] \in ns}

Clusters(in) == {in[n] : n \in Node} \ {NoCluster}
Contained(in, c) == {n \in Node : in[n] = c}

\* Mutant of Settled: a cluster stays with the one node that is left.
Unsettled(in) == in

\* vis-network opens the clusters that are left with fewer than two nodes.
Settled(in) ==
    [n \in Node |-> IF \E m \in Node \ {n} : in[m] = in[n] THEN in[n] ELSE NoCluster]

\* tags.update(): every node of the canvas that is not hidden, the clusters
\* and what is in them included
Counted(ns, hid, in, sh) == (ns \ hid) \cup (Clusters(in) \ sh)
\* Mutant of UpdateTags: before the clusters have changed
UpdateTagsEarly == tags' = Counted(nodes', hidden', inside, shut) /\ cut' = FALSE

UpdateTags == tags' = Counted(nodes', hidden', inside', shut') /\ cut' = FALSE

\* The nodes ns and the edges es leave the data sets.
Remove(ns, es) ==
    /\ nodes' = nodes \ ns
    /\ edges' = edges \ es
    /\ hidden' = hidden \ ns
    /\ excluded' = excluded \ (ns \X Red)
    /\ inside' = Settled([n \in Node |-> IF n \in ns THEN NoCluster ELSE inside[n]])
    /\ shut' = shut \cap Clusters(inside')

\* Mutant of Unflagged: the marks of a removed node are kept.
StillFlagged(ns) == flag

Unflagged(ns) == [n \in Node |-> IF n \in ns THEN NoFlag ELSE flag[n]]
-----------------------------------------------------------------------------
(***************************************************************************)
(* processRelations(): relation after relation.  Whether the edge exists   *)
(* is looked up before the nodes are added, among the edges that are       *)
(* drawn; adding one that is in the data set and not drawn is an error,    *)
(* as is a missing end, and the rest of the answer is not looked at.       *)
(***************************************************************************)
\* The nodes a relation adds: none behind a missing end
Added(x) == IF x[1] = NoNode THEN {} ELSE {x[1], x[2]} \ {NoNode}
Ends(r, k) == UNION {Added(r[i]) : i \in 1..k}
Throws(r, k) ==
    \/ NoNode \in {r[k][1], r[k][2]}
    \/ r[k] \in edges /\ ~({r[k][1], r[k][2]} \subseteq nodes \cup Ends(r, k - 1))
Reached(r) == {k \in DOMAIN r : \A j \in 1..(k - 1) : ~Throws(r, j)}
Found(r) == UNION {Added(r[k]) : k \in Reached(r)}

\* owners: the filter the answer belongs to, or none
ProcessRelations(owners, r) ==
    /\ nodes' = nodes \cup Found(r)
    /\ edges' = edges \cup ({r[k] : k \in Reached(r)} \cap Relation)
    /\ flag' = [n \in Node |-> [q \in Query |->
                  IF n \in Found(r) /\ q \in owners THEN "on" ELSE flag[n][q]]]
    /\ hidden' = (hidden \ Found(r)) \cup {n \in Found(r) : DisplayRed(n)}
    /\ excluded' = Reflagged(Found(r))
    /\ UNCHANGED clusters
    /\ IF \E k \in Reached(r) : Throws(r, k)
       THEN cut' = TRUE /\ tags' = tags
       ELSE UpdateTags
-----------------------------------------------------------------------------
(***************************************************************************)
(* The database.                                                           *)
(***************************************************************************)
\* Mutant of Plain: the mark is kept.
AsIs(g) == g

\* What JSON and the structure Filter of filters.go keep: not the mark empty.
Plain(g) == [q \in Query |-> IF g[q] = "empty" THEN "off" ELSE g[q]]

\* save(): nothing for a dashboard.  A message is lost without a connection.
Save(g, r, sent) ==
    stored' = IF sent /\ ~dashboard THEN [green |-> Plain(g), red |-> r] ELSE stored

Mine(ms) == mine' = IF dashboard THEN mine ELSE ms

\* Whether a message reaches the server
Sent(type) == IF type \in Loses THEN BOOLEAN ELSE {TRUE}

\* FILTERS, set by the template of the page
FILTERS == IF dashboard THEN Dashboard ELSE stored

Init ==
    /\ page = "loaded"
    /\ dashboard \in BOOLEAN
    /\ asked = [q \in Query |-> 0]
    /\ green = [q \in Query |-> "none"]
    /\ red = [r \in Red |-> "none"]
    /\ charts = NoChart
    /\ nodes = {} /\ edges = {} /\ hidden = {} /\ excluded = {}
    /\ flag = NoFlags
    /\ inside = [n \in Node |-> NoCluster]
    /\ shut = {}
    /\ tags = {} /\ cut = FALSE
    /\ stored = [green |-> [q \in Query |-> "none"], red |-> [r \in Red |-> "none"]]
    /\ mine = {}

\* Nothing on the canvas and no tags
EmptyCanvas ==
    /\ nodes' = {} /\ hidden' = {} /\ excluded' = {}
    /\ flag' = NoFlags
    /\ inside' = [n \in Node |-> NoCluster]
    /\ shut' = {}
    /\ tags' = {} /\ cut' = FALSE

\* The page is loaded again, at the same address.
Load ==
    /\ page' = "loaded"
    /\ asked' = [q \in Query |-> 0]
    /\ green' = [q \in Query |-> "none"]
    /\ red' = [r \in Red |-> "none"]
    /\ charts' = NoChart
    /\ EmptyCanvas /\ edges' = {}
    /\ UNCHANGED <<stored, mine, dashboard>>
-----------------------------------------------------------------------------
(***************************************************************************)
(* restore(), when the first connection of the page opens.                 *)
(***************************************************************************)
Restore ==
    /\ page = "loaded"
    /\ page' = "live"
    /\ red' = FILTERS.red
    /\ green' = [q \in Query |-> IF FILTERS.green[q] = "off" THEN "empty" ELSE "none"]
    /\ asked' = [q \in Query |-> IF FILTERS.green[q] = "on" THEN 1 ELSE 0]
    /\ UNCHANGED <<stored, mine, dashboard, charts, graph, clusters, tags, cut>>

\* The first attempt to connect failed: onOpen() of a later one skips restore().
SkipRestore ==
    /\ page = "loaded" /\ "open" \in Loses
    /\ page' = "live"
    /\ UNCHANGED <<stored, mine, dashboard, filters, graph, clusters, tags, cut>>
-----------------------------------------------------------------------------
(***************************************************************************)
(* Searches.                                                               *)
(***************************************************************************)
\* Mutant of Refill: a filter whose query is started again counts as enabled.
RefillEnables(g, q) == [g EXCEPT ![q] = IF @ = "none" THEN @ ELSE "on"]

\* query(): the filter of this query, if there is one, counts as filled.
Refill(g, q) == [g EXCEPT ![q] = IF @ = "empty" THEN "off" ELSE @]
Ask(q, sent) ==
    /\ asked[q] < MaxAsked
    /\ asked' = IF sent THEN [asked EXCEPT ![q] = @ + 1] ELSE asked

\* run(): refused when the filter exists
Run(q) ==
    /\ page = "live"
    /\ green[q] = "none"
    /\ charts' = NoChart
    /\ \E sent \in Sent("sql") : Ask(q, sent)
    /\ UNCHANGED <<kept, green, red, graph, clusters, tags, cut>>

\* expand(): a search for the neighbours of a node, whatever the filters are
Expand(q) ==
    /\ page = "live"
    /\ nodes # {}
    /\ \E sent \in Sent("sql") : Ask(q, sent)
    /\ green' = Refill(green, q)
    /\ UNCHANGED <<kept, red, charts, graph, clusters, tags, cut>>

\* addGreen(), for an answer: a filter that exists is left alone.
AddGreen(q) ==
    /\ asked[q] > 0
    /\ asked' = [asked EXCEPT ![q] = @ - 1]
    /\ green' = [green EXCEPT ![q] = IF @ = "none" THEN "on" ELSE @]
    /\ IF green[q] = "none"
       THEN Save(green', red, TRUE) /\ Mine(mine \cup {q})
       ELSE UNCHANGED <<stored, mine>>
    /\ UNCHANGED <<page, dashboard, red>>

\* processResults() of an answer with relations, and charts if it has statistics
Answer(q, r) ==
    /\ AddGreen(q)
    /\ \E c \in {charts, q} : charts' = c
    /\ ProcessRelations({q}, r)

\* "Skip if zero entries were returned"
NoEntries(q) ==
    /\ AddGreen(q)
    /\ UNCHANGED <<charts, graph, clusters, tags, cut>>

\* The answer is an error, or the connection closed before it came.
Unanswered(q) ==
    /\ "sql" \in Loses
    /\ asked[q] > 0
    /\ asked' = [asked EXCEPT ![q] = @ - 1]
    /\ UNCHANGED <<kept, green, red, charts, graph, clusters, tags, cut>>

\* processCommon(): the answer to a search for common neighbours
ProcessCommon(r) ==
    /\ page = "live"
    /\ ProcessRelations({}, r)
    /\ UNCHANGED <<kept, filters>>

\* import() of a file; an error ends it with a modal window.
Import(r) ==
    /\ ProcessRelations({}, r)
    /\ UNCHANGED <<kept, filters>>
-----------------------------------------------------------------------------
(***************************************************************************)
(* Green filters.                                                          *)
(***************************************************************************)
Visible(c, hid) == Contained(inside, c) \ hid # {}

\* toggle() of an enabled filter, with hideGreenNodes()
Disable(q) ==
    /\ green[q] = "on"
    /\ green' = [green EXCEPT ![q] = "off"]
    /\ LET mineNow == {n \in nodes : flag[n][q] = "on"} IN
       /\ flag' = [n \in Node |-> IF n \in mineNow THEN [flag[n] EXCEPT ![q] = "off"] ELSE flag[n]]
       /\ hidden' = hidden \cup {n \in mineNow : ~HasEnabled(flag'[n])}
    /\ shut' = shut \cup {c \in Clusters(inside) : ~Visible(c, hidden')}
    /\ \E sent \in Sent("filters") : Save(green', red, sent)
    /\ UNCHANGED <<mine, page, dashboard, asked, red, charts, nodes, edges, excluded,
                   inside>>
    /\ UpdateTags

\* toggle() of a disabled filter that has been filled, with showGreenNodes()
Enable(q) ==
    /\ green[q] = "off"
    /\ green' = [green EXCEPT ![q] = "on"]
    /\ LET back == {n \in nodes : flag[n][q] = "off"} IN
       /\ flag' = [n \in Node |-> IF n \in back THEN [flag[n] EXCEPT ![q] = "on"] ELSE flag[n]]
       /\ hidden' = (hidden \ back) \cup {n \in back : DisplayRed(n)}
       /\ excluded' = Reflagged(back)
    /\ shut' = shut \ {c \in Clusters(inside) : Visible(c, hidden')}
    /\ \E sent \in Sent("filters") : Save(green', red, sent)
    /\ UNCHANGED <<mine, page, dashboard, asked, red, charts, nodes, edges, inside>>
    /\ UpdateTags

\* toggle() of a filter restore() made: its query is started
EnableEmpty(q) ==
    /\ green[q] = "empty"
    /\ green' = [green EXCEPT ![q] = "on"]
    /\ \E sent \in Sent("sql") : Ask(q, sent)
    /\ \E sent \in Sent("filters") : Save(green', red, sent)
    /\ UNCHANGED <<mine, page, dashboard, red, charts, graph, clusters>>
    /\ UpdateTags

\* deleteGreen(): the nodes no enabled filter is left for go, with their edges
RemoveFilter(q) ==
    LET had == {n \in nodes : flag[n][q] # "none"}
        gone == {n \in had : ~HasEnabled([flag[n] EXCEPT ![q] = "none"])} IN
    /\ Remove(gone, EdgesOf(gone))
    /\ flag' = [n \in Node |-> IF n \in gone THEN NoFlag ELSE [flag[n] EXCEPT ![q] = "none"]]

DeleteGreen(q) ==
    /\ green[q] # "none"
    /\ green' = [green EXCEPT ![q] = "none"]
    /\ RemoveFilter(q)
    /\ Mine(mine \ {q})
    /\ \E sent \in Sent("filters") : Save(green', red, sent)
    /\ UNCHANGED <<page, dashboard, asked, red, charts>>
    /\ UpdateTags

\* action() of the charts: their filter is replaced by a narrower query
Narrow(q) ==
    /\ charts # NoChart
    /\ charts' = NoChart
    /\ green' = Refill([green EXCEPT ![charts] = "none"], q)
    /\ RemoveFilter(charts)
    /\ Mine(mine \ {charts})
    /\ \E sent \in Sent("sql") : Ask(q, sent)
    /\ \E sent \in Sent("filters") : Save([green EXCEPT ![charts] = "none"], red, sent)
    /\ UNCHANGED <<page, dashboard, red>>
    /\ UpdateTags
-----------------------------------------------------------------------------
(***************************************************************************)
(* Red filters.                                                            *)
(***************************************************************************)
\* hideRedNodes()
HideRed(r) ==
    LET ns == {n \in nodes : Excludes(r, n)} IN
    /\ excluded' = excluded \cup (ns \X {r})
    /\ hidden' = hidden \cup ns

\* showRedNodes()
ShowRed(r) ==
    LET ns == {n \in nodes : <<n, r>> \in excluded} IN
    /\ excluded' = excluded \ (Node \X {r})
    /\ hidden' = (hidden \ {n \in ns : HasEnabled(flag[n])})
                    \cup {n \in ns : \E s \in Red : <<n, s>> \in excluded'}

\* addRed()
AddRed(r) ==
    /\ page = "live"
    /\ red[r] = "none"
    /\ red' = [red EXCEPT ![r] = "on"]
    /\ HideRed(r)
    /\ \E sent \in Sent("filters") : Save(green, red', sent)
    /\ UNCHANGED <<mine, page, dashboard, asked, green, charts, nodes, edges, flag, clusters>>
    /\ UpdateTags

\* toggle() of a red filter
ToggleRed(r) ==
    /\ red[r] # "none"
    /\ red' = [red EXCEPT ![r] = IF @ = "on" THEN "off" ELSE "on"]
    /\ IF red[r] = "on" THEN ShowRed(r) ELSE HideRed(r)
    /\ \E sent \in Sent("filters") : Save(green, red', sent)
    /\ UNCHANGED <<mine, page, dashboard, asked, green, charts, nodes, edges, flag, clusters>>
    /\ UpdateTags

\* deleteRed()
DeleteRed(r) ==
    /\ red[r] # "none"
    /\ red' = [red EXCEPT ![r] = "none"]
    /\ IF red[r] = "on" THEN ShowRed(r) ELSE UNCHANGED <<excluded, hidden>>
    /\ \E sent \in Sent("filters") : Save(green, red', sent)
    /\ UNCHANGED <<mine, page, dashboard, asked, green, charts, nodes, edges, flag, clusters>>
    /\ UpdateTags
-----------------------------------------------------------------------------
(***************************************************************************)
(* The graph's menus and keys.  Only what is on the screen can be clicked. *)
(***************************************************************************)
OnScreen == {n \in nodes \ hidden : inside[n] = NoCluster}

\* group(): the neighbours of n in group g, hidden ones included; a cluster
\* of one node is not made.  Grouping the same neighbours again while their
\* cluster is there is left out.
Neighbours(n, g) ==
    {m \in nodes \ {n} : GroupOf[m] = g /\ {<<m, n>>, <<n, m>>} \cap Drawn # {}}

GroupNodes(n, g) ==
    /\ n \in OnScreen
    /\ <<n, g>> \notin Clusters(inside)
    /\ LET free == {m \in Neighbours(n, g) : inside[m] = NoCluster} IN
       /\ Cardinality(free) > 1
       /\ inside' = [m \in Node |-> IF m \in free THEN <<n, g>> ELSE inside[m]]
    /\ UNCHANGED <<kept, filters, graph, shut>>
    /\ UpdateTags

\* menuOpenCluster()
OpenCluster(c) ==
    /\ c \in Clusters(inside) \ shut
    /\ inside' = [n \in Node |-> IF inside[n] = c THEN NoCluster ELSE inside[n]]
    /\ UNCHANGED <<kept, filters, graph, shut>>
    /\ UpdateTags

\* menuDeleteCluster(): the nodes only, not their edges
DeleteCluster(c) ==
    /\ c \in Clusters(inside) \ shut
    /\ Remove(Contained(inside, c), {})
    /\ flag' = Unflagged(Contained(inside, c))
    /\ UNCHANGED <<kept, filters>>
    /\ UpdateTags

\* menuDelete()
DeleteNode(n) ==
    /\ n \in OnScreen
    /\ Remove({n}, EdgesOf({n}))
    /\ flag' = Unflagged({n})
    /\ UNCHANGED <<kept, filters>>
    /\ UpdateTags

\* The Delete key: what is selected, though it may have been hidden or grouped
\* since; edges that came since are not selected with their nodes.
DeleteSelected(ns, es) ==
    /\ ns \subseteq nodes /\ es \subseteq Drawn /\ ns \cup es # {}
    /\ Remove(ns, es)
    /\ flag' = Unflagged(ns)
    /\ UNCHANGED <<kept, filters>>
    /\ UpdateTags

\* clearAll(): what is on the canvas and both maps of filters, without a save
ClearAll ==
    /\ EmptyCanvas /\ edges' = edges \ Drawn
    /\ green' = [q \in Query |-> "none"]
    /\ red' = [r \in Red |-> "none"]
    /\ charts' = NoChart
    /\ Mine({})
    /\ UNCHANGED <<stored, page, dashboard, asked>>
-----------------------------------------------------------------------------
(***************************************************************************)
(* export(): the items of the file, in the order the nodes are visited     *)
(* (left out).  A node all of whose neighbours are hidden is written       *)
(* without them.                                                           *)
(***************************************************************************)
\* Mutant of Linked: a node that has edges is taken to have a visible neighbour.
LinkedAtAll(n) == EdgesOf({n}) # {}

\* Whether a node has an edge between two visible nodes
Linked(n) == \E e \in EdgesOf({n}) : {e[1], e[2]} \cap hidden = {}

Exported ==
    {e \in Drawn : {e[1], e[2]} \cap hidden = {}}
        \cup {<<n, NoNode>> : n \in {m \in nodes \ hidden :
                EdgesOf({m}) = {} \/ (~Linked(m) /\ \E e \in Drawn : e[1] = m)}}
        \cup {<<NoNode, n>> : n \in {m \in nodes \ hidden :
                ~Linked(m) /\ \E e \in Drawn : e[2] = m}}
-----------------------------------------------------------------------------
Next ==
    \/ Load
    \/ Restore
    \/ SkipRestore
    \/ \E q \in Query : Run(q)
    \/ \E q \in Query : Expand(q)
    \/ \E q \in Query : \E r \in Answers[q] : Answer(q, r)
    \/ \E q \in Query : NoEntries(q)
    \/ \E q \in Query : Unanswered(q)
    \/ \E r \in Neighbors : ProcessCommon(r)
    \/ \E r \in Files : Import(r)
    \/ \E q \in Query : Disable(q)
    \/ \E q \in Query : Enable(q)
    \/ \E q \in Query : EnableEmpty(q)
    \/ \E q \in Query : DeleteGreen(q)
    \/ \E q \in Query : Narrow(q)
    \/ \E r \in Red : AddRed(r)
    \/ \E r \in Red : ToggleRed(r)
    \/ \E r \in Red : DeleteRed(r)
    \/ \E n \in Node, g \in Group : GroupNodes(n, g)
    \/ \E c \in Cluster : OpenCluster(c)
    \/ \E c \in Cluster : DeleteCluster(c)
    \/ \E n \in Node : DeleteNode(n)
    \/ \E ns \in SUBSET nodes, es \in SUBSET Drawn : DeleteSelected(ns, es)
    \/ ClearAll

Spec == Init /\ [][Next]_vars
-----------------------------------------------------------------------------
(***************************************************************************)
(* Properties.                                                             *)
(***************************************************************************)
\* A node is flagged with a filter only while both exist: deleting a node and
\* deleting a filter both clean up, whenever answers come (deleteGreen(),
\* menuDelete(), menuDeleteCluster(), processRelations()).
NoOrphans ==
    \A n \in Node, q \in Query :
        flag[n][q] # "none" => n \in nodes /\ green[q] \in {"on", "off"}

\* A node that holds a filter as disabled hangs on a filter that is: an enabled
\* filter has all its nodes enabled (toggle(), hideGreenNodes(),
\* showGreenNodes()).
FlagsAgree ==
    \A n \in Node, q \in Query : flag[n][q] = "off" => green[q] = "off"

\* The tags count what is on the canvas after every operation, except when an
\* error ended the last answer before tags.update() (processRelations()).
TagsAreCurrent == cut \/ tags = Counted(nodes, hidden, inside, shut)

\* A node of the graph is never lost in a cluster that is no longer on the
\* canvas: what a cluster holds exists, and it holds two nodes at least
\* (group(), menuDeleteCluster(), deleteGreen()).
ClustersHold ==
    \A n \in Node : inside[n] # NoCluster =>
        /\ n \in nodes
        /\ \E m \in nodes \ {n} : inside[m] = inside[n]

\* The file the user exports holds what is not hidden, each node included whose
\* neighbours are all hidden, and nothing else (docs/ui.md:107, export()); with
\* no cluster on the canvas, the edges of which count as visible neighbours.
ExportHoldsTheVisible ==
    Clusters(inside) = {} =>
        (UNION {{x[1], x[2]} : x \in Exported}) \ {NoNode} = nodes \ hidden

\* What an enabled filter found is on the screen (the promise of the
\* module FilterView: showGreenNodes(), hideGreenNodes(), deleteGreen(), addNode()).
View == INSTANCE FilterView WITH
    shown <- nodes \ hidden,
    support <- {x \in Node \X Query : flag[x[1]][x[2]] = "on"}
ImplementsFilterView == View!Spec

\* The filters of the user are those the next page starts with, once all the
\* searches have been answered (docs/ui.md:63, "By default service will remember
\* your last used filters."; restore(), save()).
Remembered ==
    page = "loaded" /\ ~dashboard =>
        \A q \in Query : q \in mine => stored.green[q] # "none"
=============================================================================
