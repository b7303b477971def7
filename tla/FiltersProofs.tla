---------------------------- MODULE FiltersProofs ----------------------------
(***************************************************************************)
(* The invariants of Filters hold for any queries, nodes, groups and       *)
(* answers, and Filters implements FilterView.  What keeps both is that a  *)
(* node's mark tells the truth: it is there for a filter that exists, it   *)
(* is "off" only while the filter is, and "on" only while the node shows.  *)
(***************************************************************************)
EXTENDS Filters, FiniteSetTheorems, TLAPS

-----------------------------------------------------------------------------
(* What the operators return.                                              *)

\* Attributes are arrays and the values of red filters are strings: none is equal
\* to another (merge(), hideRedNodes(), checkDisplayRedNode()).
LEMMA NothingExcluded == ASSUME NEW r, NEW n PROVE ~Excludes(r, n)
  <1>1. CASE r.field = GroupOf[n]
    <2>1. Attribute(n, r.field) = [type |-> "array", value |-> n]
      BY <1>1 DEF Attribute
    <2>2. [type |-> "array", value |-> n].type # [type |-> "string", value |-> r.value].type
      OBVIOUS
    <2> QED BY <2>1, <2>2 DEF Excludes
  <1>2. CASE r.field # GroupOf[n]
    <2>1. Attribute(n, r.field) = [type |-> "undefined", value |-> n]
      BY <1>2 DEF Attribute
    <2>2. [type |-> "undefined", value |-> n].type # [type |-> "string", value |-> r.value].type
      OBVIOUS
    <2> QED BY <2>1, <2>2 DEF Excludes
  <1> QED BY <1>1, <1>2

\* No node is to be hidden for a red filter (checkDisplayRedNode()).
LEMMA NothingDisplayed == \A n : ~DisplayRed(n)
  BY NothingExcluded DEF DisplayRed, Excluders

LEMMA ReflaggedSame == ASSUME NEW ns PROVE Reflagged(ns) = excluded
  BY NothingExcluded, NothingDisplayed DEF Reflagged

\* A list of relations adds nodes (processRelations()).
LEMMA FoundAreNodes == ASSUME NEW r \in Seq(Item) PROVE Found(r) \subseteq Node
  <1>1. \A k \in DOMAIN r : Added(r[k]) \subseteq Node
    BY DEF Added, Item
  <1> QED BY <1>1 DEF Found, Reached

LEMMA RelationsAreItems == Seq(Relation) \subseteq Seq(Item)
  BY DEF Relation, Item

LEMMA ClustersAreClusters ==
    ASSUME NEW in \in [Node -> Cluster \cup {NoCluster}] PROVE Clusters(in) \subseteq Cluster
  BY DEF Clusters

LEMMA SettledType ==
    ASSUME NEW in \in [Node -> Cluster \cup {NoCluster}]
    PROVE Settled(in) \in [Node -> Cluster \cup {NoCluster}]
  BY DEF Settled

LEMMA UnflaggedType ==
    ASSUME flag \in [Node -> [Query -> {"none", "on", "off"}]], NEW ns
    PROVE Unflagged(ns) \in [Node -> [Query -> {"none", "on", "off"}]]
  BY DEF Unflagged, NoFlag

LEMMA PlainType ==
    ASSUME NEW g \in [Query -> {"none", "on", "off", "empty"}]
    PROVE Plain(g) \in [Query -> {"none", "on", "off"}]
  BY DEF Plain

LEMMA CountedType ==
    ASSUME NEW ns \in SUBSET Node, NEW hid, NEW sh,
           NEW in \in [Node -> Cluster \cup {NoCluster}]
    PROVE Counted(ns, hid, in, sh) \subseteq Node \cup Cluster
  BY ClustersAreClusters DEF Counted

\* What save() writes is a record of filters.
LEMMA SaveType ==
    ASSUME stored \in Kept, NEW g \in [Query -> {"none", "on", "off", "empty"}],
           NEW r \in [Red -> {"none", "on", "off"}], NEW sent, Save(g, r, sent)
    PROVE stored' \in Kept
  BY PlainType DEF Save, Kept

\* The tags count nodes and clusters.
LEMMA TagsType ==
    ASSUME nodes' \subseteq Node, inside' \in [Node -> Cluster \cup {NoCluster}], UpdateTags
    PROVE tags' \subseteq Node \cup Cluster /\ cut' \in BOOLEAN
  BY CountedType DEF UpdateTags
-----------------------------------------------------------------------------
(* Types.                                                                  *)

TypeInv == TypeOK /\ excluded = {}

LEMMA InitTypes == Init => TypeInv
  <1> SUFFICES ASSUME Init PROVE TypeInv
    OBVIOUS
  <1>1. stored \in Kept
    BY DEF Init, Kept
  <1> QED BY <1>1 DEF Init, TypeInv, TypeOK, NoFlags, NoFlag

LEMMA EmptyCanvasTypes ==
    ASSUME EmptyCanvas
    PROVE /\ nodes' = {} /\ hidden' = {} /\ excluded' = {} /\ cut' \in BOOLEAN
          /\ flag' \in [Node -> [Query -> {"none", "on", "off"}]]
          /\ inside' \in [Node -> Cluster \cup {NoCluster}]
          /\ shut' \subseteq Cluster /\ tags' \subseteq Node \cup Cluster
  BY DEF EmptyCanvas, NoFlags, NoFlag

LEMMA RelationsTypes ==
    ASSUME TypeInv, NEW owners, NEW r \in Seq(Item), ProcessRelations(owners, r)
    PROVE /\ nodes' \subseteq Node /\ edges' \subseteq Relation /\ excluded' = {}
          /\ hidden' \subseteq nodes' /\ cut' \in BOOLEAN
          /\ flag' \in [Node -> [Query -> {"none", "on", "off"}]]
          /\ inside' \in [Node -> Cluster \cup {NoCluster}]
          /\ shut' \subseteq Cluster /\ tags' \subseteq Node \cup Cluster
  <1>1. nodes' \subseteq Node
    BY FoundAreNodes DEF ProcessRelations, TypeInv, TypeOK
  <1>2. edges' \subseteq Relation
    BY DEF ProcessRelations, TypeInv, TypeOK
  <1>3. excluded' = {}
    BY ReflaggedSame DEF ProcessRelations, TypeInv
  <1>4. hidden' \subseteq nodes'
    BY DEF ProcessRelations, TypeInv, TypeOK
  <1>5. flag' \in [Node -> [Query -> {"none", "on", "off"}]]
    BY DEF ProcessRelations, TypeInv, TypeOK
  <1>6. inside' \in [Node -> Cluster \cup {NoCluster}] /\ shut' \subseteq Cluster
    BY DEF ProcessRelations, TypeInv, TypeOK, clusters
  <1>7. cut' \in BOOLEAN /\ tags' \subseteq Node \cup Cluster
    BY <1>1, <1>6, TagsType DEF ProcessRelations, TypeInv, TypeOK
  <1> QED BY <1>1, <1>2, <1>3, <1>4, <1>5, <1>6, <1>7

LEMMA RemoveTypes ==
    ASSUME TypeInv, NEW ns, NEW es, Remove(ns, es)
    PROVE /\ nodes' \subseteq Node /\ edges' \subseteq Relation /\ excluded' = {}
          /\ hidden' \subseteq nodes'
          /\ inside' \in [Node -> Cluster \cup {NoCluster}]
          /\ shut' \subseteq Cluster
  <1>1. inside' \in [Node -> Cluster \cup {NoCluster}]
    <2>1. [n \in Node |-> IF n \in ns THEN NoCluster ELSE inside[n]]
            \in [Node -> Cluster \cup {NoCluster}]
      BY DEF TypeInv, TypeOK
    <2> QED BY <2>1, SettledType DEF Remove
  <1> QED BY <1>1 DEF Remove, TypeInv, TypeOK

\* RemoveFilter(q) cleans the flags of q.
LEMMA RemoveFilterTypes ==
    ASSUME TypeInv, NEW q \in Query, RemoveFilter(q)
    PROVE /\ nodes' \subseteq Node /\ edges' \subseteq Relation /\ excluded' = {}
          /\ hidden' \subseteq nodes'
          /\ flag' \in [Node -> [Query -> {"none", "on", "off"}]]
          /\ inside' \in [Node -> Cluster \cup {NoCluster}]
          /\ shut' \subseteq Cluster
  <1>1. PICK gone : /\ Remove(gone, EdgesOf(gone))
                    /\ flag' = [n \in Node |-> IF n \in gone THEN NoFlag
                                              ELSE [flag[n] EXCEPT ![q] = "none"]]
    BY DEF RemoveFilter
  <1>2. flag' \in [Node -> [Query -> {"none", "on", "off"}]]
    BY <1>1 DEF NoFlag, TypeInv, TypeOK
  <1> QED BY <1>1, <1>2, RemoveTypes

\* No step makes a red filter flag a node: hideRedNodes(), showRedNodes().
LEMMA RedNothing ==
    ASSUME TypeInv, NEW r \in Red
    PROVE /\ HideRed(r) => excluded' = {} /\ hidden' = hidden
          /\ ShowRed(r) => excluded' = {} /\ hidden' = hidden
  BY NothingExcluded DEF HideRed, ShowRed, TypeInv

LEMMA RedTypes ==
    ASSUME TypeInv, NEW r \in Red, AddRed(r) \/ ToggleRed(r) \/ DeleteRed(r)
    PROVE excluded' = {} /\ hidden' = hidden
  BY RedNothing DEF AddRed, ToggleRed, DeleteRed, TypeInv

LEMMA RefillType ==
    ASSUME NEW g \in [Query -> {"none", "on", "off", "empty"}], NEW q \in Query
    PROVE Refill(g, q) \in [Query -> {"none", "on", "off", "empty"}]
  BY DEF Refill

\* A search is counted.
LEMMA AskType ==
    ASSUME asked \in [Query -> Nat], NEW q \in Query, NEW sent, Ask(q, sent)
    PROVE asked' \in [Query -> Nat]
  BY DEF Ask

LEMMA AddGreenTypes ==
    ASSUME TypeInv, NEW q \in Query, AddGreen(q)
    PROVE /\ asked' \in [Query -> Nat]
          /\ green' \in [Query -> {"none", "on", "off", "empty"}]
          /\ stored' \in Kept /\ mine' \subseteq Query
  <1>1. asked' \in [Query -> Nat] BY DEF AddGreen, TypeInv, TypeOK
  <1>2. green' \in [Query -> {"none", "on", "off", "empty"}] BY DEF AddGreen, TypeInv, TypeOK
  <1>3. CASE green[q] = "none"
    <2>1. Save(green', red, TRUE) /\ Mine(mine \cup {q}) BY <1>3 DEF AddGreen
    <2>2. stored' \in Kept BY <1>2, <2>1, SaveType DEF TypeInv, TypeOK
    <2> QED BY <1>1, <1>2, <2>1, <2>2 DEF Mine, TypeInv, TypeOK
  <1>4. CASE green[q] # "none"
    BY <1>1, <1>2, <1>4 DEF AddGreen, TypeInv, TypeOK
  <1> QED BY <1>3, <1>4

LEMMA TypeStep == ASSUME TypeInv, [Next]_vars PROVE TypeInv'
  <1> USE FiltersAssumption DEF TypeInv
  <1>1. CASE Load
    <2>1. EmptyCanvas BY <1>1 DEF Load
    <2> QED BY <1>1, <2>1, EmptyCanvasTypes DEF Load, TypeOK
  <1>2. CASE Restore
    <2>1. FILTERS \in Kept BY DEF FILTERS, TypeOK
    <2> QED BY <1>2, <2>1 DEF Restore, TypeOK, Kept, graph, clusters
  <1>3. CASE SkipRestore
    BY <1>3 DEF SkipRestore, TypeOK, filters, graph, clusters
  <1>4. ASSUME NEW q \in Query, Run(q) PROVE TypeInv'
    <2>1. asked' \in [Query -> Nat] BY <1>4, AskType DEF Run, TypeOK
    <2> QED BY <1>4, <2>1 DEF Run, TypeOK, kept, graph, clusters
  <1>5. ASSUME NEW q \in Query, Expand(q) PROVE TypeInv'
    <2>1. asked' \in [Query -> Nat] BY <1>5, AskType DEF Expand, TypeOK
    <2>2. green' \in [Query -> {"none", "on", "off", "empty"}]
      BY <1>5, RefillType DEF Expand, TypeOK
    <2> QED BY <1>5, <2>1, <2>2 DEF Expand, TypeOK, kept, graph, clusters
  <1>6. ASSUME NEW q \in Query, NEW r \in Answers[q], Answer(q, r) PROVE TypeInv'
    <2>1. r \in Seq(Item) BY <1>6, RelationsAreItems
    <2>2. ProcessRelations({q}, r) /\ AddGreen(q) BY <1>6 DEF Answer
    <2>3. charts' \in Query \cup {NoChart} BY <1>6 DEF Answer, TypeOK
    <2>4. UNCHANGED <<page, dashboard, red>> BY <2>2 DEF AddGreen
    <2> QED BY <2>1, <2>2, <2>3, <2>4, AddGreenTypes, RelationsTypes DEF TypeOK
  <1>24. ASSUME NEW q \in Query, NoEntries(q) PROVE TypeInv'
    <2>1. AddGreen(q) BY <1>24 DEF NoEntries
    <2>2. UNCHANGED <<page, dashboard, red>> BY <2>1 DEF AddGreen
    <2> QED BY <1>24, <2>1, <2>2, AddGreenTypes DEF NoEntries, TypeOK, graph, clusters
  <1>7. ASSUME NEW q \in Query, Unanswered(q) PROVE TypeInv'
    <2>1. asked' \in [Query -> Nat] BY <1>7 DEF Unanswered, TypeOK
    <2> QED BY <1>7, <2>1 DEF Unanswered, TypeOK, kept, graph, clusters
  <1>8. ASSUME NEW r \in Neighbors, ProcessCommon(r) PROVE TypeInv'
    <2>1. r \in Seq(Item) BY <1>8, RelationsAreItems
    <2>2. ProcessRelations({}, r) BY <1>8 DEF ProcessCommon
    <2> QED BY <1>8, <2>1, <2>2, RelationsTypes DEF ProcessCommon, TypeOK, kept, filters
  <1>9. ASSUME NEW r \in Files, Import(r) PROVE TypeInv'
    <2>1. r \in Seq(Item) BY <1>9
    <2>2. ProcessRelations({}, r) BY <1>9 DEF Import
    <2> QED BY <1>9, <2>1, <2>2, RelationsTypes DEF Import, TypeOK, kept, filters
  <1>10. ASSUME NEW q \in Query, Disable(q) PROVE TypeInv'
    <2>1. green' \in [Query -> {"none", "on", "off", "empty"}] BY <1>10 DEF Disable, TypeOK
    <2>2. stored' \in Kept BY <1>10, <2>1, SaveType DEF Disable, TypeOK
    <2>3. flag' \in [Node -> [Query -> {"none", "on", "off"}]] BY <1>10 DEF Disable, TypeOK
    <2>4. hidden' \subseteq nodes' BY <1>10 DEF Disable, TypeOK
    <2>5. shut' \subseteq Cluster BY <1>10, ClustersAreClusters DEF Disable, TypeOK
    <2> QED BY <1>10, <2>1, <2>2, <2>3, <2>4, <2>5, TagsType DEF Disable, TypeOK
  <1>11. ASSUME NEW q \in Query, Enable(q) PROVE TypeInv'
    <2>1. green' \in [Query -> {"none", "on", "off", "empty"}] BY <1>11 DEF Enable, TypeOK
    <2>2. stored' \in Kept BY <1>11, <2>1, SaveType DEF Enable, TypeOK
    <2>3. flag' \in [Node -> [Query -> {"none", "on", "off"}]] BY <1>11 DEF Enable, TypeOK
    <2>4. hidden' \subseteq nodes' BY <1>11 DEF Enable, TypeOK
    <2>5. excluded' = {} BY <1>11, ReflaggedSame DEF Enable
    <2> QED BY <1>11, <2>1, <2>2, <2>3, <2>4, <2>5, TagsType DEF Enable, TypeOK
  <1>12. ASSUME NEW q \in Query, EnableEmpty(q) PROVE TypeInv'
    <2>1. green' \in [Query -> {"none", "on", "off", "empty"}] BY <1>12 DEF EnableEmpty, TypeOK
    <2>2. stored' \in Kept BY <1>12, <2>1, SaveType DEF EnableEmpty, TypeOK
    <2>3. asked' \in [Query -> Nat] BY <1>12, AskType DEF EnableEmpty, TypeOK
    <2> QED BY <1>12, <2>1, <2>2, <2>3, TagsType DEF EnableEmpty, TypeOK, graph, clusters
  <1>13. ASSUME NEW q \in Query, DeleteGreen(q) PROVE TypeInv'
    <2>1. green' \in [Query -> {"none", "on", "off", "empty"}] BY <1>13 DEF DeleteGreen, TypeOK
    <2>2. stored' \in Kept /\ mine' \subseteq Query
      BY <1>13, <2>1, SaveType DEF DeleteGreen, TypeOK, Mine
    <2>3. RemoveFilter(q) BY <1>13 DEF DeleteGreen
    <2> QED BY <1>13, <2>1, <2>2, <2>3, RemoveFilterTypes, TagsType DEF DeleteGreen, TypeOK
  <1>14. ASSUME NEW q \in Query, Narrow(q) PROVE TypeInv'
    <2> DEFINE left == [green EXCEPT ![charts] = "none"]
    <2>1. charts \in Query BY <1>14 DEF Narrow, TypeOK
    <2>2. left \in [Query -> {"none", "on", "off", "empty"}] BY <2>1 DEF TypeOK
    <2>3. green' \in [Query -> {"none", "on", "off", "empty"}]
      BY <1>14, <2>2, RefillType DEF Narrow
    <2>4. stored' \in Kept /\ mine' \subseteq Query
      BY <1>14, <2>2, SaveType DEF Narrow, TypeOK, Mine
    <2>5. asked' \in [Query -> Nat] BY <1>14, AskType DEF Narrow, TypeOK
    <2>6. RemoveFilter(charts) BY <1>14 DEF Narrow
    <2> QED BY <1>14, <2>1, <2>3, <2>4, <2>5, <2>6, RemoveFilterTypes, TagsType
            DEF Narrow, TypeOK
  <1>15. ASSUME NEW r \in Red, AddRed(r) \/ ToggleRed(r) \/ DeleteRed(r) PROVE TypeInv'
    <2>1. red' \in [Red -> {"none", "on", "off"}]
      BY <1>15 DEF AddRed, ToggleRed, DeleteRed, TypeOK
    <2>2. stored' \in Kept
      BY <1>15, <2>1, SaveType DEF AddRed, ToggleRed, DeleteRed, TypeOK
    <2>3. UNCHANGED <<mine, page, dashboard, asked, green, charts, nodes, edges, flag, clusters>>
      BY <1>15 DEF AddRed, ToggleRed, DeleteRed
    <2>4. UpdateTags BY <1>15 DEF AddRed, ToggleRed, DeleteRed
    <2> QED BY <1>15, <2>1, <2>2, <2>3, <2>4, RedTypes, TagsType DEF TypeOK, clusters
  <1>16. ASSUME NEW n \in Node, NEW g \in Group, GroupNodes(n, g) PROVE TypeInv'
    <2>1. inside' \in [Node -> Cluster \cup {NoCluster}]
      BY <1>16 DEF GroupNodes, TypeOK, Cluster
    <2> QED BY <1>16, <2>1, TagsType DEF GroupNodes, TypeOK, kept, filters, graph
  <1>17. ASSUME NEW c \in Cluster, OpenCluster(c) PROVE TypeInv'
    <2>1. inside' \in [Node -> Cluster \cup {NoCluster}]
      BY <1>17 DEF OpenCluster, TypeOK
    <2> QED BY <1>17, <2>1, TagsType DEF OpenCluster, TypeOK, kept, filters, graph
  <1>18. ASSUME NEW ns, NEW es, Remove(ns, es), flag' = Unflagged(ns),
                UNCHANGED <<kept, filters>>, UpdateTags
         PROVE TypeInv'
    <2>1. flag' \in [Node -> [Query -> {"none", "on", "off"}]]
      BY <1>18, UnflaggedType DEF TypeOK
    <2> QED BY <1>18, <2>1, RemoveTypes, TagsType DEF TypeOK, kept, filters
  <1>19. ASSUME NEW c \in Cluster, DeleteCluster(c) PROVE TypeInv'
    BY <1>18, <1>19 DEF DeleteCluster
  <1>20. ASSUME NEW n \in Node, DeleteNode(n) PROVE TypeInv'
    BY <1>18, <1>20 DEF DeleteNode
  <1>21. ASSUME NEW ns, NEW es, DeleteSelected(ns, es) PROVE TypeInv'
    BY <1>18, <1>21 DEF DeleteSelected
  <1>22. CASE ClearAll
    <2>1. EmptyCanvas BY <1>22 DEF ClearAll
    <2> QED BY <1>22, <2>1, EmptyCanvasTypes DEF ClearAll, TypeOK, Mine
  <1>23. CASE UNCHANGED vars
    BY <1>23 DEF vars, kept, filters, graph, clusters, TypeOK
  <1> QED
    BY <1>1, <1>2, <1>3, <1>4, <1>5, <1>6, <1>7, <1>8, <1>9, <1>10, <1>11, <1>12, <1>13,
       <1>14, <1>15, <1>16, <1>17, <1>19, <1>20, <1>21, <1>22, <1>23, <1>24 DEF Next
-----------------------------------------------------------------------------
(* The marks of nodes: NoOrphans and FlagsAgree are kept because a mark    *)
(* "on" is on a node that shows and a filter that was not filled has no    *)
(* answer to come.                                                         *)

Shown == \A n \in Node, q \in Query : flag[n][q] = "on" => n \in nodes \ hidden
EmptyUnasked == \A q \in Query : green[q] = "empty" => asked[q] = 0

\* Nothing is asked for before restore().
Fresh ==
    page = "loaded" =>
        charts = NoChart /\ \A q \in Query : green[q] = "none" /\ asked[q] = 0

MarksInv == NoOrphans /\ FlagsAgree /\ Shown /\ EmptyUnasked /\ Fresh

LEMMA InitMarks == Init => MarksInv
  BY DEF Init, MarksInv, NoOrphans, FlagsAgree, Shown, EmptyUnasked, Fresh, NoFlags, NoFlag

\* The marks stay, and so does every filter that has been filled.
LEMMA QuietMarks ==
    ASSUME MarksInv, UNCHANGED <<nodes, flag, hidden>>,
           \A q \in Query : green[q] \in {"on", "off"} => green'[q] = green[q]
    PROVE NoOrphans' /\ FlagsAgree' /\ Shown'
  BY DEF MarksInv, NoOrphans, FlagsAgree, Shown

\* No node has marks.
LEMMA EmptyCanvasMarks ==
    ASSUME EmptyCanvas PROVE NoOrphans' /\ FlagsAgree' /\ Shown'
  BY DEF EmptyCanvas, NoFlags, NoFlag, NoOrphans, FlagsAgree, Shown

\* Answers un-hide what they bring (addNode()) and mark it as enabled.
LEMMA RelationsMarks ==
    ASSUME TypeInv, MarksInv, NEW owners, NEW r \in Seq(Item), ProcessRelations(owners, r),
           \A q \in Query : green[q] # "none" => green'[q] = green[q],
           \A q \in owners : green'[q] \in {"on", "off"}
    PROVE NoOrphans' /\ FlagsAgree' /\ Shown'
  <1>1. \A n \in Node, q \in Query :
            flag'[n][q] = IF n \in Found(r) /\ q \in owners THEN "on" ELSE flag[n][q]
    BY DEF ProcessRelations
  <1>2. /\ nodes' = nodes \cup Found(r)
        /\ hidden' = hidden \ Found(r)
    BY NothingDisplayed DEF ProcessRelations
  <1>3. NoOrphans'
    BY <1>1, <1>2 DEF MarksInv, NoOrphans
  <1>4. FlagsAgree'
    BY <1>1 DEF MarksInv, FlagsAgree
  <1>5. Shown'
    BY <1>1, <1>2 DEF MarksInv, Shown
  <1> QED BY <1>3, <1>4, <1>5

\* Removing nodes removes their marks.
LEMMA RemoveMarks ==
    ASSUME TypeInv, MarksInv, NEW ns, NEW es, Remove(ns, es), flag' = Unflagged(ns),
           UNCHANGED green
    PROVE NoOrphans' /\ FlagsAgree' /\ Shown'
  <1>1. \A n \in Node, q \in Query :
            flag'[n][q] = IF n \in ns THEN "none" ELSE flag[n][q]
    BY DEF Unflagged, NoFlag
  <1>2. nodes' = nodes \ ns /\ hidden' = hidden \ ns
    BY DEF Remove
  <1> QED BY <1>1, <1>2 DEF MarksInv, NoOrphans, FlagsAgree, Shown

\* deleteGreen() removes the filter's mark from every node it leaves.
LEMMA RemoveFilterMarks ==
    ASSUME TypeInv, MarksInv, NEW p \in Query, RemoveFilter(p), green'[p] = "none",
           \A q \in Query \ {p} : green[q] \in {"on", "off"} => green'[q] = green[q]
    PROVE NoOrphans' /\ FlagsAgree' /\ Shown'
  <1>1. PICK gone : /\ Remove(gone, EdgesOf(gone))
                    /\ flag' = [n \in Node |-> IF n \in gone THEN NoFlag
                                              ELSE [flag[n] EXCEPT ![p] = "none"]]
    BY DEF RemoveFilter
  <1>2. \A n \in Node, q \in Query :
            flag'[n][q] = IF n \in gone \/ q = p THEN "none" ELSE flag[n][q]
    BY <1>1 DEF NoFlag, TypeInv, TypeOK
  <1>3. nodes' = nodes \ gone /\ hidden' = hidden \ gone
    BY <1>1 DEF Remove
  <1> QED BY <1>2, <1>3 DEF MarksInv, NoOrphans, FlagsAgree, Shown

LEMMA RefillAt ==
    ASSUME NEW g \in [Query -> {"none", "on", "off", "empty"}], NEW q \in Query
    PROVE \A p \in Query :
            Refill(g, q)[p] = IF p = q /\ g[p] = "empty" THEN "off" ELSE g[p]
  BY DEF Refill

LEMMA MarksStep == ASSUME TypeInv, MarksInv, [Next]_vars PROVE MarksInv'
  <1> USE FiltersAssumption DEF TypeInv
  <1>1. CASE Load
    <2>1. EmptyCanvas BY <1>1 DEF Load
    <2>2. NoOrphans' /\ FlagsAgree' /\ Shown' BY <2>1, EmptyCanvasMarks
    <2> QED BY <1>1, <2>2 DEF Load, MarksInv, EmptyUnasked, Fresh
  <1>2. CASE Restore
    <2>1. FILTERS \in Kept BY DEF FILTERS, TypeOK
    <2>2. \A q \in Query : green[q] = "none" BY <1>2 DEF Restore, MarksInv, Fresh
    <2>3. NoOrphans' /\ FlagsAgree' /\ Shown' BY <1>2, <2>2, QuietMarks DEF Restore, graph
    <2>4. EmptyUnasked' BY <1>2, <2>1 DEF Restore, EmptyUnasked, Kept
    <2>5. Fresh' BY <1>2 DEF Restore, Fresh
    <2> QED BY <2>3, <2>4, <2>5 DEF MarksInv
  <1>3. CASE SkipRestore
    BY <1>3, QuietMarks DEF SkipRestore, filters, graph, MarksInv, EmptyUnasked, Fresh
  <1>4. ASSUME NEW q \in Query, Run(q) PROVE MarksInv'
    <2>1. NoOrphans' /\ FlagsAgree' /\ Shown' BY <1>4, QuietMarks DEF Run, graph
    <2>2. EmptyUnasked' BY <1>4 DEF Run, Ask, MarksInv, EmptyUnasked, TypeOK
    <2>3. Fresh' BY <1>4 DEF Run, kept, Fresh
    <2> QED BY <2>1, <2>2, <2>3 DEF MarksInv
  <1>5. ASSUME NEW q \in Query, Expand(q) PROVE MarksInv'
    <2>1. \A p \in Query :
            green'[p] = IF p = q /\ green[p] = "empty" THEN "off" ELSE green[p]
      BY <1>5, RefillAt DEF Expand, TypeOK
    <2>2. NoOrphans' /\ FlagsAgree' /\ Shown' BY <1>5, <2>1, QuietMarks DEF Expand, graph
    <2>3. EmptyUnasked'
      BY <1>5, <2>1 DEF Expand, Ask, MarksInv, EmptyUnasked, TypeOK
    <2>4. Fresh' BY <1>5 DEF Expand, kept, Fresh
    <2> QED BY <2>2, <2>3, <2>4 DEF MarksInv
  <1>6. ASSUME NEW q \in Query, AddGreen(q)
        PROVE /\ \A p \in Query : green[p] # "none" => green'[p] = green[p]
              /\ green'[q] \in {"on", "off"} /\ EmptyUnasked' /\ Fresh'
    <2>1. green[q] # "empty" BY <1>6 DEF AddGreen, MarksInv, EmptyUnasked, TypeOK
    <2>2. \A p \in Query : green[p] # "none" => green'[p] = green[p]
      BY <1>6 DEF AddGreen, TypeOK
    <2>3. green'[q] \in {"on", "off"} BY <1>6, <2>1 DEF AddGreen, TypeOK
    <2>4. EmptyUnasked' BY <1>6, <2>1 DEF AddGreen, MarksInv, EmptyUnasked, TypeOK
    <2>5. page # "loaded" BY <1>6 DEF AddGreen, MarksInv, Fresh
    <2>6. Fresh' BY <1>6, <2>5 DEF AddGreen, Fresh
    <2> QED BY <2>2, <2>3, <2>4, <2>6
  <1>26. ASSUME NEW q \in Query, NEW r \in Answers[q], Answer(q, r) PROVE MarksInv'
    <2>1. r \in Seq(Item) BY <1>26, RelationsAreItems
    <2>2. ProcessRelations({q}, r) /\ AddGreen(q) BY <1>26 DEF Answer
    <2>3. NoOrphans' /\ FlagsAgree' /\ Shown' BY <1>6, <2>1, <2>2, RelationsMarks
    <2> QED BY <1>6, <2>2, <2>3 DEF MarksInv
  <1>27. ASSUME NEW q \in Query, NoEntries(q) PROVE MarksInv'
    <2>1. AddGreen(q) BY <1>27 DEF NoEntries
    <2>2. NoOrphans' /\ FlagsAgree' /\ Shown'
      BY <1>6, <1>27, <2>1, QuietMarks DEF NoEntries, graph
    <2> QED BY <1>6, <2>1, <2>2 DEF MarksInv
  <1>7. ASSUME NEW q \in Query, Unanswered(q) PROVE MarksInv'
    <2>1. NoOrphans' /\ FlagsAgree' /\ Shown' BY <1>7, QuietMarks DEF Unanswered, graph
    <2>2. EmptyUnasked' BY <1>7 DEF Unanswered, MarksInv, EmptyUnasked, TypeOK
    <2>3. Fresh' BY <1>7 DEF Unanswered, kept, MarksInv, Fresh, TypeOK
    <2> QED BY <2>1, <2>2, <2>3 DEF MarksInv
  <1>8. ASSUME NEW r \in Seq(Item), ProcessRelations({}, r), UNCHANGED <<kept, filters>>
        PROVE MarksInv'
    <2>1. NoOrphans' /\ FlagsAgree' /\ Shown' BY <1>8, RelationsMarks DEF filters
    <2> QED BY <1>8, <2>1 DEF MarksInv, EmptyUnasked, Fresh, kept, filters
  <1>9. ASSUME NEW r \in Neighbors, ProcessCommon(r) PROVE MarksInv'
    BY <1>8, <1>9, RelationsAreItems DEF ProcessCommon
  <1>10. ASSUME NEW r \in Files, Import(r) PROVE MarksInv'
    BY <1>8, <1>10 DEF Import
  <1>11. ASSUME NEW q \in Query, Disable(q) PROVE MarksInv'
    <2>1. \A n \in Node, p \in Query :
            flag'[n][p] = IF n \in nodes /\ flag[n][q] = "on" /\ p = q THEN "off" ELSE flag[n][p]
      BY <1>11 DEF Disable, TypeOK
    <2>2. hidden' = hidden \cup {n \in nodes : flag[n][q] = "on" /\ ~HasEnabled(flag'[n])}
      BY <1>11 DEF Disable
    <2>3. green' = [green EXCEPT ![q] = "off"] /\ nodes' = nodes BY <1>11 DEF Disable
    <2>4. NoOrphans' BY <2>1, <2>3 DEF MarksInv, NoOrphans, TypeOK
    <2>5. FlagsAgree' BY <2>1, <2>3 DEF MarksInv, FlagsAgree, TypeOK
    <2>6. Shown' BY <2>1, <2>2, <2>3 DEF MarksInv, Shown, NoOrphans, HasEnabled
    <2>7. EmptyUnasked' BY <1>11 DEF Disable, MarksInv, EmptyUnasked, TypeOK
    <2>8. Fresh' BY <1>11 DEF Disable, MarksInv, Fresh
    <2> QED BY <2>4, <2>5, <2>6, <2>7, <2>8 DEF MarksInv
  <1>12. ASSUME NEW q \in Query, Enable(q) PROVE MarksInv'
    <2>1. \A n \in Node, p \in Query :
            flag'[n][p] = IF n \in nodes /\ flag[n][q] = "off" /\ p = q THEN "on" ELSE flag[n][p]
      BY <1>12 DEF Enable, TypeOK
    <2>2. hidden' = hidden \ {n \in nodes : flag[n][q] = "off"}
      BY <1>12, NothingDisplayed DEF Enable
    <2>3. green' = [green EXCEPT ![q] = "on"] /\ nodes' = nodes BY <1>12 DEF Enable
    <2>4. NoOrphans' BY <2>1, <2>3 DEF MarksInv, NoOrphans, TypeOK
    <2>5. FlagsAgree' BY <2>1, <2>3 DEF MarksInv, FlagsAgree, NoOrphans, TypeOK
    <2>6. Shown' BY <2>1, <2>2, <2>3 DEF MarksInv, Shown
    <2>7. EmptyUnasked' BY <1>12 DEF Enable, MarksInv, EmptyUnasked, TypeOK
    <2>8. Fresh' BY <1>12 DEF Enable, MarksInv, Fresh
    <2> QED BY <2>4, <2>5, <2>6, <2>7, <2>8 DEF MarksInv
  <1>13. ASSUME NEW q \in Query, EnableEmpty(q) PROVE MarksInv'
    <2>1. \A p \in Query : green[p] \in {"on", "off"} => green'[p] = green[p]
      BY <1>13 DEF EnableEmpty, TypeOK
    <2>2. NoOrphans' /\ FlagsAgree' /\ Shown' BY <1>13, <2>1, QuietMarks DEF EnableEmpty, graph
    <2>3. EmptyUnasked' BY <1>13 DEF EnableEmpty, Ask, MarksInv, EmptyUnasked, TypeOK
    <2>4. Fresh' BY <1>13 DEF EnableEmpty, MarksInv, Fresh
    <2> QED BY <2>2, <2>3, <2>4 DEF MarksInv
  <1>14. ASSUME NEW q \in Query, DeleteGreen(q) PROVE MarksInv'
    <2>1. RemoveFilter(q) /\ green' = [green EXCEPT ![q] = "none"] BY <1>14 DEF DeleteGreen
    <2>2. NoOrphans' /\ FlagsAgree' /\ Shown' BY <2>1, RemoveFilterMarks DEF TypeOK
    <2>3. EmptyUnasked' BY <1>14 DEF DeleteGreen, MarksInv, EmptyUnasked, TypeOK
    <2>4. Fresh' BY <1>14 DEF DeleteGreen, MarksInv, Fresh
    <2> QED BY <2>2, <2>3, <2>4 DEF MarksInv
  <1>15. ASSUME NEW q \in Query, Narrow(q) PROVE MarksInv'
    <2> DEFINE left == [green EXCEPT ![charts] = "none"]
    <2>1. charts \in Query /\ RemoveFilter(charts) BY <1>15 DEF Narrow, TypeOK
    <2>2. left \in [Query -> {"none", "on", "off", "empty"}] BY <2>1 DEF TypeOK
    <2>3. \A p \in Query :
            green'[p] = IF p = q /\ left[p] = "empty" THEN "off" ELSE left[p]
      BY <1>15, <2>2, RefillAt DEF Narrow
    <2>4. NoOrphans' /\ FlagsAgree' /\ Shown'
      <3>1. green'[charts] = "none" BY <2>1, <2>3 DEF TypeOK
      <3>2. \A p \in Query \ {charts} : green[p] \in {"on", "off"} => green'[p] = green[p]
        BY <2>1, <2>3 DEF TypeOK
      <3> QED BY <2>1, <3>1, <3>2, RemoveFilterMarks
    <2>5. EmptyUnasked'
      BY <1>15, <2>1, <2>3 DEF Narrow, Ask, MarksInv, EmptyUnasked, TypeOK
    <2>6. Fresh' BY <1>15 DEF Narrow, MarksInv, Fresh
    <2> QED BY <2>4, <2>5, <2>6 DEF MarksInv
  <1>16. ASSUME NEW r \in Red, AddRed(r) \/ ToggleRed(r) \/ DeleteRed(r) PROVE MarksInv'
    <2>1. UNCHANGED <<page, asked, green, charts, nodes, flag>>
      BY <1>16 DEF AddRed, ToggleRed, DeleteRed
    <2>2. NoOrphans' /\ FlagsAgree' /\ Shown' BY <1>16, <2>1, RedTypes, QuietMarks
    <2> QED BY <2>1, <2>2 DEF MarksInv, EmptyUnasked, Fresh
  <1>17. ASSUME UNCHANGED <<kept, filters, graph>> PROVE MarksInv'
    BY <1>17, QuietMarks DEF kept, filters, graph, MarksInv, EmptyUnasked, Fresh
  <1>18. ASSUME NEW n \in Node, NEW g \in Group, GroupNodes(n, g) PROVE MarksInv'
    BY <1>17, <1>18 DEF GroupNodes
  <1>19. ASSUME NEW c \in Cluster, OpenCluster(c) PROVE MarksInv'
    BY <1>17, <1>19 DEF OpenCluster
  <1>20. ASSUME NEW ns, NEW es, Remove(ns, es), flag' = Unflagged(ns), UNCHANGED <<kept, filters>>
         PROVE MarksInv'
    <2>1. NoOrphans' /\ FlagsAgree' /\ Shown' BY <1>20, RemoveMarks DEF filters
    <2> QED BY <1>20, <2>1 DEF MarksInv, EmptyUnasked, Fresh, kept, filters
  <1>21. ASSUME NEW c \in Cluster, DeleteCluster(c) PROVE MarksInv'
    BY <1>20, <1>21 DEF DeleteCluster
  <1>22. ASSUME NEW n \in Node, DeleteNode(n) PROVE MarksInv'
    BY <1>20, <1>22 DEF DeleteNode
  <1>23. ASSUME NEW ns, NEW es, DeleteSelected(ns, es) PROVE MarksInv'
    BY <1>20, <1>23 DEF DeleteSelected
  <1>24. CASE ClearAll
    <2>1. EmptyCanvas BY <1>24 DEF ClearAll
    <2>2. NoOrphans' /\ FlagsAgree' /\ Shown' BY <2>1, EmptyCanvasMarks
    <2> QED BY <1>24, <2>2 DEF ClearAll, MarksInv, EmptyUnasked, Fresh
  <1>25. CASE UNCHANGED vars
    BY <1>17, <1>25 DEF vars
  <1> QED
    BY <1>1, <1>2, <1>3, <1>4, <1>5, <1>7, <1>9, <1>10, <1>11, <1>12, <1>13, <1>14,
       <1>15, <1>16, <1>18, <1>19, <1>21, <1>22, <1>23, <1>24, <1>25, <1>26, <1>27 DEF Next
-----------------------------------------------------------------------------
(* Clusters and tags.                                                      *)

\* What vis-network leaves clustered is clustered with another node.
LEMMA SettledHolds ==
    ASSUME NEW in \in [Node -> Cluster \cup {NoCluster}], NEW ns \in SUBSET Node,
           \A n \in Node : in[n] # NoCluster => n \in ns
    PROVE \A n \in Node : Settled(in)[n] # NoCluster =>
            n \in ns /\ \E m \in ns \ {n} : Settled(in)[m] = Settled(in)[n]
  <1> SUFFICES ASSUME NEW n \in Node, Settled(in)[n] # NoCluster
               PROVE n \in ns /\ \E m \in ns \ {n} : Settled(in)[m] = Settled(in)[n]
    OBVIOUS
  <1>1. Settled(in)[n] = in[n] /\ \E m \in Node \ {n} : in[m] = in[n]
    BY DEF Settled
  <1>2. PICK m \in Node \ {n} : in[m] = in[n]
    BY <1>1
  <1>3. Settled(in)[m] = in[m]
    BY <1>2 DEF Settled
  <1> QED BY <1>1, <1>2, <1>3

LEMMA RemoveClusters ==
    ASSUME TypeInv, ClustersHold, NEW ns, NEW es, Remove(ns, es) PROVE ClustersHold'
  <1> DEFINE in == [n \in Node |-> IF n \in ns THEN NoCluster ELSE inside[n]]
  <1>1. in \in [Node -> Cluster \cup {NoCluster}] BY DEF TypeInv, TypeOK
  <1>2. nodes' = nodes \ ns /\ inside' = Settled(in) BY DEF Remove
  <1>3. nodes' \in SUBSET Node BY <1>2 DEF TypeInv, TypeOK
  <1>4. \A n \in Node : in[n] # NoCluster => n \in nodes' BY <1>2 DEF ClustersHold
  <1>5. \A n \in Node : Settled(in)[n] # NoCluster =>
            n \in nodes' /\ \E m \in nodes' \ {n} : Settled(in)[m] = Settled(in)[n]
    <2> HIDE DEF in
    <2> QED BY <1>1, <1>3, <1>4, SettledHolds
  <1> HIDE DEF in
  <1> QED BY <1>2, <1>5 DEF ClustersHold

LEMMA EmptyCanvasClusters == ASSUME EmptyCanvas PROVE ClustersHold'
  BY DEF EmptyCanvas, ClustersHold

\* No node leaves and none changes its cluster.
LEMMA QuietClusters ==
    ASSUME ClustersHold, nodes \subseteq nodes', UNCHANGED inside PROVE ClustersHold'
  BY DEF ClustersHold

\* A set with more than one element has another one.
LEMMA Another ==
    ASSUME NEW S, IsFiniteSet(S), Cardinality(S) > 1, NEW x \in S PROVE \E y \in S : y # x
  <1> SUFFICES ASSUME \A y \in S : y = x PROVE FALSE
    OBVIOUS
  <1>1. S = {x} OBVIOUS
  <1>2. Cardinality(S) = 1 BY <1>1, FS_Singleton
  <1> QED BY <1>2

LEMMA GroupClusters ==
    ASSUME TypeInv, ClustersHold, NEW x \in Node, NEW g \in Group, GroupNodes(x, g)
    PROVE ClustersHold'
  <1> DEFINE free == {m \in Neighbours(x, g) : inside[m] = NoCluster}
  <1>1. /\ Cardinality(free) > 1 /\ nodes' = nodes
        /\ inside' = [m \in Node |-> IF m \in free THEN <<x, g>> ELSE inside[m]]
    BY DEF GroupNodes, graph
  <1>2. free \subseteq nodes BY DEF Neighbours
  <1>3. IsFiniteSet(free)
    BY <1>2, FS_Subset, FiltersAssumption DEF TypeInv, TypeOK
  <1> SUFFICES ASSUME NEW n \in Node, inside'[n] # NoCluster
               PROVE n \in nodes /\ \E m \in nodes \ {n} : inside'[m] = inside'[n]
    BY <1>1 DEF ClustersHold
  <1>4. CASE n \in free
    <2> HIDE DEF free
    <2>1. PICK m \in free : m # n BY <1>1, <1>3, <1>4, Another
    <2>2. m \in Node BY <1>2, <2>1 DEF TypeInv, TypeOK
    <2> QED BY <1>1, <1>2, <1>4, <2>1, <2>2
  <1>5. CASE n \notin free
    <2>1. inside[n] # NoCluster /\ inside'[n] = inside[n] BY <1>1, <1>5
    <2>2. PICK m \in nodes \ {n} : inside[m] = inside[n] BY <2>1 DEF ClustersHold
    <2>3. m \in Node /\ m \notin free BY <2>1, <2>2 DEF TypeInv, TypeOK
    <2> HIDE DEF free
    <2>4. inside'[m] = inside[m] BY <1>1, <2>3
    <2> QED BY <2>1, <2>2, <2>4 DEF ClustersHold
  <1> QED BY <1>4, <1>5

LEMMA OpenClusters ==
    ASSUME TypeInv, ClustersHold, NEW c \in Cluster, OpenCluster(c) PROVE ClustersHold'
  <1>1. /\ nodes' = nodes
        /\ inside' = [n \in Node |-> IF inside[n] = c THEN NoCluster ELSE inside[n]]
    BY DEF OpenCluster, graph
  <1> SUFFICES ASSUME NEW n \in Node, inside'[n] # NoCluster
               PROVE n \in nodes /\ \E m \in nodes \ {n} : inside'[m] = inside'[n]
    BY <1>1 DEF ClustersHold
  <1>2. inside'[n] = inside[n] /\ inside[n] # c BY <1>1
  <1>3. PICK m \in nodes \ {n} : inside[m] = inside[n] BY <1>2 DEF ClustersHold
  <1>4. m \in Node BY DEF TypeInv, TypeOK
  <1> QED BY <1>1, <1>2, <1>3, <1>4 DEF ClustersHold

LEMMA ClustersStep == ASSUME TypeInv, ClustersHold, [Next]_vars PROVE ClustersHold'
  <1>1. CASE Load \/ ClearAll
    BY <1>1, EmptyCanvasClusters DEF Load, ClearAll
  <1>2. ASSUME UNCHANGED <<graph, clusters>> PROVE ClustersHold'
    BY <1>2, QuietClusters DEF graph, clusters
  <1>3. CASE Restore \/ SkipRestore
    BY <1>2, <1>3 DEF Restore, SkipRestore
  <1>4. ASSUME NEW q \in Query, Run(q) \/ Expand(q) \/ NoEntries(q) \/ Unanswered(q) \/ EnableEmpty(q)
        PROVE ClustersHold'
    BY <1>2, <1>4 DEF Run, Expand, NoEntries, Unanswered, EnableEmpty
  <1>5. ASSUME NEW owners, NEW r, ProcessRelations(owners, r) PROVE ClustersHold'
    BY <1>5, QuietClusters DEF ProcessRelations, clusters
  <1>6. ASSUME NEW q \in Query, NEW r, Answer(q, r) PROVE ClustersHold'
    BY <1>5, <1>6 DEF Answer
  <1>7. ASSUME NEW r, ProcessCommon(r) \/ Import(r) PROVE ClustersHold'
    BY <1>5, <1>7 DEF ProcessCommon, Import
  <1>8. ASSUME NEW q \in Query, Disable(q) \/ Enable(q) PROVE ClustersHold'
    BY <1>8, QuietClusters DEF Disable, Enable
  <1>9. ASSUME NEW q, RemoveFilter(q) PROVE ClustersHold'
    BY <1>9, RemoveClusters DEF RemoveFilter
  <1>10. ASSUME NEW q \in Query, DeleteGreen(q) \/ Narrow(q) PROVE ClustersHold'
    BY <1>9, <1>10 DEF DeleteGreen, Narrow
  <1>11. ASSUME NEW r \in Red, AddRed(r) \/ ToggleRed(r) \/ DeleteRed(r) PROVE ClustersHold'
    BY <1>11, QuietClusters DEF AddRed, ToggleRed, DeleteRed, clusters
  <1>12. ASSUME NEW n \in Node, NEW g \in Group, GroupNodes(n, g) PROVE ClustersHold'
    BY <1>12, GroupClusters
  <1>13. ASSUME NEW c \in Cluster, OpenCluster(c) PROVE ClustersHold'
    BY <1>13, OpenClusters
  <1>14. ASSUME NEW c \in Cluster, DeleteCluster(c) PROVE ClustersHold'
    BY <1>14, RemoveClusters DEF DeleteCluster
  <1>15. ASSUME NEW n \in Node, DeleteNode(n) PROVE ClustersHold'
    BY <1>15, RemoveClusters DEF DeleteNode
  <1>16. ASSUME NEW ns, NEW es, DeleteSelected(ns, es) PROVE ClustersHold'
    BY <1>16, RemoveClusters DEF DeleteSelected
  <1>17. CASE UNCHANGED vars
    BY <1>2, <1>17 DEF vars
  <1> QED
    BY <1>1, <1>3, <1>4, <1>6, <1>7, <1>8, <1>10, <1>11, <1>12, <1>13, <1>14, <1>15, <1>16,
       <1>17 DEF Next

\* Each operation that changes what the tags count updates them, or throws.
LEMMA TagsStep == ASSUME TagsAreCurrent, [Next]_vars PROVE TagsAreCurrent'
  <1>1. ASSUME UpdateTags PROVE TagsAreCurrent'
    BY <1>1 DEF UpdateTags, TagsAreCurrent
  <1>2. ASSUME EmptyCanvas PROVE TagsAreCurrent'
    BY <1>2 DEF EmptyCanvas, TagsAreCurrent, Counted, Clusters
  <1>3. ASSUME UNCHANGED <<graph, clusters, tags, cut>> PROVE TagsAreCurrent'
    BY <1>3 DEF graph, clusters, TagsAreCurrent
  <1>4. ASSUME NEW owners, NEW r, ProcessRelations(owners, r) PROVE TagsAreCurrent'
    BY <1>1, <1>4 DEF ProcessRelations, TagsAreCurrent
  <1>5. CASE Load \/ ClearAll
    BY <1>2, <1>5 DEF Load, ClearAll
  <1>6. CASE Restore \/ SkipRestore
    BY <1>3, <1>6 DEF Restore, SkipRestore
  <1>7. ASSUME NEW q \in Query, Run(q) \/ Expand(q) \/ NoEntries(q) \/ Unanswered(q)
        PROVE TagsAreCurrent'
    BY <1>3, <1>7 DEF Run, Expand, NoEntries, Unanswered
  <1>8. ASSUME NEW q \in Query, NEW r, Answer(q, r) PROVE TagsAreCurrent'
    BY <1>4, <1>8 DEF Answer
  <1>9. ASSUME NEW r, ProcessCommon(r) \/ Import(r) PROVE TagsAreCurrent'
    BY <1>4, <1>9 DEF ProcessCommon, Import
  <1>10. ASSUME NEW q \in Query, \/ Disable(q) \/ Enable(q) \/ EnableEmpty(q)
                                \/ DeleteGreen(q) \/ Narrow(q)
         PROVE TagsAreCurrent'
    BY <1>1, <1>10 DEF Disable, Enable, EnableEmpty, DeleteGreen, Narrow
  <1>11. ASSUME NEW r \in Red, AddRed(r) \/ ToggleRed(r) \/ DeleteRed(r)
         PROVE TagsAreCurrent'
    BY <1>1, <1>11 DEF AddRed, ToggleRed, DeleteRed
  <1>12. ASSUME NEW n \in Node, NEW g \in Group, GroupNodes(n, g) PROVE TagsAreCurrent'
    BY <1>1, <1>12 DEF GroupNodes
  <1>13. ASSUME NEW c \in Cluster, OpenCluster(c) \/ DeleteCluster(c) PROVE TagsAreCurrent'
    BY <1>1, <1>13 DEF OpenCluster, DeleteCluster
  <1>14. ASSUME NEW n \in Node, DeleteNode(n) PROVE TagsAreCurrent'
    BY <1>1, <1>14 DEF DeleteNode
  <1>15. ASSUME NEW ns, NEW es, DeleteSelected(ns, es) PROVE TagsAreCurrent'
    BY <1>1, <1>15 DEF DeleteSelected
  <1>16. CASE UNCHANGED vars
    BY <1>3, <1>16 DEF vars
  <1> QED
    BY <1>5, <1>6, <1>7, <1>8, <1>9, <1>10, <1>11, <1>12, <1>13, <1>14, <1>15, <1>16 DEF Next
-----------------------------------------------------------------------------
(* The theorems.                                                           *)

IInv == TypeInv /\ MarksInv /\ ClustersHold /\ TagsAreCurrent

LEMMA Invariance == Spec => []IInv
  <1>1. Init => IInv
    <2>1. Init => ClustersHold BY DEF Init, ClustersHold
    <2>2. Init => TagsAreCurrent BY DEF Init, TagsAreCurrent, Counted, Clusters
    <2> QED BY <2>1, <2>2, InitTypes, InitMarks DEF IInv
  <1>2. IInv /\ [Next]_vars => IInv'
    BY TypeStep, MarksStep, ClustersStep, TagsStep DEF IInv
  <1> QED BY <1>1, <1>2, PTL DEF Spec

\* Every variable of the page keeps its type, and what save() writes to the
\* database is a record of filters.
THEOREM TypeCorrect == Spec => []TypeOK
  <1>1. IInv => TypeOK BY DEF IInv, TypeInv
  <1> QED BY <1>1, Invariance, PTL

\* A node is flagged with a filter only while both exist, whatever order
\* answers, deletions and searches come in.
THEOREM FlagsHaveFilters == Spec => []NoOrphans
  <1>1. IInv => NoOrphans BY DEF IInv, MarksInv
  <1> QED BY <1>1, Invariance, PTL

\* The nodes of an enabled filter are enabled, hideGreenNodes() and
\* showGreenNodes() having left none behind.
THEOREM FlagsFollowFilters == Spec => []FlagsAgree
  <1>1. IInv => FlagsAgree BY DEF IInv, MarksInv
  <1> QED BY <1>1, Invariance, PTL

\* Clusters hold nodes that exist, two at least.
THEOREM ClustersHoldNodes == Spec => []ClustersHold
  <1>1. IInv => ClustersHold BY DEF IInv
  <1> QED BY <1>1, Invariance, PTL

\* Every operation leaves the tags counting what is on the canvas.
THEOREM TagsFollowGraph == Spec => []TagsAreCurrent
  <1>1. IInv => TagsAreCurrent BY DEF IInv
  <1> QED BY <1>1, Invariance, PTL

\* What a file of export() holds, when no cluster is on the canvas, is what is
\* not hidden, for every graph.
THEOREM ExportIsComplete == Spec => []ExportHoldsTheVisible
  <1>1. TypeInv => ExportHoldsTheVisible
    <2> SUFFICES ASSUME TypeInv
                 PROVE (UNION {{x[1], x[2]} : x \in Exported}) \ {NoNode} = nodes \ hidden
      BY DEF ExportHoldsTheVisible
    <2> DEFINE ends == (UNION {{x[1], x[2]} : x \in Exported}) \ {NoNode}
    <2>1. ASSUME NEW n \in ends PROVE n \in nodes \ hidden
      <3>1. PICK x \in Exported : n \in {x[1], x[2]} /\ n # NoNode BY <2>1
      <3>2. x \in Drawn /\ {x[1], x[2]} \cap hidden = {} => n \in nodes \ hidden
        BY <3>1 DEF Drawn
      <3>3. \A m \in nodes \ hidden :
                x = <<m, NoNode>> \/ x = <<NoNode, m>> => n \in nodes \ hidden
        BY <3>1
      <3> QED BY <3>1, <3>2, <3>3 DEF Exported
    <2>2. ASSUME NEW n \in nodes \ hidden PROVE n \in ends
      <3>1. n # NoNode BY <2>2, FiltersAssumption DEF TypeInv, TypeOK
      <3> SUFFICES \E x \in Exported : n \in {x[1], x[2]} BY <3>1
      <3>2. CASE Linked(n)
        BY <3>2 DEF Linked, EdgesOf, Exported
      <3>3. CASE ~Linked(n) /\ EdgesOf({n}) = {}
        <4>1. <<n, NoNode>> \in Exported BY <2>2, <3>3 DEF Exported
        <4> QED BY <4>1
      <3>4. CASE ~Linked(n) /\ EdgesOf({n}) # {}
        <4>1. PICK e \in Drawn : e[1] = n \/ e[2] = n BY <3>4 DEF EdgesOf
        <4>2. <<n, NoNode>> \in Exported \/ <<NoNode, n>> \in Exported
          BY <2>2, <3>4, <4>1 DEF Exported
        <4> QED BY <4>2
      <3> QED BY <3>2, <3>3, <3>4
    <2> HIDE DEF ends
    <2>3. ends = nodes \ hidden BY <2>1, <2>2
    <2> QED BY <2>3 DEF ends
  <1>2. IInv => ExportHoldsTheVisible BY <1>1 DEF IInv
  <1> QED BY <1>2, Invariance, PTL
-----------------------------------------------------------------------------
(* Refinement: a node on the screen and the enabled filters that found it. *)

shown == nodes \ hidden
support == {x \in Node \X Query : flag[x[1]][x[2]] = "on"}

LEMMA ViewUnchanged ==
    ASSUME UNCHANGED <<nodes, hidden, flag>> PROVE UNCHANGED View!vars
  BY DEF View!vars

\* An empty canvas: the user removed everything.
LEMMA ViewEmptied == ASSUME TypeInv, MarksInv, EmptyCanvas PROVE View!Next
  <1>1. shown' = {} /\ support' = {}
    BY DEF EmptyCanvas, shown, support, NoFlags, NoFlag
  <1>2. support \subseteq shown \X Query
    BY DEF shown, support, MarksInv, Shown
  <1>3. \E ns \in SUBSET shown :
            shown' = shown \ ns /\ support' = support \ (ns \X Query)
    BY <1>1, <1>2
  <1> QED BY <1>3 DEF View!Next, View!Remove, shown, support

\* What processRelations() draws, and which filter it marks it for.
LEMMA ViewRelations ==
    ASSUME TypeInv, NEW owners \in SUBSET Query, NEW r \in Seq(Item), ProcessRelations(owners, r)
    PROVE /\ shown' = shown \cup Found(r)
          /\ support' = support \cup (Found(r) \X owners)
  <1>1. /\ nodes' = nodes \cup Found(r)
        /\ hidden' = hidden \ Found(r)
    BY NothingDisplayed DEF ProcessRelations
  <1>2. \A n \in Node, q \in Query :
            flag'[n][q] = IF n \in Found(r) /\ q \in owners THEN "on" ELSE flag[n][q]
    BY DEF ProcessRelations
  <1>3. shown' = shown \cup Found(r) BY <1>1 DEF shown, TypeInv, TypeOK
  <1>4. support' = support \cup (Found(r) \X owners)
    BY <1>2, FoundAreNodes DEF support
  <1> QED BY <1>3, <1>4

LEMMA ViewRemoved ==
    ASSUME TypeInv, MarksInv, NEW ns, NEW es, Remove(ns, es), flag' = Unflagged(ns)
    PROVE View!Next
  <1> DEFINE gone == ns \cap shown
  <1>1. shown' = shown \ gone BY DEF Remove, shown
  <1>2. \A n \in Node, q \in Query :
            flag'[n][q] = IF n \in ns THEN "none" ELSE flag[n][q]
    BY DEF Unflagged, NoFlag
  <1>3. support' = support \ (gone \X Query)
    BY <1>2 DEF support, shown, MarksInv, Shown
  <1>4. \E gs \in SUBSET shown :
            shown' = shown \ gs /\ support' = support \ (gs \X Query)
    <2>1. gone \in SUBSET shown OBVIOUS
    <2> HIDE DEF gone
    <2> QED BY <1>1, <1>3, <2>1
  <1> QED BY <1>4 DEF View!Next, View!Remove, shown, support

\* A filter's marks go, and the nodes that have no other mark "on".
LEMMA ViewWithdrawn ==
    ASSUME NEW q \in Query, shown' \subseteq shown,
           \A n \in Node, p \in Query : flag'[n][p] = "on" <=> p # q /\ flag[n][p] = "on",
           \A n \in shown : n \in Node,
           \A n \in shown : HasEnabled(flag'[n]) => n \in shown',
           \A n \in shown : HasEnabled(flag[n]) /\ ~HasEnabled(flag'[n]) => n \notin shown'
    PROVE View!Next
  <1>1. support' = support \ (Node \X {q}) BY DEF support
  <1>2. \A n \in Node : View!Supported(n) <=> HasEnabled(flag[n])
    BY DEF View!Supported, HasEnabled
  <1>3. \A n \in Node : View!Supported(n)' <=> HasEnabled(flag'[n])
    BY DEF View!Supported, HasEnabled
  <1>4. View!Withdraw(q)
    BY <1>1, <1>2, <1>3 DEF View!Withdraw, shown, support
  <1> QED BY <1>4 DEF View!Next

LEMMA ViewFilterRemoved ==
    ASSUME TypeInv, MarksInv, NEW q \in Query, RemoveFilter(q) PROVE View!Next
  <1> DEFINE gone == {n \in nodes : /\ flag[n][q] # "none"
                                    /\ ~HasEnabled([flag[n] EXCEPT ![q] = "none"])}
  <1>1. /\ Remove(gone, EdgesOf(gone))
        /\ flag' = [n \in Node |-> IF n \in gone THEN NoFlag
                                   ELSE [flag[n] EXCEPT ![q] = "none"]]
    BY DEF RemoveFilter
  <1>2. \A n \in gone, p \in Query : p # q => flag[n][p] # "on"
    BY DEF HasEnabled, TypeInv, TypeOK
  <1>3. \A n \in nodes : flag[n][q] # "none" /\ n \notin gone =>
            \E p \in Query \ {q} : flag[n][p] = "on"
    BY DEF HasEnabled, TypeInv, TypeOK
  <1> HIDE DEF gone
  <1>4. \A n \in Node, p \in Query :
            flag'[n][p] = IF n \in gone \/ p = q THEN "none" ELSE flag[n][p]
    BY <1>1 DEF NoFlag, TypeInv, TypeOK
  <1>5. shown' = shown \ gone BY <1>1 DEF Remove, shown
  <1>6. \A n \in shown : n \in nodes /\ n \in Node BY DEF shown, TypeInv, TypeOK
  <1>7. \A n \in Node, p \in Query : flag'[n][p] = "on" <=> p # q /\ flag[n][p] = "on"
    BY <1>2, <1>4
  <1>8. \A n \in shown : HasEnabled(flag'[n]) => n \in shown'
    BY <1>4, <1>5, <1>6 DEF HasEnabled
  <1>9. \A n \in shown : HasEnabled(flag[n]) /\ ~HasEnabled(flag'[n]) => n \notin shown'
    <2> SUFFICES ASSUME NEW n \in shown, HasEnabled(flag[n]), ~HasEnabled(flag'[n])
                 PROVE n \in gone
      BY <1>5
    <2>1. flag[n][q] = "on" BY <1>6, <1>7 DEF HasEnabled
    <2> QED BY <1>3, <1>6, <1>7, <2>1 DEF HasEnabled
  <1> QED BY <1>5, <1>6, <1>7, <1>8, <1>9, ViewWithdrawn

LEMMA ViewDisabled ==
    ASSUME TypeInv, MarksInv, NEW q \in Query, Disable(q) PROVE View!Next
  <1>1. \A n \in Node, p \in Query :
            flag'[n][p] = IF n \in nodes /\ flag[n][q] = "on" /\ p = q THEN "off" ELSE flag[n][p]
    BY DEF Disable, TypeInv, TypeOK
  <1>2. /\ hidden' = hidden \cup {n \in nodes : flag[n][q] = "on" /\ ~HasEnabled(flag'[n])}
        /\ nodes' = nodes
    BY DEF Disable
  <1>3. shown' = shown \ {n \in nodes : flag[n][q] = "on" /\ ~HasEnabled(flag'[n])}
    BY <1>2 DEF shown
  <1>4. \A n \in shown : n \in nodes /\ n \in Node BY DEF shown, TypeInv, TypeOK
  <1>5. \A n \in Node, p \in Query : flag'[n][p] = "on" <=> p # q /\ flag[n][p] = "on"
    BY <1>1 DEF MarksInv, NoOrphans
  <1>6. \A n \in shown : HasEnabled(flag'[n]) => n \in shown' BY <1>3
  <1>7. \A n \in shown : HasEnabled(flag[n]) /\ ~HasEnabled(flag'[n]) => n \notin shown'
    <2> SUFFICES ASSUME NEW n \in shown, HasEnabled(flag[n]), ~HasEnabled(flag'[n])
                 PROVE flag[n][q] = "on"
      BY <1>3, <1>4
    <2> QED BY <1>4, <1>5 DEF HasEnabled
  <1> QED BY <1>3, <1>4, <1>5, <1>6, <1>7, ViewWithdrawn

LEMMA ViewEnabled == ASSUME TypeInv, NEW q \in Query, Enable(q) PROVE View!Next
  <1> DEFINE back == {n \in nodes : flag[n][q] = "off"}
  <1>1. \A n \in Node, p \in Query :
            flag'[n][p] = IF n \in back /\ p = q THEN "on" ELSE flag[n][p]
    BY DEF Enable, TypeInv, TypeOK
  <1>2. hidden' = hidden \ back /\ nodes' = nodes
    BY NothingDisplayed DEF Enable
  <1>3. back \in SUBSET Node /\ back \subseteq nodes BY DEF TypeInv, TypeOK
  <1> HIDE DEF back
  <1>4. shown' = shown \cup back BY <1>2, <1>3 DEF shown
  <1>5. support' = support \cup (back \X {q}) BY <1>1, <1>3 DEF support
  <1>6. \E ns \in SUBSET Node :
            shown' = shown \cup ns /\ support' = support \cup (ns \X {q})
    BY <1>3, <1>4, <1>5
  <1> QED BY <1>6 DEF View!Next, View!Find, shown, support

LEMMA ViewStep == ASSUME TypeInv, MarksInv, [Next]_vars PROVE [View!Next]_(View!vars)
  <1> USE FiltersAssumption
  <1>1. CASE Load \/ ClearAll
    BY <1>1, ViewEmptied DEF Load, ClearAll
  <1>2. CASE Restore \/ SkipRestore
    BY <1>2, ViewUnchanged DEF Restore, SkipRestore, graph
  <1>3. ASSUME NEW q \in Query, Run(q) \/ Expand(q) \/ NoEntries(q) \/ Unanswered(q) \/ EnableEmpty(q)
        PROVE UNCHANGED View!vars
    BY <1>3, ViewUnchanged DEF Run, Expand, NoEntries, Unanswered, EnableEmpty, graph
  <1>4. ASSUME NEW q \in Query, NEW r \in Answers[q], Answer(q, r) PROVE View!Next
    <2>1. r \in Seq(Item) /\ ProcessRelations({q}, r) BY <1>4, RelationsAreItems DEF Answer
    <2>2. /\ shown' = shown \cup Found(r)
          /\ support' = support \cup (Found(r) \X {q})
      BY <2>1, ViewRelations
    <2>3. Found(r) \in SUBSET Node BY <2>1, FoundAreNodes
    <2>4. \E ns \in SUBSET Node :
            shown' = shown \cup ns /\ support' = support \cup (ns \X {q})
      BY <2>2, <2>3
    <2> QED BY <2>4 DEF View!Next, View!Find, shown, support
  <1>5. ASSUME NEW r \in Seq(Item), ProcessRelations({}, r) PROVE View!Next
    <2>1. shown' = shown \cup Found(r) /\ support' = support \cup (Found(r) \X {})
      BY <1>5, ViewRelations DEF TypeInv
    <2>2. Found(r) \X {} = {} OBVIOUS
    <2>3. View!ShowLoose(Found(r)) BY <2>1, <2>2 DEF View!ShowLoose, shown, support
    <2>4. Found(r) \in SUBSET Node BY <1>5, FoundAreNodes
    <2> QED BY <2>3, <2>4 DEF View!Next
  <1>6. ASSUME NEW r \in Neighbors, ProcessCommon(r) PROVE View!Next
    BY <1>5, <1>6, RelationsAreItems DEF ProcessCommon
  <1>7. ASSUME NEW r \in Files, Import(r) PROVE View!Next
    BY <1>5, <1>7 DEF Import
  <1>8. ASSUME NEW q \in Query, Disable(q) \/ Enable(q) \/ DeleteGreen(q) PROVE View!Next
    BY <1>8, ViewDisabled, ViewEnabled, ViewFilterRemoved DEF DeleteGreen
  <1>9. ASSUME NEW q \in Query, Narrow(q) PROVE View!Next
    BY <1>9, ViewFilterRemoved DEF Narrow, TypeInv, TypeOK
  <1>10. ASSUME NEW r \in Red, AddRed(r) \/ ToggleRed(r) \/ DeleteRed(r)
         PROVE UNCHANGED View!vars
    BY <1>10, RedTypes, ViewUnchanged DEF AddRed, ToggleRed, DeleteRed
  <1>11. ASSUME NEW n \in Node, NEW g \in Group, GroupNodes(n, g) PROVE UNCHANGED View!vars
    BY <1>11, ViewUnchanged DEF GroupNodes, graph
  <1>12. ASSUME NEW c \in Cluster, OpenCluster(c) PROVE UNCHANGED View!vars
    BY <1>12, ViewUnchanged DEF OpenCluster, graph
  <1>13. ASSUME NEW c \in Cluster, DeleteCluster(c) PROVE View!Next
    BY <1>13, ViewRemoved DEF DeleteCluster
  <1>14. ASSUME NEW n \in Node, DeleteNode(n) PROVE View!Next
    BY <1>14, ViewRemoved DEF DeleteNode
  <1>15. ASSUME NEW ns, NEW es, DeleteSelected(ns, es) PROVE View!Next
    BY <1>15, ViewRemoved DEF DeleteSelected
  <1>16. CASE UNCHANGED vars
    BY <1>16, ViewUnchanged DEF vars, graph
  <1> QED
    BY <1>1, <1>2, <1>3, <1>4, <1>6, <1>7, <1>8, <1>9, <1>10, <1>11, <1>12, <1>13, <1>14,
       <1>15, <1>16 DEF Next

\* The page keeps the promise of FilterView: what an enabled filter found stays
\* until the last such filter is withdrawn or the user removes it, whatever
\* answers, clusters, imports and disabled filters do in between.
THEOREM Refinement == Spec => ImplementsFilterView
  <1>1. Init => View!Init
    BY DEF Init, View!Init, NoFlags, NoFlag
  <1>2. IInv /\ [Next]_vars => [View!Next]_(View!vars)
    BY ViewStep DEF IInv
  <1> QED BY <1>1, <1>2, Invariance, PTL DEF Spec, ImplementsFilterView, View!Spec

\* A node that an enabled filter found is on the screen, in every state of the
\* page.
THEOREM FoundIsShown == Spec => []View!SupportedAreShown
  <1>1. IInv => View!SupportedAreShown
    BY DEF IInv, MarksInv, Shown, View!SupportedAreShown, View!Supported
  <1> QED BY <1>1, Invariance, PTL
=============================================================================
