------------------------------- MODULE Queries -------------------------------
(***************************************************************************)
(* The query engine: querySources() (api.go) with the cache of its answers *)
(* (database.go), and the set-up of the collectors and processors it uses  *)
(* (sources.go), which main() does once and reloadHandler() (admin.go)     *)
(* does again while queries run.  A query is served by the goroutine that  *)
(* asks - an HTTP request of the API, a Websocket connection or an upload  *)
(* job - and each search it starts by a goroutine of its own.  Nothing     *)
(* protects the global variables collectors and processors.                *)
(*                                                                         *)
(* The rows of an answer are named by the searches they come from.  The    *)
(* maps fields and nonGlobalExist, which the same loop fills for the       *)
(* autocompletion of the pages and no query reads, are left out.           *)
(***************************************************************************)
EXTENDS Naturals, Sequences

CONSTANTS
    Requests,       \* queries asked during a run
    Http,           \* those asked over the API: net/http recovers their panics
    Early,          \* those of reProcessUploads(), not held up until main() listens
    Target,         \* the data source a query names
    Key,            \* its cache key: its text without the seconds of the dates
    ShowLimited,    \* the queries that want partial results
    Sources,        \* names of data source definitions
    InGlobal,       \* those that take part in the global search
    Global,         \* the name of the global search
    Split,          \* the sub-queries parseSQL() makes of a query for a source
    Unparsable,     \* the queries and sources it returns an error for
    CacheOn,        \* config.Database.CacheTTL # 0
    Setups,         \* the set-up of main() and the reloads during a run
    Main,           \* the set-up of main()
    Definitions,    \* the definition files of the data sources, in their order
    Plugins,        \* names of processor definitions
    Processors,     \* their definition files, in their order
    Flaky,          \* definitions whose set-up may fail
    None

\* A search is named by its source and its sub-query.
SubQueries(q, s) == {<<s, p>> : p \in Split[<<q, s>>]}
Searches == UNION {SubQueries(q, s) : q \in Requests, s \in Sources}

\* The Cache document, with the query that stored it
Entry == [rows : SUBSET Searches, stats : Sources \cup {None}, by : Requests]

ASSUME QueriesAssumption ==
    /\ Http \cup Early \cup ShowLimited \subseteq Requests
    /\ Http \cap Early = {}
    /\ InGlobal \subseteq Sources
    /\ Global \notin Sources
    /\ Unparsable \subseteq Requests \X Sources
    /\ CacheOn \in BOOLEAN
    /\ Main \in Setups
    /\ Definitions \in Seq(Sources)
    /\ Processors \in Seq(Plugins)
    /\ None \notin Sources \cup Setups \cup Requests \cup Entry

VARIABLES
    \* The map collectors: every set-up makes a map of its own, current names
    \* the one the global variable points to, names[r] are the keys of the
    \* map of set-up r.  The slice processors.
    current, names, processors,
    \* Each set-up: where it is, and its next definition.
    setup, next,
    \* Each query: where it is, the map it ranges over, the sources it found
    \* there, the ones the loop has been at, the searches under way, whether
    \* one of them failed, and the response.
    pc, iter, found, visited, running, groupErr, rows, stats, err,
    \* The cache collection of the database.
    cache,
    \* Why the service stopped, if it did.
    stopped,
    \* What an observer notes: the searches that reached the limit, the query
    \* that filled the cache entry an answer comes from, the processors an
    \* answer went through, whether two set-ups ever ran at the same time.
    limited, source, passed, overlap

maps     == <<current, names, processors>>
setups   == <<setup, next, overlap>>
loop     == <<iter, found, visited>>
answer   == <<rows, stats, err, source>>
searches == <<running, groupErr, limited>>

vars == <<maps, setups, pc, loop, searches, answer, cache, stopped, passed>>

-----------------------------------------------------------------------------

SetupPC == {"idle", "sources", "collecting", "processors", "appending",
            "done", "failed"}
Errors  == {"", "cache", "parse", "search", "unknown", "processor"}
Running == {"dispatch", "global", "wait", "save", "process"}
PC      == Running \cup {"idle", "done", "aborted"}

\* The keys of the global map; there is no map before main() makes one.
Collectors == IF current = None THEN {} ELSE names[current]

\* A set-up that has started and not returned.
Busy(r) == setup[r] \notin {"idle", "done", "failed"}

Init ==
    /\ current = None /\ names = [r \in Setups |-> {}] /\ processors = <<>>
    /\ setup = [r \in Setups |-> "idle"] /\ next = [r \in Setups |-> 1]
    /\ overlap = FALSE
    /\ pc = [q \in Requests |-> "idle"]
    /\ iter = [q \in Requests |-> None]
    /\ found = [q \in Requests |-> {}] /\ visited = [q \in Requests |-> {}]
    /\ running = [q \in Requests |-> {}]
    /\ groupErr = [q \in Requests |-> FALSE]
    /\ limited = [q \in Requests |-> {}]
    /\ rows = [q \in Requests |-> {}] /\ stats = [q \in Requests |-> None]
    /\ err = [q \in Requests |-> ""] /\ source = [q \in Requests |-> None]
    /\ cache = [k \in {Key[q] : q \in Requests} |-> None]
    /\ stopped = "no"
    /\ passed = [q \in Requests |-> <<>>]

-----------------------------------------------------------------------------
(* A query.                                                                *)

\* A query of a user can only come once main() listens; reProcessUploads()
\* is started before main() sets the collectors up.
CanAsk(q) == stopped = "no" /\ (q \in Early \/ setup[Main] = "done")

At(q, place) == stopped = "no" /\ pc[q] = place
Go(q, place) == pc' = [pc EXCEPT ![q] = place]

\* The answer is in the cache: it is returned as it is, without the error of
\* the query that stored it and without a look at the processors.
Hit(q) ==
    /\ CanAsk(q) /\ pc[q] = "idle"
    /\ CacheOn /\ cache[Key[q]] # None
    /\ rows' = [rows EXCEPT ![q] = cache[Key[q]].rows]
    /\ stats' = [stats EXCEPT ![q] = cache[Key[q]].stats]
    /\ source' = [source EXCEPT ![q] = cache[Key[q]].by]
    /\ Go(q, "done")
    /\ UNCHANGED <<maps, setups, loop, searches, err, cache, stopped, passed>>

\* The answer is not in the cache, or the cache is not in use or not
\* readable: an error of the database is noted and the query goes on.
Miss(q) ==
    /\ CanAsk(q) /\ pc[q] = "idle"
    /\ \/ (CacheOn => cache[Key[q]] = None) /\ UNCHANGED err
       \/ CacheOn /\ err' = [err EXCEPT ![q] = "cache"]
    /\ Go(q, "dispatch")
    /\ UNCHANGED <<maps, setups, loop, searches, rows, stats, source, cache,
                   stopped, passed>>

\* parseSQL() for one collector: an error, or a goroutine per sub-query.
StartSearches(q, s) ==
    IF <<q, s>> \in Unparsable
    THEN err' = [err EXCEPT ![q] = "parse"] /\ UNCHANGED running
    ELSE /\ running' = [running EXCEPT ![q] = @ \cup SubQueries(q, s)]
         /\ UNCHANGED err

\* Mutant of SearchOne: the single source's searches are not waited for.
SearchOneUnwaited(q) ==
    /\ At(q, "dispatch") /\ Target[q] \in Collectors
    /\ found' = [found EXCEPT ![q] = {Target[q]}]
    /\ StartSearches(q, Target[q])
    /\ Go(q, "save")
    /\ UNCHANGED <<maps, setups, iter, visited, groupErr, limited, rows, stats,
                   source, cache, stopped, passed>>

\* One look at the map decides: the source is a collector, ...
SearchOne(q) ==
    /\ At(q, "dispatch") /\ Target[q] \in Collectors
    /\ found' = [found EXCEPT ![q] = {Target[q]}]
    /\ StartSearches(q, Target[q])
    /\ Go(q, "wait")
    /\ UNCHANGED <<maps, setups, iter, visited, groupErr, limited, rows, stats,
                   source, cache, stopped, passed>>

\* ... or it is the global search, whose loop ranges over the map of now, ...
SearchGlobal(q) ==
    /\ At(q, "dispatch") /\ Target[q] = Global
    /\ iter' = [iter EXCEPT ![q] = current]
    /\ found' = [found EXCEPT ![q] = Collectors]
    /\ Go(q, "global")
    /\ UNCHANGED <<maps, setups, visited, searches, answer, cache, stopped,
                   passed>>

\* ... or it is unknown.
SearchUnknown(q) ==
    /\ At(q, "dispatch") /\ Target[q] \notin Collectors \cup {Global}
    /\ err' = [err EXCEPT ![q] = "unknown"]
    /\ Go(q, "wait")
    /\ UNCHANGED <<maps, setups, loop, searches, rows, stats, source, cache,
                   stopped, passed>>

\* The keys the loop has still to visit.  Go lets a key that was added after
\* the loop started appear or not.
Ahead(q) == IF iter[q] = None THEN {} ELSE names[iter[q]] \ visited[q]

\* The loop reads collectors[key] from the map of now, not the one it ranges
\* over.  Collectors that are not InGlobal are skipped.
SearchNext(q) ==
    /\ At(q, "global")
    /\ \E s \in Ahead(q) \cap Collectors :
         /\ visited' = [visited EXCEPT ![q] = @ \cup {s}]
         /\ IF s \in InGlobal THEN StartSearches(q, s)
                              ELSE UNCHANGED <<running, err>>
    /\ UNCHANGED <<maps, setups, pc, iter, found, groupErr, limited, rows,
                   stats, source, cache, stopped, passed>>

\* The map of now lacks the key: Conf() of a nil interface panics, which only
\* net/http recovers.
SearchNil(q) ==
    /\ At(q, "global") /\ ~ Ahead(q) \subseteq Collectors
    /\ IF q \in Http THEN Go(q, "aborted") /\ UNCHANGED stopped
                     ELSE stopped' = "nil collector" /\ UNCHANGED pc
    /\ UNCHANGED <<maps, setups, loop, searches, answer, cache, passed>>

SearchedAll(q) ==
    /\ At(q, "global") /\ found[q] \subseteq visited[q]
    /\ Go(q, "wait")
    /\ UNCHANGED <<maps, setups, loop, searches, answer, cache, stopped, passed>>

\* A search ends.  The last one that reached the limit leaves its statistics;
\* only a query for one source drops the rows of such a search.
SearchSucceeds(q, x) ==
    /\ stopped = "no" /\ x \in running[q]
    /\ running' = [running EXCEPT ![q] = @ \ {x}]
    /\ rows' = [rows EXCEPT ![q] = @ \cup {x}]
    /\ UNCHANGED <<maps, setups, pc, loop, groupErr, limited, stats, err,
                   source, cache, stopped, passed>>

\* Mutant of SearchLimited: statistics are kept only with the partial rows.
SearchLimitedUntold(q, x) ==
    /\ stopped = "no" /\ x \in running[q]
    /\ running' = [running EXCEPT ![q] = @ \ {x}]
    /\ limited' = [limited EXCEPT ![q] = @ \cup {x}]
    /\ IF Target[q] = Global \/ q \in ShowLimited
       THEN /\ rows' = [rows EXCEPT ![q] = @ \cup {x}]
            /\ stats' = [stats EXCEPT ![q] = x[1]]
       ELSE UNCHANGED <<rows, stats>>
    /\ UNCHANGED <<maps, setups, pc, loop, groupErr, err, source, cache,
                   stopped, passed>>

SearchLimited(q, x) ==
    /\ stopped = "no" /\ x \in running[q]
    /\ running' = [running EXCEPT ![q] = @ \ {x}]
    /\ limited' = [limited EXCEPT ![q] = @ \cup {x}]
    /\ stats' = [stats EXCEPT ![q] = x[1]]
    /\ IF Target[q] = Global \/ q \in ShowLimited
       THEN rows' = [rows EXCEPT ![q] = @ \cup {x}]
       ELSE UNCHANGED rows
    /\ UNCHANGED <<maps, setups, pc, loop, groupErr, err, source, cache,
                   stopped, passed>>

\* Mutant of SearchFails: the goroutine logs the error and returns nil.
SearchFailsSilently(q, x) ==
    /\ stopped = "no" /\ x \in running[q]
    /\ running' = [running EXCEPT ![q] = @ \ {x}]
    /\ UNCHANGED <<maps, setups, pc, loop, groupErr, limited, answer, cache,
                   stopped, passed>>

SearchFails(q, x) ==
    /\ stopped = "no" /\ x \in running[q]
    /\ running' = [running EXCEPT ![q] = @ \ {x}]
    /\ groupErr' = [groupErr EXCEPT ![q] = TRUE]
    /\ UNCHANGED <<maps, setups, pc, loop, limited, answer, cache, stopped,
                   passed>>

\* Mutant of Wait: the first error ends it, the other searches run on.
WaitForFirstError(q) ==
    /\ At(q, "wait") /\ (running[q] = {} \/ groupErr[q])
    /\ err' = IF groupErr[q] THEN [err EXCEPT ![q] = "search"] ELSE err
    /\ Go(q, IF CacheOn THEN "save" ELSE "process")
    /\ UNCHANGED <<maps, setups, loop, searches, rows, stats, source, cache,
                   stopped, passed>>

\* Mutant of Wait: a search that fails does not tell the group that it ended.
WaitForSuccess(q) ==
    /\ At(q, "wait") /\ running[q] = {} /\ ~ groupErr[q]
    /\ Go(q, IF CacheOn THEN "save" ELSE "process")
    /\ UNCHANGED <<maps, setups, loop, searches, answer, cache, stopped,
                   passed>>

\* group.Wait(): every search has ended, an error of one replaces the error
\* noted so far.
Wait(q) ==
    /\ At(q, "wait") /\ running[q] = {}
    /\ err' = IF groupErr[q] THEN [err EXCEPT ![q] = "search"] ELSE err
    /\ Go(q, IF CacheOn THEN "save" ELSE "process")
    /\ UNCHANGED <<maps, setups, loop, searches, rows, stats, source, cache,
                   stopped, passed>>

\* setCache(): whatever there is, is stored; a failure is only logged.
SaveInCache(q) ==
    /\ At(q, "save")
    /\ \/ cache' = [cache EXCEPT ![Key[q]] =
                      [rows |-> rows[q], stats |-> stats[q], by |-> q]]
       \/ UNCHANGED cache
    /\ Go(q, "process")
    /\ UNCHANGED <<maps, setups, loop, searches, answer, stopped, passed>>

\* Mutant of Process: the name of the processor stands for its error.
ProcessNamed(q) ==
    /\ At(q, "process")
    /\ passed' = [passed EXCEPT ![q] = processors]
    /\ \/ UNCHANGED err
       \/ processors # <<>> /\ err' = [err EXCEPT ![q] = processors[1]]
    /\ Go(q, "done")
    /\ UNCHANGED <<maps, setups, loop, searches, rows, stats, source, cache,
                   stopped>>

\* The loop over the processors works on the slice of the moment it starts.
Process(q) ==
    /\ At(q, "process")
    /\ passed' = [passed EXCEPT ![q] = processors]
    /\ \/ UNCHANGED err
       \/ processors # <<>> /\ err' = [err EXCEPT ![q] = "processor"]
    /\ Go(q, "done")
    /\ UNCHANGED <<maps, setups, loop, searches, rows, stats, source, cache,
                   stopped>>

\* The TTL index of the cache collection.
Expire(k) ==
    /\ cache[k] # None
    /\ cache' = [cache EXCEPT ![k] = None]
    /\ UNCHANGED <<maps, setups, pc, loop, searches, answer, stopped, passed>>

Query(q) ==
    \/ Hit(q) \/ Miss(q)
    \/ SearchOne(q) \/ SearchGlobal(q) \/ SearchUnknown(q)
    \/ SearchNext(q) \/ SearchNil(q) \/ SearchedAll(q)
    \/ Wait(q) \/ SaveInCache(q) \/ Process(q)

SearchEnds(q) ==
    \E x \in Searches : \/ SearchSucceeds(q, x)
                        \/ SearchLimited(q, x)
                        \/ SearchFails(q, x)

-----------------------------------------------------------------------------
(* setupCollectors() and setupProcessors(), called by main() and by        *)
(* reloadHandler().                                                        *)

In(r, place) == stopped = "no" /\ setup[r] = place
Move(r, place) == setup' = [setup EXCEPT ![r] = place]

\* The global variable gets an empty map before anything is read.
ClearCollectors(r) ==
    /\ In(r, "idle") /\ (r = Main \/ setup[Main] = "done")
    /\ current' = r
    /\ overlap' = (overlap \/ \E t \in Setups : Busy(t))
    /\ Move(r, "sources")
    /\ UNCHANGED <<names, processors, next, pc, loop, searches, answer, cache,
                   stopped, passed>>

\* A directory that can't be read ends the set-up with an error: main() stops
\* the service, a reload leaves things as they are by then.
DirectoryUnreadable(r) ==
    /\ In(r, "sources") \/ In(r, "processors")
    /\ Move(r, "failed")
    /\ stopped' = IF r = Main THEN "fatal" ELSE stopped
    /\ UNCHANGED <<maps, next, overlap, pc, loop, searches, answer, cache,
                   passed>>

ReadSources(r) ==
    /\ In(r, "sources")
    /\ Move(r, "collecting")
    /\ UNCHANGED <<maps, next, overlap, pc, loop, searches, answer, cache,
                   stopped, passed>>

\* Mutant of SkipSource: the first definition that fails ends the loop.
SkipTheRest(r) ==
    /\ In(r, "collecting") /\ next[r] <= Len(Definitions)
    /\ Definitions[next[r]] \in Flaky
    /\ next' = [next EXCEPT ![r] = Len(Definitions) + 1]
    /\ UNCHANGED <<maps, setup, overlap, pc, loop, searches, answer, cache,
                   stopped, passed>>

\* A definition that can't be loaded or set up is skipped.
SkipSource(r) ==
    /\ In(r, "collecting") /\ next[r] <= Len(Definitions)
    /\ Definitions[next[r]] \in Flaky
    /\ next' = [next EXCEPT ![r] = @ + 1]
    /\ UNCHANGED <<maps, setup, overlap, pc, loop, searches, answer, cache,
                   stopped, passed>>

\* The collector goes to the map the global variable points to by now.
StoreCollector(r) ==
    /\ In(r, "collecting") /\ next[r] <= Len(Definitions)
    /\ names' = [names EXCEPT ![current] = @ \cup {Definitions[next[r]]}]
    /\ next' = [next EXCEPT ![r] = @ + 1]
    /\ UNCHANGED <<current, processors, setup, overlap, pc, loop, searches,
                   answer, cache, stopped, passed>>

\* Mutant of ClearProcessors: the old processors stay.
KeepProcessors(r) ==
    /\ In(r, "collecting") /\ next[r] > Len(Definitions)
    /\ next' = [next EXCEPT ![r] = 1]
    /\ Move(r, "processors")
    /\ UNCHANGED <<maps, overlap, pc, loop, searches, answer, cache, stopped,
                   passed>>

ClearProcessors(r) ==
    /\ In(r, "collecting") /\ next[r] > Len(Definitions)
    /\ processors' = <<>>
    /\ next' = [next EXCEPT ![r] = 1]
    /\ Move(r, "processors")
    /\ UNCHANGED <<current, names, overlap, pc, loop, searches, answer, cache,
                   stopped, passed>>

ReadProcessors(r) ==
    /\ In(r, "processors")
    /\ Move(r, "appending")
    /\ UNCHANGED <<maps, next, overlap, pc, loop, searches, answer, cache,
                   stopped, passed>>

SkipProcessor(r) ==
    /\ In(r, "appending") /\ next[r] <= Len(Processors)
    /\ Processors[next[r]] \in Flaky
    /\ next' = [next EXCEPT ![r] = @ + 1]
    /\ UNCHANGED <<maps, setup, overlap, pc, loop, searches, answer, cache,
                   stopped, passed>>

AppendProcessor(r) ==
    /\ In(r, "appending") /\ next[r] <= Len(Processors)
    /\ processors' = Append(processors, Processors[next[r]])
    /\ next' = [next EXCEPT ![r] = @ + 1]
    /\ UNCHANGED <<current, names, setup, overlap, pc, loop, searches, answer,
                   cache, stopped, passed>>

SetupEnds(r) ==
    /\ In(r, "appending") /\ next[r] > Len(Processors)
    /\ Move(r, "done")
    /\ UNCHANGED <<maps, next, overlap, pc, loop, searches, answer, cache,
                   stopped, passed>>

Setup(r) ==
    \/ ClearCollectors(r) \/ DirectoryUnreadable(r)
    \/ ReadSources(r) \/ SkipSource(r) \/ StoreCollector(r)
    \/ ClearProcessors(r) \/ ReadProcessors(r)
    \/ SkipProcessor(r) \/ AppendProcessor(r) \/ SetupEnds(r)

\* The Go runtime stops the program when it notices that one goroutine writes
\* a map while another reads or writes it.  It need not notice: the accesses
\* take effect one after the other in the actions above.
MapRace ==
    /\ stopped = "no"
    /\ \E r \in Setups :
         /\ setup[r] = "collecting" /\ next[r] <= Len(Definitions)
         /\ \/ \E q \in Requests :
                 \/ pc[q] = "dispatch"
                 \/ pc[q] = "global" /\ iter[q] # None
            \/ \E t \in Setups \ {r} : setup[t] = "collecting"
                                       /\ next[t] <= Len(Definitions)
    /\ stopped' = "map race"
    /\ UNCHANGED <<maps, setups, pc, loop, searches, answer, cache, passed>>

Next ==
    \/ \E q \in Requests : Query(q) \/ SearchEnds(q)
    \/ \E r \in Setups : Setup(r)
    \/ \E k \in DOMAIN cache : Expire(k)
    \/ MapRace

Spec == Init /\ [][Next]_vars

\* Goroutines run, and a search ends: every plugin bounds it by the timeout of
\* its definition.  A query that waits for its searches needs no more.
FairSpec ==
    /\ Spec
    /\ \A q \in Requests : /\ WF_vars(Query(q) /\ pc[q] # "idle")
                           /\ WF_vars(SearchEnds(q))
    /\ WF_vars(Setup(Main))

-----------------------------------------------------------------------------
(* Properties.                                                             *)

\* Every component of the state has its type (the variables of api.go and
\* sources.go, the Cache document of database.go).
TypeOK ==
    /\ current \in Setups \cup {None}
    /\ names \in [Setups -> SUBSET Sources]
    /\ processors \in Seq(Plugins)
    /\ setup \in [Setups -> SetupPC]
    /\ next \in [Setups -> Nat \ {0}]
    /\ overlap \in BOOLEAN
    /\ pc \in [Requests -> PC]
    /\ iter \in [Requests -> Setups \cup {None}]
    /\ found \in [Requests -> SUBSET Sources]
    /\ visited \in [Requests -> SUBSET Sources]
    /\ running \in [Requests -> SUBSET Searches]
    /\ groupErr \in [Requests -> BOOLEAN]
    /\ limited \in [Requests -> SUBSET Searches]
    /\ rows \in [Requests -> SUBSET Searches]
    /\ stats \in [Requests -> Sources \cup {None}]
    /\ err \in [Requests -> Errors]
    /\ source \in [Requests -> Requests \cup {None}]
    /\ cache \in [{Key[q] : q \in Requests} -> {None} \cup Entry]
    /\ stopped \in {"no", "nil collector", "map race", "fatal"}
    /\ passed \in [Requests -> Seq(Plugins)]

\* The sources whose search the answer of q needs.
Needed(q) == IF Target[q] = Global THEN found[q] \cap InGlobal ELSE found[q]

\* An answer that is not from the cache and tells of no error is whole: for
\* each collector that the query found when it looked at the map, it holds
\* the rows of every sub-query, or that one reached the limit and the answer
\* has statistics to tell so (api.go, querySources: one goroutine per
\* sub-query, errgroup, the warning of apiHandler).
WholeAnswer ==
    \A q \in Requests :
        pc[q] = "done" /\ source[q] = None /\ err[q] = "" =>
            \A s \in Needed(q) : \A x \in SubQueries(q, s) :
                x \in rows[q] \/ (x \in limited[q] /\ stats[q] # None)

\* What the cache holds is what a query with the same key had when all its
\* searches had ended, and nothing was added since (setCache is called before
\* the processors run, by a goroutine that others write the response of).
CachedIsFinal ==
    \A k \in DOMAIN cache : cache[k] # None =>
        LET q == cache[k].by
        IN  /\ Key[q] = k
            /\ running[q] = {}
            /\ rows[q] = cache[k].rows /\ stats[q] = cache[k].stats

\* A response that was returned is not written any more: no goroutine is left
\* behind that appends to it while it is formatted and sent.
AnswerStands ==
    [][\A q \in Requests : pc[q] = "done" =>
          rows'[q] = rows[q] /\ stats'[q] = stats[q] /\ err'[q] = err[q]]_vars

\* The definitions whose set-up does not fail.
Reliable(seq) == {seq[i] : i \in DOMAIN seq} \ Flaky

\* When no set-up is under way and the latest one went well, each reliable
\* data source can be queried, even if set-ups overlapped and wrote to the
\* same map (setupCollectors, called by several reloadHandler at a time).
ReloadRestores ==
    current # None /\ setup[current] = "done" => Reliable(Definitions) \subseteq Collectors

\* The processors are those of the first n definition files: each reliable one
\* once, a flaky one at most once, in the order of the files.
InOrder(n) ==
    \E at \in [DOMAIN processors -> 1..n] :
        /\ \A i \in DOMAIN processors : processors[i] = Processors[at[i]]
        /\ \A i, j \in DOMAIN processors : i < j => at[i] < at[j]
        /\ \A k \in 1..n : Processors[k] \notin Flaky => \E i \in DOMAIN processors : at[i] = k

\* Unless set-ups overlapped, the processors after one are its own, each as often
\* as it is defined and in the order of the files, but for those that could not be
\* set up (setupProcessors).
ProcessorsInOrder ==
    ~ overlap /\ current # None /\ setup[current] = "done" => InOrder(Len(Processors))

\* Seen from outside, a query is collected in one step (the promise of the module
\* QueryService: querySources(), its errgroup and the cache): an answer is whole or
\* tells that it is not, holds nothing another query asked, a source that is not there
\* is told of, and nothing is written after it was collected.
Phase(q) ==
    IF pc[q] \in {"idle", "dispatch"} THEN "new"
    ELSE IF pc[q] \in {"save", "process"} THEN "collected"
    ELSE IF pc[q] = "done" THEN "answered"
    ELSE IF pc[q] = "aborted" THEN "lost"
    ELSE IF Target[q] # Global /\ found[q] = {} THEN "refused" ELSE "searching"
Result(q) ==
    IF pc[q] \in {"save", "process", "done"}
    THEN [rows |-> rows[q], stats |-> stats[q], failed |-> err[q] # ""]
    ELSE [rows |-> {}, stats |-> None, failed |-> FALSE]
Service == INSTANCE QueryService WITH
    available <- Collectors,
    phase <- [q \in Requests |-> Phase(q)],
    plan <- [q \in Requests |-> UNION {SubQueries(q, s) : s \in Needed(q)}],
    result <- [q \in Requests |-> Result(q)],
    kept <- [k \in {Key[q] : q \in Requests} |->
                IF cache[k] = None THEN {} ELSE {[rows |-> cache[k].rows, stats |-> cache[k].stats]}]
ImplementsQueryService == Service!Spec

\* A query that was taken up is answered, or its connection is closed, unless
\* the service stops.
QueryEnds ==
    \A q \in Requests : pc[q] \in Running ~>
        pc[q] \in {"done", "aborted"} \/ stopped # "no"
=============================================================================
