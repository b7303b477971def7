----------------------------- MODULE Dashboards -----------------------------
(***************************************************************************)
(* Private and shared dashboards: the page (dashboards.js), the handlers   *)
(* of its two messages and the broadcast that tells the other pages        *)
(* (dashboards.go, websocket.go).                                          *)
(*                                                                         *)
(* The handlers of different users interleave between their operations on  *)
(* the database and the messages they send.  A user has one page; after a  *)
(* lost connection it connects again when the handler of the old one is    *)
(* done.  The filters and the time range of a dashboard are left out: a    *)
(* shared one is known by its owner, a private one by its name.            *)
(***************************************************************************)
EXTENDS Naturals, Sequences

CONSTANTS
    User,
    Name,           \* names of dashboards
    Nobody,         \* no dashboard of that name
    Nothing,        \* nothing selected, no name, no handler running
    MaxSends,       \* bound: requests of the pages
    MaxOut,         \* bound: requests of a page not handled yet
    MaxFaults       \* bound: updates refused and connections lost

Entry == Name \X BOOLEAN
Request == [type : {"save", "delete"}, name : Name, shared : BOOLEAN]
Reply == [type : {"saved", "deleted", "error"}, name : Name, shared : BOOLEAN,
          owner : User \cup {Nobody}]
Handler == [step : {"insert"}, name : Name, left : {{}}]
             \cup [step : {"saved", "deleted"}, name : Name, left : SUBSET User]

ASSUME DashboardsAssumption ==
    /\ Nobody \notin User
    /\ Nothing \notin Name \cup Entry \cup Handler
    /\ MaxSends \in Nat /\ MaxOut \in Nat /\ MaxFaults \in Nat

VARIABLES
    \* The collection of shared dashboards and the map of private ones in each
    \* user's document; the same map in the Account of the connection.
    shared, private, mem,
    \* The connections, the messages of both directions, the handlers, and
    \* the requests and faults so far.
    online, toServer, toClient, work, sends, faults,
    \* Of each page: SHARED, DASHBOARDS, the dropdown's entries, whether its
    \* header is displayed, the selected entry.
    SHARED, DASHBOARDS, menu, header, selected,
    \* What a page may be wrong about, for a reason the code accepts (not state
    \* of the program).
    stale

database == <<shared, private>>
server == <<mem, work>>
wires == <<online, toServer, toClient>>
pages == <<SHARED, DASHBOARDS, menu, header, selected>>
vars == <<database, server, wires, sends, faults, pages, stale>>

TypeOK ==
    /\ shared \in [Name -> User \cup {Nobody}]
    /\ private \in [User -> SUBSET Name]
    /\ mem \in [User -> SUBSET Name]
    /\ online \subseteq User
    /\ toServer \in [User -> Seq(Request)] /\ toClient \in [User -> Seq(Reply)]
    /\ work \in [User -> Handler \cup {Nothing}]
    /\ sends \in 0..MaxSends /\ faults \in 0..MaxFaults
    /\ SHARED \in [User -> [Name -> User \cup {Nobody}]]
    /\ DASHBOARDS \in [User -> SUBSET Name]
    /\ menu \in [User -> SUBSET Entry]
    /\ header \in [User -> BOOLEAN]
    /\ selected \in [User -> Entry \cup {Nothing}]
    /\ stale \in [User -> SUBSET Entry]

Init ==
    /\ shared = [n \in Name |-> Nobody]
    /\ private = [u \in User |-> {}] /\ mem = private
    /\ online = User
    /\ toServer = [u \in User |-> <<>>] /\ toClient = [u \in User |-> <<>>]
    /\ work = [u \in User |-> Nothing]
    /\ sends = 0 /\ faults = 0
    /\ SHARED = [u \in User |-> shared]
    /\ DASHBOARDS = private
    /\ menu = [u \in User |-> {}]
    /\ header = [u \in User |-> FALSE]
    /\ selected = [u \in User |-> Nothing]
    /\ stale = [u \in User |-> {}]

Fault == faults < MaxFaults /\ faults' = faults + 1
-----------------------------------------------------------------------------
(***************************************************************************)
(* The page.                                                               *)
(***************************************************************************)
Send(u, type, n, sh) ==
    /\ sends < MaxSends /\ sends' = sends + 1
    /\ Len(toServer[u]) < MaxOut
    /\ toServer' = IF u \in online
                   THEN [toServer EXCEPT ![u] = Append(@, [type |-> type, name |-> n, shared |-> sh])]
                   ELSE toServer
    /\ UNCHANGED <<database, server, online, toClient, faults, pages, stale>>

\* save(): the name and the checkbox are the user's.
Save(u, n, sh) == Send(u, "save", n, sh)

\* The user chooses an entry of the dropdown.
Select(u, e) ==
    /\ e \in menu[u]
    /\ selected' = [selected EXCEPT ![u] = e]
    /\ UNCHANGED <<database, server, wires, sends, faults, SHARED, DASHBOARDS, menu, header, stale>>

\* The entry delete(), load() and isLoaded() get for a name: the dropdown returns
\* the last one with that value, and shared dashboards come last.
Item(m, n) == IF <<n, TRUE>> \in m THEN <<n, TRUE>> ELSE <<n, FALSE>>

\* delete()
Delete(u) ==
    /\ selected[u] # Nothing
    /\ LET item == Item(menu[u], selected[u][1]) IN Send(u, "delete", item[1], item[2])

Entries(d, s) == {e \in Entry : IF e[2] THEN s[e[1]] # Nobody ELSE e[1] \in d}

\* toggleSharedHeader()
Header(s) == \E n \in Name : s[n] # Nobody

\* The page is loaded: the template shows what the database has, and isLoaded()
\* selects the dashboard of the address, if load() put one there.  What was sent
\* on the old connection may still be handled.
Render(u, address) ==
    /\ online' = online \ {u}
    /\ \/ toServer' = toServer
       \/ toServer' = [toServer EXCEPT ![u] = <<>>]
    /\ toClient' = [toClient EXCEPT ![u] = <<>>]
    /\ SHARED' = [SHARED EXCEPT ![u] = shared]
    /\ DASHBOARDS' = [DASHBOARDS EXCEPT ![u] = private[u]]
    /\ menu' = [menu EXCEPT ![u] = Entries(private[u], shared)]
    /\ header' = [header EXCEPT ![u] = Header(shared)]
    /\ selected' = [selected EXCEPT ![u] =
         IF \E sh \in BOOLEAN : <<address, sh>> \in menu'[u]
         THEN Item(menu'[u], address) ELSE Nothing]
    /\ stale' = [stale EXCEPT ![u] = {x \in @ :
         IF x[2] THEN \E v \in User : work[v] # Nothing /\ work[v].name = x[1]
                 ELSE toServer'[u] # <<>>}]
    /\ UNCHANGED <<database, server, sends, faults>>

\* The user opens the page, or load() goes to the address of the selected
\* dashboard.
Reload(u) == Render(u, Nothing)
Load(u) == selected[u] # Nothing /\ Render(u, selected[u][1])

\* The connection is lost and the page stays.
Close(u) ==
    /\ u \in online /\ Fault
    /\ online' = online \ {u}
    /\ \/ toServer' = toServer
       \/ toServer' = [toServer EXCEPT ![u] = <<>>]
    /\ toClient' = [toClient EXCEPT ![u] = <<>>]
    /\ stale' = [stale EXCEPT ![u] =
         @ \cup {<<toClient[u][i].name, toClient[u][i].shared>> : i \in DOMAIN toClient[u]}]
    /\ UNCHANGED <<database, server, sends, pages>>

\* wsHandler(): the Account of the connection is read from the database.
Connect(u) ==
    /\ u \notin online
    /\ toServer[u] = <<>> /\ work[u] = Nothing
    /\ online' = online \cup {u}
    /\ mem' = [mem EXCEPT ![u] = private[u]]
    /\ UNCHANGED <<database, work, toServer, toClient, sends, faults, pages, stale>>
-----------------------------------------------------------------------------
(***************************************************************************)
(* The handlers.                                                           *)
(***************************************************************************)
Takes(u, type, sh) ==
    /\ work[u] = Nothing /\ toServer[u] # <<>>
    /\ Head(toServer[u]).type = type /\ Head(toServer[u]).shared = sh
    /\ toServer' = [toServer EXCEPT ![u] = Tail(@)]
Asked(u) == Head(toServer[u]).name

\* What a page misses while it is not connected.
Tell(v, type, n, sh, owner) ==
    IF v \in online
    THEN /\ toClient' = [toClient EXCEPT ![v] =
              Append(@, [type |-> type, name |-> n, shared |-> sh, owner |-> owner])]
         /\ UNCHANGED stale
    ELSE /\ stale' = [stale EXCEPT ![v] = IF type = "error" THEN @ ELSE @ \cup {<<n, sh>>}]
         /\ UNCHANGED toClient

\* saveDashboardHandler() of a shared dashboard: the name is looked up first.
FindShared(u) ==
    /\ Takes(u, "save", TRUE)
    /\ IF shared[Asked(u)] = Nobody
       THEN /\ work' = [work EXCEPT ![u] = [step |-> "insert", name |-> Asked(u), left |-> {}]]
            /\ UNCHANGED <<toClient, stale>>
       ELSE /\ Tell(u, "error", Asked(u), TRUE, Nobody)
            /\ UNCHANGED work
    /\ UNCHANGED <<database, mem, online, sends, faults, pages>>

\* A handler of another user broadcasts about the same name.
Contended(u, n) ==
    \E v \in User \ {u} : work[v] # Nothing /\ work[v].step # "insert" /\ work[v].name = n
\* Mutant of Broadcasts: the user who asked is left out.
BroadcastsToOthers(u, step, n) ==
    /\ work' = [work EXCEPT ![u] = [step |-> step, name |-> n, left |-> User \ {u}]]
    /\ stale' = [v \in User |-> IF Contended(u, n) THEN stale[v] \cup {<<n, TRUE>>} ELSE stale[v]]

Broadcasts(u, step, n) ==
    /\ work' = [work EXCEPT ![u] = [step |-> step, name |-> n, left |-> User]]
    /\ stale' = [v \in User |-> IF Contended(u, n) THEN stale[v] \cup {<<n, TRUE>>} ELSE stale[v]]

\* Mutant of Taken: another user's document is written over.
TakenByUser(u, n) == shared[n] = u

\* The name is the document's _id: a second one is refused.
Taken(u, n) == shared[n] # Nobody

InsertShared(u) ==
    /\ work[u] # Nothing /\ work[u].step = "insert"
    /\ LET n == work[u].name IN
       IF Taken(u, n)
       THEN /\ work' = [work EXCEPT ![u] = Nothing]
            /\ Tell(u, "error", n, TRUE, Nobody)
            /\ UNCHANGED shared
       ELSE /\ shared' = [shared EXCEPT ![n] = u]
            /\ Broadcasts(u, "saved", n)
            /\ UNCHANGED toClient
    /\ UNCHANGED <<private, mem, online, toServer, sends, faults, pages>>

\* delDashboardHandler() of a shared dashboard: of any owner, and there or not
DeleteShared(u) ==
    /\ Takes(u, "delete", TRUE)
    /\ shared' = [shared EXCEPT ![Asked(u)] = Nobody]
    /\ Broadcasts(u, "deleted", Asked(u))
    /\ UNCHANGED <<private, mem, online, toClient, sends, faults, pages>>

\* broadcast(): connection after connection, in the order of a Go map
Broadcast(u, v) ==
    /\ work[u] # Nothing /\ v \in work[u].left
    /\ Tell(v, work[u].step, work[u].name, TRUE,
            IF work[u].step = "saved" THEN u ELSE Nobody)
    /\ work' = [work EXCEPT ![u] = IF work[u].left = {v} THEN Nothing
                                  ELSE [work[u] EXCEPT !.left = @ \ {v}]]
    /\ UNCHANGED <<database, mem, online, toServer, sends, faults, pages>>

\* The Account's map is changed and written whole.  When that is refused the
\* user is told and the map keeps the change.
Update(u, n, ds, type) ==
    /\ mem' = [mem EXCEPT ![u] = ds]
    /\ \/ /\ private' = [private EXCEPT ![u] = ds]
          /\ Tell(u, type, n, FALSE, Nobody)
          /\ UNCHANGED faults
       \/ /\ Fault
          /\ toClient' = IF u \in online
               THEN [toClient EXCEPT ![u] = Append(@, [type |-> "error", name |-> n,
                                                       shared |-> FALSE, owner |-> Nobody])]
               ELSE toClient
          /\ stale' = [stale EXCEPT ![u] = @ \cup {<<n, FALSE>>}]
          /\ UNCHANGED private
    /\ UNCHANGED <<shared, work, online, sends, pages>>

SavePrivate(u) ==
    /\ Takes(u, "save", FALSE)
    /\ IF Asked(u) \in mem[u]
       THEN /\ Tell(u, "error", Asked(u), FALSE, Nobody)
            /\ UNCHANGED <<database, server, online, sends, faults, pages>>
       ELSE Update(u, Asked(u), mem[u] \cup {Asked(u)}, "saved")

DeletePrivate(u) ==
    /\ Takes(u, "delete", FALSE)
    /\ Update(u, Asked(u), mem[u] \ {Asked(u)}, "deleted")
-----------------------------------------------------------------------------
(***************************************************************************)
(* The page receives.                                                      *)
(***************************************************************************)
Receive(u, type) ==
    /\ toClient[u] # <<>> /\ Head(toClient[u]).type = type
    /\ toClient' = [toClient EXCEPT ![u] = Tail(@)]
    /\ UNCHANGED <<database, server, online, toServer, sends, faults, stale>>

\* Mutants of Added: an entry without its group; an entry of either group counts.
AddedUngrouped(m, e) == m \cup {e[1]}
AddedOnce(m, e) == IF \E sh \in BOOLEAN : <<e[1], sh>> \in m THEN m ELSE m \cup {e}

\* addDropdownEntry()
Added(m, e) == m \cup {e}

\* saved()
OnSaved(u) ==
    /\ Receive(u, "saved")
    /\ LET m == Head(toClient[u]) IN
       /\ menu' = [menu EXCEPT ![u] = Added(@, <<m.name, m.shared>>)]
       /\ SHARED' = IF m.shared THEN [SHARED EXCEPT ![u][m.name] = m.owner] ELSE SHARED
       /\ DASHBOARDS' = IF m.shared THEN DASHBOARDS ELSE [DASHBOARDS EXCEPT ![u] = @ \cup {m.name}]
       /\ header' = IF m.shared THEN [header EXCEPT ![u] = Header(SHARED'[u])] ELSE header
    /\ UNCHANGED selected

\* deleted(): the selection goes, whichever it is.
OnDeleted(u) ==
    /\ Receive(u, "deleted")
    /\ LET m == Head(toClient[u]) IN
       /\ menu' = [menu EXCEPT ![u] = @ \ {<<m.name, m.shared>>}]
       /\ SHARED' = IF m.shared THEN [SHARED EXCEPT ![u][m.name] = Nobody] ELSE SHARED
       /\ DASHBOARDS' = IF m.shared THEN DASHBOARDS ELSE [DASHBOARDS EXCEPT ![u] = @ \ {m.name}]
       /\ header' = IF m.shared THEN [header EXCEPT ![u] = Header(SHARED'[u])] ELSE header
    /\ selected' = [selected EXCEPT ![u] = Nothing]

\* A modal window
OnError(u) == Receive(u, "error") /\ UNCHANGED pages
-----------------------------------------------------------------------------
Next == \E u \in User :
    \/ \E n \in Name, sh \in BOOLEAN : Save(u, n, sh)
    \/ \E e \in Entry : Select(u, e)
    \/ Delete(u)
    \/ Reload(u)
    \/ Load(u)
    \/ Close(u)
    \/ Connect(u)
    \/ FindShared(u)
    \/ InsertShared(u)
    \/ DeleteShared(u)
    \/ \E v \in User : Broadcast(u, v)
    \/ SavePrivate(u)
    \/ DeletePrivate(u)
    \/ OnSaved(u)
    \/ OnDeleted(u)
    \/ OnError(u)

Spec == Init /\ [][Next]_vars
-----------------------------------------------------------------------------
(***************************************************************************)
(* Properties.                                                             *)
(***************************************************************************)
\* A shared dashboard stays as its owner saved it until somebody deletes it,
\* although two users may find the name free at the same time ("Will not be
\* modified until dashboard is deleted/recreated", dashboards.go:21;
\* saveDashboardHandler()).
NotOverwritten ==
    [][\A n \in Name : shared[n] # Nobody => shared'[n] \in {shared[n], Nobody}]_vars

\* The dropdown offers what the page knows of, a private and a shared dashboard
\* of the same name apart, with the header exactly when there are shared ones
\* (saved(), deleted(), addDropdownEntry(), toggleSharedHeader()).
MenuAgrees ==
    \A u \in User :
        /\ menu[u] = Entries(DASHBOARDS[u], SHARED[u])
        /\ header[u] = Header(SHARED[u])

\* Once all that concerns a dashboard has been handled, every connected page
\* shows it as the database has it, unless the page missed a message, two handlers
\* worked on the name at once or an update was refused (broadcast(), saved(),
\* deleted(), saveDashboardHandler(), delDashboardHandler()).
Quiet(u, n) ==
    /\ u \in online /\ toClient[u] = <<>>
    /\ \A v \in User : work[v] = Nothing \/ work[v].name # n
PagesSettle ==
    \A u \in User, n \in Name : Quiet(u, n) =>
        /\ <<n, TRUE>> \notin stale[u] => SHARED[u][n] = shared[n]
        /\ <<n, FALSE>> \notin stale[u] => (n \in DASHBOARDS[u] <=> n \in private[u])

\* The dashboard that is asked to be deleted is the selected one (docs/ui.md:65,
\* "Select from the dropdown and press `Load` or `Delete` to remove the unnecessary
\* one."; delete()).
DeletesSelected ==
    [][\A u \in User : Delete(u) /\ u \in online =>
        LET asked == toServer'[u][Len(toServer'[u])] IN
        <<asked.name, asked.shared>> = selected[u]]_vars
=============================================================================
