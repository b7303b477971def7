-------------------------- MODULE DashboardsProofs --------------------------
(***************************************************************************)
(* The properties of Dashboards hold for any number of users, names,       *)
(* requests and faults.  What keeps every page right is that the last      *)
(* message on its way about a dashboard says what the database has, and    *)
(* that without one the page says so already - unless a broadcast about    *)
(* that name is still to reach the page, or the page missed something.     *)
(***************************************************************************)
EXTENDS Dashboards, TLAPS

-----------------------------------------------------------------------------
(* Messages about a dashboard, and the last one.                           *)
About(m, n, group) == m.type # "error" /\ m.name = n /\ (m.shared <=> group = "shared")

Mentions(s, n, group) == \E i \in DOMAIN s : About(s[i], n, group)

IsLast(s, i, n, group) ==
    /\ About(s[i], n, group)
    /\ \A j \in DOMAIN s : j > i => ~About(s[j], n, group)

\* The broadcasts about a shared dashboard that are not done
Announces(v, n) == work[v] # Nothing /\ work[v].step # "insert" /\ work[v].name = n

\* What the page shows of a dashboard when it has received its messages
SharedKnown(u, n) ==
    /\ ~Mentions(toClient[u], n, "shared") => SHARED[u][n] = shared[n]
    /\ \A i \in DOMAIN toClient[u] :
         IsLast(toClient[u], i, n, "shared") => toClient[u][i].owner = shared[n]

PrivateKnown(u, n) ==
    /\ ~Mentions(toClient[u], n, "private") => (n \in DASHBOARDS[u] <=> n \in private[u])
    /\ \A i \in DOMAIN toClient[u] :
         IsLast(toClient[u], i, n, "private") => (toClient[u][i].type = "saved" <=> n \in private[u])

\* What a page may be wrong about
SharedDoubt(u, n) == <<n, TRUE>> \in stale[u]
PrivateDoubt(u, n) == <<n, FALSE>> \in stale[u]

-----------------------------------------------------------------------------
(* The inductive invariant.                                                *)
\* A message about a shared dashboard has its owner exactly when it was saved.
HasOwner(m) ==
    /\ m.type = "deleted" => m.owner = Nobody
    /\ m.type = "saved" /\ m.shared => m.owner # Nobody
MessagesInv == \A u \in User : \A i \in DOMAIN toClient[u] : HasOwner(toClient[u][i])

\* Of a dashboard a page is not to be wrong about, at most one handler announces
\* something, which is true, and who has been told knows.
SharedOf(u, n) ==
    /\ \A v, w \in User : Announces(v, n) /\ Announces(w, n) => v = w
    /\ \A v \in User : Announces(v, n) =>
         shared[n] = IF work[v].step = "saved" THEN v ELSE Nobody
    /\ (\A v \in User : Announces(v, n) => u \notin work[v].left) => SharedKnown(u, n)
SharedInv == \A u \in User, n \in Name : SharedDoubt(u, n) \/ SharedOf(u, n)

\* The Account of a connection, or of what is still handled of one, has what the
\* database has of a private dashboard, and so will the page.
PrivateOf(u, n) ==
    /\ u \in online \/ toServer[u] # <<>> => (n \in mem[u] <=> n \in private[u])
    /\ PrivateKnown(u, n)
PrivateInv == \A u \in User, n \in Name : PrivateDoubt(u, n) \/ PrivateOf(u, n)

IInv == TypeOK /\ MessagesInv /\ MenuAgrees /\ SharedInv /\ PrivateInv

-----------------------------------------------------------------------------
(* Sequences of messages.                                                  *)

\* Receiving a message: if no other is about n, it was the last one or none was.
LEMMA TailMentions ==
    ASSUME NEW s \in Seq(Reply), s # <<>>, NEW n, NEW group
    PROVE /\ Mentions(s, n, group) /\ ~Mentions(Tail(s), n, group) => IsLast(s, 1, n, group)
          /\ Mentions(Tail(s), n, group) => Mentions(s, n, group)
          /\ \A i \in DOMAIN Tail(s) : /\ i + 1 \in DOMAIN s /\ Tail(s)[i] = s[i + 1]
                                      /\ IsLast(Tail(s), i, n, group) => IsLast(s, i + 1, n, group)
  <1>1. DOMAIN s = 1..Len(s) /\ Len(s) \in Nat \ {0} /\ DOMAIN Tail(s) = 1..(Len(s) - 1)
    OBVIOUS
  <1>2. \A i \in DOMAIN Tail(s) : i + 1 \in DOMAIN s /\ Tail(s)[i] = s[i + 1]
    OBVIOUS
  <1>3. \A j \in DOMAIN s : j = 1 \/ (j - 1 \in DOMAIN Tail(s) /\ Tail(s)[j - 1] = s[j])
    BY <1>1, <1>2
  <1>4. Mentions(Tail(s), n, group) => Mentions(s, n, group)
    BY <1>2 DEF Mentions
  <1>5. Mentions(s, n, group) /\ ~Mentions(Tail(s), n, group) => IsLast(s, 1, n, group)
    <2> SUFFICES ASSUME Mentions(s, n, group), ~Mentions(Tail(s), n, group)
                 PROVE IsLast(s, 1, n, group)
      OBVIOUS
    <2>1. \A j \in DOMAIN s : j # 1 => ~About(s[j], n, group)
      BY <1>3 DEF Mentions
    <2>2. About(s[1], n, group)
      BY <2>1 DEF Mentions
    <2>3. \A j \in DOMAIN s : j > 1 => j # 1
      BY <1>1
    <2> QED BY <2>1, <2>2, <2>3 DEF IsLast
  <1>6. ASSUME NEW i \in DOMAIN Tail(s), IsLast(Tail(s), i, n, group)
        PROVE IsLast(s, i + 1, n, group)
    <2>1. About(s[i + 1], n, group)
      BY <1>2, <1>6 DEF IsLast
    <2>2. ASSUME NEW j \in DOMAIN s, j > i + 1 PROVE ~About(s[j], n, group)
      <3>1. j - 1 \in DOMAIN Tail(s) /\ Tail(s)[j - 1] = s[j] /\ j - 1 > i
        BY <1>1, <1>3, <2>2
      <3> QED BY <3>1, <1>6 DEF IsLast
    <2> QED BY <2>1, <2>2 DEF IsLast
  <1> QED BY <1>2, <1>4, <1>5, <1>6

\* Sending a message
LEMMA AppendMentions ==
    ASSUME NEW s \in Seq(Reply), NEW m \in Reply, NEW n, NEW group
    PROVE LET t == Append(s, m) IN
          /\ ~About(m, n, group) =>
               /\ Mentions(t, n, group) <=> Mentions(s, n, group)
               /\ \A i \in DOMAIN t : IsLast(t, i, n, group) =>
                    i \in DOMAIN s /\ t[i] = s[i] /\ IsLast(s, i, n, group)
          /\ About(m, n, group) =>
               /\ Mentions(t, n, group)
               /\ \A i \in DOMAIN t : IsLast(t, i, n, group) => t[i] = m
  <1> DEFINE t == Append(s, m)
  <1>1. /\ DOMAIN s = 1..Len(s) /\ Len(s) \in Nat /\ DOMAIN t = 1..(Len(s) + 1)
        /\ t[Len(s) + 1] = m /\ \A i \in DOMAIN s : t[i] = s[i]
    OBVIOUS
  <1>2. \A i \in DOMAIN t : i \in DOMAIN s \/ i = Len(s) + 1
    BY <1>1
  <1>3. DOMAIN s \subseteq DOMAIN t /\ Len(s) + 1 \in DOMAIN t
    BY <1>1
  <1> HIDE DEF t
  <1>4. CASE ~About(m, n, group)
    <2>1. Mentions(t, n, group) <=> Mentions(s, n, group)
      BY <1>1, <1>2, <1>3, <1>4 DEF Mentions
    <2>2. \A i \in DOMAIN t : IsLast(t, i, n, group) =>
             i \in DOMAIN s /\ t[i] = s[i] /\ IsLast(s, i, n, group)
      BY <1>1, <1>2, <1>3, <1>4 DEF IsLast
    <2> QED BY <1>4, <2>1, <2>2 DEF t
  <1>5. CASE About(m, n, group)
    <2>1. Mentions(t, n, group)
      BY <1>1, <1>3, <1>5 DEF Mentions
    <2>2. \A i \in DOMAIN t : IsLast(t, i, n, group) => t[i] = m
      <3>1. \A i \in DOMAIN s : Len(s) + 1 > i
        BY <1>1
      <3> QED BY <1>1, <1>2, <1>3, <1>5, <3>1 DEF IsLast
    <2> QED BY <1>5, <2>1, <2>2 DEF t
  <1> QED BY <1>4, <1>5

LEMMA AppendedAt ==
    ASSUME NEW s \in Seq(Reply), NEW m \in Reply, NEW i \in DOMAIN Append(s, m)
    PROVE (i \in DOMAIN s /\ Append(s, m)[i] = s[i]) \/ Append(s, m)[i] = m
  OBVIOUS

LEMMA TailAt ==
    ASSUME NEW s \in Seq(Reply), s # <<>>, NEW i \in DOMAIN Tail(s)
    PROVE i + 1 \in DOMAIN s /\ Tail(s)[i] = s[i + 1]
  OBVIOUS

LEMMA EmptyMentions == \A n, group : ~Mentions(<<>>, n, group)
  BY DEF Mentions

-----------------------------------------------------------------------------
(* Types.                                                                  *)

LEMMA InitTypes == Init => TypeOK
  <1> SUFFICES ASSUME Init PROVE TypeOK
    OBVIOUS
  <1> QED BY DashboardsAssumption DEF Init, TypeOK

LEMMA TellTypes ==
    ASSUME TypeOK, NEW v \in User, NEW type \in {"saved", "deleted", "error"}, NEW n \in Name,
           NEW sh \in BOOLEAN, NEW owner \in User \cup {Nobody}, Tell(v, type, n, sh, owner)
    PROVE toClient' \in [User -> Seq(Reply)] /\ stale' \in [User -> SUBSET Entry]
  <1>1. [type |-> type, name |-> n, shared |-> sh, owner |-> owner] \in Reply
    BY DEF Reply
  <1>2. <<n, sh>> \in Entry
    BY DEF Entry
  <1>3. CASE v \in online
    <2>1. Append(toClient[v], [type |-> type, name |-> n, shared |-> sh, owner |-> owner]) \in Seq(Reply)
      BY <1>1 DEF TypeOK
    <2> QED BY <1>3, <2>1 DEF Tell, TypeOK
  <1>4. CASE v \notin online
    <2>1. (IF type = "error" THEN stale[v] ELSE stale[v] \cup {<<n, sh>>}) \in SUBSET Entry
      BY <1>2 DEF TypeOK
    <2> QED BY <1>4, <2>1 DEF Tell, TypeOK
  <1> QED BY <1>3, <1>4

LEMMA EntriesType ==
    ASSUME NEW d \in SUBSET Name, NEW s PROVE Entries(d, s) \in SUBSET Entry
  BY DEF Entries, Entry

\* The request a handler takes
LEMMA TakesTypes ==
    ASSUME TypeOK, NEW u \in User, NEW type, NEW sh, Takes(u, type, sh)
    PROVE Asked(u) \in Name /\ toServer' \in [User -> Seq(Request)]
  <1>1. toServer[u] \in Seq(Request) /\ toServer[u] # <<>>
    BY DEF Takes, TypeOK
  <1>2. Head(toServer[u]) \in Request /\ Tail(toServer[u]) \in Seq(Request)
    BY <1>1
  <1> QED BY <1>2 DEF Asked, Request, Takes, TypeOK

LEMMA BroadcastsTypes ==
    ASSUME TypeOK, NEW u \in User, NEW step \in {"saved", "deleted"}, NEW n \in Name,
           Broadcasts(u, step, n)
    PROVE work' \in [User -> Handler \cup {Nothing}] /\ stale' \in [User -> SUBSET Entry]
  <1>1. [step |-> step, name |-> n, left |-> User] \in Handler
    BY DEF Handler
  <1>2. <<n, TRUE>> \in Entry
    BY DEF Entry
  <1>3. stale' \in [User -> SUBSET Entry]
    BY <1>2 DEF Broadcasts, TypeOK
  <1> QED BY <1>1, <1>3 DEF Broadcasts, TypeOK

LEMMA SendTypes ==
    ASSUME TypeOK, NEW u \in User, NEW type \in {"save", "delete"}, NEW n \in Name,
           NEW sh \in BOOLEAN, Send(u, type, n, sh)
    PROVE TypeOK'
  <1>1. [type |-> type, name |-> n, shared |-> sh] \in Request
    BY DEF Request
  <1>2. toServer' \in [User -> Seq(Request)]
    BY <1>1 DEF Send, TypeOK
  <1>3. sends' \in 0..MaxSends
    BY DashboardsAssumption DEF Send, TypeOK
  <1> QED BY <1>2, <1>3 DEF Send, TypeOK, database, server, pages

LEMMA FaultType == ASSUME TypeOK, Fault PROVE faults' \in 0..MaxFaults
  BY DashboardsAssumption DEF Fault, TypeOK

LEMMA ItemType ==
    ASSUME NEW m, NEW n \in Name PROVE Item(m, n) \in Entry
  BY DEF Item, Entry

LEMMA RenderTypes ==
    ASSUME TypeOK, NEW u \in User, NEW address \in Name \cup {Nothing}, Render(u, address)
    PROVE TypeOK'
  <1>1. online' \subseteq User /\ toServer' \in [User -> Seq(Request)]
    <2>1. online' = online \ {u} /\ toServer' \in {toServer, [toServer EXCEPT ![u] = <<>>]}
      BY DEF Render
    <2>2. <<>> \in Seq(Request)
      OBVIOUS
    <2> QED BY <2>1, <2>2 DEF TypeOK
  <1>2. toClient' \in [User -> Seq(Reply)]
    <2>1. toClient' = [toClient EXCEPT ![u] = <<>>] /\ <<>> \in Seq(Reply)
      BY DEF Render
    <2> QED BY <2>1 DEF TypeOK
  <1>3. SHARED' \in [User -> [Name -> User \cup {Nobody}]] /\ DASHBOARDS' \in [User -> SUBSET Name]
    BY DEF Render, TypeOK
  <1>4. menu' \in [User -> SUBSET Entry]
    BY EntriesType DEF Render, TypeOK
  <1>5. header' \in [User -> BOOLEAN]
    BY DEF Render, TypeOK, Header
  <1>6. selected' \in [User -> Entry \cup {Nothing}]
    <2>1. (\E sh \in BOOLEAN : <<address, sh>> \in menu'[u]) => address \in Name
      BY <1>4 DEF Entry
    <2>2. (IF \E sh \in BOOLEAN : <<address, sh>> \in menu'[u]
           THEN Item(menu'[u], address) ELSE Nothing) \in Entry \cup {Nothing}
      BY <2>1, ItemType
    <2> QED BY <2>2 DEF Render, TypeOK
  <1>7. stale' \in [User -> SUBSET Entry]
    BY DEF Render, TypeOK
  <1> QED
    BY <1>1, <1>2, <1>3, <1>4, <1>5, <1>6, <1>7 DEF Render, TypeOK, database, server

LEMMA UpdateTypes ==
    ASSUME TypeOK, NEW u \in User, NEW n \in Name, NEW ds \in SUBSET Name,
           NEW type \in {"saved", "deleted"}, toServer' \in [User -> Seq(Request)],
           Update(u, n, ds, type)
    PROVE TypeOK'
  <1>1. mem' \in [User -> SUBSET Name]
    BY DEF Update, TypeOK
  <1>2. UNCHANGED <<shared, work, online, sends, pages>>
    BY DEF Update
  <1>3. CASE private' = [private EXCEPT ![u] = ds] /\ Tell(u, type, n, FALSE, Nobody) /\ UNCHANGED faults
    <2>1. private' \in [User -> SUBSET Name]
      BY <1>3 DEF TypeOK
    <2>2. toClient' \in [User -> Seq(Reply)] /\ stale' \in [User -> SUBSET Entry]
      BY <1>3, TellTypes
    <2> QED BY <1>1, <1>2, <1>3, <2>1, <2>2 DEF TypeOK, pages
  <1>4. CASE /\ Fault /\ UNCHANGED private
             /\ toClient' = IF u \in online
                  THEN [toClient EXCEPT ![u] = Append(@, [type |-> "error", name |-> n,
                                                       shared |-> FALSE, owner |-> Nobody])]
                  ELSE toClient
             /\ stale' = [stale EXCEPT ![u] = @ \cup {<<n, FALSE>>}]
    <2>1. [type |-> "error", name |-> n, shared |-> FALSE, owner |-> Nobody] \in Reply
      BY DEF Reply
    <2>2. toClient' \in [User -> Seq(Reply)]
      BY <1>4, <2>1 DEF TypeOK
    <2>3. stale' \in [User -> SUBSET Entry]
      <3>1. <<n, FALSE>> \in Entry
        BY DEF Entry
      <3> QED BY <1>4, <3>1 DEF TypeOK
    <2> QED BY <1>1, <1>2, <1>4, <2>2, <2>3, FaultType DEF TypeOK, pages
  <1> QED BY <1>3, <1>4 DEF Update

LEMMA HeadReply ==
    ASSUME TypeOK, NEW u \in User, NEW type, Receive(u, type)
    PROVE /\ toClient[u] \in Seq(Reply) /\ toClient[u] # <<>>
          /\ Head(toClient[u]) = toClient[u][1] /\ Head(toClient[u]) \in Reply
          /\ Head(toClient[u]).type = type
          /\ Head(toClient[u]).name \in Name /\ Head(toClient[u]).shared \in BOOLEAN
          /\ Head(toClient[u]).owner \in User \cup {Nobody}
          /\ toClient' \in [User -> Seq(Reply)] /\ toClient'[u] = Tail(toClient[u])
  <1>1. toClient[u] \in Seq(Reply) /\ toClient[u] # <<>> /\ Head(toClient[u]).type = type
    BY DEF Receive, TypeOK
  <1>2. Head(toClient[u]) = toClient[u][1] /\ Head(toClient[u]) \in Reply
        /\ Tail(toClient[u]) \in Seq(Reply)
    BY <1>1
  <1>3. toClient' \in [User -> Seq(Reply)] /\ toClient'[u] = Tail(toClient[u])
    BY <1>2 DEF Receive, TypeOK
  <1> QED BY <1>1, <1>2, <1>3 DEF Reply

LEMMA ReceiveTypes ==
    ASSUME TypeOK, NEW u \in User, OnSaved(u) \/ OnDeleted(u) \/ OnError(u)
    PROVE TypeOK'
  <1> DEFINE m == Head(toClient[u])
  <1>1. CASE OnSaved(u)
    <2>1. m.name \in Name /\ m.shared \in BOOLEAN /\ m.owner \in User \cup {Nobody}
          /\ toClient' \in [User -> Seq(Reply)]
      BY <1>1, HeadReply DEF OnSaved
    <2>2. menu' \in [User -> SUBSET Entry]
      <3>1. <<m.name, m.shared>> \in Entry
        BY <2>1 DEF Entry
      <3> QED BY <1>1, <3>1 DEF OnSaved, Added, TypeOK
    <2>3. SHARED' \in [User -> [Name -> User \cup {Nobody}]]
      BY <1>1, <2>1 DEF OnSaved, TypeOK
    <2>4. DASHBOARDS' \in [User -> SUBSET Name]
      BY <1>1, <2>1 DEF OnSaved, TypeOK
    <2>5. header' \in [User -> BOOLEAN]
      BY <1>1 DEF OnSaved, TypeOK, Header
    <2> QED BY <1>1, <2>1, <2>2, <2>3, <2>4, <2>5
            DEF OnSaved, Receive, TypeOK, database, server
  <1>2. CASE OnDeleted(u)
    <2>1. m.name \in Name /\ m.shared \in BOOLEAN /\ toClient' \in [User -> Seq(Reply)]
      BY <1>2, HeadReply DEF OnDeleted
    <2>2. menu' \in [User -> SUBSET Entry] /\ selected' \in [User -> Entry \cup {Nothing}]
      BY <1>2 DEF OnDeleted, TypeOK
    <2>3. SHARED' \in [User -> [Name -> User \cup {Nobody}]]
      BY <1>2, <2>1 DEF OnDeleted, TypeOK
    <2>4. DASHBOARDS' \in [User -> SUBSET Name]
      BY <1>2, <2>1 DEF OnDeleted, TypeOK
    <2>5. header' \in [User -> BOOLEAN]
      BY <1>2 DEF OnDeleted, TypeOK, Header
    <2> QED BY <1>2, <2>1, <2>2, <2>3, <2>4, <2>5
            DEF OnDeleted, Receive, TypeOK, database, server
  <1>3. CASE OnError(u)
    <2>1. toClient' \in [User -> Seq(Reply)]
      BY <1>3, HeadReply DEF OnError
    <2> QED BY <1>3, <2>1 DEF OnError, Receive, TypeOK, database, server, pages
  <1> QED BY <1>1, <1>2, <1>3

LEMMA SelectedName ==
    ASSUME TypeOK, NEW u \in User, selected[u] # Nothing
    PROVE selected[u] \in Entry /\ selected[u][1] \in Name
  BY DEF TypeOK, Entry

LEMMA TypeStep == TypeOK /\ [Next]_vars => TypeOK'
  <1> SUFFICES ASSUME TypeOK, [Next]_vars PROVE TypeOK'
    OBVIOUS
  <1>1. ASSUME NEW u \in User, NEW n \in Name, NEW sh \in BOOLEAN, Save(u, n, sh) PROVE TypeOK'
    BY <1>1, SendTypes DEF Save
  <1>2. ASSUME NEW u \in User, NEW e \in Entry, Select(u, e) PROVE TypeOK'
    BY <1>2 DEF Select, TypeOK, database, server, wires
  <1>3. ASSUME NEW u \in User, Delete(u) PROVE TypeOK'
    <2> DEFINE item == Item(menu[u], selected[u][1])
    <2>1. item \in Entry
      BY <1>3, SelectedName, ItemType DEF Delete
    <2>2. item[1] \in Name /\ item[2] \in BOOLEAN
      BY <2>1 DEF Entry
    <2>3. Send(u, "delete", item[1], item[2])
      BY <1>3 DEF Delete
    <2> QED BY <2>2, <2>3, SendTypes
  <1>4. ASSUME NEW u \in User, Reload(u) PROVE TypeOK'
    BY <1>4, RenderTypes DEF Reload
  <1>5. ASSUME NEW u \in User, Load(u) PROVE TypeOK'
    BY <1>5, RenderTypes, SelectedName DEF Load
  <1>6. ASSUME NEW u \in User, Close(u) PROVE TypeOK'
    <2>1. online' \subseteq User
      BY <1>6 DEF Close, TypeOK
    <2>2. toServer' \in [User -> Seq(Request)]
      <3>1. toServer' \in {toServer, [toServer EXCEPT ![u] = <<>>]} /\ <<>> \in Seq(Request)
        BY <1>6 DEF Close
      <3> QED BY <3>1 DEF TypeOK
    <2>3. toClient' \in [User -> Seq(Reply)]
      <3>1. toClient' = [toClient EXCEPT ![u] = <<>>] /\ <<>> \in Seq(Reply)
        BY <1>6 DEF Close
      <3> QED BY <3>1 DEF TypeOK
    <2>4. stale' \in [User -> SUBSET Entry]
      <3>1. \A i \in DOMAIN toClient[u] : toClient[u][i] \in Reply
        BY DEF TypeOK
      <3>2. \A i \in DOMAIN toClient[u] : <<toClient[u][i].name, toClient[u][i].shared>> \in Entry
        BY <3>1 DEF Reply, Entry
      <3> QED BY <1>6, <3>2 DEF Close, TypeOK
    <2> QED BY <1>6, <2>1, <2>2, <2>3, <2>4, FaultType
            DEF Close, TypeOK, database, server, pages
  <1>7. ASSUME NEW u \in User, Connect(u) PROVE TypeOK'
    BY <1>7 DEF Connect, TypeOK, database, pages
  <1>8. ASSUME NEW u \in User, FindShared(u) PROVE TypeOK'
    <2>1. Asked(u) \in Name /\ toServer' \in [User -> Seq(Request)]
      BY <1>8, TakesTypes DEF FindShared
    <2>2. [step |-> "insert", name |-> Asked(u), left |-> {}] \in Handler
      BY <2>1 DEF Handler
    <2>3. work' \in [User -> Handler \cup {Nothing}]
      BY <1>8, <2>2 DEF FindShared, TypeOK
    <2>4. toClient' \in [User -> Seq(Reply)] /\ stale' \in [User -> SUBSET Entry]
      BY <1>8, <2>1, TellTypes DEF FindShared, TypeOK
    <2> QED BY <1>8, <2>1, <2>3, <2>4 DEF FindShared, TypeOK, database, pages
  <1>9. ASSUME NEW u \in User, InsertShared(u) PROVE TypeOK'
    <2> DEFINE n == work[u].name
    <2>1. work[u] \in Handler /\ n \in Name
      BY <1>9 DEF InsertShared, TypeOK, Handler
    <2>2. CASE Taken(u, n)
      <3>1. work' = [work EXCEPT ![u] = Nothing] /\ Tell(u, "error", n, TRUE, Nobody) /\ UNCHANGED shared
        BY <1>9, <2>2 DEF InsertShared
      <3>2. toClient' \in [User -> Seq(Reply)] /\ stale' \in [User -> SUBSET Entry]
        BY <2>1, <3>1, TellTypes
      <3>3. work' \in [User -> Handler \cup {Nothing}]
        BY <3>1 DEF TypeOK
      <3> QED BY <1>9, <3>1, <3>2, <3>3 DEF InsertShared, TypeOK, pages
    <2>3. CASE ~Taken(u, n)
      <3>1. shared' = [shared EXCEPT ![n] = u] /\ Broadcasts(u, "saved", n) /\ UNCHANGED toClient
        BY <1>9, <2>3 DEF InsertShared
      <3>2. work' \in [User -> Handler \cup {Nothing}] /\ stale' \in [User -> SUBSET Entry]
        BY <2>1, <3>1, BroadcastsTypes
      <3>3. shared' \in [Name -> User \cup {Nobody}]
        BY <3>1 DEF TypeOK
      <3> QED BY <1>9, <3>1, <3>2, <3>3 DEF InsertShared, TypeOK, pages
    <2> QED BY <2>2, <2>3
  <1>10. ASSUME NEW u \in User, DeleteShared(u) PROVE TypeOK'
    <2>1. Asked(u) \in Name /\ toServer' \in [User -> Seq(Request)]
      BY <1>10, TakesTypes DEF DeleteShared
    <2>2. work' \in [User -> Handler \cup {Nothing}] /\ stale' \in [User -> SUBSET Entry]
      BY <1>10, <2>1, BroadcastsTypes DEF DeleteShared
    <2>3. shared' \in [Name -> User \cup {Nobody}]
      BY <1>10 DEF DeleteShared, TypeOK
    <2> QED BY <1>10, <2>1, <2>2, <2>3 DEF DeleteShared, TypeOK, pages
  <1>11. ASSUME NEW u \in User, NEW v \in User, Broadcast(u, v) PROVE TypeOK'
    <2>1. work[u] \in Handler /\ work[u].name \in Name
          /\ work[u].step \in {"saved", "deleted"} /\ work[u].left \subseteq User
      BY <1>11 DEF Broadcast, TypeOK, Handler
    <2>2. work' \in [User -> Handler \cup {Nothing}]
      <3>1. [work[u] EXCEPT !.left = @ \ {v}] \in Handler
        BY <2>1 DEF Handler
      <3>2. work' = [work EXCEPT ![u] = IF work[u].left = {v} THEN Nothing
                                        ELSE [work[u] EXCEPT !.left = @ \ {v}]]
        BY <1>11 DEF Broadcast
      <3> QED BY <3>1, <3>2 DEF TypeOK
    <2>3. toClient' \in [User -> Seq(Reply)] /\ stale' \in [User -> SUBSET Entry]
      BY <1>11, <2>1, TellTypes DEF Broadcast
    <2> QED BY <1>11, <2>2, <2>3 DEF Broadcast, TypeOK, database, pages
  <1>12. ASSUME NEW u \in User, SavePrivate(u) PROVE TypeOK'
    <2>1. Asked(u) \in Name /\ toServer' \in [User -> Seq(Request)]
      BY <1>12, TakesTypes DEF SavePrivate
    <2>2. CASE Asked(u) \in mem[u]
      <3>1. toClient' \in [User -> Seq(Reply)] /\ stale' \in [User -> SUBSET Entry]
        BY <1>12, <2>1, <2>2, TellTypes DEF SavePrivate
      <3> QED BY <1>12, <2>1, <2>2, <3>1 DEF SavePrivate, TypeOK, database, server, pages
    <2>3. CASE Asked(u) \notin mem[u]
      <3>1. mem[u] \cup {Asked(u)} \in SUBSET Name
        BY <2>1 DEF TypeOK
      <3> QED BY <1>12, <2>1, <2>3, <3>1, UpdateTypes DEF SavePrivate
    <2> QED BY <2>2, <2>3
  <1>13. ASSUME NEW u \in User, DeletePrivate(u) PROVE TypeOK'
    <2>1. Asked(u) \in Name /\ toServer' \in [User -> Seq(Request)]
      BY <1>13, TakesTypes DEF DeletePrivate
    <2>2. mem[u] \ {Asked(u)} \in SUBSET Name
      BY DEF TypeOK
    <2> QED BY <1>13, <2>1, <2>2, UpdateTypes DEF DeletePrivate
  <1>14. ASSUME NEW u \in User, OnSaved(u) \/ OnDeleted(u) \/ OnError(u) PROVE TypeOK'
    BY <1>14, ReceiveTypes
  <1>15. CASE UNCHANGED vars
    BY <1>15 DEF vars, TypeOK, database, server, wires, pages
  <1> QED
    BY <1>1, <1>2, <1>3, <1>4, <1>5, <1>6, <1>7, <1>8, <1>9, <1>10, <1>11, <1>12, <1>13,
       <1>14, <1>15 DEF Next

-----------------------------------------------------------------------------
(* What steps do to the messages on their way.                             *)

\* A message is appended for a connected page; a page that is not misses it.
Letter(type, n, sh, owner) == [type |-> type, name |-> n, shared |-> sh, owner |-> owner]

Posted(v, m) ==
    /\ m \in Reply
    /\ \A u \in User : stale[u] \subseteq stale'[u]
    /\ \A u \in User : u # v => toClient'[u] = toClient[u]
    /\ \/ toClient'[v] = Append(toClient[v], m)
       \/ /\ toClient'[v] = toClient[v]
          /\ \A n \in Name :
               /\ About(m, n, "shared") => SharedDoubt(v, n)'
               /\ About(m, n, "private") => PrivateDoubt(v, n)'

LEMMA TellPosts ==
    ASSUME TypeOK, NEW v \in User, NEW type \in {"saved", "deleted", "error"}, NEW n \in Name,
           NEW sh \in BOOLEAN, NEW owner \in User \cup {Nobody}, Tell(v, type, n, sh, owner)
    PROVE Posted(v, Letter(type, n, sh, owner))
  <1>1. Letter(type, n, sh, owner) \in Reply
    BY DEF Letter, Reply
  <1>2. CASE v \in online
    <2>1. toClient' = [toClient EXCEPT ![v] = Append(@, Letter(type, n, sh, owner))] /\ stale' = stale
      BY <1>2 DEF Tell, Letter
    <2> QED BY <1>1, <2>1 DEF TypeOK, Posted
  <1>3. CASE v \notin online
    <2>1. toClient' = toClient
          /\ stale' = [stale EXCEPT ![v] = IF type = "error" THEN @ ELSE @ \cup {<<n, sh>>}]
      BY <1>3 DEF Tell
    <2>2. ASSUME NEW k \in Name, About(Letter(type, n, sh, owner), k, "shared")
          PROVE SharedDoubt(v, k)'
      <3>1. k = n /\ sh = TRUE /\ type # "error"
        BY <2>2 DEF About, Letter
      <3>2. stale'[v] = stale[v] \cup {<<k, TRUE>>}
        BY <2>1, <3>1 DEF TypeOK
      <3> QED BY <3>2 DEF SharedDoubt
    <2>3. ASSUME NEW k \in Name, About(Letter(type, n, sh, owner), k, "private")
          PROVE PrivateDoubt(v, k)'
      <3>1. k = n /\ sh = FALSE /\ type # "error"
        BY <2>3 DEF About, Letter
      <3>2. stale'[v] = stale[v] \cup {<<k, FALSE>>}
        BY <2>1, <3>1 DEF TypeOK
      <3> QED BY <3>2 DEF PrivateDoubt
    <2>4. \A u \in User : stale[u] \subseteq stale'[u]
      BY <2>1 DEF TypeOK
    <2> QED BY <1>1, <2>1, <2>2, <2>3, <2>4 DEF Posted
  <1> QED BY <1>2, <1>3

LEMMA PostedMessages ==
    ASSUME TypeOK, MessagesInv, NEW v \in User, NEW m, Posted(v, m), HasOwner(m)
    PROVE MessagesInv'
  <1> SUFFICES ASSUME NEW u \in User, NEW i \in DOMAIN toClient'[u]
               PROVE HasOwner(toClient'[u][i])
    BY DEF MessagesInv
  <1>1. CASE toClient'[u] = toClient[u]
    BY <1>1 DEF MessagesInv
  <1>2. CASE toClient'[u] = Append(toClient[u], m)
    <2>1. toClient[u] \in Seq(Reply) /\ m \in Reply
      BY DEF TypeOK, Posted
    <2>2. \/ i \in DOMAIN toClient[u] /\ toClient'[u][i] = toClient[u][i]
          \/ toClient'[u][i] = m
      BY <1>2, <2>1, AppendedAt
    <2>3. CASE i \in DOMAIN toClient[u] /\ toClient'[u][i] = toClient[u][i]
      BY <2>3 DEF MessagesInv
    <2> QED BY <2>2, <2>3
  <1> QED BY <1>1, <1>2 DEF Posted

\* A private map is written: the user is told that it is, or why not.
LEMMA UpdatePosts ==
    ASSUME TypeOK, NEW u \in User, NEW n \in Name, NEW ds,
           NEW type \in {"saved", "deleted"}, Update(u, n, ds, type)
    PROVE /\ mem' = [mem EXCEPT ![u] = ds]
          /\ \/ /\ private' = [private EXCEPT ![u] = ds]
                /\ Posted(u, Letter(type, n, FALSE, Nobody))
             \/ /\ private' = private /\ PrivateDoubt(u, n)'
                /\ Posted(u, Letter("error", n, FALSE, Nobody))
  <1>1. CASE private' = [private EXCEPT ![u] = ds] /\ Tell(u, type, n, FALSE, Nobody)
    <2>1. Posted(u, Letter(type, n, FALSE, Nobody))
      BY <1>1, TellPosts
    <2> QED BY <1>1, <2>1 DEF Update
  <1>2. CASE /\ private' = private
             /\ toClient' = IF u \in online
                  THEN [toClient EXCEPT ![u] = Append(@, Letter("error", n, FALSE, Nobody))]
                  ELSE toClient
             /\ stale' = [stale EXCEPT ![u] = @ \cup {<<n, FALSE>>}]
    <2>1. Letter("error", n, FALSE, Nobody) \in Reply /\ Letter("error", n, FALSE, Nobody).type = "error"
      BY DEF Letter, Reply
    <2>2. Posted(u, Letter("error", n, FALSE, Nobody))
      <3>1. \A k \in Name : ~About(Letter("error", n, FALSE, Nobody), k, "shared")
                            /\ ~About(Letter("error", n, FALSE, Nobody), k, "private")
        BY <2>1 DEF About
      <3> QED BY <1>2, <2>1, <3>1 DEF Posted, TypeOK
    <2>3. PrivateDoubt(u, n)'
      <3>1. stale'[u] = stale[u] \cup {<<n, FALSE>>}
        BY <1>2 DEF TypeOK
      <3> QED BY <3>1 DEF PrivateDoubt
    <2> QED BY <1>2, <2>2, <2>3 DEF Update
  <1> QED BY <1>1, <1>2 DEF Update, Letter

LEMMA ReceiveMessages ==
    ASSUME TypeOK, MessagesInv, NEW u \in User, NEW type, Receive(u, type)
    PROVE MessagesInv' /\ HasOwner(Head(toClient[u]))
  <1>1. HasOwner(Head(toClient[u]))
    <2>1. 1 \in DOMAIN toClient[u]
      BY HeadReply
    <2> QED BY <2>1, HeadReply DEF MessagesInv
  <1>2. ASSUME NEW v \in User, NEW i \in DOMAIN toClient'[v] PROVE HasOwner(toClient'[v][i])
    <2>1. CASE v = u
      <3>1. i + 1 \in DOMAIN toClient[u] /\ toClient'[v][i] = toClient[u][i + 1]
        <4>1. toClient[u] \in Seq(Reply) /\ toClient[u] # <<>> /\ toClient'[u] = Tail(toClient[u])
          BY HeadReply
        <4>2. i \in DOMAIN Tail(toClient[u])
          BY <1>2, <2>1, <4>1
        <4> QED BY <2>1, <4>1, <4>2, TailAt
      <3> QED BY <3>1 DEF MessagesInv
    <2>2. CASE v # u
      BY <1>2, <2>2 DEF Receive, MessagesInv, TypeOK
    <2> QED BY <2>1, <2>2
  <1> QED BY <1>1, <1>2 DEF MessagesInv

LEMMA ClearMessages ==
    ASSUME TypeOK, MessagesInv, NEW u \in User, toClient' = [toClient EXCEPT ![u] = <<>>]
    PROVE MessagesInv'
  BY DEF MessagesInv, TypeOK

LEMMA HandlerType ==
    ASSUME TypeOK, NEW u \in User, work[u] # Nothing
    PROVE work[u].name \in Name /\ work[u].step \in {"insert", "saved", "deleted"}
          /\ work[u].left \subseteq User
          /\ (work[u].step = "insert" => work[u].left = {})
  BY DEF TypeOK, Handler

LEMMA UpdateMessages ==
    ASSUME TypeOK, MessagesInv, NEW u \in User, NEW n \in Name, NEW ds,
           NEW type \in {"saved", "deleted"}, Update(u, n, ds, type)
    PROVE MessagesInv'
  <1>1. HasOwner(Letter(type, n, FALSE, Nobody)) /\ HasOwner(Letter("error", n, FALSE, Nobody))
    BY DEF HasOwner, Letter
  <1>2. Posted(u, Letter(type, n, FALSE, Nobody)) \/ Posted(u, Letter("error", n, FALSE, Nobody))
    BY UpdatePosts
  <1> QED BY <1>1, <1>2, PostedMessages

LEMMA MessagesStep == TypeOK /\ MessagesInv /\ [Next]_vars => MessagesInv'
  <1> SUFFICES ASSUME TypeOK, MessagesInv, [Next]_vars PROVE MessagesInv'
    OBVIOUS
  <1>1. CASE UNCHANGED toClient
    BY <1>1 DEF MessagesInv
  <1>2. ASSUME NEW u \in User, toClient' = [toClient EXCEPT ![u] = <<>>] PROVE MessagesInv'
    BY <1>2, ClearMessages
  <1>3. ASSUME NEW u \in User, FindShared(u) PROVE MessagesInv'
    <2>1. Asked(u) \in Name
      BY <1>3, TakesTypes DEF FindShared
    <2>2. HasOwner(Letter("error", Asked(u), TRUE, Nobody))
      BY DEF HasOwner, Letter
    <2> QED BY <1>1, <1>3, <2>1, <2>2, TellPosts, PostedMessages DEF FindShared
  <1>4. ASSUME NEW u \in User, InsertShared(u) PROVE MessagesInv'
    <2>1. work[u].name \in Name
      BY <1>4, HandlerType DEF InsertShared
    <2>2. HasOwner(Letter("error", work[u].name, TRUE, Nobody))
      BY DEF HasOwner, Letter
    <2> QED BY <1>1, <1>4, <2>1, <2>2, TellPosts, PostedMessages DEF InsertShared
  <1>5. ASSUME NEW u \in User, NEW v \in User, Broadcast(u, v) PROVE MessagesInv'
    <2> DEFINE owner == IF work[u].step = "saved" THEN u ELSE Nobody
    <2>1. work[u].name \in Name /\ work[u].step \in {"saved", "deleted"}
      BY <1>5, HandlerType DEF Broadcast
    <2>2. HasOwner(Letter(work[u].step, work[u].name, TRUE, owner))
      BY <2>1, DashboardsAssumption DEF HasOwner, Letter
    <2>3. Tell(v, work[u].step, work[u].name, TRUE, owner)
      BY <1>5 DEF Broadcast
    <2>4. Posted(v, Letter(work[u].step, work[u].name, TRUE, owner))
      BY <2>1, <2>3, TellPosts
    <2> QED BY <2>2, <2>4, PostedMessages
  <1>6. ASSUME NEW u \in User, SavePrivate(u) PROVE MessagesInv'
    <2>1. Asked(u) \in Name
      BY <1>6, TakesTypes DEF SavePrivate
    <2>2. HasOwner(Letter("error", Asked(u), FALSE, Nobody))
      BY DEF HasOwner, Letter
    <2>3. CASE Tell(u, "error", Asked(u), FALSE, Nobody)
      BY <2>1, <2>2, <2>3, TellPosts, PostedMessages
    <2>4. Tell(u, "error", Asked(u), FALSE, Nobody) \/ Update(u, Asked(u), mem[u] \cup {Asked(u)}, "saved")
      BY <1>6 DEF SavePrivate
    <2>5. CASE Update(u, Asked(u), mem[u] \cup {Asked(u)}, "saved")
      BY <2>1, <2>5, UpdateMessages
    <2> QED BY <2>3, <2>4, <2>5
  <1>7. ASSUME NEW u \in User, DeletePrivate(u) PROVE MessagesInv'
    <2>1. Asked(u) \in Name
      BY <1>7, TakesTypes DEF DeletePrivate
    <2> QED BY <1>7, <2>1, UpdateMessages DEF DeletePrivate
  <1>8. ASSUME NEW u \in User, OnSaved(u) \/ OnDeleted(u) \/ OnError(u) PROVE MessagesInv'
    BY <1>8, ReceiveMessages DEF OnSaved, OnDeleted, OnError
  <1>9. ASSUME NEW u \in User,
               \/ \E n \in Name, sh \in BOOLEAN : Save(u, n, sh)
               \/ \E e \in Entry : Select(u, e)
               \/ Delete(u)
               \/ Connect(u)
               \/ DeleteShared(u)
        PROVE UNCHANGED toClient
    BY <1>9 DEF Save, Select, Delete, Send, Connect, DeleteShared, wires
  <1>10. ASSUME NEW u \in User, Reload(u) \/ Load(u) \/ Close(u)
         PROVE toClient' = [toClient EXCEPT ![u] = <<>>]
    BY <1>10 DEF Reload, Load, Render, Close
  <1>11. CASE UNCHANGED vars
    BY <1>1, <1>11 DEF vars, wires
  <1> QED
    BY <1>1, <1>2, <1>3, <1>4, <1>5, <1>6, <1>7, <1>8, <1>9, <1>10, <1>11 DEF Next

-----------------------------------------------------------------------------
(* The dropdown.                                                           *)

LEMMA EntryParts == \A x \in Entry : x[1] \in Name /\ x[2] \in BOOLEAN
  BY DEF Entry

LEMMA IsAnEntry == \A n \in Name : <<n, TRUE>> \in Entry /\ <<n, FALSE>> \in Entry
  BY DEF Entry

\* An entry is told by its name and its group.
LEMMA IsEntry ==
    ASSUME NEW x \in Entry, NEW k \in Name
    PROVE /\ x = <<k, TRUE>> <=> (x[1] = k /\ x[2])
          /\ x = <<k, FALSE>> <=> (x[1] = k /\ ~x[2])
  <1>1. ASSUME x = <<k, TRUE>> PROVE x[1] = k /\ x[2]
    BY <1>1
  <1>2. PICK n \in Name, b \in BOOLEAN : x = <<n, b>>
    BY DEF Entry
  <1>3. x[1] = n /\ x[2] = b
    BY <1>2
  <1>4. ASSUME x[1] = k, x[2] PROVE x = <<k, TRUE>>
    <2>1. b = TRUE /\ n = k
      BY <1>3, <1>4
    <2> QED BY <1>2, <2>1
  <1>5. ASSUME x = <<k, FALSE>> PROVE x[1] = k /\ ~x[2]
    BY <1>5
  <1>6. ASSUME x[1] = k, ~x[2] PROVE x = <<k, FALSE>>
    <2>1. b = FALSE /\ n = k
      BY <1>3, <1>6
    <2> QED BY <1>2, <2>1
  <1> QED BY <1>1, <1>4, <1>5, <1>6

\* What a page may know of shared dashboards
Owners == [Name -> User \cup {Nobody}]

\* The changes, named
Owned(s, k, o) == [s EXCEPT ![k] = o]
Without(a, x) == a \ {x}

LEMMA OwnedEntries ==
    \A d \in SUBSET Name, s \in Owners, k \in Name, o \in User :
        Entries(d, Owned(s, k, o)) = Entries(d, s) \cup {<<k, TRUE>>}
  <1> TAKE d \in SUBSET Name, s \in Owners, k \in Name, o \in User
  <1> DEFINE p == <<k, TRUE>>
  <1>1. p \in Entry /\ o # Nobody
    BY IsAnEntry, DashboardsAssumption
  <1>2. \A x \in Entry : x = p <=> (x[1] = k /\ x[2])
    BY IsEntry
  <1> HIDE DEF p
  <1>3. Entries(d, Owned(s, k, o)) = Entries(d, s) \cup {p}
    BY <1>1, <1>2, EntryParts DEF Entries, Owners, Owned
  <1> QED BY <1>3 DEF p

LEMMA FreedEntries ==
    \A d \in SUBSET Name, s \in Owners, k \in Name :
        Entries(d, Owned(s, k, Nobody)) = Without(Entries(d, s), <<k, TRUE>>)
  <1> TAKE d \in SUBSET Name, s \in Owners, k \in Name
  <1> DEFINE p == <<k, TRUE>>
  <1>1. p \in Entry
    BY IsAnEntry
  <1>2. \A x \in Entry : x = p <=> (x[1] = k /\ x[2])
    BY IsEntry
  <1> HIDE DEF p
  <1>3. Entries(d, Owned(s, k, Nobody)) = Without(Entries(d, s), p)
    BY <1>1, <1>2, EntryParts DEF Entries, Owners, Owned, Without
  <1> QED BY <1>3 DEF p

LEMMA PrivateEntries ==
    \A d \in SUBSET Name, s \in Owners, k \in Name :
        /\ Entries(d \cup {k}, s) = Entries(d, s) \cup {<<k, FALSE>>}
        /\ Entries(Without(d, k), s) = Without(Entries(d, s), <<k, FALSE>>)
  <1> TAKE d \in SUBSET Name, s \in Owners, k \in Name
  <1> DEFINE q == <<k, FALSE>>
  <1>1. q \in Entry
    BY IsAnEntry
  <1>2. \A x \in Entry : x = q <=> (x[1] = k /\ ~x[2])
    BY IsEntry
  <1> HIDE DEF q
  <1>3. Entries(d \cup {k}, s) = Entries(d, s) \cup {q}
    BY <1>1, <1>2, EntryParts DEF Entries, Owners, Owned, Without
  <1>4. Entries(Without(d, k), s) = Without(Entries(d, s), q)
    BY <1>1, <1>2, EntryParts DEF Entries, Owners, Owned, Without
  <1> QED BY <1>3, <1>4 DEF q

LEMMA MenuStep == TypeOK /\ MessagesInv /\ MenuAgrees /\ [Next]_vars => MenuAgrees'
  <1> SUFFICES ASSUME TypeOK, MessagesInv, MenuAgrees, [Next]_vars PROVE MenuAgrees'
    OBVIOUS
  <1>1. CASE UNCHANGED <<menu, header, DASHBOARDS, SHARED>>
    BY <1>1 DEF MenuAgrees
  <1>2. ASSUME NEW u \in User, NEW address, Render(u, address) PROVE MenuAgrees'
    BY <1>2 DEF Render, MenuAgrees, TypeOK
  <1>3. ASSUME NEW u \in User, OnSaved(u) PROVE MenuAgrees'
    <2> DEFINE m == Head(toClient[u])
    <2>1. m.name \in Name /\ m.shared \in BOOLEAN /\ m.owner \in User \cup {Nobody}
          /\ (m.shared => m.owner \in User)
      BY <1>3, HeadReply, ReceiveMessages DEF OnSaved, HasOwner
    <2>2. /\ menu' = [menu EXCEPT ![u] = @ \cup {<<m.name, m.shared>>}]
          /\ SHARED' = IF m.shared THEN [SHARED EXCEPT ![u][m.name] = m.owner] ELSE SHARED
          /\ DASHBOARDS' = IF m.shared THEN DASHBOARDS ELSE [DASHBOARDS EXCEPT ![u] = @ \cup {m.name}]
          /\ header' = IF m.shared THEN [header EXCEPT ![u] = Header(SHARED'[u])] ELSE header
      BY <1>3 DEF OnSaved, Added
    <2>3. SHARED[u] \in Owners /\ DASHBOARDS[u] \in SUBSET Name
          /\ menu[u] = Entries(DASHBOARDS[u], SHARED[u]) /\ header[u] = Header(SHARED[u])
      BY DEF TypeOK, MenuAgrees, Owners
    <2> HIDE DEF m
    <2>4. DASHBOARDS[u] \in SUBSET Name /\ SHARED[u] \in Owners /\ m.name \in Name
      BY <2>1, <2>3
    <2>5. CASE m.shared
      <3>0. m.owner \in User
        BY <2>1, <2>5
      <3>1. SHARED'[u] = [SHARED[u] EXCEPT ![m.name] = m.owner] /\ DASHBOARDS' = DASHBOARDS
            /\ menu'[u] = menu[u] \cup {<<m.name, TRUE>>} /\ header'[u] = Header(SHARED'[u])
        BY <2>1, <2>2, <2>5 DEF TypeOK
      <3>2. menu'[u] = Entries(DASHBOARDS'[u], SHARED'[u])
        <4>1. Entries(DASHBOARDS[u], Owned(SHARED[u], m.name, m.owner))
                = Entries(DASHBOARDS[u], SHARED[u]) \cup {<<m.name, TRUE>>}
          <5>1. \A k \in Name, o \in User :
                   Entries(DASHBOARDS[u], Owned(SHARED[u], k, o))
                     = Entries(DASHBOARDS[u], SHARED[u]) \cup {<<k, TRUE>>}
            BY <2>4, OwnedEntries, Zenon
          <5> QED BY <2>4, <3>0, <5>1, Zenon
        <4> QED BY <2>3, <3>1, <4>1 DEF Owned, Without
      <3>3. \A v \in User \ {u} : menu'[v] = menu[v] /\ SHARED'[v] = SHARED[v] /\ header'[v] = header[v]
        BY <2>2, <2>5 DEF TypeOK
      <3> QED BY <3>1, <3>2, <3>3 DEF MenuAgrees
    <2>6. CASE ~m.shared
      <3>1. SHARED' = SHARED /\ DASHBOARDS'[u] = DASHBOARDS[u] \cup {m.name} /\ header' = header
            /\ menu'[u] = menu[u] \cup {<<m.name, FALSE>>}
        BY <2>1, <2>2, <2>6 DEF TypeOK
      <3>2. menu'[u] = Entries(DASHBOARDS'[u], SHARED'[u])
        <4>1. Entries(DASHBOARDS[u] \cup {m.name}, SHARED[u])
                = Entries(DASHBOARDS[u], SHARED[u]) \cup {<<m.name, FALSE>>}
          BY <2>4, PrivateEntries, Zenon
        <4> QED BY <2>3, <3>1, <4>1 DEF Owned, Without
      <3>3. \A v \in User \ {u} : menu'[v] = menu[v] /\ DASHBOARDS'[v] = DASHBOARDS[v]
        BY <2>2, <2>6 DEF TypeOK
      <3> QED BY <3>1, <3>2, <3>3 DEF MenuAgrees
    <2> QED BY <2>1, <2>5, <2>6
  <1>4. ASSUME NEW u \in User, OnDeleted(u) PROVE MenuAgrees'
    <2> DEFINE m == Head(toClient[u])
    <2>1. m.name \in Name /\ m.shared \in BOOLEAN
      BY <1>4, HeadReply DEF OnDeleted
    <2>2. /\ menu' = [menu EXCEPT ![u] = @ \ {<<m.name, m.shared>>}]
          /\ SHARED' = IF m.shared THEN [SHARED EXCEPT ![u][m.name] = Nobody] ELSE SHARED
          /\ DASHBOARDS' = IF m.shared THEN DASHBOARDS ELSE [DASHBOARDS EXCEPT ![u] = @ \ {m.name}]
          /\ header' = IF m.shared THEN [header EXCEPT ![u] = Header(SHARED'[u])] ELSE header
      BY <1>4 DEF OnDeleted
    <2>3. SHARED[u] \in Owners /\ DASHBOARDS[u] \in SUBSET Name
          /\ menu[u] = Entries(DASHBOARDS[u], SHARED[u]) /\ header[u] = Header(SHARED[u])
      BY DEF TypeOK, MenuAgrees, Owners
    <2> HIDE DEF m
    <2>4. DASHBOARDS[u] \in SUBSET Name /\ SHARED[u] \in Owners /\ m.name \in Name
      BY <2>1, <2>3
    <2>5. CASE m.shared
      <3>1. SHARED'[u] = [SHARED[u] EXCEPT ![m.name] = Nobody] /\ DASHBOARDS' = DASHBOARDS
            /\ menu'[u] = menu[u] \ {<<m.name, TRUE>>} /\ header'[u] = Header(SHARED'[u])
        BY <2>1, <2>2, <2>5 DEF TypeOK
      <3>2. menu'[u] = Entries(DASHBOARDS'[u], SHARED'[u])
        <4>1. Entries(DASHBOARDS[u], Owned(SHARED[u], m.name, Nobody))
                = Without(Entries(DASHBOARDS[u], SHARED[u]), <<m.name, TRUE>>)
          BY <2>4, FreedEntries, Zenon
        <4> QED BY <2>3, <3>1, <4>1 DEF Owned, Without
      <3>3. \A v \in User \ {u} : menu'[v] = menu[v] /\ SHARED'[v] = SHARED[v] /\ header'[v] = header[v]
        BY <2>2, <2>5 DEF TypeOK
      <3> QED BY <3>1, <3>2, <3>3 DEF MenuAgrees
    <2>6. CASE ~m.shared
      <3>1. SHARED' = SHARED /\ DASHBOARDS'[u] = DASHBOARDS[u] \ {m.name} /\ header' = header
            /\ menu'[u] = menu[u] \ {<<m.name, FALSE>>}
        BY <2>1, <2>2, <2>6 DEF TypeOK
      <3>2. menu'[u] = Entries(DASHBOARDS'[u], SHARED'[u])
        <4>1. Entries(Without(DASHBOARDS[u], m.name), SHARED[u])
                = Without(Entries(DASHBOARDS[u], SHARED[u]), <<m.name, FALSE>>)
          BY <2>4, PrivateEntries, Zenon
        <4> QED BY <2>3, <3>1, <4>1 DEF Owned, Without
      <3>3. \A v \in User \ {u} : menu'[v] = menu[v] /\ DASHBOARDS'[v] = DASHBOARDS[v]
        BY <2>2, <2>6 DEF TypeOK
      <3> QED BY <3>1, <3>2, <3>3 DEF MenuAgrees
    <2> QED BY <2>1, <2>5, <2>6
  <1>5. ASSUME NEW u \in User,
               \/ \E n \in Name, sh \in BOOLEAN : Save(u, n, sh)
               \/ \E e \in Entry : Select(u, e)
               \/ Delete(u) \/ Close(u) \/ Connect(u)
               \/ FindShared(u) \/ InsertShared(u) \/ DeleteShared(u)
               \/ \E v \in User : Broadcast(u, v)
               \/ SavePrivate(u) \/ DeletePrivate(u) \/ OnError(u)
        PROVE UNCHANGED <<menu, header, DASHBOARDS, SHARED>>
    BY <1>5 DEF Save, Select, Delete, Send, Close, Connect, FindShared, InsertShared,
                DeleteShared, Broadcast, SavePrivate, DeletePrivate, Update, OnError, pages
  <1>6. CASE UNCHANGED vars
    BY <1>1, <1>6 DEF vars, pages
  <1> QED BY <1>1, <1>2, <1>3, <1>4, <1>5, <1>6 DEF Next, Reload, Load

-----------------------------------------------------------------------------
(* What a page may be wrong about.                                         *)

LEMMA DoubtsStay ==
    ASSUME NEW u, NEW n, stale[u] \subseteq stale'[u]
    PROVE /\ SharedDoubt(u, n) => SharedDoubt(u, n)'
          /\ PrivateDoubt(u, n) => PrivateDoubt(u, n)'
  BY DEF SharedDoubt, PrivateDoubt

\* A page that is loaded is right about all that no handler works on.
LEMMA RenderDoubts ==
    ASSUME TypeOK, NEW u \in User, NEW n \in Name, NEW address, Render(u, address)
    PROVE /\ SharedDoubt(u, n) =>
               SharedDoubt(u, n)' \/ \A v \in User : ~Announces(v, n)
          /\ PrivateDoubt(u, n) => PrivateDoubt(u, n)' \/ toServer'[u] = <<>>
          /\ \A v \in User : v # u => stale'[v] = stale[v]
  <1>1. stale' = [stale EXCEPT ![u] = {x \in @ :
            IF x[2] THEN \E v \in User : work[v] # Nothing /\ work[v].name = x[1]
                    ELSE toServer'[u] # <<>>}]
    BY DEF Render
  <1> DEFINE Kept(x) == IF x[2] THEN \E v \in User : work[v] # Nothing /\ work[v].name = x[1]
                                ELSE toServer'[u] # <<>>
  <1>2. stale'[u] = {x \in stale[u] : Kept(x)} /\ \A v \in User : v # u => stale'[v] = stale[v]
    BY <1>1 DEF TypeOK
  <1> DEFINE p == <<n, TRUE>>
             q == <<n, FALSE>>
  <1>3. p[1] = n /\ p[2] /\ ~q[2]
    OBVIOUS
  <1> HIDE DEF p, q
  <1>4. p \in stale[u] => p \in stale'[u] \/ \A v \in User : ~Announces(v, n)
    BY <1>2, <1>3 DEF Announces
  <1>5. q \in stale[u] => q \in stale'[u] \/ toServer'[u] = <<>>
    BY <1>2, <1>3
  <1> QED BY <1>2, <1>4, <1>5 DEF p, q, SharedDoubt, PrivateDoubt

\* What was on its way is missed.
LEMMA CloseDoubts ==
    ASSUME TypeOK, NEW u \in User, NEW n \in Name, Close(u)
    PROVE /\ \A v \in User : stale[v] \subseteq stale'[v]
          /\ Mentions(toClient[u], n, "shared") => SharedDoubt(u, n)'
          /\ Mentions(toClient[u], n, "private") => PrivateDoubt(u, n)'
  <1> DEFINE missed(i) == <<toClient[u][i].name, toClient[u][i].shared>>
  <1>1. stale' = [stale EXCEPT ![u] = @ \cup {missed(i) : i \in DOMAIN toClient[u]}]
    BY DEF Close
  <1>2. stale'[u] = stale[u] \cup {missed(i) : i \in DOMAIN toClient[u]}
    BY <1>1 DEF TypeOK
  <1>3. \A v \in User : stale[v] \subseteq stale'[v]
    BY <1>1, <1>2 DEF TypeOK
  <1>4. \A i \in DOMAIN toClient[u] : missed(i) \in stale'[u] /\ toClient[u][i].shared \in BOOLEAN
    <2>1. \A i \in DOMAIN toClient[u] : toClient[u][i] \in Reply
      BY DEF TypeOK
    <2>2. \A i \in DOMAIN toClient[u] : missed(i) \in stale'[u]
      BY <1>2, Zenon
    <2> QED BY <2>1, <2>2 DEF Reply
  <1>5. ASSUME NEW i \in DOMAIN toClient[u], About(toClient[u][i], n, "shared")
        PROVE SharedDoubt(u, n)'
    <2>1. toClient[u][i].shared = TRUE /\ toClient[u][i].name = n
      BY <1>4, <1>5 DEF About
    <2>2. missed(i) = <<n, TRUE>>
      BY <2>1
    <2> QED BY <1>4, <2>2, Zenon DEF SharedDoubt
  <1>6. ASSUME NEW i \in DOMAIN toClient[u], About(toClient[u][i], n, "private")
        PROVE PrivateDoubt(u, n)'
    <2>1. toClient[u][i].shared = FALSE /\ toClient[u][i].name = n
      BY <1>4, <1>6 DEF About
    <2>2. missed(i) = <<n, FALSE>>
      BY <2>1
    <2> QED BY <1>4, <2>2, Zenon DEF PrivateDoubt
  <1> QED BY <1>3, <1>5, <1>6 DEF Mentions

\* A broadcast that is not alone
LEMMA BroadcastsDoubts ==
    ASSUME TypeOK, NEW u \in User, NEW k \in Name, NEW step, Broadcasts(u, step, k),
           NEW v \in User
    PROVE /\ stale[v] \subseteq stale'[v]
          /\ Contended(u, k) => SharedDoubt(v, k)'
  <1>1. stale'[v] = IF Contended(u, k) THEN stale[v] \cup {<<k, TRUE>>} ELSE stale[v]
    BY DEF Broadcasts
  <1> QED BY <1>1 DEF SharedDoubt

-----------------------------------------------------------------------------
(* What a page knows of a dashboard.                                       *)

\* A message about something else
LEMMA SharedKept ==
    ASSUME TypeOK, NEW u \in User, NEW n \in Name, NEW m \in Reply,
           \/ toClient'[u] = toClient[u]
           \/ toClient'[u] = Append(toClient[u], m) /\ ~About(m, n, "shared"),
           SHARED'[u][n] = SHARED[u][n], shared'[n] = shared[n], SharedKnown(u, n)
    PROVE SharedKnown(u, n)'
  <1>1. CASE toClient'[u] = toClient[u]
    BY <1>1 DEF SharedKnown
  <1>2. CASE toClient'[u] = Append(toClient[u], m) /\ ~About(m, n, "shared")
    <2>1. toClient[u] \in Seq(Reply)
      BY DEF TypeOK
    <2> DEFINE s == toClient[u]
               t == toClient'[u]
    <2>2. /\ Mentions(t, n, "shared") <=> Mentions(s, n, "shared")
          /\ \A i \in DOMAIN t : IsLast(t, i, n, "shared") =>
               i \in DOMAIN s /\ t[i] = s[i] /\ IsLast(s, i, n, "shared")
      BY <1>2, <2>1, AppendMentions
    <2> QED BY <2>2 DEF SharedKnown
  <1> QED BY <1>1, <1>2

LEMMA PrivateKept ==
    ASSUME TypeOK, NEW u \in User, NEW n \in Name, NEW m \in Reply,
           \/ toClient'[u] = toClient[u]
           \/ toClient'[u] = Append(toClient[u], m) /\ ~About(m, n, "private"),
           n \in DASHBOARDS'[u] <=> n \in DASHBOARDS[u],
           n \in private'[u] <=> n \in private[u], PrivateKnown(u, n)
    PROVE PrivateKnown(u, n)'
  <1>1. CASE toClient'[u] = toClient[u]
    BY <1>1 DEF PrivateKnown
  <1>2. CASE toClient'[u] = Append(toClient[u], m) /\ ~About(m, n, "private")
    <2>1. toClient[u] \in Seq(Reply)
      BY DEF TypeOK
    <2> DEFINE s == toClient[u]
               t == toClient'[u]
    <2>2. /\ Mentions(t, n, "private") <=> Mentions(s, n, "private")
          /\ \A i \in DOMAIN t : IsLast(t, i, n, "private") =>
               i \in DOMAIN s /\ t[i] = s[i] /\ IsLast(s, i, n, "private")
      BY <1>2, <2>1, AppendMentions
    <2> QED BY <2>2 DEF PrivateKnown
  <1> QED BY <1>1, <1>2

\* A message about it that is true
LEMMA SharedTold ==
    ASSUME TypeOK, NEW u \in User, NEW n \in Name, NEW m \in Reply,
           toClient'[u] = Append(toClient[u], m), About(m, n, "shared"), m.owner = shared'[n]
    PROVE SharedKnown(u, n)'
  <1>1. toClient[u] \in Seq(Reply)
    BY DEF TypeOK
  <1> DEFINE t == toClient'[u]
  <1>2. /\ Mentions(t, n, "shared")
        /\ \A i \in DOMAIN t : IsLast(t, i, n, "shared") => t[i] = m
    BY <1>1, AppendMentions
  <1> QED BY <1>2 DEF SharedKnown

LEMMA PrivateTold ==
    ASSUME TypeOK, NEW u \in User, NEW n \in Name, NEW m \in Reply,
           toClient'[u] = Append(toClient[u], m), About(m, n, "private"),
           m.type = "saved" <=> n \in private'[u]
    PROVE PrivateKnown(u, n)'
  <1>1. toClient[u] \in Seq(Reply)
    BY DEF TypeOK
  <1> DEFINE t == toClient'[u]
  <1>2. /\ Mentions(t, n, "private")
        /\ \A i \in DOMAIN t : IsLast(t, i, n, "private") => t[i] = m
    BY <1>1, AppendMentions
  <1> QED BY <1>2 DEF PrivateKnown

\* The first message is handled.
LEMMA SharedReceived ==
    ASSUME TypeOK, NEW u \in User, NEW n \in Name, toClient[u] # <<>>,
           toClient'[u] = Tail(toClient[u]), shared'[n] = shared[n],
           SHARED'[u][n] = IF About(toClient[u][1], n, "shared")
                           THEN toClient[u][1].owner ELSE SHARED[u][n],
           SharedKnown(u, n)
    PROVE SharedKnown(u, n)'
  <1> DEFINE s == toClient[u]
             t == toClient'[u]
  <1>1. s \in Seq(Reply) /\ s # <<>> /\ 1 \in DOMAIN s /\ t = Tail(s)
    BY DEF TypeOK
  <1> HIDE DEF s, t
  <1>2. /\ Mentions(s, n, "shared") /\ ~Mentions(t, n, "shared") => IsLast(s, 1, n, "shared")
        /\ Mentions(t, n, "shared") => Mentions(s, n, "shared")
        /\ \A i \in DOMAIN t : /\ i + 1 \in DOMAIN s /\ t[i] = s[i + 1]
                               /\ IsLast(t, i, n, "shared") => IsLast(s, i + 1, n, "shared")
    <2>1. /\ Mentions(s, n, "shared") /\ ~Mentions(Tail(s), n, "shared") => IsLast(s, 1, n, "shared")
          /\ Mentions(Tail(s), n, "shared") => Mentions(s, n, "shared")
          /\ \A i \in DOMAIN Tail(s) : /\ i + 1 \in DOMAIN s /\ Tail(s)[i] = s[i + 1]
                                 /\ IsLast(Tail(s), i, n, "shared") => IsLast(s, i + 1, n, "shared")
      BY <1>1, TailMentions
    <2> QED BY <1>1, <2>1
  <1>3. About(s[1], n, "shared") => Mentions(s, n, "shared")
    BY <1>1 DEF Mentions
  <1>4. /\ ~Mentions(s, n, "shared") => SHARED[u][n] = shared[n]
        /\ \A i \in DOMAIN s : IsLast(s, i, n, "shared") => s[i].owner = shared[n]
    BY DEF SharedKnown, s
  <1>5. SHARED'[u][n] = IF About(s[1], n, "shared") THEN s[1].owner ELSE SHARED[u][n]
    BY DEF s
  <1>6. ~Mentions(t, n, "shared") => SHARED'[u][n] = shared'[n]
    BY <1>1, <1>2, <1>3, <1>4, <1>5 DEF IsLast
  <1>7. \A i \in DOMAIN t : IsLast(t, i, n, "shared") => t[i].owner = shared'[n]
    BY <1>2, <1>4
  <1> QED BY <1>6, <1>7 DEF SharedKnown, t

LEMMA PrivateReceived ==
    ASSUME TypeOK, NEW u \in User, NEW n \in Name, toClient[u] # <<>>,
           toClient'[u] = Tail(toClient[u]), n \in private'[u] <=> n \in private[u],
           n \in DASHBOARDS'[u] <=> IF About(toClient[u][1], n, "private")
                                    THEN toClient[u][1].type = "saved" ELSE n \in DASHBOARDS[u],
           PrivateKnown(u, n)
    PROVE PrivateKnown(u, n)'
  <1> DEFINE s == toClient[u]
             t == toClient'[u]
  <1>1. s \in Seq(Reply) /\ s # <<>> /\ 1 \in DOMAIN s /\ t = Tail(s)
    BY DEF TypeOK
  <1> HIDE DEF s, t
  <1>2. /\ Mentions(s, n, "private") /\ ~Mentions(t, n, "private") => IsLast(s, 1, n, "private")
        /\ Mentions(t, n, "private") => Mentions(s, n, "private")
        /\ \A i \in DOMAIN t : /\ i + 1 \in DOMAIN s /\ t[i] = s[i + 1]
                               /\ IsLast(t, i, n, "private") => IsLast(s, i + 1, n, "private")
    <2>1. /\ Mentions(s, n, "private") /\ ~Mentions(Tail(s), n, "private") => IsLast(s, 1, n, "private")
          /\ Mentions(Tail(s), n, "private") => Mentions(s, n, "private")
          /\ \A i \in DOMAIN Tail(s) : /\ i + 1 \in DOMAIN s /\ Tail(s)[i] = s[i + 1]
                                 /\ IsLast(Tail(s), i, n, "private") => IsLast(s, i + 1, n, "private")
      BY <1>1, TailMentions
    <2> QED BY <1>1, <2>1
  <1>3. About(s[1], n, "private") => Mentions(s, n, "private")
    BY <1>1 DEF Mentions
  <1>4. /\ ~Mentions(s, n, "private") => (n \in DASHBOARDS[u] <=> n \in private[u])
        /\ \A i \in DOMAIN s : IsLast(s, i, n, "private") => (s[i].type = "saved" <=> n \in private[u])
    BY DEF PrivateKnown, s
  <1>5. n \in DASHBOARDS'[u] <=> IF About(s[1], n, "private") THEN s[1].type = "saved"
                                                               ELSE n \in DASHBOARDS[u]
    BY DEF s
  <1>6. ~Mentions(t, n, "private") => (n \in DASHBOARDS'[u] <=> n \in private'[u])
    BY <1>1, <1>2, <1>3, <1>4, <1>5 DEF IsLast
  <1>7. \A i \in DOMAIN t : IsLast(t, i, n, "private") => (t[i].type = "saved" <=> n \in private'[u])
    BY <1>2, <1>4
  <1> QED BY <1>6, <1>7 DEF PrivateKnown, t

-----------------------------------------------------------------------------
(* Shared dashboards.                                                      *)

\* A step that tells one page, if any, about another dashboard
LEMMA SharedFrame ==
    ASSUME TypeOK, SharedInv, NEW w \in User, NEW m, Posted(w, m),
           \A n \in Name : ~About(m, n, "shared"),
           SHARED' = SHARED, shared' = shared,
           \A v \in User, n \in Name : Announces(v, n)' <=> Announces(v, n),
           \A v \in User, n \in Name : Announces(v, n) => work'[v] = work[v]
    PROVE SharedInv'
  <1> SUFFICES ASSUME NEW u \in User, NEW n \in Name, ~SharedDoubt(u, n)'
               PROVE SharedOf(u, n)'
    BY DEF SharedInv
  <1>1. SharedOf(u, n)
    BY DoubtsStay DEF SharedInv, Posted
  <1>2. SharedKnown(u, n) => SharedKnown(u, n)'
    <2>1. m \in Reply /\ ~About(m, n, "shared")
          /\ (toClient'[u] = toClient[u] \/ toClient'[u] = Append(toClient[u], m))
      BY DEF Posted
    <2> QED BY <2>1, SharedKept
  <1> QED BY <1>1, <1>2 DEF SharedOf

\* A handler that starts to announce what it has done
LEMMA SharedChange ==
    ASSUME TypeOK, SharedInv, NEW w \in User, NEW k \in Name, NEW step \in {"saved", "deleted"},
           Broadcasts(w, step, k), \A n \in Name : ~Announces(w, n),
           SHARED' = SHARED, toClient' = toClient,
           shared' = [shared EXCEPT ![k] = IF step = "saved" THEN w ELSE Nobody]
    PROVE SharedInv'
  <1> SUFFICES ASSUME NEW u \in User, NEW n \in Name, ~SharedDoubt(u, n)'
               PROVE SharedOf(u, n)'
    BY DEF SharedInv
  <1>1. SharedOf(u, n)
    BY DoubtsStay, BroadcastsDoubts DEF SharedInv
  <1>2. /\ work'[w] = [step |-> step, name |-> k, left |-> User]
        /\ \A v \in User : v # w => work'[v] = work[v]
    BY DEF Broadcasts, TypeOK
  <1>3. work'[w] # Nothing
    <2>1. work'[w] \in Handler
      BY <1>2 DEF Handler
    <2> QED BY <2>1, DashboardsAssumption
  <1>4. CASE n = k
    <2>1. ~Contended(w, k)
      BY <1>4, BroadcastsDoubts
    <2>2. \A v \in User : Announces(v, n)' => v = w
      BY <1>2, <1>4, <2>1 DEF Announces, Contended
    <2>3. Announces(w, n)' /\ w \in User /\ u \in work'[w].left /\ work'[w].step = step
      BY <1>2, <1>3, <1>4 DEF Announces
    <2>4. shared'[n] = IF step = "saved" THEN w ELSE Nobody
      BY <1>4 DEF TypeOK
    <2> QED BY <2>2, <2>3, <2>4 DEF SharedOf
  <1>5. CASE n # k
    <2>1. shared'[n] = shared[n]
      BY <1>5 DEF TypeOK
    <2>2. \A v \in User : Announces(v, n)' <=> Announces(v, n)
      BY <1>2, <1>5 DEF Announces
    <2>3. \A v \in User : Announces(v, n) => work'[v] = work[v]
      BY <1>2
    <2>4. SharedKnown(u, n) => SharedKnown(u, n)'
      BY <2>1 DEF SharedKnown
    <2> QED BY <1>1, <2>1, <2>2, <2>3, <2>4 DEF SharedOf
  <1> QED BY <1>4, <1>5

LEMMA SharedRendered ==
    ASSUME TypeOK, SharedInv, NEW w \in User, NEW address, Render(w, address)
    PROVE SharedInv'
  <1> SUFFICES ASSUME NEW u \in User, NEW n \in Name, ~SharedDoubt(u, n)'
               PROVE SharedOf(u, n)'
    BY DEF SharedInv
  <1>1. work' = work /\ shared' = shared
    BY DEF Render, server, database
  <1>2. \A v \in User : Announces(v, n)' <=> Announces(v, n)
    BY <1>1 DEF Announces
  <1>3. CASE u = w
    <2>1. toClient'[u] = <<>> /\ SHARED'[u] = shared
      BY <1>3 DEF Render, TypeOK
    <2>2. SharedKnown(u, n)'
      BY <1>1, <2>1, EmptyMentions DEF SharedKnown
    <2>3. SharedOf(u, n) \/ \A v \in User : ~Announces(v, n)
      BY <1>3, RenderDoubts DEF SharedInv
    <2> QED BY <1>1, <1>2, <2>2, <2>3 DEF SharedOf
  <1>4. CASE u # w
    <2>1. toClient'[u] = toClient[u] /\ SHARED'[u] = SHARED[u] /\ stale'[u] = stale[u]
      BY <1>4, RenderDoubts DEF Render, TypeOK
    <2>2. SharedOf(u, n)
      BY <2>1 DEF SharedInv, SharedDoubt
    <2> QED BY <1>1, <1>2, <2>1, <2>2 DEF SharedOf, SharedKnown
  <1> QED BY <1>3, <1>4

LEMMA SharedClosed ==
    ASSUME TypeOK, SharedInv, NEW w \in User, Close(w)
    PROVE SharedInv'
  <1> SUFFICES ASSUME NEW u \in User, NEW n \in Name, ~SharedDoubt(u, n)'
               PROVE SharedOf(u, n)'
    BY DEF SharedInv
  <1>1. work' = work /\ shared' = shared /\ SHARED' = SHARED
        /\ toClient' = [toClient EXCEPT ![w] = <<>>]
    BY DEF Close, server, database, pages
  <1>2. \A v \in User : Announces(v, n)' <=> Announces(v, n)
    BY <1>1 DEF Announces
  <1>3. SharedOf(u, n)
    BY CloseDoubts, DoubtsStay DEF SharedInv
  <1>4. SharedKnown(u, n) => SharedKnown(u, n)'
    <2>1. CASE u = w
      <3>1. toClient'[u] = <<>> /\ ~Mentions(toClient[u], n, "shared")
        BY <1>1, <2>1, CloseDoubts DEF TypeOK
      <3> QED BY <1>1, <3>1, EmptyMentions DEF SharedKnown
    <2>2. CASE u # w
      BY <1>1, <2>2 DEF SharedKnown, TypeOK
    <2> QED BY <2>1, <2>2
  <1> QED BY <1>1, <1>2, <1>3, <1>4 DEF SharedOf

\* A page has been told when it is no longer left to be told.
LEMMA SharedBroadcast ==
    ASSUME TypeOK, SharedInv, NEW w \in User, NEW x \in User, Broadcast(w, x)
    PROVE SharedInv'
  <1> DEFINE k == work[w].name
             owner == IF work[w].step = "saved" THEN w ELSE Nobody
             m == Letter(work[w].step, k, TRUE, owner)
  <1>1. /\ work[w] # Nothing /\ work[w].step \in {"saved", "deleted"} /\ k \in Name
        /\ work[w].left \subseteq User /\ x \in work[w].left
    BY HandlerType DEF Broadcast
  <1>2. Announces(w, k)
    BY <1>1 DEF Announces
  <1>3. Posted(x, m)
    <2>1. owner \in User \cup {Nobody} /\ Tell(x, work[w].step, k, TRUE, owner)
      BY DEF Broadcast
    <2> QED BY <1>1, <2>1, TellPosts
  <1>4. m \in Reply /\ m.owner = owner /\ About(m, k, "shared")
        /\ \A n \in Name : n # k => ~About(m, n, "shared")
    BY <1>1, <1>3 DEF Letter, About, Posted
  <1>5. shared' = shared /\ SHARED' = SHARED
        /\ work' = [work EXCEPT ![w] = IF work[w].left = {x} THEN Nothing
                                       ELSE [work[w] EXCEPT !.left = @ \ {x}]]
    BY DEF Broadcast, database, pages
  <1>6. /\ work'[w] = IF work[w].left = {x} THEN Nothing ELSE [work[w] EXCEPT !.left = @ \ {x}]
        /\ \A v \in User : v # w => work'[v] = work[v]
    BY <1>5 DEF TypeOK
  <1>7. work[w] \in Handler
    BY <1>1 DEF TypeOK
  <1>8. work[w].left # {x} =>
          /\ work'[w] # Nothing /\ work'[w].step = work[w].step /\ work'[w].name = k
          /\ work'[w].left = work[w].left \ {x}
    <2> SUFFICES ASSUME work[w].left # {x}
                 PROVE /\ work'[w] # Nothing /\ work'[w].step = work[w].step /\ work'[w].name = k
                       /\ work'[w].left = work[w].left \ {x}
      OBVIOUS
    <2>1. work'[w] = [work[w] EXCEPT !.left = @ \ {x}]
      BY <1>6
    <2>2. work'[w] \in Handler
      BY <1>1, <1>7, <2>1 DEF Handler
    <2> QED BY <1>7, <2>1, <2>2, DashboardsAssumption DEF Handler
  <1>9. work[w].left = {x} => work'[w] = Nothing
    BY <1>6
  <1> SUFFICES ASSUME NEW u \in User, NEW n \in Name, ~SharedDoubt(u, n)'
               PROVE SharedOf(u, n)'
    BY DEF SharedInv
  <1>10. SharedOf(u, n)
    BY <1>3, DoubtsStay DEF SharedInv, Posted
  <1>11. \A v \in User : Announces(v, n)' => Announces(v, n) /\ work'[v].step = work[v].step
    BY <1>1, <1>6, <1>8, <1>9 DEF Announces
  <1>12. toClient'[u] = toClient[u] \/ (u = x /\ toClient'[u] = Append(toClient[u], m))
    BY <1>3 DEF Posted
  <1> HIDE DEF k, owner, m
  <1>13. ASSUME \A v \in User : Announces(v, n)' => u \notin work'[v].left
         PROVE SharedKnown(u, n)'
    <2>1. CASE n # k
      <3>1. \A v \in User : Announces(v, n) => Announces(v, n)' /\ work'[v] = work[v]
        BY <1>6, <2>1 DEF Announces, k
      <3>2. SharedKnown(u, n)
        BY <1>10, <1>13, <3>1 DEF SharedOf
      <3> QED BY <1>4, <1>5, <1>12, <2>1, <3>2, SharedKept
    <2>2. CASE n = k /\ u = x
      <3>1. shared[n] = owner
        BY <1>2, <1>10, <2>2 DEF SharedOf, owner
      <3>2. toClient'[u] = Append(toClient[u], m)
        BY <1>3, <1>4, <2>2 DEF Posted
      <3> QED BY <1>4, <1>5, <2>2, <3>1, <3>2, SharedTold
    <2>3. CASE n = k /\ u # x
      <3>1. u \notin work[w].left
        <4>1. work[w].left = {x} \/ Announces(w, n)'
          BY <1>1, <1>8, <2>3 DEF Announces, k
        <4> QED BY <1>8, <1>13, <2>3, <4>1
      <3>2. \A v \in User : Announces(v, n) => v = w
        BY <1>2, <1>10, <2>3 DEF SharedOf
      <3>3. SharedKnown(u, n)
        BY <1>10, <3>1, <3>2 DEF SharedOf
      <3> QED BY <1>4, <1>5, <1>12, <2>3, <3>3, SharedKept
    <2> QED BY <2>1, <2>2, <2>3
  <1> QED BY <1>5, <1>10, <1>11, <1>13 DEF SharedOf

\* A step that concerns no shared dashboard
LEMMA SharedStill ==
    ASSUME SharedInv, SHARED' = SHARED, shared' = shared, toClient' = toClient, stale' = stale,
           \A v \in User, n \in Name : Announces(v, n)' <=> Announces(v, n),
           \A v \in User, n \in Name : Announces(v, n) => work'[v] = work[v]
    PROVE SharedInv'
  <1> SUFFICES ASSUME NEW u \in User, NEW n \in Name, ~SharedDoubt(u, n)'
               PROVE SharedOf(u, n)'
    BY DEF SharedInv
  <1>1. SharedOf(u, n)
    BY DoubtsStay DEF SharedInv
  <1>2. SharedKnown(u, n) => SharedKnown(u, n)'
    BY DEF SharedKnown
  <1> QED BY <1>1, <1>2 DEF SharedOf

LEMMA SharedReceive ==
    ASSUME TypeOK, MessagesInv, SharedInv, NEW w \in User,
           OnSaved(w) \/ OnDeleted(w) \/ OnError(w)
    PROVE SharedInv'
  <1>1. PICK type \in {"saved", "deleted", "error"} : Receive(w, type)
    BY DEF OnSaved, OnDeleted, OnError
  <1> DEFINE m == toClient[w][1]
  <1>2. /\ toClient[w] # <<>> /\ m = Head(toClient[w]) /\ toClient'[w] = Tail(toClient[w])
        /\ m \in Reply /\ m.type = type /\ m.name \in Name /\ m.shared \in BOOLEAN
        /\ m.owner \in User \cup {Nobody}
    BY <1>1, HeadReply
  <1>3. HasOwner(m)
    BY <1>1, <1>2, ReceiveMessages
  <1>4. work' = work /\ shared' = shared /\ stale' = stale
        /\ \A u \in User : u # w => toClient'[u] = toClient[u]
    BY <1>1 DEF Receive, server, database, TypeOK
  <1>5. \A n \in Name : SHARED'[w][n] = IF About(m, n, "shared") THEN m.owner ELSE SHARED[w][n]
    <2>1. CASE OnSaved(w)
      <3>1. m.type = "saved" /\ SHARED' = IF m.shared THEN [SHARED EXCEPT ![w][m.name] = m.owner] ELSE SHARED
        BY <1>2, <2>1 DEF OnSaved, Receive
      <3> QED BY <1>2, <3>1 DEF About, TypeOK
    <2>2. CASE OnDeleted(w)
      <3>1. m.type = "deleted" /\ SHARED' = IF m.shared THEN [SHARED EXCEPT ![w][m.name] = Nobody] ELSE SHARED
        BY <1>2, <2>2 DEF OnDeleted, Receive
      <3>2. m.owner = Nobody
        BY <1>3, <3>1 DEF HasOwner
      <3> QED BY <1>2, <3>1, <3>2 DEF About, TypeOK
    <2>3. CASE OnError(w)
      <3>1. m.type = "error" /\ SHARED' = SHARED
        BY <1>2, <2>3 DEF OnError, Receive, pages
      <3> QED BY <3>1 DEF About
    <2> QED BY <2>1, <2>2, <2>3
  <1>6. \A u \in User : u # w => SHARED'[u] = SHARED[u]
    BY DEF OnSaved, OnDeleted, OnError, pages, TypeOK
  <1> HIDE DEF m
  <1> SUFFICES ASSUME NEW u \in User, NEW n \in Name, ~SharedDoubt(u, n)'
               PROVE SharedOf(u, n)'
    BY DEF SharedInv
  <1>7. SharedOf(u, n)
    BY <1>4, DoubtsStay DEF SharedInv
  <1>8. SharedKnown(u, n) => SharedKnown(u, n)'
    <2>1. CASE u = w
      <3>1. SHARED'[u][n] = IF About(toClient[u][1], n, "shared")
                            THEN toClient[u][1].owner ELSE SHARED[u][n]
        BY <1>5, <2>1 DEF m
      <3> QED BY <1>2, <1>4, <2>1, <3>1, SharedReceived
    <2>2. CASE u # w
      BY <1>4, <1>6, <2>2 DEF SharedKnown
    <2> QED BY <2>1, <2>2
  <1> QED BY <1>4, <1>7, <1>8 DEF SharedOf, Announces

LEMMA SharedStep == TypeOK /\ MessagesInv /\ SharedInv /\ [Next]_vars => SharedInv'
  <1> SUFFICES ASSUME TypeOK, MessagesInv, SharedInv, [Next]_vars PROVE SharedInv'
    OBVIOUS
  <1>1. CASE UNCHANGED <<SHARED, shared, toClient, work, stale>>
    <2>1. \A v \in User, n \in Name : Announces(v, n)' <=> Announces(v, n)
      BY <1>1 DEF Announces
    <2> QED BY <1>1, <2>1, SharedStill
  <1>2. ASSUME NEW u \in User, NEW address, Render(u, address) PROVE SharedInv'
    BY <1>2, SharedRendered
  <1>3. ASSUME NEW u \in User, FindShared(u) PROVE SharedInv'
    <2> DEFINE n == Asked(u)
    <2>1. n \in Name /\ work[u] = Nothing
      BY <1>3, TakesTypes DEF FindShared, Takes
    <2>2. CASE shared[n] = Nobody
      <3>1. work' = [work EXCEPT ![u] = [step |-> "insert", name |-> n, left |-> {}]]
            /\ UNCHANGED <<toClient, stale, SHARED, shared>>
        BY <1>3, <2>2 DEF FindShared, database, pages
      <3>2. work'[u].step = "insert" /\ \A v \in User : v # u => work'[v] = work[v]
        BY <3>1 DEF TypeOK
      <3>3. \A v \in User, k \in Name :
              (Announces(v, k)' <=> Announces(v, k)) /\ (Announces(v, k) => work'[v] = work[v])
        BY <2>1, <3>2 DEF Announces
      <3> QED BY <3>1, <3>3, SharedStill
    <2>3. CASE shared[n] # Nobody
      <3>1. Tell(u, "error", n, TRUE, Nobody) /\ UNCHANGED <<work, SHARED, shared>>
        BY <1>3, <2>3 DEF FindShared, database, pages
      <3>2. Posted(u, Letter("error", n, TRUE, Nobody))
        BY <2>1, <3>1, TellPosts
      <3>3. \A k \in Name : ~About(Letter("error", n, TRUE, Nobody), k, "shared")
        BY DEF About, Letter
      <3>4. \A v \in User, k \in Name : Announces(v, k)' <=> Announces(v, k)
        BY <3>1 DEF Announces
      <3> QED BY <3>1, <3>2, <3>3, <3>4, SharedFrame
    <2> QED BY <2>2, <2>3
  <1>4. ASSUME NEW u \in User, InsertShared(u) PROVE SharedInv'
    <2>1. PICK n \in Name : n = work[u].name
      BY <1>4, HandlerType DEF InsertShared
    <2>2. work[u].step = "insert" /\ \A k \in Name : ~Announces(u, k)
      BY <1>4 DEF InsertShared, Announces
    <2>3. CASE Taken(u, n)
      <3>1. /\ work' = [work EXCEPT ![u] = Nothing] /\ Tell(u, "error", n, TRUE, Nobody)
            /\ shared' = shared /\ SHARED' = SHARED
        BY <1>4, <2>1, <2>3 DEF InsertShared, pages
      <3>2. Posted(u, Letter("error", n, TRUE, Nobody))
        BY <2>1, <3>1, TellPosts
      <3>3. \A k \in Name : ~About(Letter("error", n, TRUE, Nobody), k, "shared")
        BY DEF About, Letter
      <3>4. work'[u] = Nothing /\ \A v \in User : v # u => work'[v] = work[v]
        BY <3>1 DEF TypeOK
      <3>5. \A v \in User, k \in Name :
              (Announces(v, k)' <=> Announces(v, k)) /\ (Announces(v, k) => work'[v] = work[v])
        BY <2>2, <3>4 DEF Announces
      <3> QED BY <3>1, <3>2, <3>3, <3>5, SharedFrame
    <2>4. CASE ~Taken(u, n)
      <3>1. /\ shared' = [shared EXCEPT ![n] = u] /\ Broadcasts(u, "saved", n)
            /\ toClient' = toClient /\ SHARED' = SHARED
        BY <1>4, <2>1, <2>4 DEF InsertShared, pages
      <3> QED BY <2>2, <3>1, SharedChange
    <2> QED BY <2>3, <2>4
  <1>5. ASSUME NEW u \in User, DeleteShared(u) PROVE SharedInv'
    <2>1. PICK n \in Name : n = Asked(u)
      BY <1>5, TakesTypes DEF DeleteShared
    <2>2. \A k \in Name : ~Announces(u, k)
      BY <1>5 DEF DeleteShared, Takes, Announces
    <2>3. /\ shared' = [shared EXCEPT ![n] = Nobody] /\ Broadcasts(u, "deleted", n)
          /\ toClient' = toClient /\ SHARED' = SHARED
      BY <1>5, <2>1 DEF DeleteShared, pages
    <2> QED BY <2>2, <2>3, SharedChange
  <1>6. ASSUME NEW u \in User, NEW n \in Name, NEW type \in {"saved", "deleted", "error"},
               Posted(u, Letter(type, n, FALSE, Nobody)), SHARED' = SHARED, shared' = shared, work' = work
        PROVE SharedInv'
    <2>1. \A k \in Name : ~About(Letter(type, n, FALSE, Nobody), k, "shared")
      BY DEF About, Letter
    <2>2. \A v \in User, k \in Name : Announces(v, k)' <=> Announces(v, k)
      BY <1>6 DEF Announces
    <2> QED BY <1>6, <2>1, <2>2, SharedFrame
  <1>7. ASSUME NEW u \in User, NEW n \in Name, NEW ds, NEW type \in {"saved", "deleted"},
               Update(u, n, ds, type)
        PROVE SharedInv'
    <2>1. SHARED' = SHARED /\ shared' = shared /\ work' = work
      BY <1>7 DEF Update, pages
    <2>2. Posted(u, Letter(type, n, FALSE, Nobody)) \/ Posted(u, Letter("error", n, FALSE, Nobody))
      BY <1>7, UpdatePosts
    <2> QED BY <1>6, <2>1, <2>2
  <1>8. ASSUME NEW u \in User, SavePrivate(u) PROVE SharedInv'
    <2>1. PICK n \in Name : n = Asked(u)
      BY <1>8, TakesTypes DEF SavePrivate
    <2>2. CASE n \in mem[u]
      <3>1. Tell(u, "error", n, FALSE, Nobody) /\ SHARED' = SHARED /\ shared' = shared /\ work' = work
        BY <1>8, <2>1, <2>2 DEF SavePrivate, database, server, pages
      <3>2. Posted(u, Letter("error", n, FALSE, Nobody))
        BY <3>1, TellPosts
      <3> QED BY <1>6, <3>1, <3>2
    <2>3. CASE n \notin mem[u]
      BY <1>7, <1>8, <2>1, <2>3 DEF SavePrivate
    <2> QED BY <2>2, <2>3
  <1>9. ASSUME NEW u \in User, DeletePrivate(u) PROVE SharedInv'
    <2>1. Asked(u) \in Name
      BY <1>9, TakesTypes DEF DeletePrivate
    <2> QED BY <1>7, <1>9, <2>1 DEF DeletePrivate
  <1>10. ASSUME NEW u \in User,
                \/ \E n \in Name, sh \in BOOLEAN : Save(u, n, sh)
                \/ \E e \in Entry : Select(u, e)
                \/ Delete(u)
                \/ Connect(u)
         PROVE UNCHANGED <<SHARED, shared, toClient, work, stale>>
    BY <1>10 DEF Save, Select, Delete, Send, Connect, wires, database, server, pages
  <1>11. CASE UNCHANGED vars
    BY <1>1, <1>11 DEF vars, wires, database, server, pages
  <1> QED
    BY <1>1, <1>2, <1>3, <1>4, <1>5, <1>8, <1>9, <1>10, <1>11, SharedClosed, SharedBroadcast,
       SharedReceive DEF Next, Reload, Load

-----------------------------------------------------------------------------
(* Private dashboards.                                                     *)

\* A step that tells one page, if any, about something else and lets the
\* connections and their Accounts be
LEMMA PrivateFrame ==
    ASSUME TypeOK, PrivateInv, NEW w \in User, NEW m, Posted(w, m),
           \A n \in Name : ~About(m, n, "private"),
           DASHBOARDS' = DASHBOARDS, private' = private, mem' = mem, online' = online,
           \A v \in User : toServer'[v] # <<>> => toServer[v] # <<>>
    PROVE PrivateInv'
  <1> SUFFICES ASSUME NEW u \in User, NEW n \in Name, ~PrivateDoubt(u, n)'
               PROVE PrivateOf(u, n)'
    BY DEF PrivateInv
  <1>1. PrivateOf(u, n)
    BY DoubtsStay DEF PrivateInv, Posted
  <1>2. PrivateKnown(u, n) => PrivateKnown(u, n)'
    <2>1. m \in Reply /\ ~About(m, n, "private")
          /\ (toClient'[u] = toClient[u] \/ toClient'[u] = Append(toClient[u], m))
      BY DEF Posted
    <2> QED BY <2>1, PrivateKept
  <1> QED BY <1>1, <1>2 DEF PrivateOf

\* A step that tells nobody anything
LEMMA PrivateStill ==
    ASSUME PrivateInv, DASHBOARDS' = DASHBOARDS, private' = private, toClient' = toClient,
           \A u \in User : stale[u] \subseteq stale'[u],
           \A u \in User, n \in Name :
             (u \in online \/ toServer[u] # <<>> => (n \in mem[u] <=> n \in private[u])) =>
             (u \in online' \/ toServer'[u] # <<>> => (n \in mem'[u] <=> n \in private[u]))
    PROVE PrivateInv'
  <1> SUFFICES ASSUME NEW u \in User, NEW n \in Name, ~PrivateDoubt(u, n)'
               PROVE PrivateOf(u, n)'
    BY DEF PrivateInv
  <1>1. PrivateOf(u, n)
    BY DoubtsStay DEF PrivateInv
  <1>2. PrivateKnown(u, n) => PrivateKnown(u, n)'
    BY DEF PrivateKnown
  <1> QED BY <1>1, <1>2 DEF PrivateOf

LEMMA PrivateRendered ==
    ASSUME TypeOK, PrivateInv, NEW w \in User, NEW address, Render(w, address)
    PROVE PrivateInv'
  <1> SUFFICES ASSUME NEW u \in User, NEW n \in Name, ~PrivateDoubt(u, n)'
               PROVE PrivateOf(u, n)'
    BY DEF PrivateInv
  <1>1. /\ private' = private /\ mem' = mem /\ online' = online \ {w}
        /\ toServer'[u] = toServer[u] \/ (u = w /\ toServer'[u] = <<>>)
    BY DEF Render, server, database, TypeOK
  <1>2. CASE u = w
    <2>1. toClient'[u] = <<>> /\ DASHBOARDS'[u] = private[u]
      BY <1>2 DEF Render, TypeOK
    <2>2. PrivateKnown(u, n)'
      BY <1>1, <2>1, EmptyMentions DEF PrivateKnown
    <2>3. PrivateOf(u, n) \/ toServer'[u] = <<>>
      BY <1>2, RenderDoubts DEF PrivateInv
    <2> QED BY <1>1, <1>2, <2>2, <2>3 DEF PrivateOf
  <1>3. CASE u # w
    <2>1. toClient'[u] = toClient[u] /\ DASHBOARDS'[u] = DASHBOARDS[u] /\ stale'[u] = stale[u]
      BY <1>3, RenderDoubts DEF Render, TypeOK
    <2>2. PrivateOf(u, n)
      BY <2>1 DEF PrivateInv, PrivateDoubt
    <2> QED BY <1>1, <1>3, <2>1, <2>2 DEF PrivateOf, PrivateKnown
  <1> QED BY <1>2, <1>3

LEMMA PrivateClosed ==
    ASSUME TypeOK, PrivateInv, NEW w \in User, Close(w)
    PROVE PrivateInv'
  <1> SUFFICES ASSUME NEW u \in User, NEW n \in Name, ~PrivateDoubt(u, n)'
               PROVE PrivateOf(u, n)'
    BY DEF PrivateInv
  <1>1. /\ private' = private /\ mem' = mem /\ online' = online \ {w} /\ DASHBOARDS' = DASHBOARDS
        /\ toServer'[u] = toServer[u] \/ toServer'[u] = <<>>
        /\ toClient' = [toClient EXCEPT ![w] = <<>>]
    BY DEF Close, server, database, pages, TypeOK
  <1>2. PrivateOf(u, n)
    BY CloseDoubts, DoubtsStay DEF PrivateInv
  <1>3. PrivateKnown(u, n) => PrivateKnown(u, n)'
    <2>1. CASE u = w
      <3>1. toClient'[u] = <<>> /\ ~Mentions(toClient[u], n, "private")
        BY <1>1, <2>1, CloseDoubts DEF TypeOK
      <3> QED BY <1>1, <3>1, EmptyMentions DEF PrivateKnown
    <2>2. CASE u # w
      BY <1>1, <2>2 DEF PrivateKnown, TypeOK
    <2> QED BY <2>1, <2>2
  <1> QED BY <1>1, <1>2, <1>3 DEF PrivateOf

\* The handler works on the Account, which has what the database has.
LEMMA PrivateUpdated ==
    ASSUME TypeOK, PrivateInv, NEW w \in User, NEW k \in Name, NEW ds, NEW type \in {"saved", "deleted"},
           Update(w, k, ds, type), toServer[w] # <<>>,
           type = "saved" <=> k \in ds, \A n \in Name : n # k => (n \in ds <=> n \in mem[w]),
           \A v \in User : toServer'[v] # <<>> => toServer[v] # <<>>
    PROVE PrivateInv'
  <1> SUFFICES ASSUME NEW u \in User, NEW n \in Name, ~PrivateDoubt(u, n)'
               PROVE PrivateOf(u, n)'
    BY DEF PrivateInv
  <1> DEFINE done == Letter(type, k, FALSE, Nobody)
             refused == Letter("error", k, FALSE, Nobody)
  <1>1. /\ mem'[w] = ds /\ \A v \in User : v # w => mem'[v] = mem[v]
        /\ online' = online /\ DASHBOARDS' = DASHBOARDS
    BY DEF Update, pages, TypeOK
  <1>2. /\ About(done, k, "private") /\ done.type = type
        /\ \A j \in Name : j # k => ~About(done, j, "private")
        /\ \A j \in Name : ~About(refused, j, "private")
    BY DEF About, Letter
  <1>3. \/ private' = [private EXCEPT ![w] = ds] /\ Posted(w, done)
        \/ private' = private /\ PrivateDoubt(w, k)' /\ Posted(w, refused)
    BY UpdatePosts
  <1> HIDE DEF done, refused
  <1>4. PrivateOf(u, n)
    BY <1>3, DoubtsStay DEF PrivateInv, Posted
  <1>5. n # k \/ u # w =>
          /\ n \in private'[u] <=> n \in private[u]
          /\ u \in online \/ toServer[u] # <<>> => (n \in mem'[u] <=> n \in private'[u])
    BY <1>1, <1>3, <1>4 DEF PrivateOf, TypeOK
  <1>6. CASE private' = [private EXCEPT ![w] = ds] /\ Posted(w, done)
    <2>1. CASE n = k /\ u = w
      <3>1. n \in private'[u] <=> n \in mem'[u]
        BY <1>1, <1>6, <2>1 DEF TypeOK
      <3>2. type = "saved" <=> n \in private'[u]
        BY <1>6, <2>1 DEF TypeOK
      <3>3. done \in Reply /\ toClient'[u] = Append(toClient[u], done)
        BY <1>2, <1>6, <2>1 DEF Posted
      <3>4. PrivateKnown(u, n)'
        BY <1>2, <2>1, <3>2, <3>3, PrivateTold
      <3> QED BY <3>1, <3>4 DEF PrivateOf
    <2>2. CASE n # k \/ u # w
      <3>1. done \in Reply /\ \/ toClient'[u] = toClient[u]
                              \/ toClient'[u] = Append(toClient[u], done) /\ ~About(done, n, "private")
        BY <1>2, <1>6, <2>2 DEF Posted
      <3>2. PrivateKnown(u, n)'
        BY <1>1, <1>4, <1>5, <2>2, <3>1, PrivateKept DEF PrivateOf
      <3> QED BY <1>1, <1>5, <2>2, <3>2 DEF PrivateOf
    <2> QED BY <2>1, <2>2
  <1>7. CASE private' = private /\ PrivateDoubt(w, k)' /\ Posted(w, refused)
    <2>1. n # k \/ u # w
      BY <1>7
    <2>2. refused \in Reply /\ \/ toClient'[u] = toClient[u]
                               \/ toClient'[u] = Append(toClient[u], refused) /\ ~About(refused, n, "private")
      BY <1>2, <1>7 DEF Posted
    <2>3. PrivateKnown(u, n)'
      BY <1>1, <1>4, <1>5, <2>1, <2>2, PrivateKept DEF PrivateOf
    <2> QED BY <1>1, <1>5, <2>1, <2>3 DEF PrivateOf
  <1> QED BY <1>3, <1>6, <1>7

LEMMA PrivateReceive ==
    ASSUME TypeOK, PrivateInv, NEW w \in User, OnSaved(w) \/ OnDeleted(w) \/ OnError(w)
    PROVE PrivateInv'
  <1>1. PICK type \in {"saved", "deleted", "error"} : Receive(w, type)
    BY DEF OnSaved, OnDeleted, OnError
  <1> DEFINE m == toClient[w][1]
  <1>2. /\ toClient[w] # <<>> /\ m = Head(toClient[w]) /\ toClient'[w] = Tail(toClient[w])
        /\ m \in Reply /\ m.type = type /\ m.name \in Name /\ m.shared \in BOOLEAN
    BY <1>1, HeadReply
  <1>3. /\ private' = private /\ mem' = mem /\ online' = online /\ toServer' = toServer /\ stale' = stale
        /\ \A u \in User : u # w => toClient'[u] = toClient[u]
    BY <1>1 DEF Receive, server, database, TypeOK
  <1>4. \A n \in Name : n \in DASHBOARDS'[w] <=>
          IF About(m, n, "private") THEN m.type = "saved" ELSE n \in DASHBOARDS[w]
    <2>1. CASE OnSaved(w)
      <3>1. m.type = "saved" /\ DASHBOARDS' = IF m.shared THEN DASHBOARDS
                                              ELSE [DASHBOARDS EXCEPT ![w] = @ \cup {m.name}]
        BY <1>2, <2>1 DEF OnSaved, Receive
      <3> QED BY <1>2, <3>1 DEF About, TypeOK
    <2>2. CASE OnDeleted(w)
      <3>1. m.type = "deleted" /\ DASHBOARDS' = IF m.shared THEN DASHBOARDS
                                                ELSE [DASHBOARDS EXCEPT ![w] = @ \ {m.name}]
        BY <1>2, <2>2 DEF OnDeleted, Receive
      <3> QED BY <1>2, <3>1 DEF About, TypeOK
    <2>3. CASE OnError(w)
      <3>1. m.type = "error" /\ DASHBOARDS' = DASHBOARDS
        BY <1>2, <2>3 DEF OnError, Receive, pages
      <3> QED BY <3>1 DEF About
    <2> QED BY <2>1, <2>2, <2>3
  <1>5. \A u \in User : u # w => DASHBOARDS'[u] = DASHBOARDS[u]
    BY DEF OnSaved, OnDeleted, OnError, pages, TypeOK
  <1> HIDE DEF m
  <1> SUFFICES ASSUME NEW u \in User, NEW n \in Name, ~PrivateDoubt(u, n)'
               PROVE PrivateOf(u, n)'
    BY DEF PrivateInv
  <1>6. PrivateOf(u, n)
    BY <1>3, DoubtsStay DEF PrivateInv
  <1>7. PrivateKnown(u, n) => PrivateKnown(u, n)'
    <2>1. CASE u = w
      <3>1. n \in DASHBOARDS'[u] <=> IF About(toClient[u][1], n, "private")
                                     THEN toClient[u][1].type = "saved" ELSE n \in DASHBOARDS[u]
        BY <1>4, <2>1 DEF m
      <3> QED BY <1>2, <1>3, <2>1, <3>1, PrivateReceived
    <2>2. CASE u # w
      BY <1>3, <1>5, <2>2 DEF PrivateKnown
    <2> QED BY <2>1, <2>2
  <1> QED BY <1>3, <1>6, <1>7 DEF PrivateOf

LEMMA PrivateStep == TypeOK /\ PrivateInv /\ [Next]_vars => PrivateInv'
  <1> SUFFICES ASSUME TypeOK, PrivateInv, [Next]_vars PROVE PrivateInv'
    OBVIOUS
  <1>1. ASSUME NEW u \in User, NEW type, NEW n, NEW sh, Send(u, type, n, sh) PROVE PrivateInv'
    <2>1. /\ UNCHANGED <<DASHBOARDS, private, mem, online, toClient, stale>>
          /\ \A v \in User : toServer'[v] = toServer[v] \/ v \in online
      BY <1>1 DEF Send, database, server, pages, TypeOK
    <2> QED BY <2>1, PrivateStill
  <1>2. ASSUME NEW u \in User, NEW e \in Entry, Select(u, e) PROVE PrivateInv'
    <2>1. UNCHANGED <<DASHBOARDS, private, mem, online, toServer, toClient, stale>>
      BY <1>2 DEF Select, database, server, wires
    <2> QED BY <2>1, PrivateStill
  <1>3. ASSUME NEW u \in User, Connect(u) PROVE PrivateInv'
    <2>1. /\ UNCHANGED <<DASHBOARDS, private, toServer, toClient, stale>> /\ online' = online \cup {u}
          /\ mem'[u] = private[u] /\ \A v \in User : v # u => mem'[v] = mem[v]
      BY <1>3 DEF Connect, database, pages, TypeOK
    <2> QED BY <2>1, PrivateStill
  <1>4. ASSUME NEW u \in User, NEW type, NEW sh, Takes(u, type, sh)
        PROVE toServer[u] # <<>> /\ \A v \in User : toServer'[v] # <<>> => toServer[v] # <<>>
    BY <1>4 DEF Takes, TypeOK
  <1>5. ASSUME NEW u \in User, NEW n \in Name, NEW type \in {"saved", "deleted", "error"},
               NEW owner \in User \cup {Nobody}, NEW sh \in BOOLEAN, Tell(u, type, n, sh, owner),
               sh = TRUE \/ type = "error", UNCHANGED <<DASHBOARDS, private, mem, online>>,
               \A v \in User : toServer'[v] # <<>> => toServer[v] # <<>>
        PROVE PrivateInv'
    <2>1. Posted(u, Letter(type, n, sh, owner))
      BY <1>5, TellPosts
    <2>2. \A k \in Name : ~About(Letter(type, n, sh, owner), k, "private")
      BY <1>5 DEF About, Letter
    <2> QED BY <1>5, <2>1, <2>2, PrivateFrame
  <1>6. ASSUME NEW u \in User, FindShared(u) PROVE PrivateInv'
    <2>1. /\ UNCHANGED <<DASHBOARDS, private, mem, online>> /\ Asked(u) \in Name
          /\ \A v \in User : toServer'[v] # <<>> => toServer[v] # <<>>
      BY <1>4, <1>6, TakesTypes DEF FindShared, database, pages
    <2>2. CASE UNCHANGED <<toClient, stale>>
      BY <2>1, <2>2, PrivateStill
    <2>3. CASE Tell(u, "error", Asked(u), TRUE, Nobody)
      BY <1>5, <2>1, <2>3
    <2> QED BY <1>6, <2>2, <2>3 DEF FindShared
  <1>7. ASSUME NEW u \in User, NEW n \in Name, NEW step, Broadcasts(u, step, n),
               UNCHANGED <<DASHBOARDS, private, mem, online, toClient>>,
               \A v \in User : toServer'[v] # <<>> => toServer[v] # <<>>
        PROVE PrivateInv'
    <2>1. \A v \in User : stale[v] \subseteq stale'[v]
      BY <1>7, BroadcastsDoubts
    <2> QED BY <1>7, <2>1, PrivateStill
  <1>8. ASSUME NEW u \in User, InsertShared(u) PROVE PrivateInv'
    <2>1. PICK n \in Name : n = work[u].name
      BY <1>8, HandlerType DEF InsertShared
    <2>2. UNCHANGED <<DASHBOARDS, private, mem, online, toServer>>
      BY <1>8 DEF InsertShared, pages
    <2>3. CASE Taken(u, n)
      <3>1. Tell(u, "error", n, TRUE, Nobody)
        BY <1>8, <2>1, <2>3 DEF InsertShared
      <3> QED BY <1>5, <2>2, <3>1
    <2>4. CASE ~Taken(u, n)
      <3>1. Broadcasts(u, "saved", n) /\ UNCHANGED toClient
        BY <1>8, <2>1, <2>4 DEF InsertShared
      <3> QED BY <1>7, <2>2, <3>1
    <2> QED BY <2>3, <2>4
  <1>9. ASSUME NEW u \in User, DeleteShared(u) PROVE PrivateInv'
    <2>1. PICK n \in Name : n = Asked(u)
      BY <1>9, TakesTypes DEF DeleteShared
    <2>2. /\ UNCHANGED <<DASHBOARDS, private, mem, online, toClient>> /\ Broadcasts(u, "deleted", n)
          /\ \A v \in User : toServer'[v] # <<>> => toServer[v] # <<>>
      BY <1>4, <1>9, <2>1 DEF DeleteShared, pages
    <2> QED BY <1>7, <2>2
  <1>10. ASSUME NEW u \in User, NEW v \in User, Broadcast(u, v) PROVE PrivateInv'
    <2> DEFINE owner == IF work[u].step = "saved" THEN u ELSE Nobody
    <2>1. /\ UNCHANGED <<DASHBOARDS, private, mem, online, toServer>>
          /\ Tell(v, work[u].step, work[u].name, TRUE, owner) /\ owner \in User \cup {Nobody}
          /\ work[u].name \in Name /\ work[u].step \in {"saved", "deleted"}
      BY <1>10, HandlerType DEF Broadcast, database, pages
    <2> HIDE DEF owner
    <2> QED BY <1>5, <2>1
  <1>11. ASSUME NEW u \in User, SavePrivate(u) PROVE PrivateInv'
    <2>1. PICK n \in Name : n = Asked(u)
      BY <1>11, TakesTypes DEF SavePrivate
    <2>2. toServer[u] # <<>> /\ \A v \in User : toServer'[v] # <<>> => toServer[v] # <<>>
      BY <1>4, <1>11 DEF SavePrivate
    <2>3. CASE n \in mem[u]
      <3>1. Tell(u, "error", n, FALSE, Nobody) /\ UNCHANGED <<DASHBOARDS, private, mem, online>>
        BY <1>11, <2>1, <2>3 DEF SavePrivate, database, server, pages
      <3> QED BY <1>5, <2>2, <3>1
    <2>4. CASE n \notin mem[u]
      <3>1. Update(u, n, mem[u] \cup {n}, "saved")
        BY <1>11, <2>1, <2>4 DEF SavePrivate
      <3> QED BY <2>2, <3>1, PrivateUpdated
    <2> QED BY <2>3, <2>4
  <1>12. ASSUME NEW u \in User, DeletePrivate(u) PROVE PrivateInv'
    <2>1. PICK n \in Name : n = Asked(u)
      BY <1>12, TakesTypes DEF DeletePrivate
    <2>2. toServer[u] # <<>> /\ \A v \in User : toServer'[v] # <<>> => toServer[v] # <<>>
      BY <1>4, <1>12 DEF DeletePrivate
    <2>3. Update(u, n, mem[u] \ {n}, "deleted")
      BY <1>12, <2>1 DEF DeletePrivate
    <2> QED BY <2>2, <2>3, PrivateUpdated
  <1>13. CASE UNCHANGED vars
    <2>1. UNCHANGED <<DASHBOARDS, private, mem, online, toServer, toClient, stale>>
      BY <1>13 DEF vars, database, server, wires, pages
    <2> QED BY <2>1, PrivateStill
  <1> QED
    BY <1>1, <1>2, <1>3, <1>6, <1>8, <1>9, <1>10, <1>11, <1>12, <1>13, PrivateRendered,
       PrivateClosed, PrivateReceive DEF Next, Save, Delete, Reload, Load

-----------------------------------------------------------------------------
(* The theorems.                                                           *)

LEMMA InitInv == Init => IInv
  <1> SUFFICES ASSUME Init PROVE IInv
    OBVIOUS
  <1>1. MessagesInv
    BY DEF Init, MessagesInv
  <1>2. MenuAgrees
    BY EntryParts DEF Init, MenuAgrees, Entries, Header
  <1>3. ASSUME NEW u \in User, NEW n \in Name PROVE SharedOf(u, n) /\ PrivateOf(u, n)
    <2>1. toClient[u] = <<>> /\ SHARED[u] = shared /\ DASHBOARDS[u] = private[u] /\ mem[u] = private[u]
          /\ \A v \in User : work[v] = Nothing
      BY DEF Init
    <2> QED BY <2>1, EmptyMentions DEF SharedOf, PrivateOf, SharedKnown, PrivateKnown, Announces
  <1> QED BY <1>1, <1>2, <1>3, InitTypes DEF IInv, SharedInv, PrivateInv

LEMMA InvStep == IInv /\ [Next]_vars => IInv'
  BY TypeStep, MessagesStep, MenuStep, SharedStep, PrivateStep DEF IInv

LEMMA Invariance == Spec => []IInv
  BY InitInv, InvStep, PTL DEF Spec

\* The types of Dashboards are kept for any users, names and bounds.
THEOREM TypeCorrect == Spec => []TypeOK
  <1>1. IInv => TypeOK
    BY DEF IInv
  <1> QED BY <1>1, Invariance, PTL

\* The dropdown and its header agree with what the page knows of the dashboards,
\* whatever messages it receives (dashboards.js: saved(), deleted(),
\* addDropdownEntry(), toggleSharedHeader()).
THEOREM MenusAgree == Spec => []MenuAgrees
  <1>1. IInv => MenuAgrees
    BY DEF IInv
  <1> QED BY <1>1, Invariance, PTL

\* A page that has received what was sent to it shows a dashboard as the database
\* has it, unless it missed a message, two handlers worked on the name at once or
\* an update was refused (broadcast(), the handlers of dashboards.go, saved(),
\* deleted()).
THEOREM PagesAreSettled == Spec => []PagesSettle
  <1>1. IInv => PagesSettle
    <2> SUFFICES ASSUME IInv, NEW u \in User, NEW n \in Name, Quiet(u, n)
                 PROVE /\ SharedDoubt(u, n) \/ SHARED[u][n] = shared[n]
                       /\ PrivateDoubt(u, n) \/ (n \in DASHBOARDS[u] <=> n \in private[u])
      BY DEF PagesSettle, SharedDoubt, PrivateDoubt
    <2>1. toClient[u] = <<>> /\ \A v \in User : ~Announces(v, n)
      BY DEF Quiet, Announces
    <2>2. ~Mentions(toClient[u], n, "shared") /\ ~Mentions(toClient[u], n, "private")
      BY <2>1, EmptyMentions
    <2>3. SharedDoubt(u, n) \/ SharedKnown(u, n)
      BY <2>1 DEF IInv, SharedInv, SharedOf
    <2>4. PrivateDoubt(u, n) \/ PrivateKnown(u, n)
      BY DEF IInv, PrivateInv, PrivateOf
    <2> QED BY <2>2, <2>3, <2>4 DEF SharedKnown, PrivateKnown
  <1> QED BY <1>1, Invariance, PTL

\* No handler writes over a shared dashboard that is there: of two that find the
\* name free the second is refused (saveDashboardHandler(), delDashboardHandler()).
THEOREM NothingIsOverwritten == Spec => NotOverwritten
  <1> DEFINE Stays == \A n \in Name : shared[n] # Nobody => shared'[n] \in {shared[n], Nobody}
  <1>1. TypeOK /\ [Next]_vars => [Stays]_vars
    <2> SUFFICES ASSUME TypeOK, [Next]_vars PROVE Stays
      OBVIOUS
    <2>1. CASE UNCHANGED shared
      BY <2>1
    <2>2. ASSUME NEW u \in User, InsertShared(u) PROVE Stays
      <3>1. shared' = shared \/ (~Taken(u, work[u].name) /\ shared' = [shared EXCEPT ![work[u].name] = u])
        BY <2>2 DEF InsertShared
      <3> QED BY <3>1 DEF Taken, TypeOK
    <2>3. ASSUME NEW u \in User, DeleteShared(u) PROVE Stays
      BY <2>3 DEF DeleteShared, TypeOK
    <2>4. ASSUME NEW u \in User,
                 \/ \E n \in Name, sh \in BOOLEAN : Save(u, n, sh)
                 \/ \E e \in Entry : Select(u, e)
                 \/ Delete(u) \/ Reload(u) \/ Load(u) \/ Close(u) \/ Connect(u) \/ FindShared(u)
                 \/ \E v \in User : Broadcast(u, v)
                 \/ SavePrivate(u) \/ DeletePrivate(u) \/ OnSaved(u) \/ OnDeleted(u) \/ OnError(u)
          PROVE UNCHANGED shared
      BY <2>4 DEF Save, Select, Delete, Send, Reload, Load, Render, Close, Connect, FindShared,
                  Broadcast, SavePrivate, DeletePrivate, Update, OnSaved, OnDeleted, OnError,
                  Receive, database
    <2>5. CASE UNCHANGED vars
      BY <2>1, <2>5 DEF vars, database
    <2> QED BY <2>1, <2>2, <2>3, <2>4, <2>5 DEF Next
  <1> QED BY <1>1, TypeCorrect, PTL DEF Spec, NotOverwritten
=============================================================================
