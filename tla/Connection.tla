----------------------------- MODULE Connection -----------------------------
(***************************************************************************)
(* A page's Websocket connection (websocket.js) and what the pages do with *)
(* it: the search button and the count of searches (search.js), the notes  *)
(* of the clicked element (graph.js) on the search page, the upload and    *)
(* download lists (user-actions.js) on the profile page.                   *)
(*                                                                         *)
(* Messages arrive in order in both directions while the connection lives  *)
(* and are lost with it.  The server handles the messages of a connection  *)
(* one at a time; the jobs of its uploads run beside that, on the lists of *)
(* the connection's Account.  What becomes of a job whose connection is    *)
(* lost is the module Uploads' matter: here the file leaves the queue of   *)
(* the database sooner or later.                                           *)
(***************************************************************************)
EXTENDS Naturals, Sequences, FiniteSets

CONSTANTS
    Element,        \* graph elements
    NoElement,      \* no element's attributes are shown
    Key,            \* keys of the collection notes
    EncodeURI,      \* the key encodeURI() makes of an element's id
    Text, NoText,   \* notes
    File,           \* uploaded files
    NoLists,        \* the server is not answering upload-lists
    Restored,       \* enabled filters restore() starts the queries of
    MaxAttempts,    \* attempts to reconnect, 60 in the code
    MaxOut,         \* bound: messages on their way when one is sent
    MaxDrops,       \* bound: connections lost
    MaxJobs         \* bound: searches counted

ASSUME ConnectionAssumption ==
    /\ NoElement \notin Element
    /\ Element \subseteq Key
    /\ EncodeURI \in [Element -> Key]
    /\ NoText \notin Text
    /\ IsFiniteSet(File)
    /\ Restored \in Nat
    /\ MaxAttempts \in Nat /\ MaxOut \in Nat /\ MaxDrops \in Nat /\ MaxJobs \in Nat

VARIABLES
    \* The page, its connection, failed attempts, the messages of both directions
    \* and the connections lost so far.
    page, ws, attempts, toServer, toClient, drops,
    \* The search button's classes and search.jobs.
    button, jobs,
    \* The element whose attributes are shown, the text area of its notes,
    \* whether the user changed it, the button next to it, the database.
    dataId, field, typed, saving, notes,
    \* Account.Uploads of the connection and what the database has, the job of
    \* each upload, the queue getUploadLists() has read.
    In, Out, stored, job, reading,
    \* The entries of both lists on the page, queueN and the header.
    queue, downloads, queueN, header

wire == <<page, ws, attempts, toServer, toClient, drops>>
search == <<button, jobs>>
attributes == <<dataId, field, typed, saving>>
uploads == <<In, Out, stored, job, reading>>
profile == <<queue, downloads, queueN, header>>
vars == <<wire, search, attributes, notes, uploads, profile>>

Kind == {"sql", "results", "error", "common", "notes", "notes-save", "notes-set", "notes-error",
         "upload-lists", "uploaded", "upload-processed", "notification"}
Message == [type : Kind, id : Key \cup {NoElement}, text : Text \cup {NoText},
            files : SUBSET File, done : SUBSET File]
Plain(t) == [type |-> t, id |-> NoElement, text |-> NoText, files |-> {}, done |-> {}]

TypeOK ==
    /\ page \in {"search", "profile"}
    /\ ws \in {"connecting", "open", "waiting", "stopped"}
    /\ attempts \in 0..MaxAttempts
    /\ toServer \in Seq(Message) /\ toClient \in Seq(Message)
    /\ drops \in 0..MaxDrops
    /\ button \subseteq {"disabled", "loading"}
    /\ jobs \in 0..MaxJobs
    /\ dataId \in Element \cup {NoElement}
    /\ field \in Text \cup {NoText}
    /\ typed \in BOOLEAN /\ saving \in BOOLEAN
    /\ notes \in [Key -> Text \cup {NoText}]
    /\ In \subseteq File /\ Out \subseteq File
    /\ stored \in [in : SUBSET File, out : SUBSET File]
    /\ job \in [File -> {"none", "accepted", "queued", "processed", "left", "done", "lost"}]
    /\ reading \in {NoLists} \cup SUBSET File
    /\ queue \in [File -> Nat] /\ downloads \in [File -> Nat]
    /\ queueN \in Nat
    /\ header \in BOOLEAN

Init ==
    /\ page \in {"search", "profile"}
    /\ ws = "connecting" /\ attempts = 0
    /\ toServer = <<>> /\ toClient = <<>> /\ drops = 0
    /\ button = {"disabled"} /\ jobs = 0
    /\ dataId = NoElement /\ field = NoText /\ typed = FALSE /\ saving = FALSE
    /\ notes = [k \in Key |-> NoText]
    /\ In = {} /\ Out = {} /\ reading = NoLists
    /\ \E old \in IF page = "profile" THEN SUBSET File ELSE {{}} :
         /\ stored = [in |-> {}, out |-> old]
         /\ job = [f \in File |-> IF f \in old THEN "done" ELSE "none"]
    /\ queue = [f \in File |-> 0] /\ downloads = [f \in File |-> 0]
    /\ queueN = 0 /\ header = FALSE
-----------------------------------------------------------------------------
(***************************************************************************)
(* The connection.                                                         *)
(***************************************************************************)
\* send(): raises an error while the browser connects, and does nothing
\* without a connection.
Throws == ws = "connecting"
Send(messages) ==
    toServer' = IF ws = "open" THEN toServer \o messages ELSE toServer
HasRoom == Len(toServer) + Len(toClient) < MaxOut

\* "first time only"
First == page = "search" /\ attempts = 0

\* onOpen(), with restore() on the first connection of the search page and the
\* request of the lists on the profile page; wsHandler() has read the Account.
OnOpen ==
    /\ ws = "connecting"
    /\ ws' = "open"
    /\ attempts' = 0
    /\ IF First /\ Restored > 0
       THEN /\ button' = {"disabled", "loading"}
            /\ jobs' = jobs + Restored
            /\ jobs' <= MaxJobs
            /\ toServer' = [i \in 1..Restored |-> Plain("sql")]
       ELSE /\ button' = button \ {"disabled"}
            /\ toServer' = IF page = "profile" THEN <<Plain("upload-lists")>> ELSE <<>>
            /\ UNCHANGED jobs
    /\ In' = stored.in /\ Out' = stored.out
    /\ UNCHANGED <<page, toClient, drops, attributes, notes, stored, job, reading, profile>>

Working(f) == job[f] \in {"accepted", "queued", "processed", "left"}

\* onClose(): of a connection, or of an attempt that failed
OnClose ==
    /\ \/ ws = "connecting" /\ drops' = drops
       \/ ws = "open" /\ drops < MaxDrops /\ drops' = drops + 1
    /\ ws' = IF attempts < MaxAttempts THEN "waiting" ELSE "stopped"
    /\ toServer' = <<>> /\ toClient' = <<>> /\ reading' = NoLists
    /\ button' = (button \ {"loading"}) \cup {"disabled"}
    /\ job' = [f \in File |-> IF Working(f) THEN "lost" ELSE job[f]]
    /\ UNCHANGED <<page, attempts, jobs, attributes, notes, In, Out, stored, profile>>

\* Mutant of Reconnect: attempts are not counted.
ReconnectUncounted ==
    /\ ws = "waiting"
    /\ ws' = "connecting"
    /\ UNCHANGED <<page, attempts, toServer, toClient, drops, search, attributes,
                   notes, uploads, profile>>

\* The timer of onClose()
Reconnect ==
    /\ ws = "waiting"
    /\ attempts' = attempts + 1
    /\ ws' = "connecting"
    /\ UNCHANGED <<page, toServer, toClient, drops, search, attributes,
                   notes, uploads, profile>>
-----------------------------------------------------------------------------
(***************************************************************************)
(* Searches.                                                               *)
(***************************************************************************)
\* Mutant of Busy: the button is only marked as loading.
Loading == IF Throws THEN button ELSE {"loading"}

Busy == IF Throws THEN button ELSE {"disabled", "loading"}

\* query(): the Enter key works whatever the button shows.
Query ==
    /\ page = "search" /\ HasRoom /\ jobs < MaxJobs
    /\ jobs' = jobs + 1
    /\ Send(<<Plain("sql")>>)
    /\ button' = Busy
    /\ UNCHANGED <<page, ws, attempts, toClient, drops, attributes,
                   notes, uploads, profile>>

\* menuCommon()
Common ==
    /\ page = "search" /\ HasRoom
    /\ Send(<<Plain("common")>>)
    /\ button' = Busy
    /\ UNCHANGED <<page, ws, attempts, toClient, drops, jobs, attributes,
                   notes, uploads, profile>>
-----------------------------------------------------------------------------
(***************************************************************************)
(* Notes.                                                                  *)
(***************************************************************************)
\* Mutant of Click: the element is not remembered while another one's notes are asked.
ClickLate(e) ==
    /\ page = "search" /\ HasRoom
    /\ dataId' = IF saving THEN dataId ELSE e
    /\ field' = NoText /\ typed' = FALSE
    /\ Send(<<[Plain("notes") EXCEPT !.id = e]>>)
    /\ saving' = (saving \/ ~Throws)
    /\ UNCHANGED <<page, ws, attempts, toClient, drops, search, notes,
                   uploads, profile>>

\* showAttributes() of a clicked element, with showNotes()
Click(e) ==
    /\ page = "search" /\ HasRoom
    /\ dataId' = e /\ field' = NoText /\ typed' = FALSE
    /\ Send(<<[Plain("notes") EXCEPT !.id = e]>>)
    /\ saving' = (saving \/ ~Throws)
    /\ UNCHANGED <<page, ws, attempts, toClient, drops, search, notes,
                   uploads, profile>>

\* The user clicks beside the elements: setupLeftClick().
ClickCanvas ==
    /\ dataId # NoElement
    /\ dataId' = NoElement /\ saving' = FALSE
    /\ UNCHANGED <<wire, search, field, typed, notes, uploads, profile>>

Type(t) ==
    /\ dataId # NoElement
    /\ field' = t /\ typed' = TRUE
    /\ UNCHANGED <<wire, search, dataId, saving, notes, uploads, profile>>

\* saveNotes(): the button is not clickable while it is disabled.
SaveNotes ==
    /\ dataId # NoElement /\ ~saving /\ HasRoom
    /\ Send(<<[Plain("notes-save") EXCEPT !.id = EncodeURI[dataId], !.text = field]>>)
    /\ saving' = ~Throws
    /\ UNCHANGED <<page, ws, attempts, toClient, drops, search, dataId,
                   field, typed, notes, uploads, profile>>
-----------------------------------------------------------------------------
(***************************************************************************)
(* The server (websocket.go, upload.go), as far as the pages see it.       *)
(***************************************************************************)
Answered(m) == toServer' = Tail(toServer) /\ toClient' = Append(toClient, m)
Reads(t) == ws = "open" /\ toServer # <<>> /\ Head(toServer).type = t

\* sqlHandler(): results, or an error message for a query without a source
ServeQuery ==
    /\ Reads("sql")
    /\ \E t \in {"results", "error"} : Answered(Plain(t))
    /\ UNCHANGED <<page, ws, attempts, drops, search, attributes, notes,
                   uploads, profile>>

\* commonHandler()
ServeCommon ==
    /\ Reads("common")
    /\ Answered(Plain("common"))
    /\ UNCHANGED <<page, ws, attempts, drops, search, attributes, notes,
                   uploads, profile>>

\* notesHandler() and getNotes()
ServeNotes ==
    /\ Reads("notes")
    /\ \/ Answered([Plain("notes") EXCEPT !.text = notes[Head(toServer).id]])
       \/ Answered(Plain("notes-error"))
    /\ UNCHANGED <<page, ws, attempts, drops, search, attributes, notes,
                   uploads, profile>>

\* notesSaveHandler() and setNotes(): an empty text deletes the notes, which
\* is an error when there are none.
ServeSave ==
    /\ Reads("notes-save")
    /\ LET m == Head(toServer) IN
       \/ /\ m.text # NoText \/ notes[m.id] # NoText
          /\ notes' = [notes EXCEPT ![m.id] = m.text]
          /\ Answered(Plain("notes-set"))
       \/ /\ Answered(Plain("notes-error"))
          /\ UNCHANGED notes
    /\ UNCHANGED <<page, ws, attempts, drops, search, attributes, uploads, profile>>

\* getUploadLists() reads one list, then the other and sends them.
ReadQueue ==
    /\ Reads("upload-lists") /\ reading = NoLists
    /\ reading' = In
    /\ UNCHANGED <<wire, search, attributes, notes, In, Out, stored, job, profile>>

SendLists ==
    /\ Reads("upload-lists") /\ reading # NoLists
    /\ Answered([Plain("upload-lists") EXCEPT !.files = reading, !.done = Out])
    /\ reading' = NoLists
    /\ UNCHANGED <<page, ws, attempts, drops, search, attributes, notes, In, Out,
                   stored, job, profile>>

\* A step of an upload's job, and the message it sends.  Each change of a list is
\* written whole.
Step(f, from, to) ==
    /\ ws = "open" /\ job[f] = from
    /\ job' = [job EXCEPT ![f] = to]
    /\ UNCHANGED <<page, ws, attempts, toServer, drops, search, attributes, notes,
                   reading, profile>>
Tell(t, f) == toClient' = Append(toClient, [Plain(t) EXCEPT !.files = {f}])

\* uploadHandler()
Accept(f) ==
    /\ page = "profile"
    /\ Step(f, "none", "accepted")
    /\ In' = In \cup {f} /\ stored' = [stored EXCEPT !.in = In']
    /\ UNCHANGED <<Out, toClient>>

TellUploaded(f) ==
    /\ Step(f, "accepted", "queued")
    /\ Tell("uploaded", f)
    /\ UNCHANGED <<In, Out, stored>>

\* processUploads(), or its error
Process(f) ==
    /\ Step(f, "queued", "processed")
    /\ \E t \in {"upload-processed", "notification"} : Tell(t, f)
    /\ UNCHANGED <<In, Out, stored>>

\* cleanUploads()
LeaveQueue(f) ==
    /\ Step(f, "processed", "left")
    /\ In' = In \ {f} /\ stored' = [stored EXCEPT !.in = In']
    /\ UNCHANGED <<Out, toClient>>

AddToDownloads(f) ==
    /\ Step(f, "left", "done")
    /\ Out' = Out \cup {f} /\ stored' = [stored EXCEPT !.out = Out']
    /\ UNCHANGED <<In, toClient>>

\* Another Account's job, or a start of the service, deals with the file.
Settle(f) ==
    /\ job[f] = "lost"
    /\ job' = [job EXCEPT ![f] = "done"]
    /\ stored' = [in |-> stored.in \ {f}, out |-> stored.out \cup {f}]
    /\ UNCHANGED <<wire, search, attributes, notes, In, Out, reading, profile>>
-----------------------------------------------------------------------------
(***************************************************************************)
(* onMessage().                                                            *)
(***************************************************************************)
Receive(t) ==
    /\ ws = "open" /\ toClient # <<>> /\ Head(toClient).type = t
    /\ toClient' = Tail(toClient)
    /\ UNCHANGED <<page, ws, attempts, toServer, drops, notes, uploads>>

\* processResults(): the button is free again when no search is counted.
OnResults ==
    /\ Receive("results")
    /\ jobs' = jobs - 1
    /\ button' = IF jobs' = 0 THEN {} ELSE button
    /\ UNCHANGED <<attributes, profile>>

\* Mutant of OnCommon: its answer counts as one of a search.
OnCommonCounted ==
    /\ Receive("common")
    /\ jobs' = jobs - 1
    /\ button' = {}
    /\ UNCHANGED <<attributes, profile>>

\* processCommon(), with the button as it does it
OnCommon ==
    /\ Receive("common")
    /\ button' = {}
    /\ UNCHANGED <<jobs, attributes, profile>>

\* A modal window, or a notification
OnError ==
    /\ \E t \in {"error", "notification"} : Receive(t)
    /\ UNCHANGED <<search, attributes, profile>>

\* notes: whichever element is shown by now
OnNotes ==
    /\ Receive("notes")
    /\ field' = Head(toClient).text /\ typed' = FALSE /\ saving' = FALSE
    /\ UNCHANGED <<search, dataId, profile>>

\* notes-set and notes-error
OnSaved ==
    /\ \E t \in {"notes-set", "notes-error"} : Receive(t)
    /\ saving' = FALSE
    /\ UNCHANGED <<search, dataId, field, typed, profile>>

\* lists(): uploaded() of each file of the queue, appendDownloadLink() of the
\* others; what the page shows already stays.
More(list, fs) == [f \in File |-> IF f \in fs THEN list[f] + 1 ELSE list[f]]
\* Mutants of OnLists: the count starts again; an empty queue ends it.
OnListsRecounted ==
    /\ Receive("upload-lists")
    /\ LET m == Head(toClient) IN
       /\ queue' = More(queue, m.files)
       /\ downloads' = More(downloads, m.done)
       /\ queueN' = Cardinality(m.files)
       /\ header' = (header \/ m.files # {})
    /\ UNCHANGED <<search, attributes>>

OnListsQueued ==
    /\ Receive("upload-lists")
    /\ LET m == Head(toClient) IN
       /\ queue' = More(queue, m.files)
       /\ downloads' = IF m.files = {} THEN downloads ELSE More(downloads, m.done)
       /\ queueN' = queueN + Cardinality(m.files)
       /\ header' = (header \/ m.files # {})
    /\ UNCHANGED <<search, attributes>>

OnLists ==
    /\ Receive("upload-lists")
    /\ LET m == Head(toClient) IN
       /\ queue' = More(queue, m.files)
       /\ downloads' = More(downloads, m.done)
       /\ queueN' = queueN + Cardinality(m.files)
       /\ header' = (header \/ m.files # {})
    /\ UNCHANGED <<search, attributes>>

\* uploaded()
OnUploaded ==
    /\ Receive("uploaded")
    /\ queue' = More(queue, Head(toClient).files)
    /\ queueN' = queueN + 1
    /\ header' = TRUE
    /\ UNCHANGED <<search, attributes, downloads>>

\* uploadProcessed(): an error when the page does not show the file in the queue
OnProcessed ==
    /\ Receive("upload-processed")
    /\ LET fs == Head(toClient).files IN
       IF \A f \in fs : queue[f] > 0
       THEN /\ queue' = [f \in File |-> IF f \in fs THEN queue[f] - 1 ELSE queue[f]]
            /\ downloads' = More(downloads, fs)
            /\ queueN' = queueN - 1
            /\ header' = (queueN' # 0)
       ELSE UNCHANGED profile
    /\ UNCHANGED <<search, attributes>>
-----------------------------------------------------------------------------
Serve ==
    \/ ServeQuery
    \/ ServeCommon
    \/ ServeNotes
    \/ ServeSave
    \/ ReadQueue
    \/ SendLists

OnMessage ==
    \/ OnResults
    \/ OnCommon
    \/ OnError
    \/ OnNotes
    \/ OnSaved
    \/ OnLists
    \/ OnUploaded
    \/ OnProcessed

Next ==
    \/ OnOpen
    \/ OnClose
    \/ Reconnect
    \/ Query
    \/ Common
    \/ \E e \in Element : Click(e)
    \/ ClickCanvas
    \/ \E t \in Text : Type(t)
    \/ SaveNotes
    \/ Serve
    \/ \E f \in File : Accept(f)
    \/ \E f \in File : TellUploaded(f)
    \/ \E f \in File : Process(f)
    \/ \E f \in File : LeaveQueue(f)
    \/ \E f \in File : AddToDownloads(f)
    \/ \E f \in File : Settle(f)
    \/ OnMessage

\* The browser reports how each attempt to connect ends, runs the timers and
\* the handlers of messages; the server answers what it reads.
Fairness ==
    /\ WF_vars(OnOpen \/ (ws = "connecting" /\ OnClose))
    /\ WF_vars(Reconnect)
    /\ WF_vars(Serve)
    /\ WF_vars(OnMessage)

Spec == Init /\ [][Next]_vars
FairSpec == Spec /\ Fairness
-----------------------------------------------------------------------------
(***************************************************************************)
(* Properties.                                                             *)
(***************************************************************************)
Count(messages, t) == Cardinality({i \in DOMAIN messages : messages[i].type = t})
Searches == Count(toServer, "sql") + Count(toClient, "results")

\* No search that can still be answered is left out of the count, so the last
\* answer frees the button and no earlier one does, however often the connection
\* was lost in between (search.js:277, processResults()).
JobsCoverSearches == Searches <= jobs

\* Without a connection the search button is disabled (websocket.js:49,
\* websocket.js:167; onOpen(), onClose(), query(), processResults()).
LockedOffline == page = "search" /\ ws # "open" => "disabled" \in button

\* The last answer about notes is the one that counts: the text area then holds
\* the notes of the element that is shown, in whatever order elements were clicked
\* and saved, requests failed and connections were lost (showNotes(), saveNotes(),
\* onMessage()).
AboutNotes(m) == m.type \in {"notes", "notes-save", "notes-set", "notes-error"}
NotesQuiet ==
    /\ \A i \in DOMAIN toServer : ~AboutNotes(toServer[i])
    /\ \A i \in DOMAIN toClient : ~AboutNotes(toClient[i])
LastNotesCount ==
    [][OnNotes /\ NotesQuiet' /\ dataId # NoElement => field' = notes[dataId]]_vars

\* The files the page counts are the files it shows, and its header is there
\* when there are any, after reconnections and files processed meanwhile
\* (lists(), uploaded(), uploadProcessed()).
Entries(list) == UNION {{f} \X (1..list[f]) : f \in File}
QueueIsCounted ==
    /\ queueN = Cardinality(Entries(queue))
    /\ header <=> queueN > 0

\* When nothing is on its way, a connected page shows every file its Account knows
\* of in one of its lists, whatever the jobs did between the reading of one list
\* and of the other (getUploadLists(), lists(), uploadProcessed()).
FilesAreShown ==
    page = "profile" /\ ws = "open" /\ toServer = <<>> /\ toClient = <<>> =>
        \A f \in In \cup Out : job[f] # "accepted" => queue[f] + downloads[f] > 0

\* A lost connection comes back or the page gives up (onClose(), init()).
ReconnectEnds == ws = "waiting" ~> ws \in {"open", "stopped"}
=============================================================================
