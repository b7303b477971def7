------------------------------- MODULE Uploads -------------------------------
(***************************************************************************)
(* The indicators upload pipeline (upload.go) together with the pieces of  *)
(* account.go, notifications.go, websocket.go and database.go it relies    *)
(* on.  A file is stored in the queue/ directory, recorded in the          *)
(* database field uploads.in, processed by a goroutine that writes a       *)
(* report to the processed/ directory, and moved to the database field     *)
(* uploads.out.  Each Websocket connection owns an in-memory Account that  *)
(* holds its own copy of both lists; after a restart reProcessUploads()    *)
(* works on copies of its own, and deleteUploadResults() on a third set.   *)
(* Every update() writes the whole list of the object it is called on, so  *)
(* the database write is a step apart from the change of the copy.         *)
(*                                                                         *)
(* A file stands for the name "<date>-<time>-<zone>-<name>" it gets at the *)
(* upload; two uploads are assumed not to produce the same name.           *)
(***************************************************************************)
EXTENDS Naturals, Sequences

CONSTANTS
    Users,          \* accounts of the database
    Conns,          \* Websocket connections, each with an Account of its own
    Files,          \* uploads
    Owner,          \* the user who uploads a file
    UserOf,         \* the user an Account object belongs to
    NoConn,         \* no connection, for a user who is not online
    Boot,           \* the goroutine of reProcessUploads()
    Aging,          \* bound: the uploads that grow old during a run
    MaxNotes,       \* notifications kept for an offline user, 5 in the code
    MaxCrashes,     \* bound: stops of the service that no step of it causes
    MaxFaults,      \* bound: failed database updates
    MaxDrops        \* bound: Websocket connections lost

ASSUME UploadsAssumption ==
    /\ Owner \in [Files -> Users]
    /\ Users \cap Conns = {}
    /\ UserOf \in [Conns \cup Users -> Users]
    /\ \A u \in Users : UserOf[u] = u
    /\ NoConn \notin Conns \cup Users
    /\ Boot \notin Files
    /\ Aging \subseteq Files
    /\ MaxNotes \in Nat \ {0}
    /\ MaxCrashes \in Nat /\ MaxFaults \in Nat /\ MaxDrops \in Nat

VARIABLES
    \* What survives a stop of the service: the two directories of
    \* config.Upload.Path and the fields of the user's database record.
    queue, processed, dbIn, dbOut, notes,
    \* Memory of the service: whether it runs, the state of the Websocket of
    \* each connection, the map online, the lists of every Account object and
    \* how far reProcessUploads() is.
    up, ws, online, memIn, memOut, boot,
    \* The jobs: where each goroutine is, its file, the Account it works on,
    \* and the values of the updates it has under way.
    pc, file, obj, inVal, outVal,
    \* deleteUploadResults(): its copies of the lists and the files that had
    \* expired at the tick.
    sweepPc, sweepUser, sweepOut, sweepNow,
    \* What the outside has seen: the answer to each upload request, the
    \* reports ever written, the failures the owner was told of, the files
    \* older than config.Upload.DeleteExpiration, and those os.Remove() could
    \* not take out of queue/.
    answer, reported, told, expired, stuck,
    crashes, faults, drops

stored  == <<queue, processed, dbIn, dbOut, notes>>
session == <<ws, online>>
lists   == <<memIn, memOut>>
jobs    == <<pc, file, obj, inVal, outVal>>
sweep   == <<sweepPc, sweepUser, sweepOut, sweepNow>>
seen    == <<answer, reported, told, expired, stuck>>
budget  == <<crashes, faults, drops>>

vars == <<stored, up, session, lists, boot, jobs, sweep, seen, budget>>

-----------------------------------------------------------------------------

\* The goroutine of a file uploaded over HTTP is named by the file.
Workers == Files \cup {Boot}

\* reProcessUploads() reads one Account object per user: the object is named
\* by the user.  A connection's object is named by the connection.
Objects == Conns \cup Users

\* A downloads list: how often each file occurs in it.  The order of the list
\* is what deleteUploadResults() shuffles and no property is about.
List == [Files -> Nat]
EmptyList == [f \in Files |-> 0]
Listed(l) == {f \in Files : l[f] > 0}

PC == {"idle", "stored", "inSaving", "accepted", "queued", "reading",
       "written", "failed", "clean", "inDropping", "listing", "outSaving",
       "unlisted", "done", "gone"}

Over == {"idle", "done", "gone"}

Init ==
    /\ queue = {} /\ processed = {}
    /\ dbIn = [u \in Users |-> {}]
    /\ dbOut = [u \in Users |-> EmptyList]
    /\ notes = [u \in Users |-> <<>>]
    /\ up = TRUE
    /\ ws = [c \in Conns |-> "none"]
    /\ online = [u \in Users |-> NoConn]
    /\ memIn = [o \in Objects |-> {}]
    /\ memOut = [o \in Objects |-> EmptyList]
    /\ boot = "start"
    /\ pc = [x \in Workers |-> "idle"]
    /\ file = [x \in Workers |-> x]
    /\ obj = [x \in Workers |-> NoConn]
    /\ inVal = [x \in Workers |-> {}]
    /\ outVal = [x \in Workers |-> EmptyList]
    /\ sweepPc = "idle" /\ sweepUser = NoConn
    /\ sweepOut = [u \in Users |-> EmptyList]
    /\ sweepNow = {}
    /\ answer = [f \in Files |-> "none"]
    /\ reported = {} /\ told = {} /\ expired = {} /\ stuck = {}
    /\ crashes = 0 /\ faults = 0 /\ drops = 0

-----------------------------------------------------------------------------
(* Websocket connections, as far as the pipeline sees them.                *)

\* wsHandler(): a connection starts from a fresh copy of the account and
\* becomes the one that online names.  The name of an earlier connection is
\* used again once no goroutine holds its Account.
Connect(c) ==
    /\ up /\ ws[c] # "open"
    /\ \A x \in Workers : obj[x] # c
    /\ ws' = [ws EXCEPT ![c] = "open"]
    /\ online' = [online EXCEPT ![UserOf[c]] = c]
    /\ memIn' = [memIn EXCEPT ![c] = dbIn[UserOf[c]]]
    /\ memOut' = [memOut EXCEPT ![c] = dbOut[UserOf[c]]]
    /\ UNCHANGED <<stored, up, boot, jobs, sweep, seen, budget>>

\* The deferred function of listen(): the Account of the connection keeps its
\* Session, whose Websocket becomes nil, and the user's entry of online goes
\* whichever connection it names.
Disconnect(c) ==
    /\ up /\ ws[c] = "open" /\ drops < MaxDrops
    /\ ws' = [ws EXCEPT ![c] = "nil"]
    /\ online' = [online EXCEPT ![UserOf[c]] = NoConn]
    /\ drops' = drops + 1
    /\ UNCHANGED <<stored, up, lists, boot, jobs, sweep, seen, crashes, faults>>

-----------------------------------------------------------------------------
(* The service stops: a kill, a power cut, or a panic in a goroutine that  *)
(* nothing recovers.                                                       *)

Halt ==
    /\ up' = FALSE
    /\ ws' = [c \in Conns |-> "none"]
    /\ online' = [u \in Users |-> NoConn]
    /\ memIn' = [o \in Objects |-> {}]
    /\ memOut' = [o \in Objects |-> EmptyList]
    /\ boot' = "off"
    /\ pc' = [x \in Workers |-> IF x = Boot THEN "idle"
                                ELSE IF pc[x] \in Over THEN pc[x] ELSE "gone"]
    /\ file' = [x \in Workers |-> x]
    /\ obj' = [x \in Workers |-> NoConn]
    /\ inVal' = [x \in Workers |-> {}]
    /\ outVal' = [x \in Workers |-> EmptyList]
    /\ sweepPc' = "idle" /\ sweepNow' = {} /\ sweepUser' = NoConn
    /\ sweepOut' = [u \in Users |-> EmptyList]

Crash ==
    /\ up /\ crashes < MaxCrashes
    /\ Halt
    /\ crashes' = crashes + 1
    /\ UNCHANGED <<stored, answer, reported, told, expired, stuck, faults, drops>>

\* Mutant of Restart: reProcessUploads() is not started.
RestartOnly ==
    /\ ~up
    /\ up' = TRUE
    /\ UNCHANGED <<stored, session, lists, boot, jobs, sweep, seen, budget>>

\* main() up to setupUpload(), which starts reProcessUploads().
Restart ==
    /\ ~up
    /\ up' = TRUE /\ boot' = "start"
    /\ UNCHANGED <<stored, session, lists, jobs, sweep, seen, budget>>

-----------------------------------------------------------------------------
(* uploadHandler(), in the goroutine of net/http: a panic there is         *)
(* recovered and only ends the handler.                                    *)

\* A job that is over lets go of its Account.
Finish(x, how) ==
    /\ pc' = [pc EXCEPT ![x] = IF x = Boot THEN "idle" ELSE how]
    /\ file' = [file EXCEPT ![x] = x]
    /\ obj' = [obj EXCEPT ![x] = NoConn]
    /\ inVal' = [inVal EXCEPT ![x] = {}]
    /\ outVal' = [outVal EXCEPT ![x] = EmptyList]

Goto(x, where) ==
    /\ pc' = [pc EXCEPT ![x] = where]
    /\ UNCHANGED <<file, obj, inVal, outVal>>

\* The Account comes from online; the content is copied to queue/.  A copy
\* that fails half way leaves the file behind and refuses the upload.
StoreFile(f) ==
    /\ up /\ pc[f] = "idle" /\ online[Owner[f]] # NoConn
    /\ queue' = queue \cup {f}
    /\ obj' = [obj EXCEPT ![f] = online[Owner[f]]]
    /\ pc' = [pc EXCEPT ![f] = "stored"]
    /\ UNCHANGED <<processed, dbIn, dbOut, notes, up, session, lists, boot,
                   file, inVal, outVal, sweep, seen, budget>>

StoreFileFails(f) ==
    /\ up /\ pc[f] = "idle" /\ online[Owner[f]] # NoConn
    /\ queue' = queue \cup {f}
    /\ pc' = [pc EXCEPT ![f] = "gone"]
    /\ answer' = [answer EXCEPT ![f] = "error"]
    /\ UNCHANGED <<processed, dbIn, dbOut, notes, up, session, lists, boot, file,
                   obj, inVal, outVal, sweep, reported, told, expired, stuck,
                   budget>>

AddToQueue(f) ==
    /\ up /\ pc[f] = "stored"
    /\ memIn' = [memIn EXCEPT ![obj[f]] = @ \cup {f}]
    /\ inVal' = [inVal EXCEPT ![f] = memIn[obj[f]] \cup {f}]
    /\ pc' = [pc EXCEPT ![f] = "inSaving"]
    /\ UNCHANGED <<stored, up, session, memOut, boot, file, obj, outVal,
                   sweep, seen, budget>>

\* The update succeeds and the request is answered "ok".
AddToQueueSaved(f) ==
    /\ up /\ pc[f] = "inSaving"
    /\ dbIn' = [dbIn EXCEPT ![Owner[f]] = inVal[f]]
    /\ answer' = [answer EXCEPT ![f] = "ok"]
    /\ inVal' = [inVal EXCEPT ![f] = {}]
    /\ pc' = [pc EXCEPT ![f] = "accepted"]
    /\ UNCHANGED <<queue, processed, dbOut, notes, up, session, lists, boot, file,
                   obj, outVal, sweep, reported, told, expired, stuck, budget>>

\* Mutant of AddToQueueRefused: the request is answered before the update.
AddToQueueRefusedLate(f) ==
    /\ up /\ pc[f] = "inSaving" /\ faults < MaxFaults
    /\ answer' = [answer EXCEPT ![f] = "ok"]
    /\ faults' = faults + 1
    /\ inVal' = [inVal EXCEPT ![f] = {}]
    /\ pc' = [pc EXCEPT ![f] = "clean"]
    /\ UNCHANGED <<stored, up, session, lists, boot, file, obj, outVal, sweep,
                   reported, told, expired, stuck, crashes, drops>>

\* The update is refused by the database: the handler answers with the error
\* and calls cleanUploads() itself.
AddToQueueRefused(f) ==
    /\ up /\ pc[f] = "inSaving" /\ faults < MaxFaults
    /\ answer' = [answer EXCEPT ![f] = "error"]
    /\ faults' = faults + 1
    /\ inVal' = [inVal EXCEPT ![f] = {}]
    /\ pc' = [pc EXCEPT ![f] = "clean"]
    /\ UNCHANGED <<stored, up, session, lists, boot, file, obj, outVal, sweep,
                   reported, told, expired, stuck, crashes, drops>>

\* The update times out: the driver returns no result, update() dereferences
\* it, and the handler dies without an answer, the write applied or not.
AddToQueueTimesOut(f) ==
    /\ up /\ pc[f] = "inSaving" /\ faults < MaxFaults
    /\ \/ dbIn' = [dbIn EXCEPT ![Owner[f]] = inVal[f]]
       \/ dbIn' = dbIn
    /\ faults' = faults + 1
    /\ Finish(f, "gone")
    /\ UNCHANGED <<queue, processed, dbOut, notes, up, session, lists, boot, sweep,
                   seen, crashes, drops>>

\* send("uploaded"), then the goroutine that processes the file.  Without a
\* Websocket send() panics and the goroutine is never started.
StartProcessing(f) ==
    /\ up /\ pc[f] = "accepted"
    /\ IF ws[obj[f]] = "open" THEN Goto(f, "queued") ELSE Finish(f, "gone")
    /\ UNCHANGED <<stored, up, session, lists, boot, sweep, seen, budget>>

-----------------------------------------------------------------------------
(* processUploads(), by the goroutine of an upload or by reProcessUploads().  *)
(* Nothing recovers a panic of these goroutines: it stops the service.        *)

\* Mutant of OpenFile: the error of os.Open() is ignored.
OpenFileUnchecked(x) ==
    /\ up /\ pc[x] = "queued"
    /\ Goto(x, "reading")
    /\ UNCHANGED <<stored, up, session, lists, boot, sweep, seen, budget>>

\* The file is opened; its lines are then queried one after another.
OpenFile(x) ==
    /\ up /\ pc[x] = "queued"
    /\ Goto(x, IF file[x] \in queue THEN "reading" ELSE "failed")
    /\ UNCHANGED <<stored, up, session, lists, boot, sweep, seen, budget>>

WriteReport(x) ==
    /\ up /\ pc[x] = "reading"
    /\ processed' = processed \cup {file[x]}
    /\ reported' = reported \cup {file[x]}
    /\ Goto(x, "written")
    /\ UNCHANGED <<queue, dbIn, dbOut, notes, up, session, lists, boot, sweep,
                   answer, told, expired, stuck, budget>>

\* Mutant of ProcessFails: the error is not told to the owner.
ProcessFailsSilently(x) ==
    /\ up /\ pc[x] = "reading"
    /\ Goto(x, "clean")
    /\ UNCHANGED <<stored, up, session, lists, boot, sweep, seen, budget>>

\* The scanner gives up or the report can't be written.
ProcessFails(x) ==
    /\ up /\ pc[x] = "reading"
    /\ Goto(x, "failed")
    /\ UNCHANGED <<stored, up, session, lists, boot, sweep, seen, budget>>

\* send() returns: no Session (the objects of reProcessUploads), or a
\* Websocket.  A Session whose Websocket is nil makes it panic.
SendReturns(x) == x = Boot \/ ws[obj[x]] = "open"

\* send("upload-processed")
NotifyProcessed(x) ==
    /\ up /\ pc[x] = "written"
    /\ IF SendReturns(x)
       THEN /\ Goto(x, "clean")
            /\ UNCHANGED <<up, session, lists, boot, sweep>>
       ELSE Halt
    /\ UNCHANGED <<stored, answer, reported, told, expired, stuck, budget>>

LastOf(s, n) == IF Len(s) > n THEN SubSeq(s, Len(s) - n + 1, Len(s)) ELSE s

\* addNotification() with no Session stores the notification, and then panics
\* on the Session's IP it logs.
NotifyOffline(x) ==
    /\ \/ /\ notes' = [notes EXCEPT ![Owner[file[x]]] =
                                        LastOf(Append(@, file[x]), MaxNotes)]
          /\ told' = told \cup {file[x]}
          /\ faults' = faults
       \/ /\ faults < MaxFaults /\ faults' = faults + 1
          /\ UNCHANGED <<notes, told>>
    /\ Halt

\* addNotification() with a Session sends.  The handler survives the panic.
NotifyOnline(x, then) ==
    /\ told' = IF SendReturns(x) THEN told \cup {file[x]} ELSE told
    /\ IF SendReturns(x)
       THEN then /\ UNCHANGED <<up, session, lists, boot, sweep>>
       ELSE IF answer[x] = "error"
       THEN Finish(x, "gone") /\ UNCHANGED <<up, session, lists, boot, sweep>>
       ELSE Halt
    /\ UNCHANGED <<notes, faults>>

AddNotification(x, then) ==
    /\ IF x = Boot THEN NotifyOffline(x) ELSE NotifyOnline(x, then)
    /\ UNCHANGED <<queue, processed, dbIn, dbOut, answer, reported, expired, stuck,
                   crashes, drops>>

\* The error of processUploads() is told to the owner; then cleanUploads().
NotifyError(x) ==
    /\ up /\ pc[x] = "failed"
    /\ AddNotification(x, Goto(x, "clean"))

-----------------------------------------------------------------------------
(* cleanUploads()                                                          *)

\* Mutant of RemoveFile: the report is removed in place of the upload.
RemoveReport(x) ==
    /\ up /\ pc[x] = "clean"
    /\ processed' = processed \ {file[x]}
    /\ memIn' = [memIn EXCEPT ![obj[x]] = @ \ {file[x]}]
    /\ inVal' = [inVal EXCEPT ![x] = memIn[obj[x]] \ {file[x]}]
    /\ pc' = [pc EXCEPT ![x] = "inDropping"]
    /\ UNCHANGED <<queue, dbIn, dbOut, notes, up, session, memOut, boot, file,
                   obj, outVal, sweep, seen, budget>>

\* The file leaves queue/, if no other job removed it before, and the object's
\* own list.
RemoveFile(x) ==
    /\ up /\ pc[x] = "clean"
    /\ queue' = queue \ {file[x]}
    /\ memIn' = [memIn EXCEPT ![obj[x]] = @ \ {file[x]}]
    /\ inVal' = [inVal EXCEPT ![x] = memIn[obj[x]] \ {file[x]}]
    /\ pc' = [pc EXCEPT ![x] = "inDropping"]
    /\ UNCHANGED <<processed, dbIn, dbOut, notes, up, session, memOut, boot, file,
                   obj, outVal, sweep, seen, budget>>

\* An error of os.Remove() is logged and nothing else: the file stays.
RemoveFileFails(x) ==
    /\ up /\ pc[x] = "clean" /\ file[x] \in queue /\ faults < MaxFaults
    /\ stuck' = stuck \cup {file[x]}
    /\ faults' = faults + 1
    /\ memIn' = [memIn EXCEPT ![obj[x]] = @ \ {file[x]}]
    /\ inVal' = [inVal EXCEPT ![x] = memIn[obj[x]] \ {file[x]}]
    /\ pc' = [pc EXCEPT ![x] = "inDropping"]
    /\ UNCHANGED <<stored, up, session, memOut, boot, file, obj, outVal, sweep,
                   answer, reported, told, expired, crashes, drops>>

DropSaved(x) ==
    /\ up /\ pc[x] = "inDropping"
    /\ dbIn' = [dbIn EXCEPT ![Owner[file[x]]] = inVal[x]]
    /\ inVal' = [inVal EXCEPT ![x] = {}]
    /\ pc' = [pc EXCEPT ![x] = "listing"]
    /\ UNCHANGED <<queue, processed, dbOut, notes, up, session, lists, boot, file,
                   obj, outVal, sweep, seen, budget>>

\* An error of update() ends cleanUploads() before the file is listed.
DropRefused(x) ==
    /\ up /\ pc[x] = "inDropping" /\ faults < MaxFaults
    /\ faults' = faults + 1
    /\ Finish(x, "done")
    /\ UNCHANGED <<stored, up, session, lists, boot, sweep, seen, crashes, drops>>

\* The file is appended to the object's own downloads list.
AddToDownloads(x) ==
    /\ up /\ pc[x] = "listing"
    /\ memOut' = [memOut EXCEPT ![obj[x]][file[x]] = @ + 1]
    /\ outVal' = [outVal EXCEPT ![x] = memOut'[obj[x]]]
    /\ pc' = [pc EXCEPT ![x] = "outSaving"]
    /\ UNCHANGED <<stored, up, session, memIn, boot, file, obj, inVal, sweep,
                   seen, budget>>

DownloadsSaved(x) ==
    /\ up /\ pc[x] = "outSaving"
    /\ dbOut' = [dbOut EXCEPT ![Owner[file[x]]] = outVal[x]]
    /\ Finish(x, "done")
    /\ UNCHANGED <<queue, processed, dbIn, notes, up, session, lists, boot, sweep,
                   seen, budget>>

\* Mutant of DownloadsRefused: the update is tried again, append included.
DownloadsRetried(x) ==
    /\ up /\ pc[x] = "outSaving" /\ faults < MaxFaults
    /\ faults' = faults + 1
    /\ Goto(x, "listing")
    /\ UNCHANGED <<stored, up, session, lists, boot, sweep, seen, crashes, drops>>

DownloadsRefused(x) ==
    /\ up /\ pc[x] = "outSaving" /\ faults < MaxFaults
    /\ faults' = faults + 1
    /\ Goto(x, "unlisted")
    /\ UNCHANGED <<stored, up, session, lists, boot, sweep, seen, crashes, drops>>

NotifyUnlisted(x) ==
    /\ up /\ pc[x] = "unlisted"
    /\ AddNotification(x, Finish(x, "done"))

-----------------------------------------------------------------------------
(* reProcessUploads(), once after each start of the service                *)

\* Mutant of BootRead: every object gets the queues of all accounts.
BootReadMixed ==
    /\ up /\ boot = "start"
    /\ memIn' = [o \in Objects |-> IF o \in Users THEN UNION {dbIn[u] : u \in Users}
                                   ELSE memIn[o]]
    /\ memOut' = [o \in Objects |-> IF o \in Users THEN dbOut[o] ELSE memOut[o]]
    /\ boot' = "run"
    /\ UNCHANGED <<stored, up, session, jobs, sweep, seen, budget>>

BootRead ==
    /\ up /\ boot = "start"
    /\ memIn' = [o \in Objects |-> IF o \in Users THEN dbIn[o] ELSE memIn[o]]
    /\ memOut' = [o \in Objects |-> IF o \in Users THEN dbOut[o] ELSE memOut[o]]
    /\ boot' = "run"
    /\ UNCHANGED <<stored, up, session, jobs, sweep, seen, budget>>

BootReadRefused ==
    /\ up /\ boot = "start" /\ faults < MaxFaults
    /\ boot' = "off"
    /\ faults' = faults + 1
    /\ UNCHANGED <<stored, up, session, lists, jobs, sweep, seen, crashes, drops>>

\* The next entry of the list the loop ranges over: cleanUploads() has
\* deleted the earlier ones from it.
BootNext(f) ==
    /\ up /\ boot = "run" /\ pc[Boot] = "idle" /\ f \in memIn[Owner[f]]
    /\ file' = [file EXCEPT ![Boot] = f]
    /\ obj' = [obj EXCEPT ![Boot] = Owner[f]]
    /\ pc' = [pc EXCEPT ![Boot] = "queued"]
    /\ UNCHANGED <<stored, up, session, lists, boot, inVal, outVal, sweep,
                   seen, budget>>

BootEnd ==
    /\ up /\ boot = "run" /\ pc[Boot] = "idle"
    /\ \A u \in Users : memIn[u] = {}
    /\ boot' = "off"
    /\ UNCHANGED <<stored, up, session, lists, jobs, sweep, seen, budget>>

-----------------------------------------------------------------------------
(* deleteUploadResults(), at every tick                                    *)

\* Time passes: the date in the file's name is older than the limit.
Expire(f) ==
    /\ f \in Aging /\ pc[f] # "idle" /\ f \notin expired
    /\ expired' = expired \cup {f}
    /\ UNCHANGED <<stored, up, session, lists, boot, jobs, sweep, answer, reported,
                   told, stuck, budget>>

SweepStart ==
    /\ up /\ sweepPc = "idle" /\ expired # {}
    /\ sweepOut' = dbOut
    /\ sweepNow' = expired
    /\ sweepPc' = "lists"
    /\ UNCHANGED <<stored, up, session, lists, boot, jobs, sweepUser, seen, budget>>

\* Mutant of SweepEntry: the length of the list is not checked.
SweepEntryUnchecked(u, f) ==
    /\ up /\ sweepPc = "lists" /\ f \in sweepNow /\ sweepOut[u][f] >= 0
    /\ processed' = processed \ {f}
    /\ sweepOut' = [sweepOut EXCEPT ![u][f] = @ - 1]
    /\ sweepUser' = u
    /\ sweepPc' = "saving"
    /\ UNCHANGED <<queue, dbIn, dbOut, notes, up, session, lists, boot, jobs,
                   sweepNow, seen, budget>>

\* An expired entry: the report is removed, the entry leaves the copy.
SweepEntry(u, f) ==
    /\ up /\ sweepPc = "lists" /\ f \in sweepNow /\ sweepOut[u][f] > 0
    /\ processed' = processed \ {f}
    /\ sweepOut' = [sweepOut EXCEPT ![u][f] = @ - 1]
    /\ sweepUser' = u
    /\ sweepPc' = "saving"
    /\ UNCHANGED <<queue, dbIn, dbOut, notes, up, session, lists, boot, jobs,
                   sweepNow, seen, budget>>

SweepSaved ==
    /\ up /\ sweepPc = "saving"
    /\ dbOut' = [dbOut EXCEPT ![sweepUser] = sweepOut[sweepUser]]
    /\ sweepUser' = NoConn
    /\ sweepPc' = "lists"
    /\ UNCHANGED <<queue, processed, dbIn, notes, up, session, lists, boot, jobs,
                   sweepOut, sweepNow, seen, budget>>

\* An error of update() leaves the loop over the user's list.
SweepRefused ==
    /\ up /\ sweepPc = "saving" /\ faults < MaxFaults
    /\ faults' = faults + 1
    /\ sweepOut' = [sweepOut EXCEPT ![sweepUser] = EmptyList]
    /\ sweepUser' = NoConn
    /\ sweepPc' = "lists"
    /\ UNCHANGED <<stored, up, session, lists, boot, jobs, sweepNow, seen, crashes,
                   drops>>

\* Mutant of SweepDirectory: reports that no list names stay.
SweepListsOnly ==
    /\ up /\ sweepPc = "lists"
    /\ \A u \in Users : Listed(sweepOut[u]) \cap sweepNow = {}
    /\ sweepPc' = "idle" /\ sweepNow' = {}
    /\ sweepOut' = [u \in Users |-> EmptyList]
    /\ UNCHANGED <<queue, processed, dbIn, dbOut, notes, up, session, lists, boot,
                   jobs, sweepUser, seen, budget>>

\* The lists are done: every expired report still in processed/ goes too.
SweepDirectory ==
    /\ up /\ sweepPc = "lists"
    /\ \A u \in Users : Listed(sweepOut[u]) \cap sweepNow = {}
    /\ processed' = processed \ sweepNow
    /\ sweepPc' = "idle" /\ sweepNow' = {}
    /\ sweepOut' = [u \in Users |-> EmptyList]
    /\ UNCHANGED <<queue, dbIn, dbOut, notes, up, session, lists, boot, jobs,
                   sweepUser, seen, budget>>

-----------------------------------------------------------------------------

Upload(f) ==
    \/ StoreFile(f) \/ StoreFileFails(f)
    \/ AddToQueue(f) \/ AddToQueueSaved(f) \/ AddToQueueRefused(f)
    \/ AddToQueueTimesOut(f) \/ StartProcessing(f)

Work(x) ==
    \/ OpenFile(x) \/ WriteReport(x) \/ ProcessFails(x)
    \/ NotifyProcessed(x) \/ NotifyError(x)
    \/ RemoveFile(x) \/ RemoveFileFails(x) \/ DropSaved(x) \/ DropRefused(x)
    \/ AddToDownloads(x) \/ DownloadsSaved(x) \/ DownloadsRefused(x)
    \/ NotifyUnlisted(x)

Sweep ==
    \/ SweepStart \/ SweepSaved \/ SweepRefused \/ SweepDirectory
    \/ \E u \in Users, f \in Files : SweepEntry(u, f)

Next ==
    \/ \E c \in Conns : Connect(c) \/ Disconnect(c)
    \/ Crash \/ Restart
    \/ \E f \in Files : Upload(f) \/ BootNext(f) \/ Expire(f)
    \/ \E x \in Workers : Work(x)
    \/ BootRead \/ BootReadRefused \/ BootEnd
    \/ Sweep

Spec == Init /\ [][Next]_vars

\* Every goroutine that can run does, the ticker ticks, and an operator
\* starts the service again after it stopped (the unit file does not).
\* Nobody has to connect or to upload.
Fairness ==
    /\ \A f \in Files : WF_vars(AddToQueue(f) \/ AddToQueueSaved(f) \/ StartProcessing(f))
    /\ \A x \in Workers : WF_vars(Work(x))
    /\ WF_vars(BootRead) /\ WF_vars(BootEnd)
    /\ WF_vars(\E f \in Files : BootNext(f))
    /\ WF_vars(Sweep)
    /\ WF_vars(Restart)

FairSpec == Spec /\ Fairness

-----------------------------------------------------------------------------
(* Properties                                                              *)

StoredTypes ==
    /\ queue \subseteq Files /\ processed \subseteq Files
    /\ dbIn \in [Users -> SUBSET Files]
    /\ dbOut \in [Users -> List]
    /\ notes \in [Users -> Seq(Files)]

MemoryTypes ==
    /\ up \in BOOLEAN
    /\ ws \in [Conns -> {"none", "open", "nil"}]
    /\ online \in [Users -> Conns \cup {NoConn}]
    /\ memIn \in [Objects -> SUBSET Files]
    /\ memOut \in [Objects -> List]
    /\ boot \in {"off", "start", "run"}

JobTypes ==
    /\ pc \in [Workers -> PC]
    /\ file \in [Workers -> Workers]
    /\ obj \in [Workers -> Objects \cup {NoConn}]
    /\ inVal \in [Workers -> SUBSET Files]
    /\ outVal \in [Workers -> List]

SweepTypes ==
    /\ sweepPc \in {"idle", "lists", "saving"}
    /\ sweepUser \in Users \cup {NoConn}
    /\ sweepOut \in [Users -> List]
    /\ sweepNow \subseteq Files

SeenTypes ==
    /\ answer \in [Files -> {"none", "ok", "error"}]
    /\ reported \subseteq Files /\ told \subseteq Files /\ expired \subseteq Files
    /\ stuck \subseteq Files
    /\ crashes \in Nat /\ faults \in Nat /\ drops \in Nat

\* Every variable has its type.
TypeOK == StoredTypes /\ MemoryTypes /\ JobTypes /\ SweepTypes /\ SeenTypes

\* The file of an accepted upload leaves queue/ only after its report was
\* written or its owner was told of the failure, whatever stops, restarts and
\* reconnections come in between (processUploads before cleanUploads,
\* upload.go:253-268 and 437-450).
NoSilentDrop ==
    \A f \in Files : answer[f] = "ok" /\ f \notin queue => f \in reported \cup told

\* A file that the database lists for download is not in queue/ any more,
\* unless it could not be removed, and is listed for its owner only: no stale
\* copy of a list shows a job as done before it is (cleanUploads,
\* upload.go:485-534).
ListedIsConsumed ==
    \A u \in Users : \A f \in Listed(dbOut[u]) : (f \in queue => f \in stuck) /\ Owner[f] = u

\* No file is listed for download twice, although cleanUploads() appends
\* without looking, an upload may be processed again after a restart, and
\* stale copies of uploads.in bring finished files back; only one that could
\* not be removed from queue/ is found there again (upload.go:517).
NoDuplicateListing ==
    \A u \in Users, f \in Files : dbOut[u][f] > 1 => f \in stuck

\* The database's queue names stored uploads of the user only, so a restart
\* never processes a file for another account (upload.go:429-450).
QueuedForOwner ==
    \A u \in Users : \A f \in dbIn[u] : Owner[f] = u /\ pc[f] # "idle"

\* Every upload answered "ok" is in the end reported or its owner is told of
\* the failure, if every stop is followed by a start (upload.go:57, 252).
AcceptedIsResolved ==
    \A f \in Files : answer[f] = "ok" ~> f \in reported \cup told

\* An expired report goes, or the service stops before (upload.go:593-682).
ExpiredIsDeleted ==
    \A f \in Files : up /\ f \in expired \cap processed ~> f \notin processed \/ ~up

\* "Clean the environment whether the error was nil or not" (upload.go:449):
\* a file that reProcessUploads() takes up leaves uploads.in in the end.
ReprocessingEnds ==
    \A f \in Files : pc[Boot] = "queued" /\ file[Boot] = f ~> f \notin dbIn[Owner[f]]

-----------------------------------------------------------------------------
(* The abstract view: the directory, the lists of the database, and what   *)
(* users were told, whichever goroutine or copy it comes from.             *)

Place(f) ==
    CASE pc[f] = "idle" -> "none"
      [] pc[f] # "idle" /\ f \in stuck -> "stuck"
      [] pc[f] # "idle" /\ f \in queue \ stuck -> "held"
      [] OTHER -> "gone"

Ledger == INSTANCE UploadLedger WITH
    place <- [f \in Files |-> Place(f)],
    known <- reported \cup told,
    offered <- dbOut

\* Seen from outside, an upload is taken in and answered once, let go only when
\* its outcome is known, never held again, and offered to its owner once: no
\* stop, start, lost connection or failed update shows (uploadHandler,
\* processUploads, cleanUploads and reProcessUploads, upload.go:69-534).
ImplementsUploadLedger == Ledger!Spec
=============================================================================
