-------------------------- MODULE UploadLedgerProofs --------------------------
(***************************************************************************)
(* Uploads implements UploadLedger: of all that goroutines, copies of      *)
(* lists, connections and stops do, users see uploads that are taken in,   *)
(* answered, let go when their outcome is known, and offered.              *)
(***************************************************************************)
EXTENDS UploadsProofs

-----------------------------------------------------------------------------
(* What is seen of a step                                                  *)

\* Only a file that was stored can't be removed.
StuckInv == \A f \in stuck : pc[f] # "idle"

\* The variables of UploadLedger that are not variables of Uploads.
places == [f \in Files |-> Place(f)]
knowns == reported \cup told

\* A step that takes no upload in.
NothingTaken == \A f \in Files : pc'[f] = "idle" <=> pc[f] = "idle"

Seen == StuckInv' /\ [Ledger!Next]_(Ledger!vars)

LEMMA PlacesStay ==
    ASSUME IInv, StuckInv, NothingTaken, UNCHANGED <<queue, stuck>>
    PROVE  places' = places /\ StuckInv'
<1>1. \A f \in Files : Place(f)' = Place(f)
  BY DEF Place, NothingTaken
<1>2. stuck \subseteq Files
  BY DEF IInv, TypeOK, SeenTypes
<1>3. QED BY <1>1, <1>2 DEF places, StuckInv, NothingTaken

\* Nothing that users see is changed.
LEMMA Unseen ==
    ASSUME IInv, StuckInv, NothingTaken, UNCHANGED <<queue, stuck, answer, reported, told, dbOut>>
    PROVE  Seen
<1>1. places' = places /\ StuckInv'
  BY PlacesStay
<1>2. QED BY <1>1 DEF Seen, Ledger!vars, places

LEMMA Replied ==
    ASSUME IInv, StuckInv, NothingTaken, UNCHANGED <<queue, stuck, reported, told, dbOut>>,
           NEW f \in Files, pc[f] # "idle", answer[f] = "none",
           NEW a \in {"ok", "error"}, answer' = [answer EXCEPT ![f] = a]
    PROVE  Seen
<1>1. places' = places /\ StuckInv'
  BY PlacesStay
<1>2. places[f] # "none"
  BY DEF places, Place
<1>3. Ledger!Reply(f)
  BY <1>1, <1>2 DEF Ledger!Reply, places
<1>4. QED BY <1>1, <1>3 DEF Seen, Ledger!Next

LEMMA Known ==
    ASSUME IInv, StuckInv, NothingTaken, UNCHANGED <<queue, stuck, answer, dbOut>>,
           NEW f \in Files, pc[f] # "idle", knowns' \in {knowns, knowns \cup {f}}
    PROVE  Seen
<1>1. places' = places /\ StuckInv'
  BY PlacesStay
<1>2. places[f] # "none"
  BY DEF places, Place
<1>3. CASE knowns' = knowns
  BY <1>1, <1>3 DEF Seen, Ledger!vars, places, knowns
<1>4. CASE knowns' = knowns \cup {f}
  <2>1. Ledger!MakeKnown(f)
    BY <1>1, <1>2, <1>4 DEF Ledger!MakeKnown, places, knowns
  <2>2. QED BY <1>1, <2>1 DEF Seen, Ledger!Next
<1>5. QED BY <1>3, <1>4

\* What a list may hold is what the ledger offers.
LEMMA Offered ==
    ASSUME IInv, StuckInv, NothingTaken, UNCHANGED <<queue, stuck, answer, reported, told>>,
           NEW u \in Users, NEW l \in List, OwnOut(l, u), dbOut' = [dbOut EXCEPT ![u] = l]
    PROVE  Seen
<1>1. places' = places /\ StuckInv'
  BY PlacesStay
<1>2. dbOut'[u] = l
  BY DEF IInv, TypeOK, StoredTypes
<1>3. ASSUME NEW f \in Files
      PROVE  /\ l[f] > 0 => Owner[f] = u /\ places[f] \in {"gone", "stuck"}
             /\ l[f] > 1 => places[f] = "stuck"
  <2>1. l[f] \in Nat
    BY DEF List
  <2>2. l[f] > 0 => Owner[f] = u /\ pc[f] # "idle" /\ (f \in queue => f \in stuck)
    BY DEF OwnOut
  <2>3. l[f] > 1 => f \in stuck /\ l[f] > 0
    BY <2>1 DEF OwnOut
  <2>4. QED BY <2>2, <2>3 DEF places, Place
<1>4. Ledger!Offerable(u, l)
  BY <1>3 DEF Ledger!Offerable, List, places
<1>5. Ledger!Offer(u)
  BY <1>1, <1>2, <1>4 DEF Ledger!Offer, places
<1>6. QED BY <1>1, <1>5 DEF Seen, Ledger!Next

-----------------------------------------------------------------------------
(* When no upload is taken in                                              *)

LEMMA HaltTakesNothing == ASSUME Halt PROVE NothingTaken
<1>1. \A f \in Files : pc'[f] = IF pc[f] \in Over THEN pc[f] ELSE "gone"
  BY UploadsAssumption DEF Halt, Workers
<1>2. QED BY <1>1 DEF NothingTaken, Over

LEMMA MovesTakeNothing ==
    ASSUME IInv, NEW x \in Workers, NEW where, pc' = [pc EXCEPT ![x] = where],
           x # Boot => pc[x] # "idle" /\ where # "idle"
    PROVE  NothingTaken
<1>1. pc \in [Workers -> PC]
  BY DEF IInv, TypeOK, JobTypes
<1>2. QED BY <1>1, UploadsAssumption DEF NothingTaken, Workers

\* A job has a file that was taken in.
LEMMA JobHasFile ==
    ASSUME IInv, NEW x \in Workers, pc[x] \notin Over
    PROVE  /\ file[x] \in Files /\ Owner[file[x]] \in Users /\ pc[file[x]] # "idle"
           /\ x \in Files => file[x] = x
BY UploadsAssumption DEF IInv, JobsInv, JobOver, JobFile, JobStored

-----------------------------------------------------------------------------
(* The steps                                                               *)

LEMMA StoreFileView ==
    ASSUME IInv, StuckInv, NEW f \in Files, StoreFile(f) \/ StoreFileFails(f)
    PROVE  Seen
<1> DEFINE where == IF answer' = answer THEN "stored" ELSE "gone"
<1>1. /\ pc[f] = "idle" /\ queue' = queue \cup {f}
      /\ UNCHANGED <<dbOut, reported, told, stuck>>
      /\ \/ pc' = [pc EXCEPT ![f] = "stored"] /\ answer' = answer
         \/ pc' = [pc EXCEPT ![f] = "gone"] /\ answer' = [answer EXCEPT ![f] = "error"]
  BY DEF StoreFile, StoreFileFails, seen
<1>2. pc'[f] # "idle" /\ \A g \in Files \ {f} : pc'[g] = pc[g]
  BY <1>1 DEF IInv, TypeOK, JobTypes, Workers
<1>3. f \notin stuck
  BY <1>1 DEF StuckInv
<1>4. StuckInv'
  BY <1>1, <1>2 DEF StuckInv, IInv, TypeOK, SeenTypes
<1>5. /\ Place(f) = "none" /\ Place(f)' = "held"
      /\ \A g \in Files \ {f} : Place(g)' = Place(g)
  BY <1>1, <1>2, <1>3 DEF Place
<1>6. places[f] = "none" /\ places' = [places EXCEPT ![f] = "held"]
  BY <1>5 DEF places
<1>7. Ledger!TakeIn(f)
  BY <1>1, <1>6 DEF Ledger!TakeIn, places
<1>8. QED BY <1>4, <1>7 DEF Seen, Ledger!Next

LEMMA ReplyView ==
    ASSUME IInv, StuckInv, NEW f \in Files, AddToQueueSaved(f) \/ AddToQueueRefused(f)
    PROVE  Seen
<1>1. /\ f \in Workers /\ pc[f] = "inSaving"
      /\ \E where \in {"accepted", "clean"} : pc' = [pc EXCEPT ![f] = where]
      /\ \E a \in {"ok", "error"} : answer' = [answer EXCEPT ![f] = a]
      /\ UNCHANGED <<queue, stuck, reported, told, dbOut>>
  BY DEF AddToQueueSaved, AddToQueueRefused, Workers, stored
<1>2. answer[f] = "none"
  BY <1>1 DEF IInv, KeptInv, Answers
<1>3. NothingTaken
  BY <1>1, MovesTakeNothing
<1>4. QED BY <1>1, <1>2, <1>3, Replied

\* The other steps of uploadHandler() are not seen.
LEMMA HandlerView ==
    ASSUME IInv, StuckInv, NEW f \in Files,
           AddToQueue(f) \/ AddToQueueTimesOut(f) \/ StartProcessing(f)
    PROVE  Seen
<1>1. /\ f \in Workers /\ f # Boot /\ pc[f] # "idle"
      /\ \E where \in {"inSaving", "queued", "gone"} : pc' = [pc EXCEPT ![f] = where]
      /\ UNCHANGED <<queue, stuck, answer, reported, told, dbOut>>
  BY UploadsAssumption
  DEF AddToQueue, AddToQueueTimesOut, StartProcessing, Goto, Finish, Workers, stored, seen
<1>2. NothingTaken
  BY <1>1, MovesTakeNothing
<1>3. QED BY <1>1, <1>2, Unseen

\* Steps of a job that only it and the database's queue take part in.
LEMMA JobView ==
    ASSUME IInv, StuckInv, NEW x \in Workers,
           \/ OpenFile(x) \/ ProcessFails(x) \/ DropSaved(x) \/ DropRefused(x)
           \/ AddToDownloads(x) \/ DownloadsRefused(x)
    PROVE  Seen
<1>1. /\ pc[x] # "idle"
      /\ \E where \in PC : /\ pc' = [pc EXCEPT ![x] = where]
                           /\ x # Boot => where # "idle"
      /\ UNCHANGED <<queue, stuck, answer, reported, told, dbOut>>
  <2>1. CASE OpenFile(x) \/ ProcessFails(x) \/ DownloadsRefused(x)
    BY <2>1 DEF OpenFile, ProcessFails, DownloadsRefused, Goto, PC, stored, seen
  <2>2. CASE DropSaved(x) \/ AddToDownloads(x)
    BY <2>2 DEF DropSaved, AddToDownloads, PC, stored, seen
  <2>3. CASE DropRefused(x)
    BY <2>3 DEF DropRefused, Finish, PC, stored, seen
  <2>4. QED BY <2>1, <2>2, <2>3
<1>2. NothingTaken
  <2>1. PICK where \in PC : pc' = [pc EXCEPT ![x] = where] /\ (x # Boot => where # "idle")
    BY <1>1
  <2>2. QED BY <1>1, <2>1, MovesTakeNothing
<1>3. QED BY <1>1, <1>2, Unseen

LEMMA WriteReportView ==
    ASSUME IInv, StuckInv, NEW x \in Workers, WriteReport(x)
    PROVE  Seen
<1>1. /\ pc[x] = "reading" /\ pc' = [pc EXCEPT ![x] = "written"]
      /\ reported' = reported \cup {file[x]}
      /\ UNCHANGED <<queue, stuck, answer, told, dbOut>>
  BY DEF WriteReport, Goto
<1>2. file[x] \in Files /\ pc[file[x]] # "idle"
  BY <1>1, JobHasFile DEF Over
<1>3. NothingTaken
  BY <1>1, MovesTakeNothing
<1>4. knowns' = knowns \cup {file[x]}
  BY <1>1 DEF knowns
<1>5. QED BY <1>1, <1>2, <1>3, <1>4, Known

LEMMA NotifyProcessedView ==
    ASSUME IInv, StuckInv, NEW x \in Workers, NotifyProcessed(x)
    PROVE  Seen
<1>1. /\ pc[x] = "written"
      /\ Halt \/ pc' = [pc EXCEPT ![x] = "clean"]
      /\ UNCHANGED <<queue, stuck, answer, reported, told, dbOut>>
  BY DEF NotifyProcessed, Goto, stored
<1>2. NothingTaken
  BY <1>1, MovesTakeNothing, HaltTakesNothing
<1>3. QED BY <1>1, <1>2, Unseen

\* addNotification() may add one thing its owner knows.
LEMMA NotifyView ==
    ASSUME IInv, StuckInv, NEW x \in Workers, NotifyError(x) \/ NotifyUnlisted(x)
    PROVE  Seen
<1>1. /\ pc[x] \in {"failed", "unlisted"}
      /\ \/ Halt
         \/ \E where \in PC : pc' = [pc EXCEPT ![x] = where] /\ (x # Boot => where # "idle")
      /\ told' \in {told, told \cup {file[x]}}
      /\ UNCHANGED <<queue, stuck, answer, reported, dbOut>>
  <2>1. CASE NotifyError(x)
    BY <2>1 DEF NotifyError, AddNotification, NotifyOffline, NotifyOnline, Goto, Finish, PC
  <2>2. CASE NotifyUnlisted(x)
    BY <2>2 DEF NotifyUnlisted, AddNotification, NotifyOffline, NotifyOnline, Finish, PC
  <2>3. QED BY <2>1, <2>2
<1>2. file[x] \in Files /\ pc[file[x]] # "idle"
  BY <1>1, JobHasFile DEF Over
<1>3. NothingTaken
  <2>1. CASE Halt
    BY <2>1, HaltTakesNothing
  <2>2. ASSUME NEW where \in PC, pc' = [pc EXCEPT ![x] = where], x # Boot => where # "idle"
        PROVE  NothingTaken
    BY <1>1, <2>2, MovesTakeNothing
  <2>3. QED BY <1>1, <2>1, <2>2
<1>4. knowns' \in {knowns, knowns \cup {file[x]}}
  BY <1>1 DEF knowns
<1>5. QED BY <1>1, <1>2, <1>3, <1>4, Known

\* A file is let go by a job that knows what became of it.
LEMMA RemoveFileView ==
    ASSUME IInv, StuckInv, NEW x \in Workers, RemoveFile(x) \/ RemoveFileFails(x)
    PROVE  Seen
<1>0. PICK f : f = file[x]
  OBVIOUS
<1>1. /\ pc[x] = "clean" /\ pc' = [pc EXCEPT ![x] = "inDropping"]
      /\ \/ queue' = queue \ {f} /\ stuck' = stuck
         \/ queue' = queue /\ stuck' = stuck \cup {f} /\ f \in queue
      /\ UNCHANGED <<answer, reported, told, dbOut>>
  BY <1>0 DEF RemoveFile, RemoveFileFails, stored, seen
<1>2. f \in Files /\ pc[f] # "idle"
  BY <1>0, <1>1, JobHasFile DEF Over
<1>3. Settled(f)
  BY <1>0, <1>1 DEF IInv, KeptInv, Written
<1>4. NothingTaken
  BY <1>1, MovesTakeNothing
<1>5. StuckInv'
  BY <1>1, <1>2, <1>4 DEF StuckInv, NothingTaken, IInv, TypeOK, SeenTypes
<1>6. \A g \in Files \ {f} : Place(g)' = Place(g)
  BY <1>1, <1>4 DEF Place, NothingTaken
<1>7. CASE f \in queue \ stuck
  <2>1. Place(f) = "held" /\ Place(f)' \in {"gone", "stuck"}
    BY <1>1, <1>2, <1>4, <1>7 DEF Place, NothingTaken
  <2>2. places[f] = "held" /\ \E where \in {"gone", "stuck"} : places' = [places EXCEPT ![f] = where]
    BY <1>2, <1>6, <2>1 DEF places
  <2>3. Ledger!LetGo(f)
    BY <1>1, <1>3, <2>2 DEF Ledger!LetGo, Settled, places
  <2>4. QED BY <1>2, <1>5, <2>3 DEF Seen, Ledger!Next
<1>8. CASE f \notin queue \ stuck
  <2>1. Place(f)' = Place(f)
    BY <1>1, <1>2, <1>4, <1>8 DEF Place, NothingTaken
  <2>2. places' = places
    BY <1>6, <2>1 DEF places
  <2>3. QED BY <1>1, <1>5, <2>2 DEF Seen, Ledger!vars, places
<1>9. QED BY <1>7, <1>8

LEMMA DownloadsSavedView ==
    ASSUME IInv, StuckInv, NEW x \in Workers, DownloadsSaved(x)
    PROVE  Seen
<1> DEFINE where == IF x = Boot THEN "idle" ELSE "done"
<1>1. /\ pc[x] = "outSaving" /\ pc' = [pc EXCEPT ![x] = where] /\ (x # Boot => where # "idle")
      /\ dbOut' = [dbOut EXCEPT ![Owner[file[x]]] = outVal[x]]
      /\ UNCHANGED <<queue, stuck, answer, reported, told>>
  BY DEF DownloadsSaved, Finish, seen
<1> HIDE DEF where
<1>2. Owner[file[x]] \in Users
  BY <1>1, JobHasFile DEF Over
<1>3. outVal[x] \in List /\ OwnOut(outVal[x], Owner[file[x]])
  BY <1>1 DEF IInv, TypeOK, JobTypes, DownloadsInv, OutVal
<1>4. NothingTaken
  BY <1>1, MovesTakeNothing
<1>5. QED BY <1>1, <1>2, <1>3, <1>4, Offered

LEMMA SweepView ==
    ASSUME IInv, StuckInv, Sweep
    PROVE  Seen
<1>1. NothingTaken /\ UNCHANGED <<queue, stuck, answer, reported, told>>
  BY DEF Sweep, SweepStart, SweepEntry, SweepSaved, SweepRefused, SweepDirectory, NothingTaken,
     stored, jobs, seen
<1>2. CASE SweepSaved
  <2>1. sweepUser \in Users /\ dbOut' = [dbOut EXCEPT ![sweepUser] = sweepOut[sweepUser]]
    BY <1>2 DEF SweepSaved, IInv, PlacesInv, SweepInv
  <2>2. sweepOut[sweepUser] \in List /\ OwnOut(sweepOut[sweepUser], sweepUser)
    BY <2>1 DEF IInv, TypeOK, SweepTypes, DownloadsInv, SweepOut
  <2>3. QED BY <1>1, <2>1, <2>2, Offered
<1>3. CASE ~SweepSaved
  <2>1. dbOut' = dbOut
    BY <1>3 DEF Sweep, SweepStart, SweepEntry, SweepRefused, SweepDirectory, stored
  <2>2. QED BY <1>1, <2>1, Unseen
<1>4. QED BY <1>2, <1>3

\* Connections, stops, starts and the clock are not seen.
LEMMA OtherView ==
    ASSUME IInv, StuckInv,
           \/ \E c \in Conns : Connect(c) \/ Disconnect(c)
           \/ \E f \in Files : BootNext(f) \/ Expire(f)
           \/ Crash \/ Restart \/ BootRead \/ BootReadRefused \/ BootEnd
           \/ UNCHANGED vars
    PROVE  Seen
<1>1. UNCHANGED <<queue, stuck, answer, reported, told, dbOut>>
  BY DEF Connect, Disconnect, BootNext, Expire, Crash, Restart, BootRead, BootReadRefused,
     BootEnd, vars, stored, seen
<1>2. NothingTaken
  <2>1. CASE Crash
    BY <2>1, HaltTakesNothing DEF Crash
  <2>2. CASE \E f \in Files : BootNext(f)
    BY <2>2, MovesTakeNothing DEF BootNext, Workers
  <2>3. CASE ~Crash /\ ~\E f \in Files : BootNext(f)
    BY <2>3 DEF Connect, Disconnect, Expire, Restart, BootRead, BootReadRefused, BootEnd,
       NothingTaken, vars, jobs
  <2>4. QED BY <2>1, <2>2, <2>3
<1>3. QED BY <1>1, <1>2, Unseen

-----------------------------------------------------------------------------
(* The refinement                                                          *)

LEMMA InitView == Init => StuckInv /\ Ledger!Init
<1> SUFFICES ASSUME Init PROVE StuckInv /\ Ledger!Init
  OBVIOUS
<1>1. \A f \in Files : Place(f) = "none"
  BY DEF Init, Place, Workers
<1>2. places = [f \in Files |-> "none"]
  BY <1>1 DEF places
<1>3. QED BY <1>2 DEF Init, StuckInv, Ledger!Init, EmptyList, places

LEMMA NextView == IInv /\ StuckInv /\ [Next]_vars => Seen
<1> SUFFICES ASSUME IInv, StuckInv, [Next]_vars PROVE Seen
  OBVIOUS
<1>1. ASSUME NEW f \in Files, Upload(f) PROVE Seen
  BY <1>1, StoreFileView, ReplyView, HandlerView DEF Upload
<1>2. ASSUME NEW x \in Workers, Work(x) PROVE Seen
  BY <1>2, JobView, WriteReportView, NotifyProcessedView, NotifyView, RemoveFileView,
     DownloadsSavedView DEF Work
<1>3. CASE Sweep
  BY <1>3, SweepView
<1>4. QED BY <1>1, <1>2, <1>3, OtherView DEF Next

\* Users see of the pipeline what UploadLedger says, for any users, connections,
\* files and bounds: an upload is held until its outcome is known, through every
\* stop and failure, and is offered to its owner once (upload.go:69-534).
THEOREM Refinement == Spec => ImplementsUploadLedger
<1>1. Init => StuckInv /\ Ledger!Init
  BY InitView
<1>2. IInv /\ StuckInv /\ [Next]_vars => StuckInv' /\ [Ledger!Next]_(Ledger!vars)
  BY NextView DEF Seen
<1>3. QED BY <1>1, <1>2, Invariance, PTL DEF Spec, ImplementsUploadLedger, Ledger!Spec
=============================================================================
