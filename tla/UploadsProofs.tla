---------------------------- MODULE UploadsProofs ----------------------------
(***************************************************************************)
(* The safety invariants of Uploads hold for any users, connections, files *)
(* and bounds.  None of them is inductive: what keeps them is where every  *)
(* goroutine is and what every copy of a list may hold, stated below as    *)
(* the conjuncts of IInv.                                                  *)
(***************************************************************************)
EXTENDS Uploads, TLAPS

-----------------------------------------------------------------------------
(* The inductive invariant                                                 *)

\* A job that is not over has a file and an Account of the file's owner.
JobOver ==
    \A x \in Workers : IF pc[x] \in Over
                       THEN obj[x] = NoConn /\ file[x] = x
                       ELSE /\ obj[x] \in Objects /\ file[x] \in Files
                            /\ UserOf[obj[x]] = Owner[file[x]]

\* The handlers' jobs work on Accounts of connections, reProcessUploads() on
\* those of its own.
JobFile ==
    /\ \A f \in Files : file[f] = f /\ obj[f] \notin Users
    /\ obj[Boot] \notin Conns

JobStored == \A x \in Workers : pc[x] \notin Over => pc[file[x]] # "idle"

JobBoot ==
    /\ pc[Boot] \notin {"stored", "inSaving", "accepted", "done", "gone"}
    /\ pc[Boot] # "idle" => boot = "run"
    /\ ~up => boot = "off"

OnlineInv == \A u \in Users : online[u] # NoConn => UserOf[online[u]] = u

SweepInv == sweepPc = "saving" => sweepUser \in Users

\* Every copy of a queue holds stored files of its user.
OwnIn(S, u) == \A f \in S : Owner[f] = u /\ pc[f] # "idle"

DbIn == \A u \in Users : OwnIn(dbIn[u], u)
MemIn == \A o \in Objects : OwnIn(memIn[o], UserOf[o])
InVal == \A x \in Workers : pc[x] \in {"inSaving", "inDropping"}
                               => OwnIn(inVal[x], Owner[file[x]])

\* Every copy of a downloads list holds consumed files of its user, once, or
\* files that could not be removed from queue/.
OwnOut(l, u) ==
    \A f \in Files :
        /\ l[f] > 0 => Owner[f] = u /\ pc[f] # "idle"
        /\ f \notin stuck => l[f] <= 1 /\ (l[f] > 0 => f \notin queue)

DbOut == \A u \in Users : OwnOut(dbOut[u], u)
SweepOut == \A u \in Users : OwnOut(sweepOut[u], u)
MemOut == \A o \in Objects : OwnOut(memOut[o], UserOf[o])
OutVal == \A x \in Workers : pc[x] = "outSaving" => OwnOut(outVal[x], Owner[file[x]])

\* A job that has yet to list its file works on a list without it.  The job
\* of reProcessUploads() learns that when it finds the file in queue/.
ToList(x) ==
    \/ pc[x] \in {"reading", "written", "clean", "inDropping", "listing"}
    \/ x # Boot /\ pc[x] \in {"stored", "inSaving", "accepted", "queued", "failed"}
Unlisted == \A x \in Workers :
    ToList(x) /\ file[x] \notin stuck => memOut[obj[x]][file[x]] = 0

\* A job that is past the removal of its file does not find it in queue/ again,
\* unless it could not be removed.
Removed == \A x \in Workers :
    pc[x] \in {"inDropping", "listing", "outSaving", "unlisted"}
    => file[x] \notin queue \/ file[x] \in stuck

\* A stored file is in queue/, or was reported, or its owner knows.
Settled(f) == f \in reported \cup told \/ answer[f] = "error"

Kept == \A f \in Files : pc[f] # "idle" => f \in queue \/ Settled(f)
Answers == \A f \in Files : pc[f] \in {"idle", "stored", "inSaving"} => answer[f] = "none"
Written ==
    /\ \A x \in Workers : pc[x] = "written" => file[x] \in reported
    /\ \A x \in Workers : pc[x] = "clean" => Settled(file[x])

JobsInv == JobOver /\ JobFile /\ JobStored
PlacesInv == JobBoot /\ OnlineInv /\ SweepInv
QueuesInv == DbIn /\ MemIn /\ InVal
DownloadsInv == DbOut /\ SweepOut /\ MemOut /\ OutVal
ProgressInv == Unlisted /\ Removed
KeptInv == Kept /\ Answers /\ Written

IInv == /\ TypeOK /\ JobsInv /\ PlacesInv
        /\ QueuesInv /\ DownloadsInv /\ ProgressInv /\ KeptInv

-----------------------------------------------------------------------------
(* What steps of the same shape have in common                             *)

\* A stop of the service ends every job: what is left are the files, the
\* database and what the owners know.
LEMMA HaltStep ==
    ASSUME IInv, Halt, UNCHANGED <<queue, dbIn, dbOut, answer, stuck>>,
           reported \subseteq reported', told \subseteq told'
    PROVE  /\ MemoryTypes' /\ JobTypes' /\ SweepTypes' /\ JobsInv' /\ PlacesInv'
           /\ QueuesInv' /\ DownloadsInv' /\ ProgressInv' /\ KeptInv'
<1>1. MemoryTypes'
  BY DEF Halt, MemoryTypes, Objects, List, EmptyList
<1>2. JobTypes'
  BY DEF Halt, IInv, TypeOK, JobTypes, Workers, Objects, PC, List, EmptyList
<1>3. SweepTypes'
  BY DEF Halt, SweepTypes, List, EmptyList
<1>4. \A x \in Workers : pc'[x] \in Over /\ obj'[x] = NoConn /\ file'[x] = x
  BY DEF Halt, Over
<1>5. \A f \in Files : (pc'[f] = "idle" <=> pc[f] = "idle") /\ file'[f] = f
  BY UploadsAssumption DEF Halt, Over, Workers
<1>6. JobsInv'
  BY <1>4, UploadsAssumption DEF JobsInv, JobOver, JobFile, JobStored, Workers
<1>7. PlacesInv'
  BY DEF Halt, PlacesInv, JobBoot, OnlineInv, SweepInv, Workers
<1>8. QueuesInv'
  <2>1. DbIn'
    BY <1>5 DEF IInv, TypeOK, StoredTypes, QueuesInv, DbIn, OwnIn
  <2>2. MemIn'
    BY DEF Halt, MemIn, OwnIn
  <2>3. InVal'
    BY <1>4 DEF InVal, Over
  <2>4. QED BY <2>1, <2>2, <2>3 DEF QueuesInv
<1>9. DownloadsInv'
  <2>1. DbOut'
    BY <1>5 DEF IInv, DownloadsInv, DbOut, OwnOut
  <2>2. SweepOut' /\ MemOut'
    BY DEF Halt, SweepOut, MemOut, OwnOut, EmptyList
  <2>3. OutVal'
    BY <1>4 DEF OutVal, Over
  <2>4. QED BY <2>1, <2>2, <2>3 DEF DownloadsInv
<1>10. ProgressInv'
  BY <1>4 DEF ProgressInv, Unlisted, Removed, ToList, Over
<1>11. KeptInv'
  <2>1. Kept'
    BY <1>5 DEF IInv, KeptInv, Kept, Settled
  <2>2. Answers'
    BY <1>4, <1>5 DEF IInv, KeptInv, Answers, Over, Workers
  <2>3. Written'
    BY <1>4 DEF Written, Over
  <2>4. QED BY <2>1, <2>2, <2>3 DEF KeptInv
<1>12. QED
  BY <1>1, <1>2, <1>3, <1>6, <1>7, <1>8, <1>9, <1>10, <1>11

\* A step that leaves the jobs, the queue and the lists of the Accounts alone
\* can only disturb what is said about the rest.
LEMMA QuietStep ==
    ASSUME IInv, UNCHANGED <<queue, dbIn, memIn, memOut, jobs, answer, reported, told, stuck>>
    PROVE  JobsInv' /\ QueuesInv' /\ MemOut' /\ OutVal' /\ ProgressInv' /\ KeptInv'
<1>1. JobsInv'
  BY DEF IInv, jobs, JobsInv, JobOver, JobFile, JobStored
<1>2. QueuesInv'
  BY DEF IInv, jobs, QueuesInv, DbIn, MemIn, InVal, OwnIn
<1>3. MemOut' /\ OutVal'
  BY DEF IInv, jobs, DownloadsInv, MemOut, OutVal, OwnOut
<1>4. ProgressInv'
  BY DEF IInv, jobs, ProgressInv, Unlisted, Removed, ToList
<1>5. KeptInv'
  BY DEF IInv, jobs, KeptInv, Kept, Answers, Written, Settled
<1>6. QED BY <1>1, <1>2, <1>3, <1>4, <1>5

\* The steps of a job that change no list.
Moves == {<<"accepted", "queued">>, <<"queued", "reading">>, <<"queued", "failed">>,
          <<"reading", "written">>, <<"reading", "failed">>, <<"written", "clean">>,
          <<"failed", "clean">>, <<"outSaving", "unlisted">>}

\* A job that moves on takes nothing away from another one.
LEMMA GotoStep ==
    ASSUME IInv, NEW x \in Workers, NEW where, Goto(x, where),
           <<pc[x], where>> \in Moves,
           UNCHANGED <<up, boot, session, lists, sweep, queue, dbIn, dbOut, answer, stuck>>,
           reported \subseteq reported', told \subseteq told',
           where = "reading" => file[x] \in queue,
           where = "written" => file[x] \in reported',
           where = "clean" => Settled(file[x])' /\ (x = Boot => pc[x] = "written")
    PROVE  /\ MemoryTypes' /\ JobTypes' /\ SweepTypes' /\ JobsInv' /\ PlacesInv'
           /\ QueuesInv' /\ DownloadsInv' /\ ProgressInv' /\ KeptInv'
<1>1. /\ pc \in [Workers -> PC] /\ pc' = [pc EXCEPT ![x] = where] /\ where \in PC
      /\ pc[x] \notin Over /\ where \notin Over
      /\ where \in {"queued", "reading", "failed", "written", "clean", "unlisted"}
      /\ UNCHANGED <<file, obj, inVal, outVal>>
  BY DEF IInv, TypeOK, JobTypes, Goto, Moves, PC, Over
<1>2. \A y \in Workers : y # x => pc'[y] = pc[y]
  BY <1>1
<1>3. pc'[x] = where
  BY <1>1
<1>4. MemoryTypes' /\ SweepTypes'
  BY DEF IInv, TypeOK, MemoryTypes, SweepTypes, session, lists, sweep
<1>5. JobTypes'
  BY <1>1 DEF IInv, TypeOK, JobTypes
<1>6. JobsInv'
  BY <1>1, <1>2, <1>3 DEF IInv, JobsInv, JobOver, JobFile, JobStored, Over
<1>7. PlacesInv'
  BY <1>1, <1>2, <1>3 DEF IInv, PlacesInv, JobBoot, OnlineInv, SweepInv, session, sweep,
     Workers, Over
<1>8. QueuesInv'
  <2>1. DbIn' /\ MemIn'
    BY <1>1, <1>2, <1>3, UploadsAssumption
    DEF IInv, QueuesInv, DbIn, MemIn, OwnIn, lists, TypeOK, StoredTypes, MemoryTypes, Objects, Workers, Over
  <2>2. InVal'
    BY <1>1, <1>2, <1>3 DEF IInv, TypeOK, JobTypes, QueuesInv, InVal, OwnIn, Over, Workers
  <2>3. QED BY <2>1, <2>2 DEF QueuesInv
<1>9. DownloadsInv'
  <2>1. \A f \in Files : pc[f] # "idle" => pc'[f] # "idle"
    BY <1>1, <1>2, <1>3 DEF Over, Workers
  <2>2. DbOut' /\ SweepOut' /\ MemOut'
    BY <2>1 DEF IInv, DownloadsInv, DbOut, SweepOut, MemOut, OwnOut, lists, sweep
  <2>3. OutVal'
    BY <2>1, <1>1, <1>2, <1>3 DEF IInv, DownloadsInv, OutVal, OwnOut
  <2>4. QED BY <2>2, <2>3 DEF DownloadsInv
<1>10. ProgressInv'
  <2>1. Unlisted'
    <3>1. ASSUME NEW y \in Workers, ToList(y)', file[y] \notin stuck
          PROVE  memOut[obj[y]][file[y]] = 0
      <4>1. CASE ToList(y)
        BY <3>1, <4>1 DEF IInv, ProgressInv, Unlisted
      <4>2. CASE ~ToList(y)
        <5>1. y = x /\ x = Boot /\ where = "reading"
          BY <3>1, <4>2, <1>1, <1>2, <1>3 DEF ToList, Moves
        <5>2. file[y] \in Files /\ obj[y] \in Objects /\ file[y] \in queue
          BY <5>1, <1>1 DEF IInv, JobsInv, JobOver
        <5>3. QED
          BY <3>1, <5>2 DEF IInv, TypeOK, MemoryTypes, List, DownloadsInv, MemOut, OwnOut
      <4>3. QED BY <4>1, <4>2
    <3>2. QED BY <3>1, <1>1 DEF Unlisted, lists
  <2>2. Removed'
    BY <1>1, <1>2, <1>3 DEF IInv, ProgressInv, Removed, Moves
  <2>3. QED BY <2>1, <2>2 DEF ProgressInv
<1>11. KeptInv'
  <2>1. Kept'
    BY <1>1, <1>2, <1>3 DEF IInv, KeptInv, Kept, Settled, Workers, Over
  <2>2. Answers'
    BY <1>1, <1>2, <1>3 DEF IInv, KeptInv, Answers, Workers, Over
  <2>3. Written'
    BY <1>1, <1>2, <1>3 DEF IInv, KeptInv, Written, Settled
  <2>4. QED BY <2>1, <2>2, <2>3 DEF KeptInv
<1>12. QED
  BY <1>4, <1>5, <1>6, <1>7, <1>8, <1>9, <1>10, <1>11
\* A job that ends lets go of its Account; the lists it may have written hold
\* what they were allowed to hold before.
LEMMA FinishStep ==
    ASSUME IInv, NEW x \in Workers, NEW how \in {"gone", "done"}, Finish(x, how),
           pc[x] \notin Over,
           UNCHANGED <<up, boot, session, lists, sweep, queue, answer, stuck>>,
           reported \subseteq reported', told \subseteq told',
           StoredTypes', \A u \in Users : OwnIn(dbIn'[u], u),
           \A u \in Users : OwnOut(dbOut'[u], u)
    PROVE  /\ MemoryTypes' /\ JobTypes' /\ SweepTypes' /\ JobsInv' /\ PlacesInv'
           /\ QueuesInv' /\ DownloadsInv' /\ ProgressInv' /\ KeptInv'
<1> DEFINE over == IF x = Boot THEN "idle" ELSE how
<1>1. /\ pc \in [Workers -> PC] /\ pc' = [pc EXCEPT ![x] = over]
      /\ over \in Over /\ over \in PC /\ (x # Boot => over # "idle")
      /\ file' = [file EXCEPT ![x] = x] /\ obj' = [obj EXCEPT ![x] = NoConn]
      /\ inVal' = [inVal EXCEPT ![x] = {}] /\ outVal' = [outVal EXCEPT ![x] = EmptyList]
  BY DEF IInv, TypeOK, JobTypes, Finish, PC, Over
<1> HIDE DEF over
<1>2. pc'[x] = over /\ file'[x] = x /\ obj'[x] = NoConn
  BY <1>1 DEF IInv, TypeOK, JobTypes
<1>3. \A y \in Workers : y # x => /\ pc'[y] = pc[y] /\ file'[y] = file[y]
                                  /\ obj'[y] = obj[y] /\ inVal'[y] = inVal[y]
                                  /\ outVal'[y] = outVal[y]
  BY <1>1 DEF IInv, TypeOK, JobTypes
<1>4. \A f \in Files : (pc[f] # "idle" => pc'[f] # "idle") /\ file'[f] = f
  BY <1>1, <1>2, <1>3, UploadsAssumption DEF Workers, IInv, JobsInv, JobFile
<1>5. MemoryTypes' /\ SweepTypes'
  BY DEF IInv, TypeOK, MemoryTypes, SweepTypes, session, lists, sweep
<1>6. JobTypes'
  BY <1>1 DEF IInv, TypeOK, JobTypes, List, EmptyList
<1>7. JobsInv'
  <2>1. JobOver'
    BY <1>1, <1>2, <1>3 DEF IInv, JobsInv, JobOver
  <2>2. JobFile'
    BY <1>2, <1>3, <1>4, UploadsAssumption DEF IInv, JobsInv, JobFile, Workers
  <2>3. JobStored'
    BY <1>1, <1>2, <1>3, <1>4, UploadsAssumption DEF IInv, JobsInv, JobStored, JobOver, Workers
  <2>4. QED BY <2>1, <2>2, <2>3 DEF JobsInv
<1>8. PlacesInv'
  BY <1>1, <1>2, <1>3 DEF IInv, PlacesInv, JobBoot, OnlineInv, SweepInv, session, sweep,
     Workers, over
<1>9. QueuesInv'
  <2>1. DbIn'
    BY <1>4 DEF StoredTypes, DbIn, OwnIn
  <2>2. MemIn'
    BY <1>4 DEF IInv, TypeOK, MemoryTypes, QueuesInv, MemIn, OwnIn, lists
  <2>3. InVal'
    BY <1>1, <1>2, <1>3, <1>4 DEF IInv, TypeOK, JobTypes, QueuesInv, InVal, OwnIn, Over
  <2>4. QED BY <2>1, <2>2, <2>3 DEF QueuesInv
<1>10. DownloadsInv'
  <2>1. DbOut' /\ SweepOut' /\ MemOut'
    BY <1>4 DEF IInv, DownloadsInv, DbOut, SweepOut, MemOut, OwnOut, lists, sweep
  <2>2. OutVal'
    BY <1>1, <1>2, <1>3, <1>4 DEF IInv, DownloadsInv, OutVal, OwnOut, Over
  <2>3. QED BY <2>1, <2>2 DEF DownloadsInv
<1>11. ProgressInv'
  <2>1. \A y \in Workers : pc'[y] \notin Over => y # x
    BY <1>1, <1>2
  <2>2. Unlisted'
    BY <1>3, <2>1 DEF IInv, ProgressInv, Unlisted, ToList, lists, Over
  <2>3. Removed'
    BY <1>3, <2>1 DEF IInv, ProgressInv, Removed, Over
  <2>4. QED BY <2>2, <2>3 DEF ProgressInv
<1>12. KeptInv'
  <2>1. Kept'
    BY <1>1, <1>2, <1>3, <1>4, UploadsAssumption
    DEF IInv, JobsInv, JobOver, KeptInv, Kept, Settled, Workers, Over
  <2>2. Answers'
    BY <1>1, <1>2, <1>3, <1>4 DEF IInv, KeptInv, Answers, Workers, Over
  <2>3. Written'
    BY <1>1, <1>2, <1>3 DEF IInv, KeptInv, Written, Settled, Over
  <2>4. QED BY <2>1, <2>2, <2>3 DEF KeptInv
<1>13. QED
  BY <1>5, <1>6, <1>7, <1>8, <1>9, <1>10, <1>11, <1>12
-----------------------------------------------------------------------------
(* The steps that leave the jobs alone                                     *)

LEMMA ConnectStep ==
    ASSUME IInv, NEW c \in Conns, Connect(c)
    PROVE  IInv'
<1>1. /\ c \in Objects /\ UserOf[c] \in Users /\ \A x \in Workers : obj[x] # c
      /\ memIn' = [memIn EXCEPT ![c] = dbIn[UserOf[c]]]
      /\ memOut' = [memOut EXCEPT ![c] = dbOut[UserOf[c]]]
      /\ online' = [online EXCEPT ![UserOf[c]] = c]
      /\ up /\ up' = up /\ UNCHANGED <<stored, boot, jobs, sweep, seen, budget>>
  BY UploadsAssumption DEF Connect, Objects
<1>2. /\ memIn' \in [Objects -> SUBSET Files] /\ memOut' \in [Objects -> List]
      /\ online' \in [Users -> Conns \cup {NoConn}]
  BY <1>1 DEF IInv, TypeOK, StoredTypes, MemoryTypes
<1>3. TypeOK'
  <2>1. MemoryTypes'
    BY <1>1, <1>2 DEF Connect, IInv, TypeOK, MemoryTypes
  <2>2. StoredTypes' /\ JobTypes' /\ SweepTypes' /\ SeenTypes'
    BY <1>1 DEF IInv, TypeOK, StoredTypes, JobTypes, SweepTypes, SeenTypes,
       stored, jobs, sweep, seen, budget
  <2>3. QED BY <2>1, <2>2 DEF TypeOK
<1>4. JobsInv'
  BY <1>1 DEF IInv, JobsInv, JobOver, JobFile, JobStored, jobs
<1>5. PlacesInv'
  BY <1>1 DEF IInv, TypeOK, MemoryTypes, PlacesInv, JobBoot, OnlineInv, SweepInv, jobs, sweep
<1>6. QueuesInv'
  BY <1>1, <1>2 DEF IInv, TypeOK, MemoryTypes, QueuesInv, DbIn, MemIn, InVal, OwnIn, jobs, stored
<1>7. DownloadsInv'
  <2>1. DbOut' /\ SweepOut' /\ OutVal'
    BY <1>1 DEF IInv, DownloadsInv, DbOut, SweepOut, OutVal, OwnOut, jobs, stored, sweep, seen
  <2>2. MemOut'
    BY <1>1 DEF IInv, TypeOK, MemoryTypes, DownloadsInv, DbOut, MemOut, OwnOut, jobs, stored, seen
  <2>3. QED BY <2>1, <2>2 DEF DownloadsInv
<1>8. ProgressInv'
  BY <1>1 DEF IInv, TypeOK, MemoryTypes, ProgressInv, Unlisted, Removed, ToList, jobs, stored, seen
<1>9. KeptInv'
  BY <1>1 DEF IInv, KeptInv, Kept, Answers, Written, Settled, jobs, stored, seen
<1>10. QED
  BY <1>3, <1>4, <1>5, <1>6, <1>7, <1>8, <1>9 DEF IInv

LEMMA BootReadStep ==
    ASSUME IInv, BootRead
    PROVE  IInv'
<1>1. /\ \A o \in Objects : memIn'[o] = IF o \in Users THEN dbIn[o] ELSE memIn[o]
      /\ \A o \in Objects : memOut'[o] = IF o \in Users THEN dbOut[o] ELSE memOut[o]
      /\ up /\ up' = up /\ boot' = "run" /\ UNCHANGED <<stored, session, jobs, sweep, seen, budget>>
  BY DEF BootRead
<1>2. \A u \in Users : u \in Objects /\ UserOf[u] = u
  BY UploadsAssumption DEF Objects
<1>3. TypeOK'
  <2>1. memIn' \in [Objects -> SUBSET Files] /\ memOut' \in [Objects -> List]
    BY DEF BootRead, IInv, TypeOK, StoredTypes, MemoryTypes
  <2>2. MemoryTypes'
    BY <1>1, <2>1 DEF IInv, TypeOK, MemoryTypes, session
  <2>3. StoredTypes' /\ JobTypes' /\ SweepTypes' /\ SeenTypes'
    BY <1>1 DEF IInv, TypeOK, StoredTypes, JobTypes, SweepTypes, SeenTypes,
       stored, jobs, sweep, seen, budget
  <2>4. QED BY <2>2, <2>3 DEF TypeOK
<1>4. JobsInv'
  BY <1>1 DEF IInv, JobsInv, JobOver, JobFile, JobStored, jobs
<1>5. PlacesInv'
  BY <1>1 DEF IInv, PlacesInv, JobBoot, OnlineInv, SweepInv, session, jobs, sweep
<1>6. QueuesInv'
  BY <1>1, <1>2 DEF IInv, QueuesInv, DbIn, MemIn, InVal, OwnIn, jobs, stored
<1>7. DownloadsInv'
  <2>1. DbOut' /\ SweepOut' /\ OutVal'
    BY <1>1 DEF IInv, DownloadsInv, DbOut, SweepOut, OutVal, OwnOut, jobs, stored, sweep, seen
  <2>2. MemOut'
    BY <1>1, <1>2 DEF IInv, DownloadsInv, DbOut, MemOut, OwnOut, jobs, stored, seen
  <2>3. QED BY <2>1, <2>2 DEF DownloadsInv
<1>8. ProgressInv'
  <2>1. Unlisted'
    <3>1. ASSUME NEW x \in Workers, ToList(x), file[x] \notin stuck
          PROVE  memOut'[obj[x]][file[x]] = 0
      <4>1. CASE x \in Files
        <5>1. obj[x] \in Objects \ Users
          BY <3>1, <4>1 DEF IInv, JobsInv, JobOver, JobFile, ToList, Over
        <5>2. QED BY <5>1, <3>1, <1>1 DEF IInv, ProgressInv, Unlisted
      <4>2. CASE x = Boot
        BY <3>1, <4>2 DEF BootRead, IInv, PlacesInv, JobBoot, ToList
      <4>3. QED BY <4>1, <4>2 DEF Workers
    <3>2. QED BY <3>1, <1>1 DEF Unlisted, ToList, jobs, seen
  <2>2. Removed'
    BY <1>1 DEF IInv, ProgressInv, Removed, jobs, stored, seen
  <2>3. QED BY <2>1, <2>2 DEF ProgressInv
<1>9. KeptInv'
  BY <1>1 DEF IInv, KeptInv, Kept, Answers, Written, Settled, jobs, stored, seen
<1>10. QED
  BY <1>3, <1>4, <1>5, <1>6, <1>7, <1>8, <1>9 DEF IInv

\* The end of a connection, a start, the clock and the end of reProcessUploads().
LEMMA QuietSteps ==
    ASSUME IInv,
           \/ \E c \in Conns : Disconnect(c)
           \/ \E f \in Files : Expire(f)
           \/ Restart \/ BootReadRefused \/ BootEnd
    PROVE  IInv'
<1>1. /\ UNCHANGED <<stored, lists, jobs, sweep, answer, reported, told, stuck>>
      /\ \/ up' = up /\ boot' \in {boot, "off"} /\ (boot' = "off" => boot = "off" \/ pc[Boot] = "idle")
         \/ up' = TRUE /\ boot' = "start" /\ pc[Boot] = "idle"
      /\ ws' \in [Conns -> {"none", "open", "nil"}]
      /\ online' \in [Users -> Conns \cup {NoConn}]
      /\ \A u \in Users : online'[u] \in {online[u], NoConn}
      /\ expired' \subseteq Files /\ crashes' \in Nat /\ faults' \in Nat /\ drops' \in Nat
  BY UploadsAssumption DEF Disconnect, Expire, Restart, BootReadRefused, BootEnd, session, seen,
     budget, IInv, TypeOK, MemoryTypes, SeenTypes, PlacesInv, JobBoot
<1>2. JobsInv' /\ QueuesInv' /\ MemOut' /\ OutVal' /\ ProgressInv' /\ KeptInv'
  BY <1>1, QuietStep DEF stored, lists
<1>3. TypeOK'
  <2>1. StoredTypes' /\ JobTypes' /\ SweepTypes'
    BY <1>1 DEF IInv, TypeOK, StoredTypes, JobTypes, SweepTypes, stored, jobs, sweep
  <2>2. MemoryTypes' /\ SeenTypes'
    BY <1>1 DEF IInv, TypeOK, MemoryTypes, SeenTypes, lists
  <2>3. QED BY <2>1, <2>2 DEF TypeOK
<1>4. PlacesInv'
  BY <1>1 DEF IInv, PlacesInv, JobBoot, OnlineInv, SweepInv, jobs, sweep
<1>5. DbOut' /\ SweepOut'
  BY <1>1 DEF IInv, DownloadsInv, DbOut, SweepOut, OwnOut, stored, sweep, jobs
<1>6. QED
  BY <1>2, <1>3, <1>4, <1>5 DEF IInv, DownloadsInv
\* deleteUploadResults() writes nothing into a downloads list that was not
\* there, once, when it read the list.
LEMMA SweepSteps ==
    ASSUME IInv, Sweep
    PROVE  IInv'
<1>1. UNCHANGED <<queue, dbIn, notes, up, session, lists, boot, jobs, seen>>
  BY DEF Sweep, SweepStart, SweepEntry, SweepSaved, SweepRefused, SweepDirectory, stored, seen
<1>2. JobsInv' /\ QueuesInv' /\ MemOut' /\ OutVal' /\ ProgressInv' /\ KeptInv'
  BY <1>1, QuietStep DEF lists, seen
<1>3. MemoryTypes' /\ JobTypes'
  BY <1>1 DEF IInv, TypeOK, MemoryTypes, JobTypes, session, lists, jobs
<1>4. JobBoot' /\ OnlineInv'
  BY <1>1 DEF IInv, PlacesInv, JobBoot, OnlineInv, session, jobs
<1>5. StoredTypes' /\ SweepTypes' /\ SeenTypes' /\ SweepInv' /\ DbOut' /\ SweepOut'
  <2>1. CASE SweepStart
    <3>1. StoredTypes' /\ SeenTypes' /\ SweepInv' /\ DbOut' /\ SweepOut'
      BY <2>1 DEF SweepStart, IInv, TypeOK, StoredTypes, SeenTypes, SweepInv, stored, seen,
         budget, jobs, DownloadsInv, DbOut, SweepOut, OwnOut
    <3>2. SweepTypes'
      BY <2>1 DEF SweepStart, IInv, TypeOK, StoredTypes, SweepTypes, SeenTypes
    <3>3. QED BY <3>1, <3>2
  <2>2. ASSUME NEW u \in Users, NEW f \in Files, SweepEntry(u, f)
        PROVE  StoredTypes' /\ SweepTypes' /\ SeenTypes' /\ SweepInv' /\ DbOut' /\ SweepOut'
    <3>0. /\ sweepOut \in [Users -> List] /\ sweepOut[u] \in [Files -> Nat]
          /\ sweepOut[u][f] \in Nat /\ sweepOut[u][f] > 0
      BY <2>2 DEF SweepEntry, IInv, TypeOK, SweepTypes, List
    <3>1. sweepOut' = [sweepOut EXCEPT ![u] = [sweepOut[u] EXCEPT ![f] = sweepOut[u][f] - 1]]
      BY <2>2 DEF SweepEntry
    <3>2. /\ sweepOut'[u] = [sweepOut[u] EXCEPT ![f] = sweepOut[u][f] - 1]
          /\ sweepOut'[u] \in List
      <4>1. sweepOut'[u] = [sweepOut[u] EXCEPT ![f] = sweepOut[u][f] - 1]
        BY <3>0, <3>1
      <4>2. sweepOut[u][f] - 1 \in Nat
        BY <3>0
      <4>3. QED BY <3>0, <4>1, <4>2 DEF List
    <3>3. sweepOut' \in [Users -> List]
      BY <3>0, <3>1, <3>2
    <3>4. SweepTypes' /\ SweepInv'
      BY <2>2, <3>3 DEF SweepEntry, IInv, TypeOK, SweepTypes, SweepInv
    <3>5. StoredTypes' /\ SeenTypes' /\ DbOut'
      BY <2>2 DEF SweepEntry, IInv, TypeOK, StoredTypes, SeenTypes, seen, budget, jobs,
         DownloadsInv, DbOut, OwnOut
    <3>6. SweepOut'
      <4>1. \A g \in Files : sweepOut'[u][g] <= sweepOut[u][g] /\ sweepOut[u][g] \in Nat
        BY <3>0, <3>2
      <4>2. OwnOut(sweepOut'[u], u)
        BY <4>1, <3>2 DEF IInv, DownloadsInv, SweepOut, OwnOut, List
      <4>3. \A v \in Users : v # u => sweepOut'[v] = sweepOut[v]
        BY <3>0, <3>1
      <4>4. QED BY <4>2, <4>3, <1>1 DEF IInv, DownloadsInv, SweepOut, OwnOut, jobs, seen
    <3>7. QED BY <3>4, <3>5, <3>6
  <2>3. CASE SweepSaved
    <3>1. /\ sweepUser \in Users /\ dbOut' = [dbOut EXCEPT ![sweepUser] = sweepOut[sweepUser]]
          /\ UNCHANGED <<queue, processed, dbIn, notes, jobs, seen, budget, sweepOut, sweepNow>>
          /\ sweepPc' = "lists" /\ sweepUser' = NoConn
      BY <2>3 DEF SweepSaved, IInv, PlacesInv, SweepInv
    <3>2. StoredTypes' /\ SweepTypes' /\ SeenTypes' /\ SweepInv'
      BY <3>1 DEF IInv, TypeOK, StoredTypes, SweepTypes, SeenTypes, SweepInv, seen, budget
    <3>3. \A u \in Users : dbOut'[u] \in {dbOut[u], sweepOut[u]}
      BY <3>1 DEF IInv, TypeOK, StoredTypes
    <3>4. DbOut' /\ SweepOut'
      BY <3>1, <3>3 DEF IInv, DownloadsInv, DbOut, SweepOut, OwnOut, jobs, seen
    <3>5. QED BY <3>2, <3>4
  <2>4. CASE SweepRefused \/ SweepDirectory
    <3>1. /\ UNCHANGED <<queue, dbIn, dbOut, notes, jobs, seen>> /\ processed' \subseteq processed
          /\ sweepPc' \in {"idle", "lists"} /\ sweepUser' \in {NoConn, sweepUser}
          /\ sweepNow' \subseteq sweepNow /\ crashes' = crashes /\ drops' = drops
          /\ faults' \in Nat
      BY <2>4 DEF SweepRefused, SweepDirectory, stored, budget, IInv, TypeOK, SeenTypes
    <3>2. /\ sweepOut' \in [Users -> List]
          /\ \A u \in Users : sweepOut'[u] \in {sweepOut[u], EmptyList}
      BY <2>4 DEF SweepRefused, SweepDirectory, IInv, TypeOK, SweepTypes, List, EmptyList
    <3>3. StoredTypes' /\ SweepTypes' /\ SeenTypes' /\ SweepInv'
      BY <3>1, <3>2 DEF IInv, TypeOK, StoredTypes, SweepTypes, SeenTypes, SweepInv, seen
    <3>4. DbOut' /\ SweepOut'
      BY <3>1, <3>2 DEF IInv, DownloadsInv, DbOut, SweepOut, OwnOut, EmptyList, jobs, seen
    <3>5. QED BY <3>3, <3>4
  <2>5. QED BY <2>1, <2>2, <2>3, <2>4 DEF Sweep
<1>6. QED
  BY <1>2, <1>3, <1>4, <1>5 DEF IInv, TypeOK, PlacesInv, DownloadsInv
-----------------------------------------------------------------------------
(* The steps of uploadHandler()                                            *)

\* The file is new, so no list holds it and no job works on it.
LEMMA StoreFileStep ==
    ASSUME IInv, NEW f \in Files, StoreFile(f) \/ StoreFileFails(f)
    PROVE  IInv'
<1>1. /\ pc[f] = "idle" /\ online[Owner[f]] \in Conns /\ UserOf[online[Owner[f]]] = Owner[f]
      /\ queue' = queue \cup {f} /\ up /\ up' = up
      /\ UNCHANGED <<processed, dbIn, dbOut, notes, session, lists, boot, file, inVal, outVal,
                     sweep, reported, told, expired, stuck, budget>>
  BY UploadsAssumption DEF StoreFile, StoreFileFails, IInv, TypeOK, MemoryTypes, PlacesInv,
     OnlineInv, seen
<1>2. \/ /\ pc' = [pc EXCEPT ![f] = "stored"] /\ answer' = answer
         /\ obj' = [obj EXCEPT ![f] = online[Owner[f]]]
      \/ /\ pc' = [pc EXCEPT ![f] = "gone"] /\ answer' = [answer EXCEPT ![f] = "error"]
         /\ obj' = obj
  <2>1. CASE StoreFile(f)
    BY <2>1 DEF StoreFile, seen
  <2>2. CASE StoreFileFails(f)
    BY <2>2 DEF StoreFileFails
  <2>3. QED BY <2>1, <2>2
<1>3. /\ f \in Workers /\ f # Boot
      /\ \/ pc'[f] = "stored" /\ answer'[f] = answer[f] /\ obj'[f] = online[Owner[f]]
         \/ pc'[f] = "gone" /\ answer'[f] = "error" /\ obj'[f] = obj[f]
      /\ \A x \in Workers : x # f => pc'[x] = pc[x] /\ obj'[x] = obj[x]
      /\ \A g \in Files : g # f => answer'[g] = answer[g]
  <2>1. /\ f \in Workers /\ f # Boot /\ pc \in [Workers -> PC]
        /\ answer \in [Files -> {"none", "ok", "error"}]
        /\ obj \in [Workers -> Objects \cup {NoConn}]
    BY UploadsAssumption DEF IInv, TypeOK, JobTypes, SeenTypes, Workers
  <2>2. CASE pc' = [pc EXCEPT ![f] = "stored"] /\ answer' = answer
             /\ obj' = [obj EXCEPT ![f] = online[Owner[f]]]
    BY <2>1, <2>2
  <2>3. CASE pc' = [pc EXCEPT ![f] = "gone"] /\ answer' = [answer EXCEPT ![f] = "error"]
             /\ obj' = obj
    BY <2>1, <2>3
  <2>4. QED BY <1>2, <2>2, <2>3
<1>4. \A g \in Files : pc[g] # "idle" => pc'[g] # "idle" /\ g # f
  BY <1>1, <1>3 DEF Workers
<1>5. TypeOK'
  <2>1. JobTypes' /\ SeenTypes'
    BY <1>1, <1>2 DEF IInv, TypeOK, JobTypes, SeenTypes, PC, budget, Objects
  <2>2. StoredTypes' /\ MemoryTypes' /\ SweepTypes'
    BY <1>1 DEF IInv, TypeOK, StoredTypes, MemoryTypes, SweepTypes, session, lists, sweep
  <2>3. QED BY <2>1, <2>2 DEF TypeOK
<1>6. JobsInv'
  <2>1. JobOver'
    BY <1>1, <1>3 DEF IInv, JobsInv, JobOver, JobFile, Over, Objects
  <2>2. JobFile'
    BY <1>1, <1>3, UploadsAssumption DEF IInv, JobsInv, JobFile, Workers
  <2>3. JobStored'
    BY <1>1, <1>3, <1>4, UploadsAssumption DEF IInv, JobsInv, JobStored, JobOver, JobFile, Workers
  <2>4. QED BY <2>1, <2>2, <2>3 DEF JobsInv
<1>7. PlacesInv'
  BY <1>1, <1>3 DEF IInv, PlacesInv, JobBoot, OnlineInv, SweepInv, session, sweep, Workers
<1>8. QueuesInv'
  <2>1. DbIn' /\ MemIn'
    BY <1>1, <1>4 DEF IInv, TypeOK, StoredTypes, MemoryTypes, QueuesInv, DbIn, MemIn, OwnIn, lists
  <2>2. InVal'
    BY <1>1, <1>3, <1>4 DEF IInv, TypeOK, JobTypes, QueuesInv, InVal, OwnIn
  <2>3. QED BY <2>1, <2>2 DEF QueuesInv
<1>9. DownloadsInv'
  <2>1. DbOut' /\ SweepOut' /\ MemOut'
    BY <1>1, <1>4 DEF IInv, DownloadsInv, DbOut, SweepOut, MemOut, OwnOut, lists, sweep
  <2>2. OutVal'
    BY <1>1, <1>3, <1>4 DEF IInv, DownloadsInv, OutVal, OwnOut
  <2>3. QED BY <2>1, <2>2 DEF DownloadsInv
<1>10. ProgressInv'
  <2>1. Unlisted'
    <3>1. \A o \in Objects : memOut[o][f] = 0
      BY <1>1 DEF IInv, TypeOK, MemoryTypes, List, DownloadsInv, MemOut, OwnOut
    <3>2. \A x \in Workers : ToList(x)' /\ x # f => ToList(x)
      BY <1>3 DEF ToList
    <3>3. QED
      BY <1>1, <1>3, <3>1, <3>2
      DEF IInv, ProgressInv, Unlisted, JobsInv, JobFile, lists, Objects, ToList
  <2>2. Removed'
    BY <1>1, <1>3 DEF IInv, ProgressInv, Removed, JobsInv, JobStored, Over
  <2>3. QED BY <2>1, <2>2 DEF ProgressInv
<1>11. KeptInv'
  <2>1. Kept' /\ Answers'
    BY <1>1, <1>3, UploadsAssumption DEF IInv, KeptInv, Kept, Answers, Settled, Workers
  <2>2. Written'
    <3>1. \A x \in Workers : pc'[x] \in {"written", "clean"} => pc[x] = pc'[x] /\ file[x] # f
      BY <1>1, <1>3 DEF IInv, JobsInv, JobStored, Over
    <3>2. \A x \in Workers : pc[x] \in {"written", "clean"} => file[x] \in Files
      BY DEF IInv, JobsInv, JobOver, Over
    <3>3. QED BY <1>1, <1>3, <3>1, <3>2 DEF IInv, KeptInv, Written, Settled
  <2>3. QED BY <2>1, <2>2 DEF KeptInv
<1>12. QED
  BY <1>5, <1>6, <1>7, <1>8, <1>9, <1>10, <1>11 DEF IInv
-----------------------------------------------------------------------------
(* The steps of a job that write a list                                    *)

\* A job that goes on keeps its file and its Account.
LEMMA AdvanceStep ==
    ASSUME IInv, NEW x \in Workers, NEW where \in PC \ Over,
           pc[x] \notin Over, pc' = [pc EXCEPT ![x] = where],
           where \in {"inSaving", "accepted"} => x # Boot, where # "stored",
           UNCHANGED <<up, boot, session, file, obj, sweep>>
    PROVE  /\ pc' \in [Workers -> PC] /\ pc'[x] = where
           /\ \A y \in Workers : y # x => pc'[y] = pc[y]
           /\ \A f \in Files : pc'[f] = "idle" <=> pc[f] = "idle"
           /\ file[x] \in Files /\ obj[x] \in Objects /\ UserOf[obj[x]] = Owner[file[x]]
           /\ pc[file[x]] # "idle" /\ (x # Boot => file[x] = x /\ obj[x] \notin Users)
           /\ JobsInv' /\ PlacesInv' /\ SweepTypes'
<1>1. pc \in [Workers -> PC]
  BY DEF IInv, TypeOK, JobTypes
<1>2. pc' \in [Workers -> PC] /\ pc'[x] = where /\ \A y \in Workers : y # x => pc'[y] = pc[y]
  BY <1>1
<1>3. \A f \in Files : pc'[f] = "idle" <=> pc[f] = "idle"
  BY <1>2 DEF Over, Workers
<1>4. /\ file[x] \in Files /\ obj[x] \in Objects /\ UserOf[obj[x]] = Owner[file[x]]
      /\ pc[file[x]] # "idle" /\ (x # Boot => file[x] = x /\ obj[x] \notin Users)
  BY DEF IInv, JobsInv, JobOver, JobFile, JobStored, Workers
<1>5. JobsInv'
  BY <1>2, <1>3 DEF IInv, JobsInv, JobOver, JobFile, JobStored
<1>6. PlacesInv' /\ SweepTypes'
  BY <1>2 DEF IInv, TypeOK, PlacesInv, JobBoot, OnlineInv, SweepInv, SweepTypes, session, sweep,
     Workers, Over
<1>7. QED BY <1>2, <1>3, <1>4, <1>5, <1>6

LEMMA AddToQueueStep ==
    ASSUME IInv, NEW f \in Files, AddToQueue(f)
    PROVE  IInv'
<1>1. /\ f \in Workers /\ f # Boot /\ pc[f] = "stored" /\ "inSaving" \in PC \ Over
      /\ pc[f] \notin Over /\ pc' = [pc EXCEPT ![f] = "inSaving"]
      /\ memIn' = [memIn EXCEPT ![obj[f]] = memIn[obj[f]] \cup {f}]
      /\ inVal' = [inVal EXCEPT ![f] = memIn[obj[f]] \cup {f}]
      /\ UNCHANGED <<stored, up, session, memOut, boot, file, obj, outVal, sweep, seen, budget>>
  BY UploadsAssumption DEF AddToQueue, Workers, PC, Over
<1>2. /\ pc' \in [Workers -> PC] /\ pc'[f] = "inSaving"
      /\ \A y \in Workers : y # f => pc'[y] = pc[y]
      /\ \A g \in Files : pc'[g] = "idle" <=> pc[g] = "idle"
      /\ obj[f] \in Objects /\ UserOf[obj[f]] = Owner[f] /\ file[f] = f
      /\ JobsInv' /\ PlacesInv' /\ SweepTypes'
  BY <1>1, AdvanceStep
<1>3. memIn \in [Objects -> SUBSET Files] /\ inVal \in [Workers -> SUBSET Files]
  BY DEF IInv, TypeOK, MemoryTypes, JobTypes
<1>4. /\ memIn'[obj[f]] = memIn[obj[f]] \cup {f} /\ inVal'[f] = memIn[obj[f]] \cup {f}
      /\ \A o \in Objects : o # obj[f] => memIn'[o] = memIn[o]
      /\ \A y \in Workers : y # f => inVal'[y] = inVal[y]
  BY <1>1, <1>2, <1>3
<1>5. OwnIn(memIn[obj[f]] \cup {f}, Owner[f])
  BY <1>1, <1>2 DEF IInv, QueuesInv, MemIn, OwnIn
<1>6. TypeOK'
  <2>1. memIn' \in [Objects -> SUBSET Files] /\ inVal' \in [Workers -> SUBSET Files]
    BY <1>1, <1>2, <1>3
  <2>2. MemoryTypes'
    BY <1>1, <2>1 DEF IInv, TypeOK, MemoryTypes, session
  <2>3. JobTypes'
    BY <1>1, <1>2, <2>1 DEF IInv, TypeOK, JobTypes
  <2>4. StoredTypes' /\ SeenTypes'
    BY <1>1 DEF IInv, TypeOK, StoredTypes, SeenTypes, stored, seen, budget
  <2>5. QED BY <1>2, <2>2, <2>3, <2>4 DEF TypeOK
<1>7. QueuesInv'
  <2>1. DbIn'
    BY <1>1, <1>2 DEF IInv, TypeOK, StoredTypes, QueuesInv, DbIn, OwnIn, stored
  <2>2. MemIn'
    BY <1>2, <1>3, <1>4, <1>5 DEF IInv, QueuesInv, MemIn, OwnIn
  <2>3. InVal'
    BY <1>1, <1>2, <1>3, <1>4, <1>5 DEF IInv, QueuesInv, InVal, OwnIn
  <2>4. QED BY <2>1, <2>2, <2>3 DEF QueuesInv
<1>8. DownloadsInv'
  <2>1. DbOut' /\ SweepOut' /\ MemOut'
    BY <1>1, <1>2 DEF IInv, DownloadsInv, DbOut, SweepOut, MemOut, OwnOut, stored, sweep, seen
  <2>2. OutVal'
    BY <1>1, <1>2 DEF IInv, DownloadsInv, OutVal, OwnOut, stored, seen
  <2>3. QED BY <2>1, <2>2 DEF DownloadsInv
<1>9. ProgressInv'
  BY <1>1, <1>2 DEF IInv, ProgressInv, Unlisted, Removed, ToList, stored, seen
<1>10. KeptInv'
  BY <1>1, <1>2 DEF IInv, KeptInv, Kept, Answers, Written, Settled, stored, seen, Workers
<1>11. QED
  BY <1>2, <1>6, <1>7, <1>8, <1>9, <1>10 DEF IInv

\* The database now holds what the handler put into the copy, and the request
\* is answered.
LEMMA AddToQueueAnswered ==
    ASSUME IInv, NEW f \in Files, AddToQueueSaved(f) \/ AddToQueueRefused(f)
    PROVE  IInv'
<1> DEFINE where == IF answer'[f] = "ok" THEN "accepted" ELSE "clean"
<1>1. answer \in [Files -> {"none", "ok", "error"}]
  BY DEF IInv, TypeOK, SeenTypes
<1>2. /\ f \in Workers /\ f # Boot /\ pc[f] = "inSaving" /\ where \in PC \ Over
      /\ pc[f] \notin Over /\ pc' = [pc EXCEPT ![f] = where]
      /\ inVal' = [inVal EXCEPT ![f] = {}]
      /\ answer'[f] \in {"ok", "error"} /\ \A g \in Files : g # f => answer'[g] = answer[g]
      /\ answer' \in [Files -> {"none", "ok", "error"}]
      /\ UNCHANGED <<queue, processed, dbOut, notes, up, session, lists, boot, file, obj, outVal,
                     sweep, reported, told, expired, stuck, crashes, drops>>
  <2>1. CASE AddToQueueSaved(f)
    BY <1>1, <2>1, UploadsAssumption DEF AddToQueueSaved, Workers, PC, Over, budget
  <2>2. CASE AddToQueueRefused(f)
    BY <1>1, <2>2, UploadsAssumption DEF AddToQueueRefused, Workers, PC, Over, stored
  <2>3. QED BY <2>1, <2>2
<1>3. /\ pc' \in [Workers -> PC] /\ pc'[f] = where
      /\ \A y \in Workers : y # f => pc'[y] = pc[y]
      /\ \A g \in Files : pc'[g] = "idle" <=> pc[g] = "idle"
      /\ file[f] = f
      /\ JobsInv' /\ PlacesInv' /\ SweepTypes'
  <2>1. where # "stored" /\ (where \in {"inSaving", "accepted"} => f # Boot)
    BY <1>2
  <2>2. QED BY <1>2, <2>1, AdvanceStep
<1>4. /\ dbIn' = dbIn \/ dbIn' = [dbIn EXCEPT ![Owner[f]] = inVal[f]]
      /\ faults' \in Nat
  BY DEF AddToQueueSaved, AddToQueueRefused, IInv, TypeOK, SeenTypes, budget, stored
<1>5. inVal[f] \subseteq Files /\ OwnIn(inVal[f], Owner[f]) /\ Owner[f] \in Users
  BY <1>2, <1>3, UploadsAssumption DEF IInv, TypeOK, JobTypes, QueuesInv, InVal
<1>6. /\ dbIn' \in [Users -> SUBSET Files]
      /\ \A u \in Users : OwnIn(dbIn'[u], u)
  BY <1>4, <1>5 DEF IInv, TypeOK, StoredTypes, QueuesInv, DbIn, OwnIn
<1>7. TypeOK'
  BY <1>2, <1>3, <1>4, <1>6
  DEF IInv, TypeOK, StoredTypes, MemoryTypes, JobTypes, SeenTypes, session, lists
<1>8. QueuesInv'
  <2>1. DbIn' /\ MemIn'
    BY <1>2, <1>3, <1>6 DEF IInv, TypeOK, MemoryTypes, QueuesInv, DbIn, MemIn, OwnIn, lists
  <2>2. InVal'
    BY <1>2, <1>3 DEF IInv, TypeOK, JobTypes, QueuesInv, InVal, OwnIn
  <2>3. QED BY <2>1, <2>2 DEF QueuesInv
<1>9. DownloadsInv'
  <2>1. DbOut' /\ SweepOut' /\ MemOut'
    BY <1>2, <1>3 DEF IInv, DownloadsInv, DbOut, SweepOut, MemOut, OwnOut, lists, sweep
  <2>2. OutVal'
    BY <1>2, <1>3 DEF IInv, DownloadsInv, OutVal, OwnOut
  <2>3. QED BY <2>1, <2>2 DEF DownloadsInv
<1>10. ProgressInv'
  BY <1>2, <1>3 DEF IInv, ProgressInv, Unlisted, Removed, ToList, lists
<1>11. KeptInv'
  <2>1. answer[f] = "none" /\ \A g \in Files : answer[g] = "error" => answer'[g] = "error"
    BY <1>2 DEF IInv, KeptInv, Answers
  <2>2. Kept'
    BY <1>2, <1>3, <2>1 DEF IInv, KeptInv, Kept, Settled
  <2>3. Answers'
    BY <1>2, <1>3 DEF IInv, KeptInv, Answers, Workers
  <2>4. \A y \in Workers : pc[y] = "clean" => file[y] \in Files
    BY DEF IInv, JobsInv, JobOver, Over
  <2>5. Written'
    BY <1>2, <1>3, <2>1, <2>4 DEF IInv, KeptInv, Written, Settled
  <2>6. QED BY <2>2, <2>3, <2>5 DEF KeptInv
<1>12. QED
  BY <1>3, <1>7, <1>8, <1>9, <1>10, <1>11 DEF IInv
\* The file leaves queue/, or is noted as one that can't: from here on its job
\* may list it.
LEMMA RemoveFileStep ==
    ASSUME IInv, NEW x \in Workers, RemoveFile(x) \/ RemoveFileFails(x)
    PROVE  IInv'
<1>1. /\ pc[x] = "clean" /\ "inDropping" \in PC \ Over /\ pc[x] \notin Over
      /\ pc' = [pc EXCEPT ![x] = "inDropping"]
      /\ memIn' = [memIn EXCEPT ![obj[x]] = memIn[obj[x]] \ {file[x]}]
      /\ inVal' = [inVal EXCEPT ![x] = memIn[obj[x]] \ {file[x]}]
      /\ \/ queue' = queue \ {file[x]} /\ stuck' = stuck
         \/ queue' = queue /\ stuck' = stuck \cup {file[x]}
      /\ faults' \in {faults, faults + 1}
      /\ UNCHANGED <<processed, dbIn, dbOut, notes, up, session, memOut, boot, file, obj, outVal,
                     sweep, answer, reported, told, expired, crashes, drops>>
  BY DEF RemoveFile, RemoveFileFails, PC, Over, stored, seen, budget
<1>2. /\ pc' \in [Workers -> PC] /\ pc'[x] = "inDropping"
      /\ \A y \in Workers : y # x => pc'[y] = pc[y]
      /\ \A g \in Files : pc'[g] = "idle" <=> pc[g] = "idle"
      /\ obj[x] \in Objects /\ UserOf[obj[x]] = Owner[file[x]] /\ file[x] \in Files
      /\ JobsInv' /\ PlacesInv' /\ SweepTypes'
  BY <1>1, AdvanceStep
<1>3. memIn \in [Objects -> SUBSET Files] /\ inVal \in [Workers -> SUBSET Files]
  BY DEF IInv, TypeOK, MemoryTypes, JobTypes
<1>4. /\ memIn'[obj[x]] = memIn[obj[x]] \ {file[x]} /\ inVal'[x] = memIn[obj[x]] \ {file[x]}
      /\ \A o \in Objects : o # obj[x] => memIn'[o] = memIn[o]
      /\ \A y \in Workers : y # x => inVal'[y] = inVal[y]
  BY <1>1, <1>2, <1>3
<1>5. OwnIn(memIn[obj[x]] \ {file[x]}, Owner[file[x]])
  BY <1>2 DEF IInv, QueuesInv, MemIn, OwnIn
<1>6. TypeOK'
  <2>1. memIn' \in [Objects -> SUBSET Files] /\ inVal' \in [Workers -> SUBSET Files]
    BY <1>1, <1>2, <1>3
  <2>2. MemoryTypes'
    BY <1>1, <2>1 DEF IInv, TypeOK, MemoryTypes, session
  <2>3. JobTypes'
    BY <1>1, <1>2, <2>1 DEF IInv, TypeOK, JobTypes
  <2>4. StoredTypes' /\ SeenTypes'
    BY <1>1, <1>2 DEF IInv, TypeOK, StoredTypes, SeenTypes
  <2>5. QED BY <1>2, <2>2, <2>3, <2>4 DEF TypeOK
<1>7. QueuesInv'
  <2>1. DbIn'
    BY <1>1, <1>2 DEF IInv, TypeOK, StoredTypes, QueuesInv, DbIn, OwnIn
  <2>2. MemIn'
    BY <1>2, <1>3, <1>4, <1>5 DEF IInv, QueuesInv, MemIn, OwnIn
  <2>3. InVal'
    BY <1>1, <1>2, <1>3, <1>4, <1>5 DEF IInv, QueuesInv, InVal, OwnIn
  <2>4. QED BY <2>1, <2>2, <2>3 DEF QueuesInv
<1>8. DownloadsInv'
  <2>1. DbOut' /\ SweepOut' /\ MemOut'
    BY <1>1, <1>2 DEF IInv, DownloadsInv, DbOut, SweepOut, MemOut, OwnOut, sweep
  <2>2. OutVal'
    BY <1>1, <1>2 DEF IInv, DownloadsInv, OutVal, OwnOut
  <2>3. QED BY <2>1, <2>2 DEF DownloadsInv
<1>9. ProgressInv'
  BY <1>1, <1>2 DEF IInv, ProgressInv, Unlisted, Removed, ToList
<1>10. KeptInv'
  <2>1. Settled(file[x])
    BY <1>1 DEF IInv, KeptInv, Written
  <2>2. Kept'
    BY <1>1, <1>2, <2>1 DEF IInv, KeptInv, Kept, Settled
  <2>3. Answers' /\ Written'
    BY <1>1, <1>2 DEF IInv, KeptInv, Answers, Written, Settled, Workers
  <2>4. QED BY <2>2, <2>3 DEF KeptInv
<1>11. QED
  BY <1>2, <1>6, <1>7, <1>8, <1>9, <1>10 DEF IInv

LEMMA DropSavedStep ==
    ASSUME IInv, NEW x \in Workers, DropSaved(x)
    PROVE  IInv'
<1>1. /\ pc[x] = "inDropping" /\ "listing" \in PC \ Over /\ pc[x] \notin Over
      /\ pc' = [pc EXCEPT ![x] = "listing"] /\ inVal' = [inVal EXCEPT ![x] = {}]
      /\ dbIn' = [dbIn EXCEPT ![Owner[file[x]]] = inVal[x]]
      /\ UNCHANGED <<queue, processed, dbOut, notes, up, session, lists, boot, file, obj, outVal,
                     sweep, seen, budget>>
  BY DEF DropSaved, PC, Over
<1>2. /\ pc' \in [Workers -> PC] /\ pc'[x] = "listing"
      /\ \A y \in Workers : y # x => pc'[y] = pc[y]
      /\ \A g \in Files : pc'[g] = "idle" <=> pc[g] = "idle"
      /\ file[x] \in Files
      /\ JobsInv' /\ PlacesInv' /\ SweepTypes'
  BY <1>1, AdvanceStep
<1>3. inVal[x] \subseteq Files /\ OwnIn(inVal[x], Owner[file[x]]) /\ Owner[file[x]] \in Users
  BY <1>1, <1>2, UploadsAssumption DEF IInv, TypeOK, JobTypes, QueuesInv, InVal
<1>4. /\ dbIn' \in [Users -> SUBSET Files]
      /\ \A u \in Users : OwnIn(dbIn'[u], u)
  BY <1>1, <1>3 DEF IInv, TypeOK, StoredTypes, QueuesInv, DbIn, OwnIn
<1>5. TypeOK'
  BY <1>1, <1>2, <1>4
  DEF IInv, TypeOK, StoredTypes, MemoryTypes, JobTypes, SeenTypes, session, lists, seen, budget
<1>6. QueuesInv'
  <2>1. DbIn' /\ MemIn'
    BY <1>1, <1>2, <1>4 DEF IInv, TypeOK, MemoryTypes, QueuesInv, DbIn, MemIn, OwnIn, lists
  <2>2. InVal'
    BY <1>1, <1>2 DEF IInv, TypeOK, JobTypes, QueuesInv, InVal, OwnIn
  <2>3. QED BY <2>1, <2>2 DEF QueuesInv
<1>7. DownloadsInv'
  <2>1. DbOut' /\ SweepOut' /\ MemOut'
    BY <1>1, <1>2 DEF IInv, DownloadsInv, DbOut, SweepOut, MemOut, OwnOut, lists, sweep, seen
  <2>2. OutVal'
    BY <1>1, <1>2 DEF IInv, DownloadsInv, OutVal, OwnOut, seen
  <2>3. QED BY <2>1, <2>2 DEF DownloadsInv
<1>8. ProgressInv'
  BY <1>1, <1>2 DEF IInv, ProgressInv, Unlisted, Removed, ToList, lists, seen
<1>9. KeptInv'
  BY <1>1, <1>2 DEF IInv, KeptInv, Kept, Answers, Written, Settled, Workers, seen
<1>10. QED
  BY <1>2, <1>5, <1>6, <1>7, <1>8, <1>9 DEF IInv

\* The list lacked the file (Unlisted), so it holds it once now; and no other
\* job is about to list the same file on the same Account.
LEMMA AddToDownloadsStep ==
    ASSUME IInv, NEW x \in Workers, AddToDownloads(x)
    PROVE  IInv'
<1> DEFINE f == file[x]
           o == obj[x]
           longer == [memOut[o] EXCEPT ![f] = memOut[o][f] + 1]
<1>1. /\ pc[x] = "listing" /\ "outSaving" \in PC \ Over /\ pc[x] \notin Over
      /\ pc' = [pc EXCEPT ![x] = "outSaving"]
      /\ memOut' = [memOut EXCEPT ![o] = longer]
      /\ outVal' = [outVal EXCEPT ![x] = memOut'[o]]
      /\ UNCHANGED <<stored, up, session, memIn, boot, file, obj, inVal, sweep, seen, budget>>
  BY DEF AddToDownloads, PC, Over
<1>2. /\ pc' \in [Workers -> PC] /\ pc'[x] = "outSaving"
      /\ \A y \in Workers : y # x => pc'[y] = pc[y]
      /\ \A g \in Files : pc'[g] = "idle" <=> pc[g] = "idle"
      /\ o \in Objects /\ UserOf[o] = Owner[f] /\ f \in Files /\ pc[f] # "idle"
      /\ JobsInv' /\ PlacesInv' /\ SweepTypes'
  BY <1>1, AdvanceStep
<1>3. /\ memOut \in [Objects -> List] /\ outVal \in [Workers -> List]
      /\ memOut[o] \in [Files -> Nat] /\ memOut[o][f] \in Nat
      /\ f \notin stuck => memOut[o][f] = 0 /\ f \notin queue
  BY <1>1, <1>2 DEF IInv, TypeOK, MemoryTypes, JobTypes, List, ProgressInv, Unlisted, Removed, ToList
<1>4. /\ longer \in [Files -> Nat] /\ (f \notin stuck => longer[f] = 1)
      /\ \A g \in Files : g # f => longer[g] = memOut[o][g]
  BY <1>2, <1>3
<1> HIDE DEF longer
<1>5. /\ memOut'[o] = longer /\ outVal'[x] = longer
      /\ \A p \in Objects : p # o => memOut'[p] = memOut[p]
      /\ \A y \in Workers : y # x => outVal'[y] = outVal[y]
  BY <1>1, <1>2, <1>3
<1>6. OwnOut(longer, Owner[f])
  BY <1>2, <1>3, <1>4 DEF IInv, DownloadsInv, MemOut, OwnOut
<1>7. TypeOK'
  <2>1. memOut' \in [Objects -> List] /\ outVal' \in [Workers -> List]
    BY <1>1, <1>2, <1>3, <1>4, <1>5 DEF List
  <2>2. MemoryTypes'
    BY <1>1, <2>1 DEF IInv, TypeOK, MemoryTypes, session
  <2>3. JobTypes'
    BY <1>1, <1>2, <2>1 DEF IInv, TypeOK, JobTypes
  <2>4. StoredTypes' /\ SeenTypes'
    BY <1>1 DEF IInv, TypeOK, StoredTypes, SeenTypes, stored, seen, budget
  <2>5. QED BY <1>2, <2>2, <2>3, <2>4 DEF TypeOK
<1>8. QueuesInv'
  <2>1. DbIn' /\ MemIn'
    BY <1>1, <1>2 DEF IInv, TypeOK, StoredTypes, MemoryTypes, QueuesInv, DbIn, MemIn, OwnIn, stored
  <2>2. InVal'
    BY <1>1, <1>2 DEF IInv, TypeOK, JobTypes, QueuesInv, InVal, OwnIn
  <2>3. QED BY <2>1, <2>2 DEF QueuesInv
<1>9. DownloadsInv'
  <2>1. DbOut' /\ SweepOut'
    BY <1>1, <1>2 DEF IInv, DownloadsInv, DbOut, SweepOut, OwnOut, stored, sweep, seen
  <2>2. MemOut'
    BY <1>1, <1>2, <1>5, <1>6 DEF IInv, DownloadsInv, MemOut, OwnOut, stored, seen
  <2>3. OutVal'
    BY <1>1, <1>2, <1>5, <1>6 DEF IInv, DownloadsInv, OutVal, OwnOut, stored, seen
  <2>4. QED BY <2>1, <2>2, <2>3 DEF DownloadsInv
<1>10. ProgressInv'
  <2>1. Unlisted'
    <3>1. ASSUME NEW y \in Workers, ToList(y)', file[y] \notin stuck
          PROVE  memOut'[obj[y]][file[y]] = 0
      <4>1. y # x /\ ToList(y) /\ obj[y] \in Objects /\ file[y] \in Files
        BY <3>1, <1>1, <1>2 DEF ToList, IInv, JobsInv, JobOver, Over
      <4>2. memOut[obj[y]][file[y]] = 0
        BY <3>1, <4>1 DEF IInv, ProgressInv, Unlisted
      <4>3. obj[y] = o => file[y] # f
        BY <4>1, <1>2 DEF IInv, JobsInv, JobFile, Workers, Objects
      <4>4. QED
        BY <4>1, <4>2, <4>3, <1>4, <1>5
    <3>2. QED BY <3>1, <1>1 DEF Unlisted, seen
  <2>2. Removed'
    BY <1>1, <1>2 DEF IInv, ProgressInv, Removed, stored, seen
  <2>3. QED BY <2>1, <2>2 DEF ProgressInv
<1>11. KeptInv'
  BY <1>1, <1>2 DEF IInv, KeptInv, Kept, Answers, Written, Settled, Workers, stored, seen
<1>12. QED
  BY <1>2, <1>7, <1>8, <1>9, <1>10, <1>11 DEF IInv
\* reProcessUploads() takes up a file its copy of the queue names.
LEMMA BootNextStep ==
    ASSUME IInv, NEW f \in Files, BootNext(f)
    PROVE  IInv'
<1>1. /\ Boot \in Workers /\ Boot \notin Files /\ Owner[f] \in Users /\ Owner[f] \in Objects
      /\ UserOf[Owner[f]] = Owner[f] /\ Owner[f] \notin Conns
      /\ up /\ boot = "run" /\ pc[Boot] = "idle" /\ f \in memIn[Owner[f]]
      /\ pc' = [pc EXCEPT ![Boot] = "queued"] /\ file' = [file EXCEPT ![Boot] = f]
      /\ obj' = [obj EXCEPT ![Boot] = Owner[f]]
      /\ UNCHANGED <<stored, up, session, lists, boot, inVal, outVal, sweep, seen, budget>>
  BY UploadsAssumption DEF BootNext, Workers, Objects
<1>2. /\ pc \in [Workers -> PC] /\ file \in [Workers -> Workers]
      /\ obj \in [Workers -> Objects \cup {NoConn}]
  BY DEF IInv, TypeOK, JobTypes
<1>3. /\ pc'[Boot] = "queued" /\ file'[Boot] = f /\ obj'[Boot] = Owner[f]
      /\ \A y \in Workers : y # Boot => pc'[y] = pc[y] /\ file'[y] = file[y] /\ obj'[y] = obj[y]
      /\ \A y \in Files : y \in Workers /\ y # Boot /\ pc'[y] = pc[y]
                          /\ file'[y] = file[y] /\ obj'[y] = obj[y]
  BY <1>1, <1>2 DEF Workers
<1>4. pc[f] # "idle"
  BY <1>1 DEF IInv, QueuesInv, MemIn, OwnIn
<1>5. TypeOK'
  <2>1. JobTypes'
    BY <1>1, <1>2 DEF IInv, TypeOK, JobTypes, PC, Workers
  <2>2. StoredTypes' /\ MemoryTypes' /\ SweepTypes' /\ SeenTypes'
    BY <1>1 DEF IInv, TypeOK, StoredTypes, MemoryTypes, SweepTypes, SeenTypes, stored, session,
       lists, sweep, seen, budget
  <2>3. QED BY <2>1, <2>2 DEF TypeOK
<1>6. JobsInv'
  BY <1>1, <1>3, <1>4 DEF IInv, JobsInv, JobOver, JobFile, JobStored, Over
<1>7. PlacesInv'
  BY <1>1, <1>3 DEF IInv, PlacesInv, JobBoot, OnlineInv, SweepInv, session, sweep
<1>8. QueuesInv'
  <2>1. DbIn' /\ MemIn'
    BY <1>1, <1>3 DEF IInv, TypeOK, StoredTypes, MemoryTypes, QueuesInv, DbIn, MemIn, OwnIn,
       stored, lists
  <2>2. InVal'
    BY <1>1, <1>3 DEF IInv, TypeOK, JobTypes, QueuesInv, InVal, OwnIn
  <2>3. QED BY <2>1, <2>2 DEF QueuesInv
<1>9. DownloadsInv'
  BY <1>1, <1>3 DEF IInv, DownloadsInv, DbOut, SweepOut, MemOut, OutVal, OwnOut, stored, lists, sweep, seen
<1>10. ProgressInv'
  BY <1>1, <1>3 DEF IInv, ProgressInv, Unlisted, Removed, ToList, stored, lists, seen
<1>11. KeptInv'
  BY <1>1, <1>3 DEF IInv, KeptInv, Kept, Answers, Written, Settled, stored, seen
<1>12. QED
  BY <1>5, <1>6, <1>7, <1>8, <1>9, <1>10, <1>11 DEF IInv

-----------------------------------------------------------------------------
(* The steps of a job that change no list of the service's memory          *)

LEMMA StartProcessingStep ==
    ASSUME IInv, NEW f \in Files, StartProcessing(f)
    PROVE  IInv'
<1>1. /\ f \in Workers /\ pc[f] = "accepted" /\ pc[f] \notin Over
      /\ UNCHANGED <<stored, up, session, lists, boot, sweep, seen, budget>>
  BY DEF StartProcessing, Workers, Over
<1>2. StoredTypes' /\ SeenTypes'
  BY <1>1 DEF IInv, TypeOK, StoredTypes, SeenTypes, stored, seen, budget
<1>3. CASE Goto(f, "queued")
  <2>1. <<pc[f], "queued">> \in Moves
    BY <1>1 DEF Moves
  <2>2. QED BY <1>1, <1>2, <1>3, <2>1, GotoStep DEF IInv, TypeOK, stored, seen
<1>4. CASE Finish(f, "gone")
  <2>1. /\ \A u \in Users : OwnIn(dbIn'[u], u)
        /\ \A u \in Users : OwnOut(dbOut'[u], u)
    BY <1>1 DEF IInv, QueuesInv, DbIn, DownloadsInv, DbOut, stored
  <2>2. QED BY <1>1, <1>2, <1>4, <2>1, FinishStep DEF IInv, TypeOK, stored, seen
<1>5. QED BY <1>3, <1>4 DEF StartProcessing

\* The write may have been applied before the time was over.
LEMMA AddToQueueTimesOutStep ==
    ASSUME IInv, NEW f \in Files, AddToQueueTimesOut(f)
    PROVE  IInv'
<1>1. /\ f \in Workers /\ pc[f] = "inSaving" /\ pc[f] \notin Over /\ Finish(f, "gone")
      /\ dbIn' = dbIn \/ dbIn' = [dbIn EXCEPT ![Owner[f]] = inVal[f]]
      /\ UNCHANGED <<queue, processed, dbOut, notes, up, session, lists, boot, sweep, seen>>
      /\ faults' = faults + 1 /\ crashes' = crashes /\ drops' = drops
  BY DEF AddToQueueTimesOut, Workers, Over
<1>2. inVal[f] \subseteq Files /\ OwnIn(inVal[f], Owner[f]) /\ Owner[f] \in Users
  BY <1>1, UploadsAssumption DEF IInv, TypeOK, JobTypes, QueuesInv, InVal, JobsInv, JobFile
<1>3. dbIn' \in [Users -> SUBSET Files] /\ \A u \in Users : OwnIn(dbIn'[u], u)
  BY <1>1, <1>2 DEF IInv, TypeOK, StoredTypes, QueuesInv, DbIn, OwnIn
<1>4. StoredTypes' /\ SeenTypes'
  BY <1>1, <1>3 DEF IInv, TypeOK, StoredTypes, SeenTypes, seen
<1>5. \A u \in Users : OwnOut(dbOut'[u], u)
  BY <1>1 DEF IInv, DownloadsInv, DbOut
<1>6. QED
  BY <1>1, <1>3, <1>4, <1>5, FinishStep DEF IInv, TypeOK, seen

LEMMA OpenFileStep ==
    ASSUME IInv, NEW x \in Workers, OpenFile(x)
    PROVE  IInv'
<1> DEFINE where == IF file[x] \in queue THEN "reading" ELSE "failed"
<1>1. /\ <<pc[x], where>> \in Moves /\ Goto(x, where)
      /\ UNCHANGED <<stored, up, session, lists, boot, sweep, seen, budget>>
  BY DEF OpenFile, Moves
<1>2. StoredTypes' /\ SeenTypes'
  BY <1>1 DEF IInv, TypeOK, StoredTypes, SeenTypes, stored, seen, budget
<1>3. where # "written" /\ where # "clean" /\ (where = "reading" => file[x] \in queue)
  OBVIOUS
<1> HIDE DEF where
<1>4. QED
  BY <1>1, <1>2, <1>3, GotoStep DEF IInv, TypeOK, stored, seen

LEMMA WriteReportStep ==
    ASSUME IInv, NEW x \in Workers, WriteReport(x)
    PROVE  IInv'
<1>1. /\ pc[x] = "reading" /\ <<pc[x], "written">> \in Moves /\ Goto(x, "written")
      /\ processed' = processed \cup {file[x]} /\ reported' = reported \cup {file[x]}
      /\ UNCHANGED <<queue, dbIn, dbOut, notes, up, session, lists, boot, sweep, answer, told,
                     expired, stuck, budget>>
  BY DEF WriteReport, Moves
<1>2. file[x] \in Files
  BY <1>1 DEF IInv, JobsInv, JobOver, Over
<1>3. StoredTypes' /\ SeenTypes'
  BY <1>1, <1>2 DEF IInv, TypeOK, StoredTypes, SeenTypes, budget
<1>4. QED
  BY <1>1, <1>3, GotoStep DEF IInv, TypeOK

LEMMA MoveSteps ==
    ASSUME IInv, NEW x \in Workers, ProcessFails(x) \/ DownloadsRefused(x)
    PROVE  IInv'
<1> DEFINE where == IF pc[x] = "reading" THEN "failed" ELSE "unlisted"
<1>1. /\ <<pc[x], where>> \in Moves /\ Goto(x, where) /\ where \in {"failed", "unlisted"}
      /\ UNCHANGED <<stored, up, session, lists, boot, sweep, seen, crashes, drops>>
      /\ faults' \in {faults, faults + 1}
  BY DEF ProcessFails, DownloadsRefused, Moves, budget
<1> HIDE DEF where
<1>2. StoredTypes' /\ SeenTypes'
  BY <1>1 DEF IInv, TypeOK, StoredTypes, SeenTypes, stored, seen
<1>3. QED
  BY <1>1, <1>2, GotoStep DEF IInv, TypeOK, stored, seen

\* A job that could not save the queue ends; one that saved the downloads list
\* ends too.
LEMMA EndSteps ==
    ASSUME IInv, NEW x \in Workers, DropRefused(x) \/ DownloadsSaved(x)
    PROVE  IInv'
<1>1. /\ pc[x] \in {"inDropping", "outSaving"} /\ pc[x] \notin Over /\ Finish(x, "done")
      /\ dbOut' = dbOut \/ (pc[x] = "outSaving" /\ dbOut' = [dbOut EXCEPT ![Owner[file[x]]] = outVal[x]])
      /\ UNCHANGED <<queue, processed, dbIn, notes, up, session, lists, boot, sweep, seen, crashes, drops>>
      /\ faults' \in {faults, faults + 1}
  <2>1. CASE DropRefused(x)
    BY <2>1 DEF DropRefused, Over, stored
  <2>2. CASE DownloadsSaved(x)
    BY <2>2 DEF DownloadsSaved, Over, budget
  <2>3. QED BY <2>1, <2>2
<1>2. file[x] \in Files /\ Owner[file[x]] \in Users /\ outVal[x] \in List
  BY <1>1, UploadsAssumption DEF IInv, TypeOK, JobTypes, JobsInv, JobOver
<1>3. pc[x] = "outSaving" => OwnOut(outVal[x], Owner[file[x]])
  BY DEF IInv, DownloadsInv, OutVal
<1>4. dbOut' \in [Users -> List] /\ \A u \in Users : OwnOut(dbOut'[u], u)
  <2>1. dbOut \in [Users -> List] /\ \A u \in Users : OwnOut(dbOut[u], u)
    BY DEF IInv, TypeOK, StoredTypes, DownloadsInv, DbOut
  <2>2. CASE dbOut' = dbOut
    BY <2>1, <2>2
  <2>3. CASE pc[x] = "outSaving" /\ dbOut' = [dbOut EXCEPT ![Owner[file[x]]] = outVal[x]]
    BY <1>2, <1>3, <2>1, <2>3
  <2>4. QED BY <1>1, <2>2, <2>3
<1>5. StoredTypes' /\ SeenTypes'
  BY <1>1, <1>4 DEF IInv, TypeOK, StoredTypes, SeenTypes, seen
<1>6. \A u \in Users : OwnIn(dbIn'[u], u)
  BY <1>1 DEF IInv, QueuesInv, DbIn
<1>7. QED
  BY <1>1, <1>4, <1>5, <1>6, FinishStep DEF IInv, TypeOK, seen
\* A notification without a Websocket may stop the service; one that is sent
\* lets the job go on.
LEMMA NotifyProcessedStep ==
    ASSUME IInv, NEW x \in Workers, NotifyProcessed(x)
    PROVE  IInv'
<1>1. /\ pc[x] = "written" /\ <<pc[x], "clean">> \in Moves
      /\ UNCHANGED <<stored, answer, reported, told, expired, stuck, budget>>
  BY DEF NotifyProcessed, Moves
<1>2. StoredTypes' /\ SeenTypes'
  BY <1>1 DEF IInv, TypeOK, StoredTypes, SeenTypes, stored, budget
<1>3. CASE Goto(x, "clean") /\ UNCHANGED <<up, session, lists, boot, sweep>>
  <2>1. Settled(file[x])'
    BY <1>1, <1>3 DEF IInv, KeptInv, Written, Settled, Goto
  <2>2. QED
    BY <1>1, <1>2, <1>3, <2>1, GotoStep DEF IInv, TypeOK, stored
<1>4. CASE Halt
  BY <1>1, <1>2, <1>4, HaltStep DEF IInv, TypeOK, stored
<1>5. QED BY <1>3, <1>4 DEF NotifyProcessed

LEMMA LastOfType ==
    ASSUME NEW S, NEW s \in Seq(S), NEW n \in Nat
    PROVE  LastOf(s, n) \in Seq(S)
BY DEF LastOf

\* addNotification() in all its outcomes: it adds what the owner is told, and
\* the service stops, the handler ends, or the job goes on.
LEMMA AddNotificationStep ==
    ASSUME IInv, NEW x \in Workers, pc[x] \in {"failed", "unlisted"}, NEW ACTION then, AddNotification(x, then)
    PROVE  /\ UNCHANGED <<queue, dbIn, dbOut, answer, reported, stuck>>
           /\ told \subseteq told' /\ StoredTypes' /\ SeenTypes'
           /\ \/ Halt
              \/ /\ UNCHANGED <<up, session, lists, boot, sweep>> /\ x # Boot
                 /\ \/ Finish(x, "gone")
                    \/ then /\ file[x] \in told'
<1>1. file[x] \in Files /\ Owner[file[x]] \in Users
  BY UploadsAssumption DEF IInv, JobsInv, JobOver, Over
<1>2. UNCHANGED <<queue, processed, dbIn, dbOut, answer, reported, expired, stuck, crashes, drops>>
  BY DEF AddNotification
<1>3. CASE NotifyOffline(x)
  <2>1. notes' \in [Users -> Seq(Files)]
    <3>1. CASE notes' = notes
      BY <3>1 DEF IInv, TypeOK, StoredTypes
    <3>2. CASE notes' = [notes EXCEPT ![Owner[file[x]]] = LastOf(Append(@, file[x]), MaxNotes)]
      <4>1. notes[Owner[file[x]]] \in Seq(Files) /\ MaxNotes \in Nat
        BY <1>1, UploadsAssumption DEF IInv, TypeOK, StoredTypes
      <4>2. Append(notes[Owner[file[x]]], file[x]) \in Seq(Files)
        BY <1>1, <4>1
      <4>3. LastOf(Append(notes[Owner[file[x]]], file[x]), MaxNotes) \in Seq(Files)
        BY <4>1, <4>2, LastOfType
      <4>4. QED BY <3>2, <4>3 DEF IInv, TypeOK, StoredTypes
    <3>3. QED BY <1>3, <3>1, <3>2 DEF NotifyOffline
  <2>2. Halt /\ faults' \in {faults, faults + 1} /\ told' \in {told, told \cup {file[x]}}
    BY <1>3 DEF NotifyOffline
  <2>3. StoredTypes' /\ SeenTypes'
    BY <1>1, <1>2, <2>1, <2>2 DEF IInv, TypeOK, StoredTypes, SeenTypes
  <2>4. QED BY <1>2, <2>2, <2>3
<1>4. CASE x # Boot /\ NotifyOnline(x, then)
  <2>1. /\ told' \in {told, told \cup {file[x]}} /\ UNCHANGED <<notes, faults>>
        /\ \/ Halt
           \/ /\ UNCHANGED <<up, session, lists, boot, sweep>>
              /\ \/ Finish(x, "gone")
                 \/ then /\ file[x] \in told'
    BY <1>4 DEF NotifyOnline
  <2>2. StoredTypes' /\ SeenTypes'
    BY <1>1, <1>2, <2>1 DEF IInv, TypeOK, StoredTypes, SeenTypes
  <2>3. QED BY <1>2, <1>4, <2>1, <2>2
<1>5. QED BY <1>3, <1>4 DEF AddNotification

LEMMA NotifySteps ==
    ASSUME IInv, NEW x \in Workers, NotifyError(x) \/ NotifyUnlisted(x)
    PROVE  IInv'
<1> DEFINE then == \/ pc[x] = "failed" /\ Goto(x, "clean")
                   \/ pc[x] = "unlisted" /\ Finish(x, "done")
<1>1. pc[x] \in {"failed", "unlisted"} /\ pc[x] \notin Over
  BY DEF NotifyError, NotifyUnlisted, Over
<1>2. /\ UNCHANGED <<queue, dbIn, dbOut, answer, reported, stuck>>
      /\ told \subseteq told' /\ StoredTypes' /\ SeenTypes'
      /\ \/ Halt
         \/ /\ UNCHANGED <<up, session, lists, boot, sweep>> /\ x # Boot
            /\ \/ Finish(x, "gone")
               \/ then /\ file[x] \in told'
  <2>1. CASE NotifyError(x)
    <3>1. pc[x] = "failed" /\ AddNotification(x, Goto(x, "clean"))
      BY <2>1 DEF NotifyError
    <3>2. QED BY <3>1, <1>1, AddNotificationStep
  <2>2. CASE NotifyUnlisted(x)
    <3>1. pc[x] = "unlisted" /\ AddNotification(x, Finish(x, "done"))
      BY <2>2 DEF NotifyUnlisted
    <3>2. QED BY <3>1, <1>1, AddNotificationStep
  <2>3. QED BY <2>1, <2>2
<1>3. /\ \A u \in Users : OwnIn(dbIn'[u], u)
      /\ \A u \in Users : OwnOut(dbOut'[u], u)
  BY <1>2 DEF IInv, QueuesInv, DbIn, DownloadsInv, DbOut
<1>4. CASE Halt
  BY <1>2, <1>4, HaltStep DEF IInv, TypeOK
<1>5. CASE UNCHANGED <<up, session, lists, boot, sweep>> /\ (Finish(x, "gone") \/ Finish(x, "done"))
  BY <1>1, <1>2, <1>3, <1>5, FinishStep DEF IInv, TypeOK
<1>6. CASE /\ UNCHANGED <<up, session, lists, boot, sweep>> /\ x # Boot
           /\ pc[x] = "failed" /\ Goto(x, "clean") /\ file[x] \in told'
  <2>1. Settled(file[x])' /\ <<pc[x], "clean">> \in Moves
    BY <1>6 DEF Settled, Goto, Moves
  <2>2. QED BY <1>2, <1>6, <2>1, GotoStep DEF IInv, TypeOK
<1>7. QED BY <1>2, <1>4, <1>5, <1>6

LEMMA CrashStep ==
    ASSUME IInv, Crash
    PROVE  IInv'
<1>1. Halt /\ UNCHANGED <<stored, answer, reported, told, expired, stuck, faults, drops>>
      /\ crashes' = crashes + 1
  BY DEF Crash
<1>2. StoredTypes' /\ SeenTypes'
  BY <1>1 DEF IInv, TypeOK, StoredTypes, SeenTypes, stored
<1>3. QED BY <1>1, <1>2, HaltStep DEF IInv, TypeOK, stored

-----------------------------------------------------------------------------
(* Theorems                                                                *)

LEMMA InitIInv == Init => IInv
<1> SUFFICES ASSUME Init PROVE IInv
  OBVIOUS
<1>1. TypeOK
  <2>1. StoredTypes
    BY DEF Init, StoredTypes, List, EmptyList
  <2>2. MemoryTypes /\ SweepTypes /\ SeenTypes
    BY DEF Init, MemoryTypes, SweepTypes, SeenTypes, List, EmptyList
  <2>3. JobTypes
    BY DEF Init, JobTypes, PC, List, EmptyList
  <2>4. QED BY <2>1, <2>2, <2>3 DEF TypeOK
<1>2. JobsInv /\ PlacesInv
  BY UploadsAssumption DEF Init, JobsInv, JobOver, JobFile, JobStored, PlacesInv, JobBoot,
     OnlineInv, SweepInv, Over, Workers
<1>3. QueuesInv /\ DownloadsInv
  BY DEF Init, QueuesInv, DbIn, MemIn, InVal, OwnIn, DownloadsInv, DbOut, SweepOut, MemOut, OutVal,
     OwnOut, EmptyList
<1>4. ProgressInv /\ KeptInv
  BY DEF Init, ProgressInv, Unlisted, Removed, ToList, KeptInv, Kept, Answers, Written, Workers
<1>5. QED BY <1>1, <1>2, <1>3, <1>4 DEF IInv

LEMMA NextIInv == IInv /\ [Next]_vars => IInv'
<1> SUFFICES ASSUME IInv, [Next]_vars PROVE IInv'
  OBVIOUS
<1>1. ASSUME NEW f \in Files, Upload(f) PROVE IInv'
  BY <1>1, StoreFileStep, AddToQueueStep, AddToQueueAnswered, AddToQueueTimesOutStep,
     StartProcessingStep DEF Upload
<1>2. ASSUME NEW x \in Workers, Work(x) PROVE IInv'
  BY <1>2, OpenFileStep, WriteReportStep, MoveSteps, NotifyProcessedStep, NotifySteps,
     RemoveFileStep, DropSavedStep, EndSteps, AddToDownloadsStep DEF Work
<1>3. ASSUME NEW c \in Conns, Connect(c) \/ Disconnect(c) PROVE IInv'
  BY <1>3, ConnectStep, QuietSteps
<1>4. ASSUME NEW f \in Files, BootNext(f) \/ Expire(f) PROVE IInv'
  BY <1>4, BootNextStep, QuietSteps
<1>5. CASE Crash \/ Restart \/ BootRead \/ BootReadRefused \/ BootEnd \/ Sweep
  BY <1>5, CrashStep, QuietSteps, BootReadStep, SweepSteps
<1>6. CASE UNCHANGED vars
  <2>1. JobsInv' /\ QueuesInv' /\ MemOut' /\ OutVal' /\ ProgressInv' /\ KeptInv'
    BY <1>6, QuietStep DEF vars, stored, lists, seen
  <2>2. TypeOK'
    BY <1>6 DEF IInv, TypeOK, StoredTypes, MemoryTypes, JobTypes, SweepTypes, SeenTypes, vars,
       stored, session, lists, jobs, sweep, seen, budget
  <2>3. PlacesInv' /\ DbOut' /\ SweepOut'
    BY <1>6 DEF IInv, PlacesInv, JobBoot, OnlineInv, SweepInv, DownloadsInv, DbOut, SweepOut,
       OwnOut, vars, stored, session, jobs, sweep, seen
  <2>4. QED BY <2>1, <2>2, <2>3 DEF IInv, DownloadsInv
<1>7. QED BY <1>1, <1>2, <1>3, <1>4, <1>5, <1>6 DEF Next

\* The invariant that carries the others.
THEOREM Invariance == Spec => []IInv
<1>1. Init => IInv
  BY InitIInv
<1>2. IInv /\ [Next]_vars => IInv'
  BY NextIInv
<1>3. QED BY <1>1, <1>2, PTL DEF Spec

\* Every variable keeps its type.
THEOREM TypeCorrect == Spec => []TypeOK
<1>1. IInv => TypeOK
  BY DEF IInv
<1>2. QED BY <1>1, Invariance, PTL

\* No accepted upload leaves queue/ without a report or a word to its owner
\* (processUploads before cleanUploads, upload.go:253-268).
THEOREM NothingDropped == Spec => []NoSilentDrop
<1>1. IInv => NoSilentDrop
  BY DEF IInv, KeptInv, Kept, Answers, Settled, NoSilentDrop
<1>2. QED BY <1>1, Invariance, PTL

\* What the database lists for download has left queue/, if it could be removed,
\* and is the owner's,
\* whichever copy of the list was written last (cleanUploads, upload.go:485-534).
THEOREM ListsAreConsumed == Spec => []ListedIsConsumed
<1>1. IInv => ListedIsConsumed
  BY DEF IInv, DownloadsInv, DbOut, OwnOut, Listed, ListedIsConsumed
<1>2. QED BY <1>1, Invariance, PTL

\* Appending without looking never lists a file twice that was removed
\* (upload.go:517).
THEOREM ListsHaveNoDuplicates == Spec => []NoDuplicateListing
<1>1. IInv => NoDuplicateListing
  BY DEF IInv, TypeOK, StoredTypes, List, DownloadsInv, DbOut, OwnOut, NoDuplicateListing
<1>2. QED BY <1>1, Invariance, PTL

\* A restart processes uploads for the account they were made for
\* (reProcessUploads, upload.go:429-450).
THEOREM QueuesAreOwn == Spec => []QueuedForOwner
<1>1. IInv => QueuedForOwner
  BY DEF IInv, QueuesInv, DbIn, OwnIn, QueuedForOwner
<1>2. QED BY <1>1, Invariance, PTL
=============================================================================
