-------------------------- MODULE ConnectionProofs --------------------------
(***************************************************************************)
(* The safety properties of Connection hold for any elements, keys, texts  *)
(* and files, any number of attempts and of messages on their way.  Two    *)
(* arguments carry them: the last request about notes on its way is about  *)
(* the element that is shown, and what the page does not show yet of its   *)
(* Account is in a message on its way or in a list still to be read.       *)
(***************************************************************************)
EXTENDS Connection, FiniteSetTheorems, TLAPS

-----------------------------------------------------------------------------
(* The inductive invariant.                                                *)

\* A message about notes names a key, one about an upload a file.
NamesKey(m) == m.type \in {"notes", "notes-save"} => m.id \in Key
NamesFile(m) == m.type \in {"uploaded", "upload-processed"} => \E f \in File : m.files = {f}
MessagesInv ==
    /\ \A i \in DOMAIN toServer : NamesKey(toServer[i])
    /\ \A i \in DOMAIN toClient : NamesFile(toClient[i])

\* Nothing is on its way without a connection, and no job works for it.
OfflineInv ==
    ws # "open" => /\ toServer = <<>> /\ toClient = <<>> /\ reading = NoLists
                   /\ \A f \in File : ~Working(f)

RetryInv == ws = "waiting" => attempts < MaxAttempts

QueueInv == IsFiniteSet(Entries(queue)) /\ QueueIsCounted

\* The last request is about the element that is shown.
LastAsked(i) == toServer[i].type = "notes" /\ \A k \in DOMAIN toServer : toServer[k].type = "notes" => k <= i
AskedInv == dataId # NoElement =>
    \A i \in DOMAIN toServer : LastAsked(i) => toServer[i].id = dataId

\* The last answer, when nothing more is asked or saved, is what the database has.
LastAnswer(i) ==
    /\ toClient[i].type = "notes"
    /\ \A k \in DOMAIN toClient : AboutNotes(toClient[k]) => k <= i
    /\ \A k \in DOMAIN toServer : ~AboutNotes(toServer[k])
AnsweredInv == dataId # NoElement =>
    \A i \in DOMAIN toClient : LastAnswer(i) => toClient[i].text = notes[dataId]

\* The profile page asks for its lists and for nothing else.
ProfileInv == page = "profile" =>
    dataId = NoElement /\ toServer \in {<<>>, <<Plain("upload-lists")>>}

\* A file of the Account is shown, or announced by a message on its way, or in the
\* lists that are still to be sent; one this connection uploaded is not left to the
\* lists, which may be read while the file is in neither.
Shown(f) == queue[f] + downloads[f] > 0
Announces(m, f) ==
    \/ m.type \in {"uploaded", "upload-lists"} /\ f \in m.files
    \/ m.type = "upload-lists" /\ f \in m.done
Announced(f) == \E i \in DOMAIN toClient : Announces(toClient[i], f)
ToBeListed(f) == toServer # <<>> /\ (reading = NoLists \/ f \in reading \cup Out)
FileInv(f) ==
    /\ job[f] \in {"queued", "processed", "left"} => Shown(f) \/ Announced(f)
    /\ f \in In \cup Out /\ job[f] # "accepted" => Shown(f) \/ Announced(f) \/ ToBeListed(f)
FilesInv == page = "profile" /\ ws = "open" => \A f \in File : FileInv(f)

IInv ==
    /\ TypeOK /\ MessagesInv /\ OfflineInv /\ RetryInv /\ ProfileInv
    /\ JobsCoverSearches /\ LockedOffline /\ QueueInv
    /\ AskedInv /\ AnsweredInv /\ FilesInv

-----------------------------------------------------------------------------
(* Messages.                                                               *)
LEMMA PlainMessage ==
    ASSUME NEW t \in Kind
    PROVE /\ Plain(t) \in Message /\ Plain(t).type = t /\ Plain(t).id = NoElement
          /\ Plain(t).text = NoText /\ Plain(t).files = {} /\ Plain(t).done = {}
  BY DEF Plain, Message

LEMMA AskMessage ==
    ASSUME NEW k \in Key
    PROVE LET m == [Plain("notes") EXCEPT !.id = k] IN
          m \in Message /\ m.type = "notes" /\ m.id = k
  <1>1. [Plain("notes") EXCEPT !.id = k]
          = [type |-> "notes", id |-> k, text |-> NoText, files |-> {}, done |-> {}]
    BY DEF Plain
  <1>2. "notes" \in Kind
    BY DEF Kind
  <1> QED BY <1>1, <1>2 DEF Message

LEMMA AnswerMessage ==
    ASSUME NEW x \in Text \cup {NoText}
    PROVE LET m == [Plain("notes") EXCEPT !.text = x] IN
          m \in Message /\ m.type = "notes" /\ m.text = x
  <1>1. [Plain("notes") EXCEPT !.text = x]
          = [type |-> "notes", id |-> NoElement, text |-> x, files |-> {}, done |-> {}]
    BY DEF Plain
  <1>2. "notes" \in Kind
    BY DEF Kind
  <1> QED BY <1>1, <1>2 DEF Message

LEMMA FileMessage ==
    ASSUME NEW t \in Kind, NEW f \in File
    PROVE LET m == [Plain(t) EXCEPT !.files = {f}] IN
          m \in Message /\ m.type = t /\ m.files = {f} /\ m.done = {}
  BY DEF Plain, Message

LEMMA ListsMessage ==
    ASSUME NEW fs \in SUBSET File, NEW ds \in SUBSET File
    PROVE LET m == [Plain("upload-lists") EXCEPT !.files = fs, !.done = ds] IN
          m \in Message /\ m.type = "upload-lists" /\ m.files = fs /\ m.done = ds
  <1>1. [Plain("upload-lists") EXCEPT !.files = fs, !.done = ds]
          = [type |-> "upload-lists", id |-> NoElement, text |-> NoText, files |-> fs, done |-> ds]
    <2>1. [Plain("upload-lists") EXCEPT !.files = fs, !.done = ds]
            = [[Plain("upload-lists") EXCEPT !.files = fs] EXCEPT !.done = ds]
      OBVIOUS
    <2>2. [Plain("upload-lists") EXCEPT !.files = fs]
            = [type |-> "upload-lists", id |-> NoElement, text |-> NoText, files |-> fs, done |-> {}]
      BY DEF Plain
    <2>3. [[type |-> "upload-lists", id |-> NoElement, text |-> NoText, files |-> fs, done |-> {}]
             EXCEPT !.done = ds]
            = [type |-> "upload-lists", id |-> NoElement, text |-> NoText, files |-> fs, done |-> ds]
      OBVIOUS
    <2> QED BY <2>1, <2>2, <2>3
  <1>2. "upload-lists" \in Kind
    BY DEF Kind
  <1> QED BY <1>1, <1>2 DEF Message

-----------------------------------------------------------------------------
(* Sequences of messages.                                                  *)
LEMMA TailSeq ==
    ASSUME NEW s \in Seq(Message), s # <<>>
    PROVE /\ Tail(s) \in Seq(Message) /\ Head(s) \in Message /\ Head(s) = s[1]
          /\ DOMAIN s = 1..Len(s) /\ Len(s) \in Nat \ {0}
          /\ DOMAIN Tail(s) = 1..(Len(s) - 1)
          /\ \A i \in DOMAIN Tail(s) : i + 1 \in DOMAIN s /\ Tail(s)[i] = s[i + 1]
          /\ \A i \in DOMAIN s : i = 1 \/ (i - 1 \in DOMAIN Tail(s) /\ Tail(s)[i - 1] = s[i])
  OBVIOUS

LEMMA AppendSeq ==
    ASSUME NEW s \in Seq(Message), NEW m \in Message
    PROVE /\ Append(s, m) \in Seq(Message) /\ s \o <<m>> = Append(s, m) /\ Append(s, m) # <<>>
          /\ DOMAIN s = 1..Len(s) /\ Len(s) \in Nat
          /\ DOMAIN Append(s, m) = 1..(Len(s) + 1)
          /\ Append(s, m)[Len(s) + 1] = m
          /\ \A i \in DOMAIN s : Append(s, m)[i] = s[i] /\ i < Len(s) + 1
          /\ \A i \in DOMAIN Append(s, m) : i \in DOMAIN s \/ i = Len(s) + 1
  <1>1. s \o <<m>> = Append(s, m)
    OBVIOUS
  <1>2. Append(s, m) \in Seq(Message) /\ Len(Append(s, m)) = Len(s) + 1 /\ Len(<<>>) = 0
    OBVIOUS
  <1>3. /\ DOMAIN s = 1..Len(s) /\ Len(s) \in Nat
        /\ DOMAIN Append(s, m) = 1..(Len(s) + 1)
        /\ Append(s, m)[Len(s) + 1] = m
        /\ \A i \in DOMAIN s : Append(s, m)[i] = s[i]
    OBVIOUS
  <1>4. Append(s, m) # <<>>
    BY <1>2, <1>3
  <1> QED BY <1>1, <1>2, <1>3, <1>4

\* Sending a message
LEMMA SendOne ==
    ASSUME toServer \in Seq(Message), NEW m \in Message, Send(<<m>>)
    PROVE /\ ws = "open" => toServer' = Append(toServer, m)
          /\ ws # "open" => toServer' = toServer
  BY AppendSeq DEF Send

-----------------------------------------------------------------------------
(* Counting messages.                                                      *)
Where(s, t) == {i \in DOMAIN s : s[i].type = t}

LEMMA CountNat ==
    ASSUME NEW s \in Seq(Message), NEW t
    PROVE IsFiniteSet(Where(s, t)) /\ Count(s, t) \in Nat
  <1>1. DOMAIN s = 1..Len(s) /\ Len(s) \in Nat
    OBVIOUS
  <1>2. IsFiniteSet(1..Len(s))
    BY <1>1, FS_Interval
  <1>3. Where(s, t) \in SUBSET (1..Len(s))
    BY <1>1 DEF Where
  <1>4. IsFiniteSet(Where(s, t))
    BY <1>2, <1>3, FS_Subset
  <1> QED BY <1>4, FS_CardinalityType DEF Count, Where

LEMMA CountEmpty == ASSUME NEW t PROVE Count(<<>>, t) = 0
  <1>1. {i \in DOMAIN <<>> : <<>>[i].type = t} = {}
    OBVIOUS
  <1> QED BY <1>1, FS_EmptySet DEF Count

LEMMA CountAppend ==
    ASSUME NEW s \in Seq(Message), NEW m \in Message, NEW t
    PROVE Count(Append(s, m), t) = Count(s, t) + (IF m.type = t THEN 1 ELSE 0)
  <1> DEFINE n == Len(s) + 1
             W == Where(s, t)
             V == Where(Append(s, m), t)
  <1>1. n \notin W /\ IsFiniteSet(W) /\ Cardinality(W) \in Nat
    <2>1. n \notin DOMAIN s
      BY AppendSeq
    <2>2. W \subseteq DOMAIN s
      BY DEF Where
    <2>3. IsFiniteSet(W)
      BY CountNat
    <2> QED BY <2>1, <2>2, <2>3, FS_CardinalityType
  <1>2. V = IF m.type = t THEN W \cup {n} ELSE W
    <2>1. \A i \in DOMAIN s : i \in V <=> i \in W
      BY AppendSeq DEF Where
    <2>2. n \in V <=> m.type = t
      BY AppendSeq DEF Where
    <2>3. \A i \in V : i \in DOMAIN s \/ i = n
      BY AppendSeq DEF Where
    <2>4. \A i \in W : i \in DOMAIN s
      BY DEF Where
    <2>5. \A i \in V : i \in W \/ (i = n /\ m.type = t)
      BY <2>1, <2>2, <2>3
    <2>6. \A i \in W : i \in V
      BY <2>1, <2>4
    <2> HIDE DEF V, W, n
    <2>7. CASE m.type = t
      <3>1. V = W \cup {n}
        BY <2>2, <2>5, <2>6, <2>7
      <3> QED BY <2>7, <3>1
    <2>8. CASE m.type # t
      <3>1. V = W
        BY <2>5, <2>6, <2>8
      <3> QED BY <2>8, <3>1
    <2> QED BY <2>7, <2>8
  <1>3. Cardinality(V) = Cardinality(W) + (IF m.type = t THEN 1 ELSE 0)
    <2> HIDE DEF V, W, n
    <2>1. CASE m.type = t
      <3>1. Cardinality(W \cup {n}) = Cardinality(W) + 1
        BY <1>1, FS_AddElement
      <3> QED BY <1>2, <2>1, <3>1
    <2>2. CASE m.type # t
      BY <1>1, <1>2, <2>2
    <2> QED BY <2>1, <2>2
  <1> QED BY <1>3 DEF Count, Where

LEMMA CountTail ==
    ASSUME NEW s \in Seq(Message), s # <<>>, NEW t
    PROVE Count(s, t) = Count(Tail(s), t) + (IF Head(s).type = t THEN 1 ELSE 0)
  <1> DEFINE A == Where(Tail(s), t)
             B == {i \in DOMAIN s : i # 1 /\ s[i].type = t}
             g == [i \in A |-> i + 1]
  <1>1. IsFiniteSet(A) /\ Cardinality(A) \in Nat
    BY TailSeq, CountNat, FS_CardinalityType
  <1>2. IsFiniteSet(B) /\ Cardinality(B) = Cardinality(A)
    <2>1. \A i \in A : i \in Nat /\ i + 1 \in B
      BY TailSeq DEF Where
    <2>2. \A i \in B : i - 1 \in A /\ (i - 1) + 1 = i
      BY TailSeq DEF Where
    <2> HIDE DEF A, B
    <2>3. g \in [A -> B]
      BY <2>1
    <2>4. g \in Bijection(A, B)
      <3>1. g \in Injection(A, B)
        BY <2>1, <2>3 DEF Injection, IsInjective
      <3>2. g \in Surjection(A, B)
        BY <2>2, <2>3 DEF Surjection
      <3> QED BY <3>1, <3>2 DEF Bijection
    <2>5. ExistsBijection(A, B)
      BY <2>4 DEF ExistsBijection
    <2> QED BY <1>1, <2>5, FS_Bijection
  <1>3. Where(s, t) = IF Head(s).type = t THEN B \cup {1} ELSE B
    <2>1. Head(s) = s[1] /\ 1 \in DOMAIN s
      BY TailSeq
    <2> QED BY <2>1 DEF Where
  <1>4. 1 \notin B
    OBVIOUS
  <1> HIDE DEF A, B
  <1>5. Cardinality(Where(s, t)) = Cardinality(A) + (IF Head(s).type = t THEN 1 ELSE 0)
    <2>1. Cardinality(B \cup {1}) = Cardinality(B) + 1
      BY <1>2, <1>4, FS_AddElement
    <2> QED BY <1>1, <1>2, <1>3, <2>1
  <1> QED BY <1>5 DEF Count, Where, A

\* The queries of restore()
LEMMA RestoredSeq ==
    LET s == [i \in 1..Restored |-> Plain("sql")] IN
    /\ s \in Seq(Message) /\ Count(s, "sql") = Restored
    /\ \A i \in DOMAIN s : s[i] = Plain("sql")
  <1> DEFINE s == [i \in 1..Restored |-> Plain("sql")]
  <1>1. Restored \in Nat
    BY ConnectionAssumption
  <1>2. Plain("sql") \in Message /\ Plain("sql").type = "sql"
    BY PlainMessage DEF Kind
  <1>3. s \in Seq(Message) /\ \A i \in DOMAIN s : s[i] = Plain("sql")
    BY <1>1, <1>2
  <1>4. Where(s, "sql") = 1..Restored
    <2>1. DOMAIN s = 1..Restored
      OBVIOUS
    <2> QED BY <1>2, <1>3, <2>1 DEF Where
  <1>5. Cardinality(1..Restored) = Restored
    BY <1>1, FS_Interval
  <1> QED BY <1>3, <1>4, <1>5 DEF Count, Where

-----------------------------------------------------------------------------
(* The entries of a list of the profile page.                              *)
LEMMA MoreEntries ==
    ASSUME NEW list \in [File -> Nat], NEW fs \in SUBSET File, IsFiniteSet(Entries(list))
    PROVE /\ More(list, fs) \in [File -> Nat]
          /\ IsFiniteSet(Entries(More(list, fs)))
          /\ Cardinality(fs) \in Nat /\ Cardinality(Entries(list)) \in Nat
          /\ Cardinality(Entries(More(list, fs))) = Cardinality(Entries(list)) + Cardinality(fs)
  <1> DEFINE new == {<<f, list[f] + 1>> : f \in fs}
             g == [f \in fs |-> <<f, list[f] + 1>>]
             E == Entries(list)
             F == Entries(More(list, fs))
  <1>1. IsFiniteSet(fs) /\ Cardinality(fs) \in Nat
    BY ConnectionAssumption, FS_Subset, FS_CardinalityType
  <1>2. IsFiniteSet(new) /\ Cardinality(new) = Cardinality(fs)
    <2>1. g \in Bijection(fs, new)
      <3>1. g \in Injection(fs, new)
        BY DEF Injection, IsInjective
      <3>2. g \in Surjection(fs, new)
        BY DEF Surjection
      <3> QED BY <3>1, <3>2 DEF Bijection
    <2>2. ExistsBijection(fs, new)
      BY <2>1 DEF ExistsBijection
    <2> QED BY <1>1, <2>2, FS_Bijection
  <1>3. More(list, fs) \in [File -> Nat]
    BY DEF More
  <1>4. F = E \cup new
    <2>1. \A f \in File : More(list, fs)[f] = IF f \in fs THEN list[f] + 1 ELSE list[f]
      BY DEF More
    <2>2. ASSUME NEW f \in File, NEW n \in Nat
          PROVE <<f, n>> \in F <=> <<f, n>> \in E \/ <<f, n>> \in new
      <3>1. <<f, n>> \in F <=> n \in 1..More(list, fs)[f]
        BY DEF Entries
      <3>2. <<f, n>> \in E <=> n \in 1..list[f]
        BY DEF Entries
      <3>3. <<f, n>> \in new <=> f \in fs /\ n = list[f] + 1
        OBVIOUS
      <3> HIDE DEF E, F, new
      <3> QED BY <2>1, <3>1, <3>2, <3>3
    <2>3. /\ \A x \in F : \E f \in File, n \in Nat : x = <<f, n>>
          /\ \A x \in E : \E f \in File, n \in Nat : x = <<f, n>>
          /\ \A x \in new : \E f \in File, n \in Nat : x = <<f, n>>
      BY <1>3 DEF Entries
    <2> HIDE DEF E, F, new
    <2> QED BY <2>2, <2>3
  <1>5. E \cap new = {}
    BY DEF Entries
  <1> HIDE DEF E, F, new
  <1>6. IsFiniteSet(E) /\ Cardinality(E) \in Nat
    BY FS_CardinalityType DEF E
  <1>7. IsFiniteSet(E \cup new) /\ Cardinality(E \cup new) = Cardinality(E) + Cardinality(fs)
    <2>1. Cardinality(E \cap new) = 0
      BY <1>5, FS_EmptySet
    <2>2. /\ IsFiniteSet(E \cup new)
          /\ Cardinality(E \cup new) = Cardinality(E) + Cardinality(new) - Cardinality(E \cap new)
      BY <1>2, <1>6, FS_Union
    <2> QED BY <1>1, <1>2, <1>6, <2>1, <2>2
  <1> QED BY <1>1, <1>3, <1>4, <1>6, <1>7 DEF E, F

LEMMA OneLess ==
    ASSUME NEW list \in [File -> Nat], NEW f \in File, list[f] > 0, IsFiniteSet(Entries(list)),
           NEW less, less = [g \in File |-> IF g \in {f} THEN list[g] - 1 ELSE list[g]]
    PROVE /\ less \in [File -> Nat]
          /\ IsFiniteSet(Entries(less))
          /\ Cardinality(Entries(less)) \in Nat
          /\ Cardinality(Entries(list)) = Cardinality(Entries(less)) + 1
  <1>1. less \in [File -> Nat]
    OBVIOUS
  <1>2. More(less, {f}) = list
    BY DEF More
  <1>3. Entries(less) \subseteq Entries(list)
    <2>1. \A g \in File : less[g] \in Nat /\ list[g] \in Nat /\ less[g] <= list[g]
      OBVIOUS
    <2>2. \A g \in File : 1..less[g] \subseteq 1..list[g]
      BY <2>1
    <2> QED BY <2>2 DEF Entries
  <1>4. IsFiniteSet(Entries(less))
    BY <1>3, FS_Subset
  <1>5. Cardinality({f}) = 1
    BY FS_Singleton
  <1> HIDE DEF Entries
  <1> QED BY <1>1, <1>2, <1>4, <1>5, MoreEntries

-----------------------------------------------------------------------------
(* What a step does to the messages on their way.                          *)

\* Steps that leave them, and the searches, alone
Aside ==
    \/ Reconnect \/ ClickCanvas \/ (\E t \in Text : Type(t)) \/ ReadQueue
    \/ \E f \in File : Accept(f) \/ LeaveQueue(f) \/ AddToDownloads(f) \/ Settle(f)

LEMMA AsideWire ==
    ASSUME Aside \/ UNCHANGED vars
    PROVE UNCHANGED <<page, toServer, toClient, button, jobs, notes, profile>>
  BY DEF Aside, Reconnect, ClickCanvas, Type, ReadQueue, Accept, LeaveQueue, AddToDownloads,
         Settle, Step, vars, wire, search, uploads, profile, attributes

LEMMA Received ==
    ASSUME TypeOK, NEW t, Receive(t)
    PROVE /\ toClient \in Seq(Message) /\ toClient # <<>> /\ ws = "open"
          /\ Head(toClient) \in Message /\ Head(toClient) = toClient[1] /\ 1 \in DOMAIN toClient
          /\ Head(toClient).type = t
          /\ toClient' = Tail(toClient) /\ toClient' \in Seq(Message)
          /\ UNCHANGED <<page, ws, attempts, toServer, drops, notes, In, Out, stored, job, reading>>
  <1>1. toClient \in Seq(Message) /\ toClient # <<>>
    BY DEF Receive, TypeOK
  <1> QED BY <1>1, TailSeq DEF Receive, uploads

LEMMA Read ==
    ASSUME TypeOK, NEW t, Reads(t)
    PROVE /\ toServer \in Seq(Message) /\ toServer # <<>> /\ ws = "open"
          /\ Head(toServer) \in Message /\ Head(toServer) = toServer[1] /\ 1 \in DOMAIN toServer
          /\ Head(toServer).type = t
          /\ Tail(toServer) \in Seq(Message)
  <1>1. toServer \in Seq(Message) /\ toServer # <<>>
    BY DEF Reads, TypeOK
  <1> QED BY <1>1, TailSeq DEF Reads


\* The messages each handler sends
LEMMA SendShapes ==
    ASSUME TypeOK
    PROVE /\ Query => \E m \in Message : m.type = "sql" /\ Send(<<m>>)
          /\ Common => \E m \in Message : m.type = "common" /\ Send(<<m>>)
          /\ \A e \in Element : Click(e) =>
               \E m \in Message : m.type = "notes" /\ m.id = e /\ NamesKey(m) /\ Send(<<m>>)
          /\ SaveNotes => \E m \in Message : m.type = "notes-save" /\ NamesKey(m) /\ Send(<<m>>)
  <1>1. /\ Plain("sql") \in Message /\ Plain("sql").type = "sql"
        /\ Plain("common") \in Message /\ Plain("common").type = "common"
    BY PlainMessage DEF Kind
  <1>2. ASSUME NEW e \in Element, Click(e)
        PROVE \E m \in Message : m.type = "notes" /\ m.id = e /\ NamesKey(m) /\ Send(<<m>>)
    <2> DEFINE m == [Plain("notes") EXCEPT !.id = e]
    <2>1. m \in Message /\ m.type = "notes" /\ m.id = e /\ e \in Key
      BY AskMessage, ConnectionAssumption
    <2>2. Send(<<m>>)
      BY <1>2 DEF Click
    <2> HIDE DEF m
    <2> QED BY <2>1, <2>2 DEF NamesKey
  <1>3. ASSUME SaveNotes
        PROVE \E m \in Message : m.type = "notes-save" /\ NamesKey(m) /\ Send(<<m>>)
    <2> DEFINE m == [Plain("notes-save") EXCEPT !.id = EncodeURI[dataId], !.text = field]
    <2>1. EncodeURI[dataId] \in Key /\ field \in Text \cup {NoText}
      BY <1>3, ConnectionAssumption DEF SaveNotes, TypeOK
    <2>2. Send(<<m>>)
      BY <1>3 DEF SaveNotes
    <2>3. PICK k \in Key, x \in Text \cup {NoText} : k = EncodeURI[dataId] /\ x = field
      BY <2>1
    <2>4. m \in Message /\ m.type = "notes-save" /\ m.id = k
      <3>1. m = [[Plain("notes-save") EXCEPT !.id = k] EXCEPT !.text = x]
        BY <2>3
      <3>2. [Plain("notes-save") EXCEPT !.id = k]
              = [type |-> "notes-save", id |-> k, text |-> NoText, files |-> {}, done |-> {}]
        BY DEF Plain
      <3>3. [[type |-> "notes-save", id |-> k, text |-> NoText, files |-> {}, done |-> {}]
               EXCEPT !.text = x]
              = [type |-> "notes-save", id |-> k, text |-> x, files |-> {}, done |-> {}]
        OBVIOUS
      <3> HIDE DEF m
      <3>4. m = [type |-> "notes-save", id |-> k, text |-> x, files |-> {}, done |-> {}]
        BY <3>1, <3>2, <3>3
      <3>5. "notes-save" \in Kind
        BY DEF Kind
      <3> QED BY <3>4, <3>5 DEF Message
    <2> HIDE DEF m
    <2> QED BY <2>1, <2>2, <2>4 DEF NamesKey
  <1> QED BY <1>1, <1>2, <1>3 DEF Query, Common

\* The answers of the server
LEMMA ServeShapes ==
    ASSUME TypeOK, MessagesInv
    PROVE /\ ServeQuery => \E m \in Message : m.type \in {"results", "error"} /\ Answered(m)
          /\ ServeCommon => \E m \in Message : m.type = "common" /\ Answered(m)
          /\ ServeNotes => \E m \in Message :
               /\ \/ m.type = "notes" /\ m.text = notes[Head(toServer).id]
                  \/ m.type = "notes-error"
               /\ Answered(m)
          /\ ServeSave => \E m \in Message : m.type \in {"notes-set", "notes-error"} /\ Answered(m)
          /\ SendLists => \E m \in Message :
               /\ m.type = "upload-lists" /\ m.files = reading /\ m.done = Out
               /\ Answered(m)
  <1>1. \A t \in Kind : Plain(t) \in Message /\ Plain(t).type = t
    BY PlainMessage
  <1>2. {"results", "error", "common", "notes-set", "notes-error", "upload-lists"} \subseteq Kind
    BY DEF Kind
  <1>3. ASSUME ServeNotes
        PROVE \E m \in Message :
                 /\ \/ m.type = "notes" /\ m.text = notes[Head(toServer).id]
                    \/ m.type = "notes-error"
                 /\ Answered(m)
    <2> DEFINE m == [Plain("notes") EXCEPT !.text = notes[Head(toServer).id]]
    <2>1. m \in Message /\ m.type = "notes" /\ m.text = notes[Head(toServer).id]
      <3>1. NamesKey(Head(toServer)) /\ Head(toServer).type = "notes"
        BY <1>3, Read DEF ServeNotes, MessagesInv
      <3>2. notes[Head(toServer).id] \in Text \cup {NoText}
        BY <3>1 DEF NamesKey, TypeOK
      <3> QED BY <3>2, AnswerMessage
    <2>2. Answered(m) \/ Answered(Plain("notes-error"))
      BY <1>3 DEF ServeNotes
    <2> HIDE DEF m
    <2> QED BY <1>1, <1>2, <2>1, <2>2
  <1>4. ASSUME SendLists
        PROVE \E m \in Message : /\ m.type = "upload-lists" /\ m.files = reading /\ m.done = Out
                                 /\ Answered(m)
    <2> DEFINE m == [Plain("upload-lists") EXCEPT !.files = reading, !.done = Out]
    <2>1. reading \in SUBSET File /\ Out \in SUBSET File
      BY <1>4 DEF SendLists, TypeOK
    <2>2. Answered(m)
      BY <1>4 DEF SendLists
    <2>3. \A fs, ds \in SUBSET File :
             LET n == [Plain("upload-lists") EXCEPT !.files = fs, !.done = ds] IN
             n \in Message /\ n.type = "upload-lists" /\ n.files = fs /\ n.done = ds
      BY ListsMessage
    <2>4. m \in Message /\ m.type = "upload-lists" /\ m.files = reading /\ m.done = Out
      BY <2>1, <2>3, Zenon
    <2> HIDE DEF m
    <2> QED BY <2>2, <2>4
  <1>5. ServeQuery => \E m \in Message : m.type \in {"results", "error"} /\ Answered(m)
    BY <1>1, <1>2 DEF ServeQuery
  <1>6. ServeCommon => \E m \in Message : m.type = "common" /\ Answered(m)
    BY <1>1, <1>2 DEF ServeCommon
  <1>7. ServeSave => \E m \in Message : m.type \in {"notes-set", "notes-error"} /\ Answered(m)
    BY <1>1, <1>2 DEF ServeSave
  <1> QED BY <1>3, <1>4, <1>5, <1>6, <1>7

\* The messages of an upload's job
LEMMA TellShapes ==
    ASSUME NEW f \in File
    PROVE /\ TellUploaded(f) => \E m \in Message :
               m.type = "uploaded" /\ m.files = {f} /\ m.done = {} /\ toClient' = Append(toClient, m)
          /\ Process(f) => \E m \in Message :
               /\ m.type \in {"upload-processed", "notification"} /\ m.files = {f}
               /\ toClient' = Append(toClient, m)
  <1>1. \A t \in Kind : LET m == [Plain(t) EXCEPT !.files = {f}] IN
           m \in Message /\ m.type = t /\ m.files = {f} /\ m.done = {}
    BY FileMessage
  <1>2. {"uploaded", "upload-processed", "notification"} \subseteq Kind
    BY DEF Kind
  <1>3. \A t \in {"uploaded", "upload-processed", "notification"} : Tell(t, f) =>
           \E m \in Message : m.type = t /\ m.files = {f} /\ m.done = {} /\ toClient' = Append(toClient, m)
    BY <1>1, <1>2 DEF Tell
  <1> QED BY <1>3 DEF TellUploaded, Process

-----------------------------------------------------------------------------
(* Searches.                                                               *)
LEMMA SearchesNat == ASSUME TypeOK PROVE Searches \in Nat
  <1>1. Count(toServer, "sql") \in Nat /\ Count(toClient, "results") \in Nat
    BY CountNat DEF TypeOK
  <1> QED BY <1>1 DEF Searches

LEMMA SearchesSend ==
    ASSUME TypeOK, NEW m \in Message, Send(<<m>>), toClient' = toClient
    PROVE Searches' <= Searches + 1 /\ Searches' \in Nat /\ (m.type # "sql" => Searches' = Searches)
  <1>1. toServer \in Seq(Message) /\ toClient \in Seq(Message)
    BY DEF TypeOK
  <1>2. Count(toServer, "sql") \in Nat /\ Count(toClient, "results") \in Nat
    BY <1>1, CountNat
  <1>3. Count(Append(toServer, m), "sql") = Count(toServer, "sql") + (IF m.type = "sql" THEN 1 ELSE 0)
    BY <1>1, CountAppend
  <1>4. toServer' = Append(toServer, m) \/ toServer' = toServer
    BY <1>1, SendOne
  <1>5. Searches = Count(toServer, "sql") + Count(toClient, "results")
    BY DEF Searches
  <1>6. Searches' = Count(toServer', "sql") + Count(toClient, "results")
    BY DEF Searches
  <1>7. CASE toServer' = toServer
    BY <1>2, <1>5, <1>6, <1>7
  <1>8. CASE toServer' = Append(toServer, m)
    <2>1. Count(toServer', "sql") = Count(toServer, "sql") + (IF m.type = "sql" THEN 1 ELSE 0)
      BY <1>3, <1>8
    <2> QED BY <1>2, <1>5, <1>6, <2>1
  <1> QED BY <1>4, <1>7, <1>8

LEMMA SearchesAnswered ==
    ASSUME TypeOK, toServer # <<>>, NEW m \in Message, Answered(m),
           m.type = "results" => Head(toServer).type = "sql"
    PROVE Searches' <= Searches /\ Searches' \in Nat
  <1>1. toServer \in Seq(Message) /\ toClient \in Seq(Message) /\ Tail(toServer) \in Seq(Message)
    BY TailSeq DEF TypeOK
  <1>2. /\ Count(toServer, "sql") \in Nat /\ Count(toClient, "results") \in Nat
        /\ Count(Tail(toServer), "sql") \in Nat
    BY <1>1, CountNat
  <1>3. Count(toServer, "sql") = Count(Tail(toServer), "sql")
                                   + (IF Head(toServer).type = "sql" THEN 1 ELSE 0)
    BY <1>1, CountTail
  <1>4. Count(Append(toClient, m), "results") = Count(toClient, "results")
                                                  + (IF m.type = "results" THEN 1 ELSE 0)
    BY <1>1, CountAppend
  <1>5. toServer' = Tail(toServer) /\ toClient' = Append(toClient, m)
    BY DEF Answered
  <1> QED BY <1>2, <1>3, <1>4, <1>5 DEF Searches

LEMMA SearchesTold ==
    ASSUME TypeOK, NEW m \in Message, m.type # "results",
           toClient' = Append(toClient, m), toServer' = toServer
    PROVE Searches' = Searches
  <1>1. toClient \in Seq(Message)
    BY DEF TypeOK
  <1>2. Count(toClient, "results") \in Nat
    BY <1>1, CountNat
  <1>3. Count(Append(toClient, m), "results") = Count(toClient, "results")
    BY <1>1, <1>2, CountAppend
  <1> QED BY <1>3 DEF Searches

LEMMA SearchesReceived ==
    ASSUME TypeOK, NEW t, Receive(t)
    PROVE /\ Searches' \in Nat
          /\ t = "results" => Searches' = Searches - 1
          /\ t # "results" => Searches' = Searches
  <1>1. toClient \in Seq(Message) /\ toClient # <<>> /\ toServer' = toServer
        /\ toServer \in Seq(Message) /\ Head(toClient).type = t
        /\ toClient' = Tail(toClient) /\ Tail(toClient) \in Seq(Message)
    BY Received DEF TypeOK
  <1>2. Count(Tail(toClient), "results") \in Nat /\ Count(toServer, "sql") \in Nat
    BY <1>1, CountNat
  <1>3. Count(toClient, "results") = Count(Tail(toClient), "results")
                                       + (IF Head(toClient).type = "results" THEN 1 ELSE 0)
    BY <1>1, CountTail
  <1>4. Searches = Count(toServer, "sql") + Count(toClient, "results")
    BY DEF Searches
  <1>5. Searches' = Count(toServer, "sql") + Count(Tail(toClient), "results")
    BY <1>1 DEF Searches
  <1> QED BY <1>1, <1>2, <1>3, <1>4, <1>5

LEMMA JobsStep == ASSUME IInv, [Next]_vars PROVE JobsCoverSearches'
  <1>1. TypeOK /\ Searches \in Nat /\ Searches <= jobs /\ jobs \in Nat
    BY SearchesNat DEF IInv, JobsCoverSearches, TypeOK
  <1>2. ASSUME Aside \/ UNCHANGED vars PROVE JobsCoverSearches'
    BY <1>1, <1>2, AsideWire DEF JobsCoverSearches, Searches
  <1>3. CASE OnOpen
    <2>1. toServer = <<>> /\ toClient = <<>> /\ toClient' = <<>>
      BY <1>3 DEF OnOpen, IInv, OfflineInv
    <2>2. Count(toClient', "results") = 0 /\ Count(<<>>, "sql") = 0
      BY <2>1, CountEmpty
    <2>3. Count(<<Plain("upload-lists")>>, "sql") = 0
      <3>1. Plain("upload-lists") \in Message /\ Plain("upload-lists").type = "upload-lists"
        BY PlainMessage DEF Kind
      <3>2. \A m : <<>> \in Seq(Message) /\ Append(<<>>, m) = <<m>>
        OBVIOUS
      <3> HIDE DEF Plain
      <3>3. Count(Append(<<>>, Plain("upload-lists")), "sql") = Count(<<>>, "sql") + 0
        BY <3>1, <3>2, CountAppend
      <3> QED BY <2>2, <3>2, <3>3
    <2>4. CASE First /\ Restored > 0
      BY <1>1, <1>3, <2>2, <2>4, RestoredSeq, ConnectionAssumption
         DEF OnOpen, JobsCoverSearches, Searches
    <2>5. CASE ~(First /\ Restored > 0)
      BY <1>1, <1>3, <2>2, <2>3, <2>5 DEF OnOpen, JobsCoverSearches, Searches
    <2> QED BY <2>4, <2>5
  <1>4. CASE OnClose
    BY <1>1, <1>4, CountEmpty DEF OnClose, JobsCoverSearches, Searches
  <1>5. CASE Query
    <2>1. PICK m \in Message : Send(<<m>>)
      BY <1>1, <1>5, SendShapes
    <2>2. toClient' = toClient /\ jobs' = jobs + 1
      BY <1>5 DEF Query
    <2>3. Searches' <= Searches + 1 /\ Searches' \in Nat
      BY <1>1, <2>1, <2>2, SearchesSend
    <2> QED BY <1>1, <2>2, <2>3 DEF JobsCoverSearches
  <1>6. ASSUME NEW m \in Message, m.type # "sql", Send(<<m>>), toClient' = toClient, jobs' = jobs
        PROVE JobsCoverSearches'
    <2>1. Searches' = Searches
      BY <1>1, <1>6, SearchesSend
    <2> QED BY <1>1, <1>6, <2>1 DEF JobsCoverSearches
  <1>7. CASE Common
    <2>1. toClient' = toClient /\ jobs' = jobs
      BY <1>7 DEF Common
    <2> QED BY <1>1, <1>6, <1>7, <2>1, SendShapes
  <1>8. ASSUME NEW e \in Element, Click(e) PROVE JobsCoverSearches'
    <2>1. toClient' = toClient /\ jobs' = jobs
      BY <1>8 DEF Click, search
    <2> QED BY <1>1, <1>6, <1>8, <2>1, SendShapes
  <1>9. CASE SaveNotes
    <2>1. toClient' = toClient /\ jobs' = jobs
      BY <1>9 DEF SaveNotes, search
    <2> QED BY <1>1, <1>6, <1>9, <2>1, SendShapes
  <1>10. ASSUME NEW m \in Message, toServer # <<>>, Answered(m), jobs' = jobs,
                m.type = "results" => Head(toServer).type = "sql"
         PROVE JobsCoverSearches'
    <2>1. Searches' <= Searches /\ Searches' \in Nat
      BY <1>1, <1>10, SearchesAnswered
    <2> QED BY <1>1, <1>10, <2>1 DEF JobsCoverSearches
  <1>11. CASE ServeQuery
    <2>1. toServer # <<>> /\ Head(toServer).type = "sql" /\ jobs' = jobs
      BY <1>11 DEF ServeQuery, Reads, search
    <2> QED BY <1>1, <1>10, <1>11, <2>1, ServeShapes DEF IInv
  <1>12. CASE ServeCommon \/ ServeNotes \/ ServeSave \/ SendLists
    <2>1. toServer # <<>> /\ jobs' = jobs
      BY <1>12 DEF ServeCommon, ServeNotes, ServeSave, SendLists, Reads, search
    <2>2. \E m \in Message : m.type # "results" /\ Answered(m)
      BY <1>1, <1>12, ServeShapes DEF IInv
    <2> QED BY <1>10, <2>1, <2>2
  <1>13. ASSUME NEW f \in File, TellUploaded(f) \/ Process(f) PROVE JobsCoverSearches'
    <2>1. PICK m \in Message : m.type # "results" /\ toClient' = Append(toClient, m)
      BY <1>13, TellShapes
    <2>2. toServer' = toServer /\ jobs' = jobs
      BY <1>13 DEF TellUploaded, Process, Step, search
    <2>3. Searches' = Searches
      BY <1>1, <2>1, <2>2, SearchesTold
    <2> QED BY <1>1, <2>2, <2>3 DEF JobsCoverSearches
  <1>14. CASE OnResults
    <2>1. Searches' = Searches - 1
      BY <1>1, <1>14, SearchesReceived DEF OnResults
    <2> QED BY <1>1, <1>14, <2>1 DEF OnResults, JobsCoverSearches
  <1>15. ASSUME NEW t, Receive(t), t # "results", jobs' = jobs PROVE JobsCoverSearches'
    <2>1. Searches' = Searches
      BY <1>1, <1>15, SearchesReceived
    <2> QED BY <1>1, <1>15, <2>1 DEF JobsCoverSearches
  <1>16. CASE OnCommon \/ OnError \/ OnNotes \/ OnSaved \/ OnLists \/ OnUploaded \/ OnProcessed
    BY <1>15, <1>16 DEF OnCommon, OnError, OnNotes, OnSaved, OnLists, OnUploaded, OnProcessed, search
  <1> QED
    BY <1>2, <1>3, <1>4, <1>5, <1>7, <1>8, <1>9, <1>11, <1>12, <1>13, <1>14, <1>16
       DEF Next, Serve, OnMessage, Aside

-----------------------------------------------------------------------------
(* The connection and the messages.                                        *)
LEMMA ConnectionKept ==
    ASSUME [Next]_vars
    PROVE /\ page' = page
          /\ OnOpen \/ OnClose \/ Reconnect \/ UNCHANGED <<ws, attempts, drops>>
  <1>1. OnOpen \/ OnClose \/ Reconnect => page' = page
    BY DEF OnOpen, OnClose, Reconnect
  <1>2. Query \/ Common \/ (\E e \in Element : Click(e)) \/ ClickCanvas \/ (\E t \in Text : Type(t))
          \/ SaveNotes => UNCHANGED <<page, ws, attempts, drops>>
    BY DEF Query, Common, Click, ClickCanvas, Type, SaveNotes, wire
  <1>3. Serve => UNCHANGED <<page, ws, attempts, drops>>
    BY DEF Serve, ServeQuery, ServeCommon, ServeNotes, ServeSave, ReadQueue, SendLists, wire
  <1>4. (\E f \in File : \/ Accept(f) \/ TellUploaded(f) \/ Process(f) \/ LeaveQueue(f)
                         \/ AddToDownloads(f) \/ Settle(f))
          => UNCHANGED <<page, ws, attempts, drops>>
    BY DEF Accept, TellUploaded, Process, LeaveQueue, AddToDownloads, Settle, Step, wire
  <1>5. OnMessage => UNCHANGED <<page, ws, attempts, drops>>
    BY DEF OnMessage, OnResults, OnCommon, OnError, OnNotes, OnSaved, OnLists, OnUploaded,
           OnProcessed, Receive
  <1>6. UNCHANGED vars => UNCHANGED <<page, ws, attempts, drops>>
    BY DEF vars, wire
  <1> QED BY <1>1, <1>2, <1>3, <1>4, <1>5, <1>6 DEF Next

LEMMA WireStep ==
    ASSUME TypeOK, MessagesInv, [Next]_vars
    PROVE /\ \/ OnOpen \/ toServer' \in {toServer, <<>>}
             \/ ws = "open" /\ toServer # <<>> /\ toServer' = Tail(toServer)
             \/ ws = "open" /\ \E m \in Message : NamesKey(m) /\ toServer' = Append(toServer, m)
          /\ \/ toClient' \in {toClient, <<>>}
             \/ ws = "open" /\ toClient # <<>> /\ toClient' = Tail(toClient)
             \/ ws = "open" /\ \E m \in Message : NamesFile(m) /\ toClient' = Append(toClient, m)
  <1> DEFINE S == \/ OnOpen \/ toServer' \in {toServer, <<>>}
                  \/ ws = "open" /\ toServer # <<>> /\ toServer' = Tail(toServer)
                  \/ ws = "open" /\ \E m \in Message : NamesKey(m) /\ toServer' = Append(toServer, m)
             C == \/ toClient' \in {toClient, <<>>}
                  \/ ws = "open" /\ toClient # <<>> /\ toClient' = Tail(toClient)
                  \/ ws = "open" /\ \E m \in Message : NamesFile(m) /\ toClient' = Append(toClient, m)
  <1>1. ASSUME Aside \/ UNCHANGED vars PROVE S /\ C
    BY <1>1, AsideWire
  <1>2. ASSUME OnOpen \/ OnClose PROVE S /\ C
    BY <1>2 DEF OnOpen, OnClose
  <1>3. ASSUME Query \/ Common \/ SaveNotes \/ (\E e \in Element : Click(e)) PROVE S /\ C
    <2>1. toServer \in Seq(Message)
      BY DEF TypeOK
    <2>2. PICK m \in Message : NamesKey(m) /\ Send(<<m>>)
      BY <1>3, SendShapes DEF NamesKey
    <2>3. \/ ws = "open" /\ toServer' = Append(toServer, m)
          \/ toServer' = toServer
      BY <2>1, <2>2, SendOne
    <2>4. toClient' = toClient
      BY <1>3 DEF Query, Common, SaveNotes, Click
    <2> QED BY <2>2, <2>3, <2>4
  <1>4. ASSUME Serve PROVE S /\ C
    <2>1. CASE ReadQueue
      BY <1>1, <2>1 DEF Aside
    <2>2. CASE ~ReadQueue
      <3>1. ServeQuery \/ ServeCommon \/ ServeNotes \/ ServeSave \/ SendLists
        BY <1>4, <2>2 DEF Serve
      <3>2. PICK m \in Message : NamesFile(m) /\ Answered(m)
        BY <3>1, ServeShapes DEF NamesFile
      <3>3. ws = "open" /\ toServer # <<>>
        BY <3>1 DEF ServeQuery, ServeCommon, ServeNotes, ServeSave, SendLists, Reads
      <3> QED BY <3>2, <3>3 DEF Answered
    <2> QED BY <2>1, <2>2
  <1>5. ASSUME NEW f \in File, TellUploaded(f) \/ Process(f) PROVE S /\ C
    <2>1. PICK m \in Message : NamesFile(m) /\ toClient' = Append(toClient, m)
      BY <1>5, TellShapes DEF NamesFile
    <2>2. toServer' = toServer /\ ws = "open"
      BY <1>5 DEF TellUploaded, Process, Step
    <2> QED BY <2>1, <2>2
  <1>6. ASSUME NEW t, Receive(t) PROVE S /\ C
    BY <1>6 DEF Receive
  <1>7. OnMessage => \E t : Receive(t)
    BY DEF OnMessage, OnResults, OnCommon, OnError, OnNotes, OnSaved, OnLists, OnUploaded, OnProcessed
  <1> HIDE DEF S, C
  <1>8. S /\ C
    <2>1. OnMessage => S /\ C
      BY <1>6, <1>7
    <2>2. \A f \in File : TellUploaded(f) \/ Process(f) => S /\ C
      BY <1>5
    <2>3. CASE Next
      <3>1. \/ OnOpen \/ OnClose \/ Serve \/ OnMessage \/ Aside
            \/ Query \/ Common \/ SaveNotes \/ (\E e \in Element : Click(e))
            \/ \E f \in File : TellUploaded(f) \/ Process(f)
        BY <2>3 DEF Next, Aside
      <3> QED BY <1>1, <1>2, <1>3, <1>4, <2>1, <2>2, <3>1
    <2> QED BY <1>1, <2>3
  <1> QED BY <1>8 DEF S, C

LEMMA MessagesStep ==
    ASSUME IInv, [Next]_vars
    PROVE toServer' \in Seq(Message) /\ toClient' \in Seq(Message) /\ MessagesInv'
  <1>1. /\ toServer \in Seq(Message) /\ toClient \in Seq(Message) /\ TypeOK /\ MessagesInv
        /\ \A i \in DOMAIN toServer : NamesKey(toServer[i])
        /\ \A i \in DOMAIN toClient : NamesFile(toClient[i])
    BY DEF IInv, TypeOK, MessagesInv
  <1>2. toServer' \in Seq(Message) /\ \A i \in DOMAIN toServer' : NamesKey(toServer'[i])
    <2>1. CASE toServer' = toServer
      BY <1>1, <2>1
    <2>2. CASE toServer' = <<>>
      BY <2>2
    <2>3. CASE toServer # <<>> /\ toServer' = Tail(toServer)
      BY <1>1, <2>3, TailSeq
    <2>4. ASSUME NEW m \in Message, NamesKey(m), toServer' = Append(toServer, m)
          PROVE toServer' \in Seq(Message) /\ \A i \in DOMAIN toServer' : NamesKey(toServer'[i])
      BY <1>1, <2>4, AppendSeq
    <2>5. CASE OnOpen
      <3>1. /\ Plain("sql") \in Message /\ Plain("sql").type = "sql"
            /\ Plain("upload-lists") \in Message /\ Plain("upload-lists").type = "upload-lists"
        BY PlainMessage DEF Kind
      <3>2. NamesKey(Plain("sql")) /\ NamesKey(Plain("upload-lists"))
        BY <3>1 DEF NamesKey
      <3>3. CASE First /\ Restored > 0
        BY <2>5, <3>2, <3>3, RestoredSeq DEF OnOpen
      <3>4. CASE ~(First /\ Restored > 0)
        <4>1. toServer' = <<>> \/ toServer' = <<Plain("upload-lists")>>
          BY <2>5, <3>4 DEF OnOpen
        <4>2. ASSUME NEW m \in Message, NamesKey(m), toServer' = <<m>>
              PROVE toServer' \in Seq(Message) /\ \A i \in DOMAIN toServer' : NamesKey(toServer'[i])
          BY <4>2
        <4> QED BY <2>2, <3>1, <3>2, <4>1, <4>2
      <3> QED BY <3>3, <3>4
    <2> QED BY <1>1, <2>1, <2>2, <2>3, <2>4, <2>5, WireStep
  <1>3. toClient' \in Seq(Message) /\ \A i \in DOMAIN toClient' : NamesFile(toClient'[i])
    <2>1. CASE toClient' = toClient
      BY <1>1, <2>1
    <2>2. CASE toClient' = <<>>
      BY <2>2
    <2>3. CASE toClient # <<>> /\ toClient' = Tail(toClient)
      BY <1>1, <2>3, TailSeq
    <2>4. ASSUME NEW m \in Message, NamesFile(m), toClient' = Append(toClient, m)
          PROVE toClient' \in Seq(Message) /\ \A i \in DOMAIN toClient' : NamesFile(toClient'[i])
      BY <1>1, <2>4, AppendSeq
    <2> QED BY <1>1, <2>1, <2>2, <2>3, <2>4, WireStep
  <1> QED BY <1>2, <1>3 DEF MessagesInv

LEMMA OfflineStep == ASSUME IInv, [Next]_vars PROVE OfflineInv'
  <1> SUFFICES ASSUME ws' # "open"
               PROVE /\ toServer' = <<>> /\ toClient' = <<>> /\ reading' = NoLists
                     /\ \A f \in File : ~Working(f)'
    BY DEF OfflineInv
  <1>1. CASE OnClose
    <2>1. \A f \in File : job'[f] = IF Working(f) THEN "lost" ELSE job[f]
      BY <1>1 DEF OnClose
    <2>2. \A f \in File : ~Working(f)'
      BY <2>1 DEF Working
    <2> QED BY <1>1, <2>2 DEF OnClose
  <1>2. ~OnOpen
    BY DEF OnOpen
  <1>3. CASE ~OnClose
    <2>1. ws # "open"
      BY <1>2, <1>3, ConnectionKept DEF Reconnect
    <2>2. toServer = <<>> /\ toClient = <<>> /\ reading = NoLists /\ \A f \in File : ~Working(f)
      BY <2>1 DEF IInv, OfflineInv
    <2>3. toServer' = <<>> /\ toClient' = <<>>
      BY <1>2, <2>1, <2>2, WireStep DEF IInv
    <2>4. UNCHANGED <<reading, job>> \/ \E f \in File : Settle(f)
      <3>1. ~Serve /\ ~OnMessage
        BY <2>1 DEF Serve, ServeQuery, ServeCommon, ServeNotes, ServeSave, ReadQueue, SendLists, Reads,
              OnMessage, OnResults, OnCommon, OnError, OnNotes, OnSaved, OnLists, OnUploaded,
              OnProcessed, Receive
      <3>2. \A f \in File : ~Accept(f) /\ ~TellUploaded(f) /\ ~Process(f) /\ ~LeaveQueue(f)
                              /\ ~AddToDownloads(f)
        BY <2>1 DEF Accept, TellUploaded, Process, LeaveQueue, AddToDownloads, Step
      <3>3. Reconnect \/ Query \/ Common \/ (\E e \in Element : Click(e)) \/ ClickCanvas
              \/ (\E t \in Text : Type(t)) \/ SaveNotes \/ UNCHANGED vars
              => UNCHANGED <<reading, job>>
        BY DEF Reconnect, Query, Common, Click, ClickCanvas, Type, SaveNotes, vars, uploads
      <3> QED BY <1>2, <1>3, <3>1, <3>2, <3>3 DEF Next
    <2>5. ASSUME NEW f \in File, Settle(f) PROVE reading' = NoLists /\ \A g \in File : ~Working(g)'
      <3>1. job \in [File -> {"none", "accepted", "queued", "processed", "left", "done", "lost"}]
        BY DEF IInv, TypeOK
      <3>2. \A g \in File : job'[g] = IF g = f THEN "done" ELSE job[g]
        BY <2>5, <3>1 DEF Settle
      <3> QED BY <2>2, <2>5, <3>2 DEF Settle, Working
    <2>6. UNCHANGED <<reading, job>> => reading' = NoLists /\ \A g \in File : ~Working(g)'
      BY <2>2 DEF Working
    <2> QED BY <2>3, <2>4, <2>5, <2>6
  <1> QED BY <1>1, <1>3

LEMMA RetryStep == ASSUME IInv, [Next]_vars PROVE RetryInv'
  <1>1. OnOpen \/ OnClose \/ Reconnect => RetryInv'
    BY DEF OnOpen, OnClose, Reconnect, RetryInv
  <1>2. UNCHANGED <<ws, attempts>> => RetryInv'
    BY DEF IInv, RetryInv
  <1> QED BY <1>1, <1>2, ConnectionKept

LEMMA LockedStep == ASSUME IInv, [Next]_vars PROVE LockedOffline'
  <1> SUFFICES ASSUME page' = "search", ws' # "open" PROVE "disabled" \in button'
    BY DEF LockedOffline
  <1>1. CASE OnClose
    BY <1>1 DEF OnClose
  <1>2. CASE ~OnClose
    <2>1. ~OnOpen
      BY DEF OnOpen
    <2>2. page = "search" /\ ws # "open" /\ "disabled" \in button
      BY <1>2, <2>1, ConnectionKept DEF Reconnect, IInv, LockedOffline
    <2>3. Query \/ Common => "disabled" \in button'
      BY <2>2 DEF Query, Common, Busy
    <2>4. ~OnMessage
      BY <2>2 DEF OnMessage, OnResults, OnCommon, OnError, OnNotes, OnSaved, OnLists, OnUploaded,
                  OnProcessed, Receive
    <2>5. \/ Reconnect \/ (\E e \in Element : Click(e)) \/ ClickCanvas \/ (\E t \in Text : Type(t))
          \/ SaveNotes \/ Serve
          \/ \E f \in File : \/ Accept(f) \/ TellUploaded(f) \/ Process(f) \/ LeaveQueue(f)
                             \/ AddToDownloads(f) \/ Settle(f)
          \/ UNCHANGED vars
          => button' = button
      BY DEF Reconnect, Click, ClickCanvas, Type, SaveNotes, Serve, ServeQuery, ServeCommon,
             ServeNotes, ServeSave, ReadQueue, SendLists, Accept, TellUploaded, Process, LeaveQueue,
             AddToDownloads, Settle, Step, search, vars
    <2> QED BY <1>2, <2>1, <2>2, <2>3, <2>4, <2>5 DEF Next
  <1> QED BY <1>1, <1>2

-----------------------------------------------------------------------------
(* The lists of the profile page.                                          *)
LEMMA ProfileKept ==
    ASSUME [Next]_vars, ~OnLists, ~OnUploaded, ~OnProcessed
    PROVE UNCHANGED profile
  <1>1. OnOpen \/ OnClose \/ Query \/ Common \/ SaveNotes \/ (\E e \in Element : Click(e))
          => UNCHANGED profile
    BY DEF OnOpen, OnClose, Query, Common, SaveNotes, Click
  <1>2. Aside \/ UNCHANGED vars => UNCHANGED profile
    BY AsideWire
  <1>3. Serve => UNCHANGED profile
    BY <1>2 DEF Serve, Aside, ServeQuery, ServeCommon, ServeNotes, ServeSave, SendLists
  <1>4. (\E f \in File : TellUploaded(f)) \/ (\E f \in File : Process(f)) => UNCHANGED profile
    BY DEF TellUploaded, Process, Step
  <1>5. OnMessage => UNCHANGED profile
    BY DEF OnMessage, OnResults, OnCommon, OnError, OnNotes, OnSaved
  <1> QED BY <1>1, <1>2, <1>3, <1>4, <1>5 DEF Next, Aside

LEMMA QueueStep ==
    ASSUME IInv, [Next]_vars
    PROVE /\ queue' \in [File -> Nat] /\ downloads' \in [File -> Nat]
          /\ queueN' \in Nat /\ header' \in BOOLEAN /\ QueueInv'
  <1> DEFINE Goal == /\ queue' \in [File -> Nat] /\ downloads' \in [File -> Nat]
                     /\ queueN' \in Nat /\ header' \in BOOLEAN /\ QueueInv'
             m == Head(toClient)
  <1>1. /\ queue \in [File -> Nat] /\ downloads \in [File -> Nat]
        /\ queueN \in Nat /\ header \in BOOLEAN
        /\ IsFiniteSet(Entries(queue)) /\ queueN = Cardinality(Entries(queue))
        /\ header <=> queueN > 0
        /\ TypeOK /\ MessagesInv
    BY DEF IInv, TypeOK, QueueInv, QueueIsCounted
  <1>2. ASSUME UNCHANGED profile PROVE Goal
    BY <1>1, <1>2 DEF profile, QueueInv, QueueIsCounted
  <1>3. \A fs \in SUBSET File : More(downloads, fs) \in [File -> Nat]
    BY <1>1 DEF More
  <1>4. ASSUME OnLists PROVE Goal
    <2>1. m.files \in SUBSET File /\ m.done \in SUBSET File
      BY <1>1, <1>4, Received DEF OnLists, Message
    <2>2. PICK fs \in SUBSET File : fs = m.files
      BY <2>1
    <2>3. /\ queue' = More(queue, fs) /\ queueN' = queueN + Cardinality(fs)
          /\ header' = (header \/ fs # {}) /\ downloads' = More(downloads, m.done)
      BY <1>4, <2>2 DEF OnLists
    <2>4. /\ queue' \in [File -> Nat] /\ IsFiniteSet(Entries(queue')) /\ Cardinality(fs) \in Nat
          /\ Cardinality(Entries(queue')) = queueN + Cardinality(fs)
      BY <1>1, <2>3, MoreEntries
    <2>5. Cardinality(fs) > 0 <=> fs # {}
      <3>1. IsFiniteSet(fs)
        BY ConnectionAssumption, FS_Subset
      <3> QED BY <2>4, <3>1, FS_EmptySet
    <2>6. header' <=> queueN' > 0
      <3>1. queueN' > 0 <=> queueN > 0 \/ fs # {}
        BY <1>1, <2>3, <2>4, <2>5
      <3>2. header' = (header \/ fs # {})
        BY <2>3
      <3> QED BY <1>1, <3>1, <3>2, Zenon
    <2>7. QueueInv'
      BY <2>3, <2>4, <2>6 DEF QueueInv, QueueIsCounted, Entries
    <2> QED BY <1>1, <1>3, <2>1, <2>3, <2>4, <2>7
  <1>5. ASSUME OnUploaded PROVE Goal
    <2>1. m.type = "uploaded" /\ NamesFile(m)
      BY <1>1, <1>5, Received DEF OnUploaded, MessagesInv
    <2>2. PICK f \in File : m.files = {f}
      BY <2>1 DEF NamesFile
    <2>3. queue' = More(queue, {f}) /\ queueN' = queueN + 1 /\ header' = TRUE /\ downloads' = downloads
      BY <1>5, <2>2 DEF OnUploaded
    <2>4. Cardinality({f}) = 1
      BY FS_Singleton
    <2>5. /\ queue' \in [File -> Nat] /\ IsFiniteSet(Entries(queue'))
          /\ Cardinality(Entries(queue')) = queueN + 1
      BY <1>1, <2>3, <2>4, MoreEntries
    <2>6. QueueInv'
      BY <1>1, <2>3, <2>5 DEF QueueInv, QueueIsCounted, Entries
    <2> QED BY <1>1, <2>3, <2>5, <2>6
  <1>6. ASSUME OnProcessed PROVE Goal
    <2>1. m.type = "upload-processed" /\ NamesFile(m)
      BY <1>1, <1>6, Received DEF OnProcessed, MessagesInv
    <2>2. PICK f \in File : m.files = {f}
      BY <2>1 DEF NamesFile
    <2>3. CASE queue[f] > 0
      <3>1. /\ queue' = [g \in File |-> IF g \in {f} THEN queue[g] - 1 ELSE queue[g]]
            /\ downloads' = More(downloads, {f})
            /\ queueN' = queueN - 1 /\ header' = (queueN' # 0)
        BY <1>6, <2>2, <2>3 DEF OnProcessed
      <3>2. /\ queue' \in [File -> Nat] /\ IsFiniteSet(Entries(queue'))
            /\ Cardinality(Entries(queue')) \in Nat
            /\ queueN = Cardinality(Entries(queue')) + 1
        BY <1>1, <2>3, <3>1, OneLess
      <3>3. queueN' \in Nat /\ queueN' = Cardinality(Entries(queue')) /\ (header' <=> queueN' > 0)
        <4>1. queueN' \in Nat /\ queueN' = Cardinality(Entries(queue'))
          BY <1>1, <3>1, <3>2
        <4>2. queueN' # 0 <=> queueN' > 0
          BY <4>1
        <4>3. header' = (queueN' # 0)
          BY <3>1
        <4> QED BY <4>1, <4>2, <4>3, Zenon
      <3>4. QueueInv'
        BY <3>2, <3>3 DEF QueueInv, QueueIsCounted, Entries
      <3> QED BY <1>3, <3>1, <3>2, <3>3, <3>4
    <2>4. CASE ~(queue[f] > 0)
      BY <1>2, <1>6, <2>2, <2>4 DEF OnProcessed
    <2> QED BY <2>3, <2>4
  <1> HIDE DEF Goal
  <1>7. Goal
    BY <1>2, <1>4, <1>5, <1>6, ProfileKept
  <1> QED BY <1>7 DEF Goal

-----------------------------------------------------------------------------
(* What the profile page asks for.                                         *)
LEMMA ElementKept ==
    ASSUME [Next]_vars, ~ClickCanvas, \A e \in Element : ~Click(e)
    PROVE dataId' = dataId
  <1>1. OnOpen \/ OnClose \/ Reconnect \/ Query \/ Common \/ SaveNotes \/ (\E t \in Text : Type(t))
          => dataId' = dataId
    BY DEF OnOpen, OnClose, Reconnect, Query, Common, SaveNotes, Type, attributes
  <1>2. Serve => dataId' = dataId
    BY DEF Serve, ReadQueue, ServeQuery, ServeCommon, ServeNotes, ServeSave, SendLists, attributes
  <1>3. (\E f \in File : \/ Accept(f) \/ TellUploaded(f) \/ Process(f) \/ LeaveQueue(f)
                         \/ AddToDownloads(f) \/ Settle(f))
          => dataId' = dataId
    BY DEF Accept, TellUploaded, Process, LeaveQueue, AddToDownloads, Settle, Step, attributes
  <1>4. OnMessage => dataId' = dataId
    BY DEF OnMessage, OnResults, OnCommon, OnError, OnNotes, OnSaved, OnLists, OnUploaded,
           OnProcessed, attributes
  <1>5. UNCHANGED vars => dataId' = dataId
    BY DEF vars, attributes
  <1> QED BY <1>1, <1>2, <1>3, <1>4, <1>5 DEF Next

\* Steps that send nothing to the server leave the rest of what was sent.
LEMMA Unsent ==
    ASSUME [Next]_vars, ~OnOpen, ~Query, ~Common, ~SaveNotes, \A e \in Element : ~Click(e)
    PROVE toServer' \in {toServer, <<>>} \/ (toServer # <<>> /\ toServer' = Tail(toServer))
  <1>1. OnClose \/ Aside \/ UNCHANGED vars => toServer' \in {toServer, <<>>}
    BY AsideWire DEF OnClose
  <1>2. Serve => toServer' \in {toServer, <<>>} \/ (toServer # <<>> /\ toServer' = Tail(toServer))
    BY <1>1 DEF Serve, Aside, ServeQuery, ServeCommon, ServeNotes, ServeSave, SendLists, Answered, Reads
  <1>3. (\E f \in File : TellUploaded(f)) \/ (\E f \in File : Process(f)) => toServer' = toServer
    BY DEF TellUploaded, Process, Step
  <1>4. OnMessage => toServer' = toServer
    BY DEF OnMessage, OnResults, OnCommon, OnError, OnNotes, OnSaved, OnLists, OnUploaded,
           OnProcessed, Receive
  <1> QED BY <1>1, <1>2, <1>3, <1>4 DEF Next, Aside

LEMMA ProfileStep == ASSUME IInv, [Next]_vars PROVE ProfileInv'
  <1> SUFFICES ASSUME page' = "profile"
               PROVE dataId' = NoElement /\ toServer' \in {<<>>, <<Plain("upload-lists")>>}
    BY DEF ProfileInv, Plain
  <1>1. page = "profile"
    BY ConnectionKept
  <1>2. dataId = NoElement /\ toServer \in {<<>>, <<Plain("upload-lists")>>}
    BY <1>1 DEF IInv, ProfileInv
  <1>3. ~Query /\ ~Common /\ ~SaveNotes /\ ~ClickCanvas /\ \A e \in Element : ~Click(e)
    BY <1>1, <1>2 DEF Query, Common, SaveNotes, ClickCanvas, Click
  <1>4. dataId' = NoElement
    BY <1>2, <1>3, ElementKept
  <1>5. toServer # <<>> => Tail(toServer) = <<>>
    <2>1. \A x : Tail(<<x>>) = <<>>
      OBVIOUS
    <2> QED BY <1>2, <2>1, Zenon
  <1>6. OnOpen => toServer' = <<Plain("upload-lists")>>
    BY <1>1 DEF OnOpen, First
  <1> QED BY <1>2, <1>3, <1>4, <1>5, <1>6, Unsent

-----------------------------------------------------------------------------
(* Notes.                                                                  *)
LEMMA AskedStep == ASSUME IInv, [Next]_vars PROVE AskedInv'
  <1> SUFFICES ASSUME dataId' # NoElement, NEW i \in DOMAIN toServer', LastAsked(i)'
               PROVE toServer'[i].id = dataId'
    BY DEF AskedInv
  <1>1. /\ toServer \in Seq(Message) /\ TypeOK
        /\ ws # "open" => toServer = <<>>
        /\ toServer'[i].type = "notes"
        /\ \A k \in DOMAIN toServer' : toServer'[k].type = "notes" => k <= i
    BY DEF IInv, TypeOK, OfflineInv, LastAsked
  <1>2. ASSUME NEW j \in DOMAIN toServer, toServer[j] = toServer'[i], dataId' = dataId,
               \A k \in DOMAIN toServer : toServer[k].type = "notes" => k <= j
        PROVE toServer'[i].id = dataId'
    BY <1>1, <1>2 DEF IInv, AskedInv, LastAsked
  <1>3. ASSUME NEW e \in Element, Click(e) PROVE toServer'[i].id = dataId'
    <2>1. PICK m \in Message : m.type = "notes" /\ m.id = e /\ Send(<<m>>)
      BY <1>1, <1>3, SendShapes
    <2>2. toServer' = Append(toServer, m)
      <3>1. toServer' = Append(toServer, m) \/ toServer' = <<>>
        BY <1>1, <2>1, SendOne
      <3>2. toServer' # <<>>
        OBVIOUS
      <3> QED BY <3>1, <3>2
    <2>3. /\ Len(toServer) + 1 \in DOMAIN toServer' /\ toServer'[Len(toServer) + 1] = m
          /\ \A k \in DOMAIN toServer' : k \in DOMAIN toServer \/ k = Len(toServer) + 1
          /\ \A k \in DOMAIN toServer : k < Len(toServer) + 1 /\ k \in Nat
          /\ Len(toServer) \in Nat
      BY <1>1, <2>2, AppendSeq
    <2>4. Len(toServer) + 1 <= i
      BY <1>1, <2>1, <2>3
    <2>5. i = Len(toServer) + 1
      <3>1. i \in DOMAIN toServer => i < Len(toServer) + 1 /\ i \in Nat
        BY <2>3
      <3> QED BY <2>3, <2>4, <3>1
    <2> QED BY <1>3, <2>1, <2>3, <2>5 DEF Click
  <1>4. ASSUME Query \/ Common \/ SaveNotes PROVE toServer'[i].id = dataId'
    <2>1. PICK m \in Message : m.type # "notes" /\ Send(<<m>>)
      BY <1>1, <1>4, SendShapes
    <2>2. dataId' = dataId
      BY <1>4 DEF Query, Common, SaveNotes, attributes
    <2>3. toServer' = Append(toServer, m) \/ toServer' = toServer
      BY <1>1, <2>1, SendOne
    <2>4. CASE toServer' = toServer
      BY <1>1, <1>2, <2>2, <2>4
    <2>5. CASE toServer' = Append(toServer, m)
      <3>1. /\ toServer'[Len(toServer) + 1] = m
            /\ \A k \in DOMAIN toServer' : k \in DOMAIN toServer \/ k = Len(toServer) + 1
            /\ \A k \in DOMAIN toServer : toServer'[k] = toServer[k] /\ k \in DOMAIN toServer'
        BY <1>1, <2>5, AppendSeq
      <3>2. i \in DOMAIN toServer
        BY <1>1, <2>1, <3>1
      <3>3. \A k \in DOMAIN toServer : toServer[k].type = "notes" => k <= i
        BY <1>1, <3>1
      <3> QED BY <1>2, <2>2, <3>1, <3>2, <3>3
    <2> QED BY <2>3, <2>4, <2>5
  <1>5. CASE OnOpen
    <2>1. ~(First /\ Restored > 0) => toServer' = <<>> \/ toServer' = <<Plain("upload-lists")>>
      BY <1>5 DEF OnOpen
    <2>2. First /\ Restored > 0 => toServer'[i] = Plain("sql")
      BY <1>5, RestoredSeq DEF OnOpen
    <2>3. Plain("sql").type = "sql" /\ Plain("upload-lists").type = "upload-lists"
      BY DEF Plain
    <2>4. \A m : toServer' = <<m>> => toServer'[i] = m
      OBVIOUS
    <2>5. toServer' # <<>>
      OBVIOUS
    <2> HIDE DEF Plain
    <2> QED BY <1>1, <2>1, <2>2, <2>3, <2>4, <2>5
  <1>6. ASSUME ~OnOpen, ~Query, ~Common, ~SaveNotes, \A e \in Element : ~Click(e)
        PROVE toServer'[i].id = dataId'
    <2>1. dataId' = dataId
      <3>1. ~ClickCanvas
        BY DEF ClickCanvas
      <3> QED BY <1>6, <3>1, ElementKept
    <2>2. toServer' = toServer \/ (toServer # <<>> /\ toServer' = Tail(toServer))
      <3>1. toServer' # <<>>
        OBVIOUS
      <3> QED BY <1>6, <3>1, Unsent
    <2>3. CASE toServer' = toServer
      BY <1>1, <1>2, <2>1, <2>3
    <2>4. CASE toServer # <<>> /\ toServer' = Tail(toServer)
      <3>1. /\ i + 1 \in DOMAIN toServer /\ toServer'[i] = toServer[i + 1]
            /\ DOMAIN toServer = 1..Len(toServer) /\ Len(toServer) \in Nat
            /\ DOMAIN toServer' = 1..(Len(toServer) - 1)
            /\ \A k \in DOMAIN toServer : k = 1 \/ (k - 1 \in DOMAIN toServer' /\ toServer'[k - 1] = toServer[k])
        BY <1>1, <2>4, TailSeq
      <3>2. ASSUME NEW k \in DOMAIN toServer, toServer[k].type = "notes" PROVE k <= i + 1
        <4>1. k \in Nat /\ i \in Nat \ {0}
          BY <3>1
        <4>2. CASE k = 1
          BY <4>1, <4>2
        <4>3. CASE k - 1 \in DOMAIN toServer' /\ toServer'[k - 1] = toServer[k]
          <5>1. k - 1 <= i
            BY <1>1, <3>2, <4>3
          <5> QED BY <4>1, <5>1
        <4> QED BY <3>1, <4>2, <4>3
      <3> QED BY <1>2, <2>1, <3>1, <3>2
    <2> QED BY <2>2, <2>3, <2>4
  <1> QED BY <1>3, <1>4, <1>5, <1>6

\* Sending a message about notes makes no answer the last one; another message
\* changes nothing.
LEMMA SendAnswers ==
    ASSUME TypeOK, NEW m \in Message, toServer' = Append(toServer, m), toClient' = toClient,
           NEW i \in DOMAIN toClient, LastAnswer(i)'
    PROVE ~AboutNotes(m) /\ LastAnswer(i)
  <1>1. toServer \in Seq(Message)
    BY DEF TypeOK
  <1>2. /\ Len(toServer) + 1 \in DOMAIN toServer' /\ toServer'[Len(toServer) + 1] = m
        /\ \A k \in DOMAIN toServer : toServer'[k] = toServer[k] /\ k \in DOMAIN toServer'
    BY <1>1, AppendSeq
  <1>3. /\ toClient[i].type = "notes"
        /\ \A k \in DOMAIN toClient : AboutNotes(toClient[k]) => k <= i
        /\ \A k \in DOMAIN toServer' : ~AboutNotes(toServer'[k])
    BY DEF LastAnswer, AboutNotes
  <1>4. ~AboutNotes(m)
    BY <1>2, <1>3
  <1>5. \A k \in DOMAIN toServer : ~AboutNotes(toServer[k])
    BY <1>2, <1>3
  <1> QED BY <1>3, <1>4, <1>5 DEF LastAnswer

\* An answer that is appended is the last one when it is about notes; another one
\* leaves the last one.
LEMMA AppendAnswers ==
    ASSUME TypeOK, NEW m \in Message, toClient' = Append(toClient, m),
           NEW i \in DOMAIN toClient', LastAnswer(i)'
    PROVE /\ AboutNotes(m) => toClient'[i] = m
          /\ ~AboutNotes(m) => /\ i \in DOMAIN toClient /\ toClient'[i] = toClient[i]
                               /\ toClient[i].type = "notes"
                               /\ \A k \in DOMAIN toClient : AboutNotes(toClient[k]) => k <= i
  <1>1. toClient \in Seq(Message)
    BY DEF TypeOK
  <1>2. /\ Len(toClient) + 1 \in DOMAIN toClient' /\ toClient'[Len(toClient) + 1] = m
        /\ \A k \in DOMAIN toClient : toClient'[k] = toClient[k] /\ k \in DOMAIN toClient'
                                        /\ k < Len(toClient) + 1 /\ k \in Nat
        /\ \A k \in DOMAIN toClient' : k \in DOMAIN toClient \/ k = Len(toClient) + 1
        /\ Len(toClient) \in Nat
    BY <1>1, AppendSeq
  <1>3. toClient'[i].type = "notes" /\ \A k \in DOMAIN toClient' : AboutNotes(toClient'[k]) => k <= i
    BY DEF LastAnswer, AboutNotes
  <1>4. ASSUME AboutNotes(m) PROVE toClient'[i] = m
    <2>1. Len(toClient) + 1 <= i
      BY <1>2, <1>3, <1>4
    <2>2. i \in DOMAIN toClient => i < Len(toClient) + 1 /\ i \in Nat
      BY <1>2
    <2>3. i = Len(toClient) + 1
      BY <1>2, <2>1, <2>2
    <2> QED BY <1>2, <2>3
  <1>5. ASSUME ~AboutNotes(m)
        PROVE /\ i \in DOMAIN toClient /\ toClient'[i] = toClient[i] /\ toClient[i].type = "notes"
              /\ \A k \in DOMAIN toClient : AboutNotes(toClient[k]) => k <= i
    <2>1. AboutNotes(toClient'[i])
      BY <1>3 DEF AboutNotes
    <2>2. i \in DOMAIN toClient /\ toClient'[i] = toClient[i]
      BY <1>2, <1>5, <2>1
    <2>3. \A k \in DOMAIN toClient : AboutNotes(toClient[k]) => k <= i
      BY <1>2, <1>3
    <2> QED BY <1>3, <2>2, <2>3
  <1> QED BY <1>4, <1>5

\* No answer is the last one while a request other than the first is on its way.
LEMMA TailRequests ==
    ASSUME TypeOK, toServer # <<>>, toServer' = Tail(toServer), NEW i, LastAnswer(i)'
    PROVE \A k \in DOMAIN toServer : AboutNotes(toServer[k]) => k = 1
  <1>1. toServer \in Seq(Message)
    BY DEF TypeOK
  <1>2. \A k \in DOMAIN toServer' : ~AboutNotes(toServer'[k])
    BY DEF LastAnswer, AboutNotes
  <1>3. \A k \in DOMAIN toServer : k = 1 \/ (k - 1 \in DOMAIN toServer' /\ toServer'[k - 1] = toServer[k])
    BY <1>1, TailSeq
  <1> QED BY <1>2, <1>3

LEMMA NotesKept == ASSUME [Next]_vars, ~ServeSave PROVE notes' = notes
  <1>1. OnOpen \/ OnClose \/ Query \/ Common \/ SaveNotes \/ (\E e \in Element : Click(e))
          => notes' = notes
    BY DEF OnOpen, OnClose, Query, Common, SaveNotes, Click
  <1>2. Aside \/ UNCHANGED vars => notes' = notes
    BY AsideWire
  <1>3. Serve => notes' = notes
    BY <1>2 DEF Serve, Aside, ServeQuery, ServeCommon, ServeNotes, SendLists
  <1>4. (\E f \in File : TellUploaded(f)) \/ (\E f \in File : Process(f)) => notes' = notes
    BY DEF TellUploaded, Process, Step
  <1>5. OnMessage => notes' = notes
    BY DEF OnMessage, OnResults, OnCommon, OnError, OnNotes, OnSaved, OnLists, OnUploaded,
           OnProcessed, Receive
  <1> QED BY <1>1, <1>2, <1>3, <1>4, <1>5 DEF Next, Aside

LEMMA AnsweredStep == ASSUME IInv, [Next]_vars PROVE AnsweredInv'
  <1> SUFFICES ASSUME dataId' # NoElement, NEW i \in DOMAIN toClient', LastAnswer(i)'
               PROVE toClient'[i].text = notes'[dataId']
    BY DEF AnsweredInv
  <1>1. /\ toServer \in Seq(Message) /\ toClient \in Seq(Message) /\ TypeOK /\ MessagesInv
        /\ ws # "open" => toServer = <<>> /\ toClient = <<>>
    BY DEF IInv, TypeOK, OfflineInv
  <1>2. ASSUME NEW j \in DOMAIN toClient, toClient[j] = toClient'[i], LastAnswer(j),
               dataId' = dataId, notes' = notes
        PROVE toClient'[i].text = notes'[dataId']
    BY <1>2 DEF IInv, AnsweredInv
  <1>3. ~ClickCanvas
    BY DEF ClickCanvas
  <1>4. toClient' # <<>>
    OBVIOUS
  <1>5. ASSUME NEW e \in Element, Click(e) PROVE FALSE
    <2>1. PICK m \in Message : m.type = "notes" /\ Send(<<m>>)
      BY <1>1, <1>5, SendShapes
    <2>2. toClient' = toClient
      BY <1>5 DEF Click
    <2>3. toServer' = Append(toServer, m)
      BY <1>1, <1>4, <2>1, <2>2, SendOne
    <2> QED BY <1>1, <2>1, <2>2, <2>3, SendAnswers DEF AboutNotes
  <1>6. ASSUME Query \/ Common \/ SaveNotes PROVE toClient'[i].text = notes'[dataId']
    <2>1. PICK m \in Message : Send(<<m>>)
      BY <1>1, <1>6, SendShapes
    <2>2. UNCHANGED <<toClient, dataId, notes>>
      BY <1>6 DEF Query, Common, SaveNotes, attributes
    <2>3. toServer' = Append(toServer, m)
      BY <1>1, <1>4, <2>1, <2>2, SendOne
    <2>4. LastAnswer(i) /\ i \in DOMAIN toClient
      BY <1>1, <2>2, <2>3, SendAnswers
    <2> QED BY <1>2, <2>2, <2>4
  <1>7. ASSUME NEW m \in Message, toServer # <<>>, Answered(m), ~AboutNotes(m),
               ~AboutNotes(Head(toServer)), dataId' = dataId, notes' = notes
        PROVE toClient'[i].text = notes'[dataId']
    <2>1. toServer' = Tail(toServer) /\ toClient' = Append(toClient, m)
      BY <1>7 DEF Answered
    <2>2. \A k \in DOMAIN toServer : ~AboutNotes(toServer[k])
      BY <1>1, <1>7, <2>1, TailRequests, TailSeq
    <2>3. /\ i \in DOMAIN toClient /\ toClient'[i] = toClient[i] /\ toClient[i].type = "notes"
          /\ \A k \in DOMAIN toClient : AboutNotes(toClient[k]) => k <= i
      BY <1>1, <1>7, <2>1, AppendAnswers
    <2>4. LastAnswer(i)
      BY <2>2, <2>3 DEF LastAnswer
    <2> QED BY <1>2, <1>7, <2>3, <2>4
  <1>8. ASSUME ServeQuery \/ ServeCommon \/ SendLists PROVE toClient'[i].text = notes'[dataId']
    <2>1. PICK m \in Message : m.type \in {"results", "error", "common", "upload-lists"} /\ Answered(m)
      BY <1>1, <1>8, ServeShapes
    <2>2. /\ toServer # <<>> /\ Head(toServer).type \in {"sql", "common", "upload-lists"}
          /\ dataId' = dataId /\ notes' = notes
      BY <1>8 DEF ServeQuery, ServeCommon, SendLists, Reads, attributes
    <2>3. ~AboutNotes(m) /\ ~AboutNotes(Head(toServer))
      BY <2>1, <2>2 DEF AboutNotes
    <2> QED BY <1>7, <2>1, <2>2, <2>3
  <1>9. ASSUME ServeNotes PROVE toClient'[i].text = notes'[dataId']
    <2>1. PICK m \in Message : /\ \/ m.type = "notes" /\ m.text = notes[Head(toServer).id]
                                  \/ m.type = "notes-error"
                               /\ Answered(m)
      BY <1>1, <1>9, ServeShapes
    <2>2. /\ toServer # <<>> /\ Head(toServer).type = "notes" /\ dataId' = dataId /\ notes' = notes
          /\ toServer' = Tail(toServer) /\ toClient' = Append(toClient, m)
      BY <1>9, <2>1 DEF ServeNotes, Reads, attributes, Answered
    <2>3. toClient'[i] = m /\ toClient'[i].type = "notes"
      BY <1>1, <2>1, <2>2, AppendAnswers DEF AboutNotes, LastAnswer
    <2>4. Head(toServer) = toServer[1] /\ 1 \in DOMAIN toServer
      BY <1>1, <2>2, TailSeq
    <2>5. \A k \in DOMAIN toServer : toServer[k].type = "notes" => k <= 1
      BY <1>1, <2>2, TailRequests DEF AboutNotes
    <2>6. Head(toServer).id = dataId
      BY <2>2, <2>4, <2>5 DEF IInv, AskedInv, LastAsked
    <2> QED BY <2>1, <2>2, <2>3, <2>6
  <1>10. ASSUME ServeSave PROVE FALSE
    <2>1. PICK m \in Message : m.type \in {"notes-set", "notes-error"} /\ Answered(m)
      BY <1>1, <1>10, ServeShapes
    <2>2. toClient'[i] = m
      BY <1>1, <2>1, AppendAnswers DEF AboutNotes, Answered
    <2>3. toClient'[i].type = "notes"
      BY DEF LastAnswer
    <2> QED BY <2>1, <2>2, <2>3
  <1>11. ASSUME NEW f \in File, TellUploaded(f) \/ Process(f)
         PROVE toClient'[i].text = notes'[dataId']
    <2>1. PICK m \in Message : /\ m.type \in {"uploaded", "upload-processed", "notification"}
                               /\ toClient' = Append(toClient, m)
      BY <1>11, TellShapes
    <2>2. UNCHANGED <<toServer, dataId, notes>>
      BY <1>11 DEF TellUploaded, Process, Step, attributes
    <2>3. ~AboutNotes(m)
      BY <2>1 DEF AboutNotes
    <2>4. /\ i \in DOMAIN toClient /\ toClient'[i] = toClient[i] /\ toClient[i].type = "notes"
          /\ \A k \in DOMAIN toClient : AboutNotes(toClient[k]) => k <= i
      BY <1>1, <2>1, <2>3, AppendAnswers
    <2>5. \A k \in DOMAIN toServer : ~AboutNotes(toServer[k])
      BY <2>2 DEF LastAnswer, AboutNotes
    <2> QED BY <1>2, <2>2, <2>4, <2>5 DEF LastAnswer
  <1>12. ASSUME NEW t, Receive(t), dataId' = dataId PROVE toClient'[i].text = notes'[dataId']
    <2>1. UNCHANGED <<toServer, notes>> /\ toClient # <<>> /\ toClient' = Tail(toClient)
      BY <1>1, <1>12, Received
    <2>2. /\ i + 1 \in DOMAIN toClient /\ toClient'[i] = toClient[i + 1]
          /\ DOMAIN toClient = 1..Len(toClient) /\ Len(toClient) \in Nat
          /\ DOMAIN toClient' = 1..(Len(toClient) - 1)
          /\ \A k \in DOMAIN toClient : k = 1 \/ (k - 1 \in DOMAIN toClient' /\ toClient'[k - 1] = toClient[k])
      BY <1>1, <2>1, TailSeq
    <2>3. /\ toClient'[i].type = "notes"
          /\ \A k \in DOMAIN toClient' : AboutNotes(toClient'[k]) => k <= i
          /\ \A k \in DOMAIN toServer : ~AboutNotes(toServer[k])
      BY <2>1 DEF LastAnswer, AboutNotes
    <2>4. ASSUME NEW k \in DOMAIN toClient, AboutNotes(toClient[k]) PROVE k <= i + 1
      <3>1. k \in Nat /\ i \in Nat \ {0}
        BY <2>2
      <3>2. k = 1 \/ k - 1 <= i
        BY <2>2, <2>3, <2>4
      <3> QED BY <3>1, <3>2
    <2>5. LastAnswer(i + 1)
      BY <2>2, <2>3, <2>4 DEF LastAnswer
    <2> QED BY <1>2, <1>12, <2>1, <2>2, <2>5
  <1>13. ASSUME UNCHANGED <<toServer, toClient>>, dataId' = dataId, notes' = notes
         PROVE toClient'[i].text = notes'[dataId']
    <2>1. LastAnswer(i) /\ i \in DOMAIN toClient
      BY <1>13 DEF LastAnswer, AboutNotes
    <2> QED BY <1>2, <1>13, <2>1
  <1>14. CASE OnMessage
    <2>1. PICK t : Receive(t)
      BY <1>14 DEF OnMessage, OnResults, OnCommon, OnError, OnNotes, OnSaved, OnLists, OnUploaded,
                   OnProcessed
    <2>2. dataId' = dataId
      BY <1>14 DEF OnMessage, OnResults, OnCommon, OnError, OnNotes, OnSaved, OnLists, OnUploaded,
                   OnProcessed, attributes
    <2> QED BY <1>12, <2>1, <2>2
  <1>15. ~OnOpen /\ ~OnClose
    BY <1>1, <1>4 DEF OnOpen, OnClose
  <1>16. ASSUME Aside \/ UNCHANGED vars PROVE toClient'[i].text = notes'[dataId']
    <2>1. UNCHANGED <<toServer, toClient, notes>>
      BY <1>16, AsideWire
    <2>2. ASSUME NEW e \in Element PROVE ~Click(e)
      BY <1>5
    <2>3. dataId' = dataId
      BY <1>3, <2>2, ElementKept
    <2> QED BY <1>13, <2>1, <2>3
  <1> QED BY <1>5, <1>6, <1>8, <1>9, <1>10, <1>11, <1>14, <1>15, <1>16 DEF Next, Serve, Aside

-----------------------------------------------------------------------------
(* The files of the profile page.                                          *)

\* What was announced still is, after another announcement.
LEMMA AppendAnnounced ==
    ASSUME TypeOK, NEW m \in Message, toClient' = Append(toClient, m), NEW f
    PROVE Announced(f) \/ Announces(m, f) => Announced(f)'
  <1>1. toClient \in Seq(Message)
    BY DEF TypeOK
  <1>2. /\ Len(toClient) + 1 \in DOMAIN toClient' /\ toClient'[Len(toClient) + 1] = m
        /\ \A k \in DOMAIN toClient : toClient'[k] = toClient[k] /\ k \in DOMAIN toClient'
    BY <1>1, AppendSeq
  <1>3. Announced(f)' <=> \E k \in DOMAIN toClient' : Announces(toClient'[k], f)
    BY DEF Announced, Announces
  <1> QED BY <1>2, <1>3 DEF Announced

\* What was announced still is, or the page hears of it.
LEMMA TailAnnounced ==
    ASSUME TypeOK, toClient # <<>>, toClient' = Tail(toClient), NEW f, Announced(f)
    PROVE Announces(Head(toClient), f) \/ Announced(f)'
  <1>1. toClient \in Seq(Message)
    BY DEF TypeOK
  <1>2. /\ Head(toClient) = toClient[1]
        /\ \A k \in DOMAIN toClient :
             k = 1 \/ (k - 1 \in DOMAIN toClient' /\ toClient'[k - 1] = toClient[k])
    BY <1>1, TailSeq
  <1>3. Announced(f)' <=> \E k \in DOMAIN toClient' : Announces(toClient'[k], f)
    BY DEF Announced, Announces
  <1> QED BY <1>2, <1>3 DEF Announced

\* The page shows what it hears of, and goes on showing what it showed.
LEMMA HearsShown ==
    ASSUME TypeOK, OnMessage, NEW f \in File
    PROVE Shown(f) \/ Announced(f) => Shown(f)' \/ Announced(f)'
  <1> DEFINE m == Head(toClient)
  <1>1. PICK t : Receive(t)
    BY DEF OnMessage, OnResults, OnCommon, OnError, OnNotes, OnSaved, OnLists, OnUploaded, OnProcessed
  <1>2. toClient # <<>> /\ toClient' = Tail(toClient) /\ m.type = t
    BY <1>1, Received
  <1>3. Announced(f) => Announces(m, f) \/ Announced(f)'
    BY <1>2, TailAnnounced
  <1>4. /\ queue \in [File -> Nat] /\ downloads \in [File -> Nat]
        /\ queue[f] \in Nat /\ downloads[f] \in Nat
    BY DEF TypeOK
  <1>5. ASSUME OnLists PROVE Shown(f) \/ Announces(m, f) => Shown(f)'
    <2>1. /\ queue'[f] = IF f \in m.files THEN queue[f] + 1 ELSE queue[f]
          /\ downloads'[f] = IF f \in m.done THEN downloads[f] + 1 ELSE downloads[f]
      BY <1>4, <1>5 DEF OnLists, More
    <2> QED BY <1>4, <2>1 DEF Shown, Announces
  <1>6. ASSUME OnUploaded PROVE Shown(f) \/ Announces(m, f) => Shown(f)'
    <2>1. /\ queue'[f] = IF f \in m.files THEN queue[f] + 1 ELSE queue[f]
          /\ downloads' = downloads /\ m.type = "uploaded"
      BY <1>4, <1>6 DEF OnUploaded, More, Receive
    <2> QED BY <1>4, <2>1 DEF Shown, Announces
  <1>7. ASSUME OnProcessed PROVE Shown(f) \/ Announces(m, f) => Shown(f)'
    <2>1. m.type = "upload-processed"
      BY <1>7 DEF OnProcessed, Receive
    <2>2. CASE \A g \in m.files : queue[g] > 0
      <3>1. /\ queue'[f] = IF f \in m.files THEN queue[f] - 1 ELSE queue[f]
            /\ downloads'[f] = IF f \in m.files THEN downloads[f] + 1 ELSE downloads[f]
        BY <1>4, <1>7, <2>2 DEF OnProcessed, More
      <3> QED BY <1>4, <2>1, <2>2, <3>1 DEF Shown, Announces
    <2>3. CASE ~\A g \in m.files : queue[g] > 0
      <3>1. queue' = queue /\ downloads' = downloads
        BY <1>7, <2>3 DEF OnProcessed, profile
      <3> QED BY <2>1, <3>1 DEF Shown, Announces
    <2> QED BY <2>2, <2>3
  <1>8. ASSUME OnResults \/ OnCommon \/ OnError \/ OnNotes \/ OnSaved
        PROVE Shown(f) \/ Announces(m, f) => Shown(f)'
    <2>1. UNCHANGED <<queue, downloads>>
      BY <1>8 DEF OnResults, OnCommon, OnError, OnNotes, OnSaved, profile
    <2>2. m.type \notin {"uploaded", "upload-lists"}
      BY <1>8 DEF OnResults, OnCommon, OnError, OnNotes, OnSaved, Receive
    <2> QED BY <2>1, <2>2 DEF Shown, Announces
  <1> QED BY <1>3, <1>5, <1>6, <1>7, <1>8 DEF OnMessage

LEMMA FilesStep == ASSUME IInv, [Next]_vars PROVE FilesInv'
  <1> SUFFICES ASSUME page' = "profile", ws' = "open", NEW f \in File PROVE FileInv(f)'
    BY DEF FilesInv, FileInv
  <1> DEFINE known == Shown(f) \/ Announced(f)
             known1 == Shown(f)' \/ Announced(f)'
  <1>1. /\ page = "profile" /\ TypeOK /\ MessagesInv
        /\ dataId = NoElement /\ toServer \in {<<>>, <<Plain("upload-lists")>>}
    BY ConnectionKept DEF IInv, ProfileInv
  <1>2. CASE OnOpen
    <2>1. toServer' # <<>> /\ reading' = NoLists /\ job' = job
      <3>1. toServer' = <<Plain("upload-lists")>>
        BY <1>1, <1>2 DEF OnOpen, First
      <3>2. reading' = NoLists /\ job' = job
        BY <1>2 DEF OnOpen, IInv, OfflineInv
      <3> QED BY <3>1, <3>2
    <2>2. job'[f] \notin {"queued", "processed", "left"}
      BY <1>2, <2>1 DEF OnOpen, IInv, OfflineInv, Working
    <2> QED BY <2>1, <2>2 DEF FileInv, ToBeListed
  <1>3. CASE ~OnOpen
    <2>1. ws = "open"
      BY <1>3, ConnectionKept DEF OnClose, Reconnect
    <2>2. ~OnClose /\ ~Reconnect
      BY <2>1 DEF OnClose, Reconnect
    <2>3. ~Query /\ ~Common /\ ~SaveNotes /\ ~ClickCanvas /\ \A e \in Element : ~Click(e)
      BY <1>1 DEF Query, Common, SaveNotes, ClickCanvas, Click
    <2>4. /\ job[f] \in {"queued", "processed", "left"} => known
          /\ f \in In \cup Out /\ job[f] # "accepted" => known \/ ToBeListed(f)
          /\ job \in [File -> {"none", "accepted", "queued", "processed", "left", "done", "lost"}]
      BY <1>1, <2>1 DEF IInv, FilesInv, FileInv, TypeOK
    <2>5. ASSUME UNCHANGED <<toClient, queue, downloads>> PROVE known = known1
      BY <2>5 DEF Shown, Announced
    <2> HIDE DEF known, known1
    <2>6. ASSUME known => known1, UNCHANGED <<toServer, In, Out, job, reading>> PROVE FileInv(f)'
      <3>1. ToBeListed(f)' = ToBeListed(f)
        BY <2>6 DEF ToBeListed
      <3> QED BY <2>4, <2>6, <3>1 DEF FileInv, known1
    <2>7. ASSUME Aside \/ UNCHANGED vars PROVE UNCHANGED <<toClient, queue, downloads, toServer>>
      BY <2>7, AsideWire DEF profile
    <2>8. CASE (\E t \in Text : Type(t)) \/ UNCHANGED vars
      <3>1. UNCHANGED <<In, Out, job, reading>>
        BY <2>8 DEF Type, vars, uploads
      <3> QED BY <2>5, <2>6, <2>7, <2>8, <3>1 DEF Aside
    <2>9. ASSUME ReadQueue PROVE FileInv(f)'
      <3>1. toServer' # <<>> /\ reading' = In /\ UNCHANGED <<In, Out, job>>
        BY <2>7, <2>9 DEF ReadQueue, Reads, Aside
      <3>2. f \in In \cup Out => ToBeListed(f)'
        BY <3>1 DEF ToBeListed
      <3>3. known = known1
        BY <2>5, <2>7, <2>9 DEF Aside
      <3> QED BY <2>4, <3>1, <3>2, <3>3 DEF FileInv, known1
    <2>10. ASSUME NEW g \in File, Accept(g) \/ LeaveQueue(g) \/ AddToDownloads(g) \/ Settle(g)
           PROVE FileInv(f)'
      <3>1. UNCHANGED <<reading, toServer>> /\ known = known1
        <4>1. UNCHANGED <<toClient, queue, downloads, toServer>>
          BY <2>7, <2>10 DEF Aside
        <4>2. reading' = reading
          BY <2>10 DEF Accept, LeaveQueue, AddToDownloads, Settle, Step
        <4> QED BY <2>5, <4>1, <4>2
      <3>2. CASE Accept(g)
        <4>1. /\ job' = [job EXCEPT ![g] = "accepted"] /\ In' = In \cup {g} /\ Out' = Out
          BY <3>2 DEF Accept, Step
        <4> QED BY <2>4, <3>1, <4>1 DEF FileInv, ToBeListed, known1
      <3>3. CASE LeaveQueue(g)
        <4>1. /\ job' = [job EXCEPT ![g] = "left"] /\ In' = In \ {g} /\ Out' = Out
              /\ job[g] = "processed"
          BY <3>3 DEF LeaveQueue, Step
        <4> QED BY <2>4, <3>1, <4>1 DEF FileInv, ToBeListed, known1
      <3>4. CASE AddToDownloads(g)
        <4>1. /\ job' = [job EXCEPT ![g] = "done"] /\ In' = In /\ Out' = Out \cup {g}
              /\ job[g] = "left"
          BY <3>4 DEF AddToDownloads, Step
        <4> QED BY <2>4, <3>1, <4>1 DEF FileInv, ToBeListed, known1
      <3>5. CASE Settle(g)
        <4>1. /\ job' = [job EXCEPT ![g] = "done"] /\ In' = In /\ Out' = Out /\ job[g] = "lost"
          BY <3>5 DEF Settle
        <4> QED BY <2>4, <3>1, <4>1 DEF FileInv, ToBeListed, known1
      <3> QED BY <2>10, <3>2, <3>3, <3>4, <3>5
    <2>11. ~ServeQuery /\ ~ServeCommon /\ ~ServeNotes /\ ~ServeSave
      <3>1. \A m : Head(<<m>>) = m
        OBVIOUS
      <3>2. Plain("upload-lists").type = "upload-lists"
        BY DEF Plain
      <3>3. toServer # <<>> => Head(toServer).type = "upload-lists"
        BY <1>1, <3>1, <3>2, Zenon
      <3> QED BY <3>3 DEF ServeQuery, ServeCommon, ServeNotes, ServeSave, Reads
    <2>12. ASSUME SendLists PROVE FileInv(f)'
      <3>1. PICK m \in Message : /\ m.type = "upload-lists" /\ m.files = reading /\ m.done = Out
                                 /\ Answered(m)
        BY <1>1, <2>12, ServeShapes
      <3>2. /\ toClient' = Append(toClient, m) /\ UNCHANGED <<In, Out, job, queue, downloads>>
            /\ reading # NoLists
        BY <2>12, <3>1 DEF SendLists, Answered, profile
      <3>3. Announced(f) \/ f \in reading \cup Out => Announced(f)'
        BY <1>1, <3>1, <3>2, AppendAnnounced DEF Announces
      <3>4. known => known1
        BY <3>2, <3>3 DEF known, known1, Shown
      <3>5. ToBeListed(f) => known1
        BY <3>2, <3>3 DEF known1, ToBeListed
      <3> QED BY <2>4, <3>2, <3>4, <3>5 DEF FileInv, known1
    <2>13. ASSUME NEW g \in File, TellUploaded(g) \/ Process(g) PROVE FileInv(f)'
      <3>1. PICK m \in Message : /\ toClient' = Append(toClient, m)
                                 /\ TellUploaded(g) => m.type = "uploaded" /\ m.files = {g}
        BY <2>13, TellShapes DEF TellUploaded, Process, Step
      <3>2. UNCHANGED <<In, Out, reading, toServer, queue, downloads>>
        BY <2>13 DEF TellUploaded, Process, Step, profile
      <3>3. known => known1
        BY <1>1, <3>1, <3>2, AppendAnnounced DEF known, known1, Shown
      <3>4. CASE TellUploaded(g)
        <4>1. job' = [job EXCEPT ![g] = "queued"]
          BY <3>4 DEF TellUploaded, Step
        <4>2. f = g => known1
          BY <1>1, <3>1, <3>4, AppendAnnounced DEF known1, Announces
        <4> QED BY <2>4, <3>2, <3>3, <4>1, <4>2 DEF FileInv, ToBeListed, known1
      <3>5. CASE Process(g)
        <4>1. job' = [job EXCEPT ![g] = "processed"] /\ job[g] = "queued"
          BY <3>5 DEF Process, Step
        <4> QED BY <2>4, <3>2, <3>3, <4>1 DEF FileInv, ToBeListed, known1
      <3> QED BY <2>13, <3>4, <3>5
    <2>14. ASSUME OnMessage PROVE FileInv(f)'
      <3>1. known => known1
        BY <1>1, <2>14, HearsShown DEF known, known1
      <3>2. UNCHANGED <<toServer, In, Out, job, reading>>
        <4>1. PICK t : Receive(t)
          BY <2>14 DEF OnMessage, OnResults, OnCommon, OnError, OnNotes, OnSaved, OnLists,
                       OnUploaded, OnProcessed
        <4> QED BY <1>1, <4>1, Received
      <3> QED BY <2>6, <3>1, <3>2
    <2> QED
      BY <1>3, <2>2, <2>3, <2>8, <2>9, <2>10, <2>11, <2>12, <2>13, <2>14 DEF Next, Serve
  <1> QED BY <1>2, <1>3

-----------------------------------------------------------------------------
(* Types.                                                                  *)
LEMMA ConnectionType ==
    ASSUME IInv, [Next]_vars
    PROVE /\ page' \in {"search", "profile"}
          /\ ws' \in {"connecting", "open", "waiting", "stopped"}
          /\ attempts' \in 0..MaxAttempts /\ drops' \in 0..MaxDrops
  <1>1. /\ page \in {"search", "profile"}
        /\ ws \in {"connecting", "open", "waiting", "stopped"}
        /\ attempts \in 0..MaxAttempts /\ drops \in 0..MaxDrops
        /\ ws = "waiting" => attempts < MaxAttempts
        /\ MaxAttempts \in Nat /\ MaxDrops \in Nat
    BY ConnectionAssumption DEF IInv, TypeOK, RetryInv
  <1>2. CASE OnOpen
    BY <1>1, <1>2 DEF OnOpen
  <1>3. CASE OnClose
    <2>1. drops' = drops \/ (drops < MaxDrops /\ drops' = drops + 1)
      BY <1>3 DEF OnClose
    <2>2. ws' \in {"waiting", "stopped"} /\ attempts' = attempts /\ page' = page
      BY <1>3 DEF OnClose
    <2> QED BY <1>1, <2>1, <2>2
  <1>4. CASE Reconnect
    BY <1>1, <1>4 DEF Reconnect
  <1> QED BY <1>1, <1>2, <1>3, <1>4, ConnectionKept

LEMMA SearchType ==
    ASSUME IInv, [Next]_vars
    PROVE button' \subseteq {"disabled", "loading"} /\ jobs' \in 0..MaxJobs
  <1>1. /\ button \subseteq {"disabled", "loading"} /\ jobs \in 0..MaxJobs
        /\ MaxJobs \in Nat /\ Restored \in Nat /\ TypeOK
    BY ConnectionAssumption DEF IInv, TypeOK
  <1>2. CASE OnOpen
    <2>1. button' = {"disabled", "loading"} \/ button' = button \ {"disabled"}
      BY <1>2 DEF OnOpen
    <2>2. jobs' = jobs \/ (jobs' = jobs + Restored /\ jobs' <= MaxJobs)
      BY <1>2 DEF OnOpen
    <2>3. jobs' \in 0..MaxJobs
      BY <1>1, <2>2
    <2> QED BY <1>1, <2>1, <2>3
  <1>3. CASE OnClose
    BY <1>1, <1>3 DEF OnClose
  <1>4. CASE Query
    BY <1>1, <1>4 DEF Query, Busy
  <1>5. CASE Common
    BY <1>1, <1>5 DEF Common, Busy
  <1>6. CASE OnResults
    <2>1. Searches' = Searches - 1 /\ Searches' \in Nat /\ Searches \in Nat /\ Searches <= jobs
      BY <1>1, <1>6, SearchesReceived, SearchesNat DEF OnResults, IInv, JobsCoverSearches
    <2>2. jobs' = jobs - 1 /\ button' \subseteq button
      BY <1>6 DEF OnResults
    <2> QED BY <1>1, <2>1, <2>2
  <1>7. CASE OnCommon
    BY <1>1, <1>7 DEF OnCommon
  <1>8. \/ (\E e \in Element : Click(e)) \/ SaveNotes \/ Serve \/ Aside
        \/ OnError \/ OnNotes \/ OnSaved \/ OnLists \/ OnUploaded \/ OnProcessed
        \/ (\E f \in File : TellUploaded(f) \/ Process(f)) \/ UNCHANGED vars
        => UNCHANGED <<button, jobs>>
    BY AsideWire DEF Click, SaveNotes, Serve, ReadQueue, ServeQuery, ServeCommon, ServeNotes, ServeSave,
           SendLists, OnError, OnNotes, OnSaved, OnLists, OnUploaded, OnProcessed, TellUploaded,
           Process, Step, search
  <1>9. UNCHANGED <<button, jobs>> => button' \subseteq {"disabled", "loading"} /\ jobs' \in 0..MaxJobs
    BY <1>1
  <1>10. \/ OnOpen \/ OnClose \/ Query \/ Common \/ OnResults \/ OnCommon
         \/ (\E e \in Element : Click(e)) \/ SaveNotes \/ Serve \/ Aside
         \/ OnError \/ OnNotes \/ OnSaved \/ OnLists \/ OnUploaded \/ OnProcessed
         \/ (\E f \in File : TellUploaded(f) \/ Process(f)) \/ UNCHANGED vars
    BY DEF Next, OnMessage, Aside
  <1> QED BY <1>2, <1>3, <1>4, <1>5, <1>6, <1>7, <1>8, <1>9, <1>10

LEMMA NotesType ==
    ASSUME IInv, [Next]_vars
    PROVE /\ dataId' \in Element \cup {NoElement} /\ field' \in Text \cup {NoText}
          /\ typed' \in BOOLEAN /\ saving' \in BOOLEAN
          /\ notes' \in [Key -> Text \cup {NoText}]
  <1>1. /\ dataId \in Element \cup {NoElement} /\ field \in Text \cup {NoText}
        /\ typed \in BOOLEAN /\ saving \in BOOLEAN
        /\ notes \in [Key -> Text \cup {NoText}] /\ TypeOK
    BY DEF IInv, TypeOK
  <1>2. notes' \in [Key -> Text \cup {NoText}]
    <2>1. CASE ServeSave
      <3>1. Head(toServer) \in Message
        BY <1>1, <2>1, Read DEF ServeSave
      <3>2. Head(toServer).text \in Text \cup {NoText}
        BY <3>1 DEF Message
      <3> QED BY <1>1, <2>1, <3>2 DEF ServeSave
    <2>2. CASE ~ServeSave
      BY <1>1, <2>2, NotesKept
    <2> QED BY <2>1, <2>2
  <1> DEFINE Goal == /\ dataId' \in Element \cup {NoElement} /\ field' \in Text \cup {NoText}
                     /\ typed' \in BOOLEAN /\ saving' \in BOOLEAN
  <1>3. ASSUME UNCHANGED attributes PROVE Goal
    BY <1>1, <1>3 DEF attributes
  <1>4. ASSUME NEW e \in Element, Click(e) PROVE Goal
    BY <1>1, <1>4 DEF Click
  <1>5. ASSUME ClickCanvas \/ (\E t \in Text : Type(t)) \/ SaveNotes PROVE Goal
    BY <1>1, <1>5 DEF ClickCanvas, Type, SaveNotes
  <1>6. ASSUME OnNotes \/ OnSaved PROVE Goal
    <2>1. CASE OnNotes
      <3>1. Head(toClient) \in Message
        BY <1>1, <2>1, Received DEF OnNotes
      <3>2. Head(toClient).text \in Text \cup {NoText}
        BY <3>1 DEF Message
      <3> QED BY <1>1, <2>1, <3>2 DEF OnNotes
    <2>2. CASE OnSaved
      BY <1>1, <2>2 DEF OnSaved
    <2> QED BY <1>6, <2>1, <2>2
  <1>7. OnOpen \/ OnClose \/ Reconnect \/ Query \/ Common \/ Serve => UNCHANGED attributes
    BY DEF OnOpen, OnClose, Reconnect, Query, Common, Serve, ReadQueue, ServeQuery, ServeCommon,
           ServeNotes, ServeSave, SendLists
  <1>8. OnResults \/ OnCommon \/ OnError \/ OnLists \/ OnUploaded \/ OnProcessed => UNCHANGED attributes
    BY DEF OnResults, OnCommon, OnError, OnLists, OnUploaded, OnProcessed
  <1>9. (\E f \in File : \/ Accept(f) \/ TellUploaded(f) \/ Process(f) \/ LeaveQueue(f)
                         \/ AddToDownloads(f) \/ Settle(f)) \/ UNCHANGED vars
          => UNCHANGED attributes
    BY DEF Accept, TellUploaded, Process, LeaveQueue, AddToDownloads, Settle, Step, vars
  <1> HIDE DEF Goal
  <1>10. Goal
    BY <1>3, <1>4, <1>5, <1>6, <1>7, <1>8, <1>9 DEF Next, OnMessage
  <1> QED BY <1>2, <1>10 DEF Goal

LEMMA UploadsType ==
    ASSUME IInv, [Next]_vars
    PROVE /\ In' \subseteq File /\ Out' \subseteq File
          /\ stored' \in [in : SUBSET File, out : SUBSET File]
          /\ job' \in [File -> {"none", "accepted", "queued", "processed", "left", "done", "lost"}]
          /\ reading' \in {NoLists} \cup SUBSET File
  <1> DEFINE Goal == /\ In' \subseteq File /\ Out' \subseteq File
                     /\ stored' \in [in : SUBSET File, out : SUBSET File]
                     /\ job' \in [File -> {"none", "accepted", "queued", "processed", "left", "done", "lost"}]
                     /\ reading' \in {NoLists} \cup SUBSET File
  <1>1. /\ In \subseteq File /\ Out \subseteq File
        /\ stored \in [in : SUBSET File, out : SUBSET File]
        /\ job \in [File -> {"none", "accepted", "queued", "processed", "left", "done", "lost"}]
        /\ reading \in {NoLists} \cup SUBSET File
    BY DEF IInv, TypeOK
  <1>2. ASSUME UNCHANGED uploads PROVE Goal
    BY <1>1, <1>2 DEF uploads
  <1>3. ASSUME OnOpen PROVE Goal
    BY <1>1, <1>3 DEF OnOpen
  <1>4. ASSUME OnClose PROVE Goal
    BY <1>1, <1>4 DEF OnClose
  <1>5. ASSUME ReadQueue PROVE Goal
    BY <1>1, <1>5 DEF ReadQueue
  <1>6. ASSUME SendLists PROVE Goal
    BY <1>1, <1>6 DEF SendLists
  <1>7. ASSUME NEW f \in File, Accept(f) PROVE Goal
    BY <1>1, <1>7 DEF Accept, Step
  <1>8. ASSUME NEW f \in File, TellUploaded(f) \/ Process(f) PROVE Goal
    BY <1>1, <1>8 DEF TellUploaded, Process, Step
  <1>9. ASSUME NEW f \in File, LeaveQueue(f) PROVE Goal
    BY <1>1, <1>9 DEF LeaveQueue, Step
  <1>10. ASSUME NEW f \in File, AddToDownloads(f) PROVE Goal
    BY <1>1, <1>10 DEF AddToDownloads, Step
  <1>11. ASSUME NEW f \in File, Settle(f) PROVE Goal
    BY <1>1, <1>11 DEF Settle
  <1>12. Reconnect \/ Query \/ Common \/ (\E e \in Element : Click(e)) \/ ClickCanvas
           \/ (\E t \in Text : Type(t)) \/ SaveNotes \/ UNCHANGED vars => UNCHANGED uploads
    BY DEF Reconnect, Query, Common, Click, ClickCanvas, Type, SaveNotes, vars
  <1>13. ServeQuery \/ ServeCommon \/ ServeNotes \/ ServeSave => UNCHANGED uploads
    BY DEF ServeQuery, ServeCommon, ServeNotes, ServeSave
  <1>14. OnMessage => UNCHANGED uploads
    BY DEF OnMessage, OnResults, OnCommon, OnError, OnNotes, OnSaved, OnLists, OnUploaded,
           OnProcessed, Receive
  <1> HIDE DEF Goal
  <1>15. Goal
    BY <1>2, <1>3, <1>4, <1>5, <1>6, <1>7, <1>8, <1>9, <1>10, <1>11, <1>12, <1>13, <1>14 DEF Next, Serve
  <1> QED BY <1>15 DEF Goal

-----------------------------------------------------------------------------
(* Theorems.                                                               *)
LEMMA InitHolds == Init => IInv
  <1> SUFFICES ASSUME Init PROVE IInv
    OBVIOUS
  <1>1. /\ toServer = <<>> /\ toClient = <<>> /\ ws = "connecting" /\ attempts = 0 /\ jobs = 0
        /\ button = {"disabled"} /\ dataId = NoElement /\ reading = NoLists
        /\ queue = [f \in File |-> 0] /\ queueN = 0 /\ header = FALSE
        /\ \A f \in File : job[f] \in {"none", "done"}
    BY DEF Init
  <1>2. TypeOK
    <2>1. PICK old \in SUBSET File : /\ stored = [in |-> {}, out |-> old]
                                     /\ job = [f \in File |-> IF f \in old THEN "done" ELSE "none"]
      BY DEF Init
    <2>2. page \in {"search", "profile"} /\ drops = 0 /\ attempts \in 0..MaxAttempts
          /\ drops \in 0..MaxDrops /\ jobs \in 0..MaxJobs
      BY ConnectionAssumption DEF Init
    <2>3. /\ dataId \in Element \cup {NoElement} /\ field \in Text \cup {NoText}
          /\ typed \in BOOLEAN /\ saving \in BOOLEAN
          /\ notes \in [Key -> Text \cup {NoText}]
      BY DEF Init
    <2>4. /\ In \subseteq File /\ Out \subseteq File
          /\ stored \in [in : SUBSET File, out : SUBSET File]
          /\ job \in [File -> {"none", "accepted", "queued", "processed", "left", "done", "lost"}]
      BY <2>1 DEF Init
    <2>5. queue \in [File -> Nat] /\ downloads \in [File -> Nat] /\ queueN \in Nat /\ header \in BOOLEAN
      BY DEF Init
    <2>6. toServer \in Seq(Message) /\ toClient \in Seq(Message)
      BY <1>1
    <2> QED BY <1>1, <2>2, <2>3, <2>4, <2>5, <2>6 DEF TypeOK
  <1>3. MessagesInv /\ OfflineInv /\ RetryInv /\ ProfileInv /\ LockedOffline
    BY <1>1 DEF MessagesInv, OfflineInv, RetryInv, ProfileInv, LockedOffline, Working
  <1>4. JobsCoverSearches
    <2>1. Count(toServer, "sql") = 0 /\ Count(toClient, "results") = 0
      BY <1>1, CountEmpty
    <2> QED BY <1>1, <2>1 DEF JobsCoverSearches, Searches
  <1>5. QueueInv
    <2>1. Entries(queue) = {}
      BY <1>1 DEF Entries
    <2> QED BY <1>1, <2>1, FS_EmptySet DEF QueueInv, QueueIsCounted
  <1>6. AskedInv /\ AnsweredInv /\ FilesInv
    BY <1>1 DEF AskedInv, AnsweredInv, FilesInv
  <1> QED BY <1>2, <1>3, <1>4, <1>5, <1>6 DEF IInv

LEMMA TypeStep == ASSUME IInv, [Next]_vars PROVE TypeOK'
  <1>1. toServer' \in Seq(Message) /\ toClient' \in Seq(Message)
    BY MessagesStep
  <1>2. /\ queue' \in [File -> Nat] /\ downloads' \in [File -> Nat]
        /\ queueN' \in Nat /\ header' \in BOOLEAN
    BY QueueStep
  <1> QED BY <1>1, <1>2, ConnectionType, SearchType, NotesType, UploadsType
          DEF TypeOK, Message, Kind

\* The page's connection keeps its invariant: what is on its way, counted, shown
\* and still to be told fits together.
THEOREM Invariance == Spec => []IInv
  <1>1. IInv /\ [Next]_vars => IInv'
    <2> SUFFICES ASSUME IInv, [Next]_vars PROVE IInv'
      OBVIOUS
    <2>1. TypeOK' /\ MessagesInv'
      BY TypeStep, MessagesStep
    <2>2. OfflineInv' /\ RetryInv' /\ ProfileInv'
      BY OfflineStep, RetryStep, ProfileStep
    <2>3. JobsCoverSearches' /\ LockedOffline' /\ QueueInv'
      BY JobsStep, LockedStep, QueueStep
    <2>4. AskedInv' /\ AnsweredInv' /\ FilesInv'
      BY AskedStep, AnsweredStep, FilesStep
    <2> QED BY <2>1, <2>2, <2>3, <2>4 DEF IInv
  <1> QED BY <1>1, InitHolds, PTL DEF Spec

\* Every variable of the page and of its connection keeps its type.
THEOREM TypeCorrect == Spec => []TypeOK
  <1>1. IInv => TypeOK
    BY DEF IInv
  <1> QED BY <1>1, Invariance, PTL

\* No search that can still be answered is left out of the count, however often the
\* connection is lost (search.js: query(), processResults()).
THEOREM SearchesAreCounted == Spec => []JobsCoverSearches
  <1>1. IInv => JobsCoverSearches
    BY DEF IInv
  <1> QED BY <1>1, Invariance, PTL

\* Without a connection the search button is disabled (websocket.js: onOpen(),
\* onClose(); search.js: query(), processResults()).
THEOREM ButtonIsLocked == Spec => []LockedOffline
  <1>1. IInv => LockedOffline
    BY DEF IInv
  <1> QED BY <1>1, Invariance, PTL

\* The files the profile page counts are the files it shows in its queue, and the
\* header is there when there are any (user-actions.js: lists(), uploaded(),
\* uploadProcessed()).
THEOREM QueueCounted == Spec => []QueueIsCounted
  <1>1. IInv => QueueIsCounted
    BY DEF IInv, QueueInv
  <1> QED BY <1>1, Invariance, PTL

\* A connected profile page that waits for nothing shows every file its Account
\* knows of (upload.go: getUploadLists(); user-actions.js: lists(),
\* uploadProcessed()).
THEOREM AllFilesShown == Spec => []FilesAreShown
  <1>1. IInv => FilesAreShown
    <2> SUFFICES ASSUME IInv, page = "profile", ws = "open", toServer = <<>>, toClient = <<>>,
                        NEW f \in In \cup Out, job[f] # "accepted"
                 PROVE queue[f] + downloads[f] > 0
      BY DEF FilesAreShown
    <2>1. f \in File
      BY DEF IInv, TypeOK
    <2>2. Shown(f) \/ Announced(f) \/ ToBeListed(f)
      BY <2>1 DEF IInv, FilesInv, FileInv
    <2> QED BY <2>2 DEF Announced, ToBeListed, Shown
  <1> QED BY <1>1, Invariance, PTL

\* The last answer about notes is the one that counts: the text area then holds what
\* the database has of the element that is shown (graph.js: showNotes(),
\* saveNotes(); websocket.js: onMessage()).
THEOREM LastAnswerCounts == Spec => LastNotesCount
  <1> DEFINE Counts == OnNotes /\ NotesQuiet' /\ dataId # NoElement => field' = notes[dataId]
  <1>1. IInv => Counts
    <2> SUFFICES ASSUME IInv, OnNotes, NotesQuiet', dataId # NoElement
                 PROVE field' = notes[dataId]
      OBVIOUS
    <2>1. /\ toClient \in Seq(Message) /\ toClient # <<>> /\ toClient' = Tail(toClient)
          /\ Head(toClient) = toClient[1] /\ 1 \in DOMAIN toClient
          /\ Head(toClient).type = "notes" /\ toServer' = toServer
      BY Received DEF IInv, OnNotes
    <2>2. \A k \in DOMAIN toClient : k = 1 \/ (k - 1 \in DOMAIN toClient' /\ toClient'[k - 1] = toClient[k])
      BY <2>1, TailSeq
    <2>3. /\ \A k \in DOMAIN toServer' : ~AboutNotes(toServer'[k])
          /\ \A k \in DOMAIN toClient' : ~AboutNotes(toClient'[k])
      BY DEF NotesQuiet, AboutNotes
    <2>4. \A k \in DOMAIN toClient : AboutNotes(toClient[k]) => k <= 1
      BY <2>2, <2>3
    <2>5. LastAnswer(1)
      BY <2>1, <2>3, <2>4 DEF LastAnswer
    <2>6. toClient[1].text = notes[dataId]
      BY <2>1, <2>5 DEF IInv, AnsweredInv
    <2> QED BY <2>1, <2>6 DEF OnNotes
  <1>2. IInv /\ [Next]_vars => [Counts]_vars
    BY <1>1
  <1> QED BY <1>2, Invariance, PTL DEF Spec, LastNotesCount
=============================================================================
