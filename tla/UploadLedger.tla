----------------------------- MODULE UploadLedger -----------------------------
(***************************************************************************)
(* What the upload pipeline promises to users, with its goroutines, its    *)
(* copies of the lists, its connections and its stops hidden: an upload is *)
(* taken in once and answered at most once, it is let go only when its     *)
(* outcome is known, and what is offered for download is the user's own,   *)
(* let go, and offered once.  A stop and a start of the service, a lost    *)
(* connection and a failed update are not seen here.                       *)
(***************************************************************************)
EXTENDS Naturals

CONSTANTS
    Users,          \* accounts of the database
    Files,          \* uploads
    Owner           \* the user who uploads a file

VARIABLES
    place,          \* where an upload is
    answer,         \* what its request was answered
    known,          \* the uploads with a report, or whose owner was told
    offered         \* per user, how often each upload is offered for download

vars == <<place, answer, known, offered>>

Init ==
    /\ place = [f \in Files |-> "none"]
    /\ answer = [f \in Files |-> "none"]
    /\ known = {}
    /\ offered = [u \in Users |-> [f \in Files |-> 0]]

\* An upload is taken in, at once refused when it could not be copied.
TakeIn(f) ==
    /\ place[f] = "none"
    /\ place' = [place EXCEPT ![f] = "held"]
    /\ answer' \in {answer, [answer EXCEPT ![f] = "error"]}
    /\ UNCHANGED <<known, offered>>

Reply(f) ==
    /\ place[f] # "none" /\ answer[f] = "none"
    /\ \E a \in {"ok", "error"} : answer' = [answer EXCEPT ![f] = a]
    /\ UNCHANGED <<place, known, offered>>

MakeKnown(f) ==
    /\ place[f] # "none"
    /\ known' = known \cup {f}
    /\ UNCHANGED <<place, answer, offered>>

\* The copy goes, or can't be removed, once somebody knows what became of it.
LetGo(f) ==
    /\ place[f] = "held"
    /\ f \in known \/ answer[f] = "error"
    /\ \E where \in {"gone", "stuck"} : place' = [place EXCEPT ![f] = where]
    /\ UNCHANGED <<answer, known, offered>>

\* An upload that was let go is offered to its owner, or is not any more: a
\* list may be older than the one it replaces.
Offerable(u, l) ==
    /\ l \in [Files -> Nat]
    /\ \A f \in Files :
         /\ l[f] > 0 => Owner[f] = u /\ place[f] \in {"gone", "stuck"}
         /\ l[f] > 1 => place[f] = "stuck"

Offer(u) ==
    /\ UNCHANGED <<place, answer, known>>
    /\ offered' = [offered EXCEPT ![u] = offered'[u]]
    /\ Offerable(u, offered'[u])

Next ==
    \/ \E u \in Users : Offer(u)
    \/ \E f \in Files : TakeIn(f) \/ Reply(f) \/ MakeKnown(f) \/ LetGo(f)

Spec == Init /\ [][Next]_vars
=============================================================================
