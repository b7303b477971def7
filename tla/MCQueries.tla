------------------------------ MODULE MCQueries ------------------------------
(***************************************************************************)
(* Instances of Queries for TLC.                                           *)
(***************************************************************************)
EXTENDS Queries

CONSTANTS q1, q2, a, b, p1, p2, start, again, more, global

TwoSources == <<a, b>>
TwoProcessors == <<p1, p2>>
NoneUnparsable == {}

\* A global query of an upload job, answered by one search of each source.
ToAll == [q \in Requests |-> global]
OwnKey == [q \in Requests |-> q]
OneEach == [x \in Requests \X Sources |-> {1}]

\* q1 and q2 are the same question to source a, split in two.
TwoToOne == [q \in Requests |-> a]
SharedKey == [q \in Requests |-> q1]
TwoParts == [x \in Requests \X Sources |-> {1, 2}]
=============================================================================
