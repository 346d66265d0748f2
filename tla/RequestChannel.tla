--------------------------- MODULE RequestChannel ---------------------------
(***************************************************************************)
(* What a shared ring promises the two drivers that use it                 *)
(* (xen/interface/io/ring.h, "1-for-1 request-response situations"): every *)
(* request reaches the back end once and in order, the back end answers    *)
(* each one once and in any order, the answers reach the front end in the  *)
(* order they were given, and no more than Size requests are open.         *)
(***************************************************************************)
EXTENDS Naturals, SequencesExt

CONSTANTS Id,      \* names of requests
          Size     \* how many may be open at a time

VARIABLES queue,   \* requests submitted and not yet taken
          serving, \* requests the back end works on
          replies  \* answers given and not yet collected

vars == <<queue, serving, replies>>

Open == ToSet(queue) \cup serving \cup ToSet(replies)

Init == queue = <<>> /\ serving = {} /\ replies = <<>>

\* Any number of new requests become visible at once.
Submit ==
    /\ \E batch \in BoundedSeq(Id \ Open, Size) :
          /\ IsInjective(batch)
          /\ queue' = queue \o batch
    /\ Len(queue') + Cardinality(serving) + Len(replies) <= Size
    /\ UNCHANGED <<serving, replies>>

Take ==
    /\ queue # <<>>
    /\ queue' = Tail(queue)
    /\ serving' = serving \cup {Head(queue)}
    /\ UNCHANGED replies

\* Any number of answers become visible at once.
Answer ==
    /\ \E batch \in BoundedSeq(serving, Size) :
          /\ IsInjective(batch)
          /\ replies' = replies \o batch
          /\ serving' = serving \ ToSet(batch)
    /\ UNCHANGED queue

Collect ==
    /\ replies # <<>>
    /\ replies' = Tail(replies)
    /\ UNCHANGED <<queue, serving>>

Next == Submit \/ Take \/ Answer \/ Collect

Spec == Init /\ [][Next]_vars
=============================================================================
