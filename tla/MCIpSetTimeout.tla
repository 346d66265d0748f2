--------------------------- MODULE MCIpSetTimeout ---------------------------
(***************************************************************************)
(* Instances of IpSetTimeout for TLC.  A passing run checks two sets, one  *)
(* at a time: the one the configuration describes, which fits into one     *)
(* bucket and whose elements' lifetimes are followed, and a wide one,      *)
(* whose bucket overflows so that it is cleaned up and doubled.            *)
(***************************************************************************)
EXTENDS IpSetTimeout, TLC

CONSTANTS a, b, c

VARIABLE wide  \* whether the set is the wide one

MCHashPair == a :> 0 @@ b :> 1
\* In the wide set all elements collide at first; doubling parts a from b and c.
MCHash == a :> 0 @@ b :> 1 @@ c :> 1
MCElem == {a, b, c}

Wide == INSTANCE IpSetTimeout WITH
    Elem <- MCElem, jhash2 <- MCHash, Watched <- {},
    AHASH_MAX <- 2, MaxBits <- 1, maxelem <- 3,
    Timeout <- {1}, J <- 6, GcDelay <- 0

MCVars == <<wide, vars>>
MCInit == (wide = TRUE /\ Wide!Init) \/ (wide = FALSE /\ Init)
MCNext ==
    \/ wide /\ Wide!Next /\ UNCHANGED wide
    \/ ~wide /\ Next /\ UNCHANGED wide

MCSpec == MCInit /\ [][MCNext]_MCVars

\* The set of the configuration alone.
MCSmallSpec == wide = FALSE /\ Init /\ [][MCNext]_MCVars

(***************************************************************************)
(* The properties of IpSetTimeout, for both sets                           *)
(***************************************************************************)
\* TableSound: the count, the buckets and their arrays stay right.
TablesSound == IF wide THEN Wide!TableSound ELSE TableSound

\* FullMeansAlive: a set that refuses an add as full is full of living elements.
FullMeansAllAlive == IF wide THEN Wide!FullMeansAlive ELSE FullMeansAlive

\* GcStops: no collector outlives its set.
NoStrayGc == IF wide THEN Wide!GcStops ELSE GcStops

\* TestExact: an element is found exactly while its time runs.
FoundInTime == ~wide => TestExact

\* CollectedInTime: what has expired is collected, if not at once.
ExpiredGo == ~wide => CollectedInTime
=============================================================================
