---------------------------- MODULE MCIpSetHash ----------------------------
(* Instances of IpSetHash for TLC. *)
EXTENDS IpSetHash, TLC

CONSTANTS a, b, c, d, e5, r

\* Elements that share the bucket of the one-bucket table and part ways one
\* mask bit at a time.
MCHash == a :> 0 @@ b :> 4 @@ c :> 2 @@ d :> 6
MCGroup == [e \in Elem |-> e]
\* For a type with IP_SET_HASH_WITH_MULTI: the elements of one net hash alike
\* and are interchangeable.
MCHashMulti == [e \in Elem |-> 0]
MCGroupMulti == [e \in Elem |-> NULL]
\* One element in the first bucket, and four in the second that the next mask
\* bit parts two and two: a listing stops between the buckets, and the second
\* overflows.
MCHashList == a :> 0 @@ b :> 1 @@ c :> 3 @@ d :> 1 @@ e5 :> 3
MCListSymmetry == Permutations({b, d}) \cup Permutations({c, e5})
MCSymmetry == Permutations(Elem)
=============================================================================
