-------------------------------- MODULE IpSet --------------------------------
(***************************************************************************)
(* What a hash type of ip set promises its users: a bounded set of         *)
(* elements.  The operations are the ones struct ip_set_type_variant lists *)
(* (linux/netfilter/ipset/ip_set.h); resizing and listing do not appear,   *)
(* because nobody may be able to tell that they happened.                  *)
(***************************************************************************)
EXTENDS Naturals, FiniteSets

CONSTANTS Elem,       \* what may be stored
          maxelem     \* h->maxelem

VARIABLES members     \* the elements a test answers "yes" for

TypeOK == members \in SUBSET Elem

Init == members = {}

Add(e) ==
    /\ Cardinality(members) < maxelem
    /\ e \notin members
    /\ members' = members \cup {e}

Del(e) ==
    /\ e \in members
    /\ members' = members \ {e}

\* IPSET_CMD_FLUSH, and the flush that destroying the set amounts to.
Flush == members' = {}

Next == Flush \/ \E e \in Elem : Add(e) \/ Del(e)

Spec == Init /\ [][Next]_members

=============================================================================
