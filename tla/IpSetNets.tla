------------------------------ MODULE IpSetNets ------------------------------
(***************************************************************************)
(* Sets of networks in linux/netfilter/ipset/ip_set_ahash.h                *)
(* (IP_SET_HASH_WITH_NETS): the prefix sizes in use are kept, largest      *)
(* first, in the array h->nets, and an address is looked up by masking it  *)
(* with one size after the other.                                          *)
(*                                                                         *)
(* The hash table is abstracted to the function from the stored networks   *)
(* to what the set says of them; IpSetHash and IpSetTimeout model the      *)
(* table.  Everything that changes the array runs under the write lock and *)
(* is one step.                                                            *)
(***************************************************************************)
EXTENDS Integers, SequencesExt

CONSTANTS
    HOST_MASK,  \* the length of an address in bits
    Net         \* the networks users add: <<address, cidr>>

VARIABLES
    with_timeout,   \* the flavour of the set, fixed when it is created
    nets,           \* h->nets: the sizes and the number of elements of each
    stored          \* the elements: stored[x] is [match, expired]

nets_vars == <<with_timeout, nets, stored>>

Addr == 0 .. 2 ^ HOST_MASK - 1
Pos == 0 .. HOST_MASK - 1

\* type_pf_data_netmask: the host part of an address cleared.
type_pf_data_netmask(addr, cidr) == addr - (addr % 2 ^ (HOST_MASK - cidr))

ASSUME NetsAssumption ==
    /\ HOST_MASK \in Nat \ {0, 1}
    /\ Net \subseteq Addr \X (1 .. HOST_MASK)
    /\ \A x \in Net : type_pf_data_netmask(x[1], x[2]) = x[1]

(***************************************************************************)
(* The array                                                               *)
(***************************************************************************)
\* Where a walk that stops at the first free place, or at limit, ends.
End(n, limit) == Min({i \in Pos : n[i].cidr = 0} \cup {limit})

\* Wrong variant of add_cidr: a new size goes to the end.
add_unsorted(h, cidr) ==
    LET n == [h EXCEPT ![cidr - 1].nets = @ + 1]
    IN  IF n[cidr - 1].nets > 1 \/ End(n, HOST_MASK) = HOST_MASK THEN n
        ELSE [n EXCEPT ![End(n, HOST_MASK)].cidr = cidr]

\* A new size is swapped into its place and the displaced one carried on.
add_cidr(h, cidr) ==
    LET n   == [h EXCEPT ![cidr - 1].nets = @ + 1]
        end == End(n, HOST_MASK)
        walk[i \in 0 .. end] ==
            IF i = 0 THEN [n |-> n, cidr |-> cidr]
            ELSE LET w == walk[i - 1]
                 IN  IF w.n[i - 1].cidr < w.cidr
                     THEN [n |-> [w.n EXCEPT ![i - 1].cidr = w.cidr], cidr |-> w.n[i - 1].cidr]
                     ELSE w
    IN  IF n[cidr - 1].nets > 1 THEN n
        ELSE IF end < HOST_MASK THEN [walk[end].n EXCEPT ![end].cidr = walk[end].cidr]
        ELSE walk[end].n

\* A size that is gone is overwritten by the next one, and so on; the place
\* before the end of the walk is then free.
del_cidr(h, cidr) ==
    LET n   == [h EXCEPT ![cidr - 1].nets = @ - 1]
        end == End(n, HOST_MASK - 1)
        walk[i \in 0 .. end] ==
            IF i = 0 THEN [n |-> n, cidr |-> cidr]
            ELSE LET w == walk[i - 1]
                 IN  IF w.n[i - 1].cidr = w.cidr
                     THEN [n |-> [w.n EXCEPT ![i - 1].cidr = w.n[i].cidr], cidr |-> w.n[i].cidr]
                     ELSE w
    IN  IF n[cidr - 1].nets # 0 THEN n
        ELSE [walk[end].n EXCEPT ![end - 1].cidr = 0]

(***************************************************************************)
(* Lookup                                                                  *)
(***************************************************************************)
Alive(x) == x \in DOMAIN stored /\ ~stored[x].expired

\* What type_pf_test_cidrs and type_pf_ttest_cidrs return for an address: the
\* first network hit, in the order of the array; the masks add up.
type_pf_test_cidrs(addr) ==
    LET end == End(nets, HOST_MASK)
        d[j \in 0 .. end] ==
            IF j = 0 THEN addr ELSE type_pf_data_netmask(d[j - 1], nets[j - 1].cidr)
        hits == {j \in 1 .. end : Alive(<<d[j], nets[j - 1].cidr>>)}
    IN  IF hits = {} THEN "none"
        ELSE stored[<<d[Min(hits)], nets[Min(hits) - 1].cidr>>].match

-----------------------------------------------------------------------------
NetsInit ==
    /\ with_timeout \in BOOLEAN
    /\ nets = [i \in Pos |-> [cidr |-> 0, nets |-> 0]]
    /\ stored = [x \in {} |-> 0]

With(f, x, match) ==
    [y \in DOMAIN f \cup {x} |-> IF y = x THEN [match |-> match, expired |-> FALSE] ELSE f[y]]
Without(f, S) == [y \in DOMAIN f \ S |-> f[y]]

\* type_pf_add: a network that is there has its flags overwritten if the
\* caller asks for it (IPSET_FLAG_EXIST); else nothing changes.
type_pf_add(x, match, exist) ==
    /\ ~with_timeout
    /\ \/ x \in DOMAIN stored /\ exist /\ nets' = nets
       \/ x \notin DOMAIN stored /\ nets' = add_cidr(nets, x[2])
    /\ stored' = With(stored, x, match)
    /\ UNCHANGED with_timeout

\* Wrong variant of type_pf_tadd: the old network stays in the array.
reuse_keeps(x, match, exist) ==
    /\ with_timeout
    /\ \/ x \in DOMAIN stored /\ (stored[x].expired \/ exist)
          /\ nets' = nets /\ stored' = With(stored, x, match)
       \/ x \notin DOMAIN stored
          /\ nets' = add_cidr(nets, x[2])
          /\ \E S \in {{}} \cup {{y} : y \in {z \in DOMAIN stored : stored[z].expired}} :
                stored' = With(Without(stored, S), x, match)
    /\ UNCHANGED with_timeout

\* type_pf_tadd takes over the slot of the network itself, or that of an
\* expired one in the same bucket, or a free one.
type_pf_tadd(x, match, exist) ==
    LET Over(y) == /\ nets' = add_cidr(del_cidr(nets, y[2]), x[2])
                   /\ stored' = With(Without(stored, {y}), x, match)
    IN  /\ with_timeout
        /\ \/ x \in DOMAIN stored /\ (stored[x].expired \/ exist) /\ Over(x)
           \/ x \notin DOMAIN stored /\ \E y \in DOMAIN stored : stored[y].expired /\ Over(y)
           \/ /\ x \notin DOMAIN stored
              /\ nets' = add_cidr(nets, x[2])
              /\ stored' = With(stored, x, match)
        /\ UNCHANGED with_timeout

\* type_pf_del and type_pf_tdel.
type_pf_del(x) ==
    /\ Alive(x)
    /\ nets' = del_cidr(nets, x[2])
    /\ stored' = Without(stored, {x})
    /\ UNCHANGED with_timeout

\* type_pf_expire, whoever calls it: expired networks go one by one, in the
\* order of their slots.  It may miss some (see expire_bucket of IpSetTimeout).
type_pf_expire ==
    \E S \in SUBSET {x \in DOMAIN stored : stored[x].expired} \ {{}} :
        /\ \E order \in SetToSeqs(S) :
              nets' = FoldLeft(LAMBDA h, x : del_cidr(h, x[2]), nets, order)
        /\ stored' = Without(stored, S)
        /\ UNCHANGED with_timeout

\* ip_set_hash_flush clears the table and the array.
ip_set_hash_flush ==
    /\ DOMAIN stored # {}
    /\ nets' = [i \in Pos |-> [cidr |-> 0, nets |-> 0]]
    /\ stored' = [x \in {} |-> 0]
    /\ UNCHANGED with_timeout

\* The time of an element with a timeout passes.
Expire(x) ==
    /\ with_timeout /\ Alive(x)
    /\ stored' = [stored EXCEPT ![x].expired = TRUE]
    /\ UNCHANGED <<with_timeout, nets>>

NetsNext ==
    \/ \E x \in Net, match \in {"match", "nomatch"}, exist \in BOOLEAN :
          type_pf_add(x, match, exist) \/ type_pf_tadd(x, match, exist)
    \/ \E x \in Net : type_pf_del(x) \/ Expire(x)
    \/ type_pf_expire \/ ip_set_hash_flush

NetsSpec == NetsInit /\ [][NetsNext]_nets_vars

-----------------------------------------------------------------------------
(***************************************************************************)
(* Properties                                                              *)
(***************************************************************************)
\* The array holds sizes and counts no larger than there are networks.
NetsTypeOK ==
    /\ with_timeout \in BOOLEAN
    /\ nets \in [Pos -> [cidr : 0 .. HOST_MASK, nets : 0 .. Cardinality(Net)]]
    /\ DOMAIN stored \subseteq Net

\* Every size counts the elements of that size, and the sizes with elements
\* are exactly those at the front of the array, in decreasing order: a walk of
\* add_cidr, del_cidr or a test that stops at the first zero sees all of them.
BookKeeping ==
    LET end == End(nets, HOST_MASK)
        Of(c) == {x \in DOMAIN stored : x[2] = c}
    IN  /\ \A c \in 1 .. HOST_MASK : nets[c - 1].nets = Cardinality(Of(c))
        /\ {nets[i].cidr : i \in 0 .. end - 1} = {x[2] : x \in DOMAIN stored}
        /\ \A i, j \in 0 .. end - 1 : i < j => nets[i].cidr > nets[j].cidr
        /\ \A i \in end .. HOST_MASK - 1 : nets[i].cidr = 0

\* "Takes into account the different network sizes added to the set": for an
\* address the test answers what the longest live network around it says.
LongestMatch ==
    \A addr \in Addr :
        LET around == {x \in DOMAIN stored : Alive(x) /\ type_pf_data_netmask(addr, x[2]) = x[1]}
        IN  IF around = {} THEN type_pf_test_cidrs(addr) = "none"
            ELSE \E x \in around :
                    /\ \A y \in around : y[2] <= x[2]
                    /\ type_pf_test_cidrs(addr) = stored[x].match
=============================================================================
