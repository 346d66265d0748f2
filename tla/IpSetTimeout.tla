---------------------------- MODULE IpSetTimeout ----------------------------
(***************************************************************************)
(* The array hash of linux/netfilter/ipset/ip_set_ahash.h in the flavour   *)
(* with timeout: every element carries the time it expires at, in jiffies  *)
(* that wrap around (linux/netfilter/ipset/ip_set_timeout.h), a timer      *)
(* collects the expired ones, and an add may reuse their slots.            *)
(*                                                                         *)
(* A bucket is the sequence of its slots in use, because the order matters *)
(* here: deletion moves the last slot into the hole, and the collector     *)
(* walks on from there.  As in IpSetHash, what runs under the write lock   *)
(* is one step, and a resize gives the lock up between its phases.         *)
(***************************************************************************)
EXTENDS Integers, SequencesExt

CONSTANTS
    Elem, jhash2,
    AHASH_INIT_SIZE, AHASH_MAX,
    InitBits, MaxBits, \* bounds on the doubling; IpSetHash has the u8
    maxelem,
    Timeout,           \* the seconds an element may be given; 0: permanent
    HZ, MSEC_PER_SEC,
    U32,               \* the number of values of u32 and unsigned int: 2^32
    J,                 \* the number of values of jiffies: 2^BITS_PER_LONG
    GC_PERIOD,         \* IPSET_GC_PERIOD, in seconds
    GcDelay,           \* how many ticks late the timer may be served
    Watched,           \* the elements the ghost variables follow
    NULL

VARIABLES
    tab,        \* h->table, NULL once the set is destroyed
    elements,   \* h->elements
    jiffies,
    gcexp,      \* h->gc.expires while the timer is pending, else NULL
    gcpc,       \* "idle", or "rearm" between expiring and add_timer
    upc,        \* where the userspace command stands
    uval,       \* what it adds: element, seconds, IPSET_FLAG_EXIST
    ui,         \* i of type_pf_tresize, the count before its cleanup
    newtab,     \* t of type_pf_tresize
    left,       \* ghost: left[e], the ticks e was given minus those that passed
                \* since, down to Floor; NULL: not added, or deleted
    loose       \* ghost: elements whose slot lost the time they were given

hvars == <<tab, elements, left, loose>>
uvars == <<upc, uval, ui, newtab>>
gvars == <<gcexp, gcpc>>
vars == <<hvars, uvars, gvars, jiffies>>

ASSUME TimeoutAssumption ==
    /\ AHASH_INIT_SIZE \in Nat \ {0} /\ AHASH_MAX \in Nat /\ maxelem \in Nat
    /\ InitBits \in Nat /\ MaxBits \in Nat /\ InitBits <= MaxBits
    /\ jhash2 \in [Elem -> Nat]
    /\ HZ \in Nat \ {0} /\ MSEC_PER_SEC \in Nat \ {0}
    /\ U32 \in Nat /\ U32 % 2 = 0 /\ Timeout \subseteq 0 .. U32 - 2
    /\ J \in Nat /\ J % 2 = 0
    /\ \A s \in Timeout : 2 * s * MSEC_PER_SEC < U32 => 2 * (s * HZ + 1) < J
    /\ GC_PERIOD \in Nat \ {0} /\ GcDelay \in Nat /\ 2 * (GC_PERIOD * HZ + GcDelay) < J
    /\ Watched \subseteq Elem /\ NULL \notin Int

jhash_size(bits) == 2 ^ bits
BucketIndex(bits) == 0 .. jhash_size(bits) - 1
HKEY(e, bits) == jhash2[e] % jhash_size(bits)

EmptyTable(bits) ==
    [htable_bits |-> bits,
     bucket |-> [i \in BucketIndex(bits) |-> [size |-> 0, slots |-> <<>>]]]

\* What the slots in use hold.
Stored(t) == UNION {Range(t.bucket[i].slots) : i \in BucketIndex(t.htable_bits)}

\* The number of slots in use, over all buckets.
SlotCount(t) ==
    FoldSet(LAMBDA i, n : n + Len(t.bucket[i].slots), 0, BucketIndex(t.htable_bits))

(***************************************************************************)
(* Times                                                                   *)
(***************************************************************************)
IPSET_ELEM_PERMANENT == 0

\* Wrong variant of time_is_before_jiffies: compares without regard to the wrap.
before_naive(t) == t < jiffies

\* time_is_before_jiffies: (long)(t - jiffies) < 0.
time_is_before_jiffies(t) == (t - jiffies) % J >= J \div 2

ip_set_timeout_expired(t) == t # IPSET_ELEM_PERMANENT /\ time_is_before_jiffies(t)

\* msecs_to_jiffies, on an unsigned int: what is negative as an int is an
\* infinite timeout.
MAX_JIFFY_OFFSET == (J \div 2 - 1) \div 2 - 1
msecs_to_jiffies(m) ==
    IF 2 * m >= U32 THEN MAX_JIFFY_OFFSET
    ELSE (m * HZ + MSEC_PER_SEC - 1) \div MSEC_PER_SEC

\* An expiry time that is never IPSET_ELEM_PERMANENT by chance.  The seconds are
\* turned into milliseconds in 32 bits.
ip_set_timeout_set(secs) ==
    LET t == (msecs_to_jiffies((secs * MSEC_PER_SEC) % U32) + jiffies) % J
    IN  IF secs = 0 THEN IPSET_ELEM_PERMANENT
        ELSE IF t = IPSET_ELEM_PERMANENT THEN 1 ELSE t

\* The ticks of a permanent element, more than any other has.
Ever == J

\* What remains of the time of an element that a bucket's worth of collector
\* runs has passed over since it expired.
Floor == -(2 + AHASH_MAX * (GC_PERIOD * HZ + GcDelay))

\* What the caller of an add asks for, in ticks.
Lifetime(secs) == IF secs = 0 THEN Ever ELSE secs * HZ

\* The milliseconds of so many seconds are an int.
Representable(secs) == 2 * secs * MSEC_PER_SEC < U32

(***************************************************************************)
(* Buckets                                                                 *)
(***************************************************************************)
\* Slot i removed: type_pf_data_copy copies the last element into it.  That is
\* a function on struct type_pf_elem, which has no timeout: the time of slot i
\* stays where it is.
Removed(slots, i) == Front([slots EXCEPT ![i].e = Last(slots).e])

\* The watched element that loses its time by this: none if the two times are
\* equal, or if both have passed.
Mislaid(slots, i) ==
    {e \in Watched : /\ e = Last(slots).e /\ slots[i].t # Last(slots).t
                     /\ left[e] < 0 => ~ip_set_timeout_expired(slots[i].t)}

\* An array block given back if more than one is unused and the smaller array
\* can be allocated.
Shrunk(n, alloc) ==
    [n EXCEPT !.size = IF Len(n.slots) + AHASH_INIT_SIZE < @ /\ alloc
                       THEN @ - AHASH_INIT_SIZE ELSE @]

\* Wrong variant of Expires: the last slot is never looked at.
expires_short(slots, k) == k < Len(slots) /\ ip_set_timeout_expired(slots[k].t)

\* Whether round k of the inner loop of type_pf_expire finds an expired slot.
Expires(slots, k) == k <= Len(slots) /\ ip_set_timeout_expired(slots[k].t)

\* That loop: after[k] has the bucket after k rounds, how often h->elements was
\* decremented and who lost their time.  A slot that was filled from the end is
\* not looked at again.
expire_bucket(slots) ==
    LET after[k \in 0 .. Len(slots)] ==
            IF k = 0 THEN [slots |-> slots, gone |-> 0, moved |-> {}]
            ELSE LET r == after[k - 1]
                 IN  IF Expires(r.slots, k)
                     THEN [slots |-> Removed(r.slots, k), gone |-> r.gone + 1,
                           moved |-> r.moved \cup Mislaid(r.slots, k)]
                     ELSE r
    IN  after[Len(slots)]

\* type_pf_expire: the table it leaves, and the same two over all buckets;
\* shrink: the buckets whose allocation works.
type_pf_expire(t, shrink) ==
    LET B == BucketIndex(t.htable_bits)
        r == [i \in B |-> expire_bucket(t.bucket[i].slots)]
    IN  [tab   |-> [t EXCEPT !.bucket = [i \in B |->
                       Shrunk([t.bucket[i] EXCEPT !.slots = r[i].slots], i \in shrink)]],
         gone  |-> FoldSet(LAMBDA i, n : n + r[i].gone, 0, B),
         moved |-> UNION {r[i].moved : i \in B}]

\* type_pf_elem_tadd: ret and the bucket.
type_pf_elem_tadd(n, e, secs, alloc) ==
    LET grow == Len(n.slots) >= n.size
        slot == [e |-> e, t |-> ip_set_timeout_set(secs)]
    IN  IF grow /\ n.size >= AHASH_MAX THEN [ret |-> "EAGAIN", n |-> n]
        ELSE IF grow /\ ~alloc THEN [ret |-> "ENOMEM", n |-> n]
        ELSE [ret |-> "ok",
              n |-> [size  |-> IF grow THEN n.size + AHASH_INIT_SIZE ELSE n.size,
                     slots |-> Append(n.slots, slot)]]

\* type_pf_ttest.
type_pf_ttest(t, e) ==
    \E i \in DOMAIN t.bucket[HKEY(e, t.htable_bits)].slots :
        LET data == t.bucket[HKEY(e, t.htable_bits)].slots[i]
        IN  data.e = e /\ ~ip_set_timeout_expired(data.t)

\* The slot type_pf_tadd writes over: that of the element itself or else the
\* first one that has expired; 0 if there is none.

\* Wrong variant of ReusableSlot: takes an expired slot though the element has its own.
reuse_any(slots, e) ==
    SelectInSeq(slots, LAMBDA data : ip_set_timeout_expired(data.t))

ReusableSlot(slots, e) ==
    LET own == SelectInSeq(slots, LAMBDA data : data.e = e)
    IN  IF own # 0 THEN own
        ELSE SelectInSeq(slots, LAMBDA data : ip_set_timeout_expired(data.t))

(***************************************************************************)
(* Initial state: a new set, its collector started by type_pf_gc_init.     *)
(***************************************************************************)
Init ==
    /\ tab = EmptyTable(InitBits)
    /\ elements = 0
    /\ jiffies = 0
    /\ gcexp = (jiffies + GC_PERIOD * HZ) % J /\ gcpc = "idle"
    /\ upc = "idle" /\ uval = NULL /\ ui = 0 /\ newtab = NULL
    /\ left = [e \in Watched |-> NULL] /\ loose = {}

\* write_lock_bh(&set->lock) is granted: no resize is copying.
WriteLock == tab # NULL /\ upc # "publish"

(***************************************************************************)
(* Adding and deleting                                                     *)
(***************************************************************************)
\* type_pf_tadd: what it returns and leaves.  A full set is cleaned up first;
\* alloc and shrink: the allocations that work.
type_pf_tadd(e, secs, exist, alloc, shrink) ==
    LET full  == elements >= maxelem
        x     == IF full THEN type_pf_expire(tab, shrink)
                 ELSE [tab |-> tab, gone |-> 0, moved |-> {}]
        t     == x.tab
        count == elements - x.gone
        key   == HKEY(e, t.htable_bits)
        n     == t.bucket[key]
        own   == SelectInSeq(n.slots, LAMBDA data : data.e = e)
        j     == ReusableSlot(n.slots, e)
        over  == [n EXCEPT !.slots[j] = [e |-> e, t |-> ip_set_timeout_set(secs)]]
        added == type_pf_elem_tadd(n, e, secs, alloc)
        Result(ret, bucket, total) ==
            [ret |-> ret, tab |-> [t EXCEPT !.bucket[key] = bucket], elements |-> total,
             moved |-> x.moved]
    IN  IF count >= maxelem THEN Result("HASH_FULL", n, count)
        ELSE IF own # 0 /\ ~exist /\ ~ip_set_timeout_expired(n.slots[own].t)
             THEN Result("EXIST", n, count)
        ELSE IF j # 0 THEN Result("ok", over, count)
        ELSE Result(added.ret, added.n, IF added.ret = "ok" THEN count + 1 ELSE count)

\* An add with the outcome r.
Added(r, e, secs) ==
    /\ tab' = r.tab /\ elements' = r.elements
    /\ LET new == IF r.ret = "ok" THEN {e} \cap Watched ELSE {}
       IN  /\ left' = [w \in Watched |-> IF w \in new THEN Lifetime(secs) ELSE left[w]]
           /\ loose' = IF Representable(secs) THEN (loose \cup r.moved) \ new
                       ELSE loose \cup r.moved \cup new

Outcomes(e, secs, exist) ==
    {type_pf_tadd(e, secs, exist, alloc, shrink) :
        alloc \in BOOLEAN,
        shrink \in IF elements >= maxelem THEN SUBSET BucketIndex(tab.htable_bits) ELSE {{}}}

\* One round of a userspace add, with the outcome r.  On EAGAIN the caller
\* resizes, telling type_pf_tresize whether to try a cleanup first.
uadd(e, secs, exist, r) ==
    /\ Added(r, e, secs)
    /\ IF r.ret = "EAGAIN"
         THEN upc' \in {"count", "copy"} /\ uval' = <<e, secs, exist>>
         ELSE upc' = "idle" /\ uval' = NULL
    /\ UNCHANGED <<ui, newtab, gvars, jiffies>>

UserAdd(e, secs, exist, r) == upc = "idle" /\ uadd(e, secs, exist, r)
RetryAdd ==
    /\ upc = "retry" /\ WriteLock
    /\ \E r \in Outcomes(uval[1], uval[2], uval[3]) : uadd(uval[1], uval[2], uval[3], r)

\* An add from the packet path: nobody resizes for it.
KernelAdd(e, secs, r) ==
    /\ Added(r, e, secs)
    /\ UNCHANGED <<uvars, gvars, jiffies>>

\* type_pf_tdel: an expired element is not there to be deleted.
type_pf_tdel(e) ==
    LET key == HKEY(e, tab.htable_bits)
        n   == tab.bucket[key]
        i   == SelectInSeq(n.slots, LAMBDA data : data.e = e)
    IN  /\ WriteLock
        /\ i # 0 /\ ~ip_set_timeout_expired(n.slots[i].t)
        /\ \E alloc \in BOOLEAN :
              tab' = [tab EXCEPT !.bucket[key] = Shrunk([n EXCEPT !.slots = Removed(@, i)], alloc)]
        /\ elements' = elements - 1
        /\ left' = [w \in Watched |-> IF w = e THEN NULL ELSE left[w]]
        /\ loose' = (loose \cup Mislaid(n.slots, i)) \ {e}
        /\ UNCHANGED <<uvars, gvars, jiffies>>

ip_set_hash_flush ==
    /\ upc = "idle" /\ WriteLock
    /\ tab' = EmptyTable(tab.htable_bits)
    /\ elements' = 0
    /\ left' = [e \in Watched |-> NULL] /\ loose' = {}
    /\ UNCHANGED <<uvars, gvars, jiffies>>

\* Wrong variant of ip_set_hash_destroy: del_timer in place of del_timer_sync.
destroy_nosync ==
    /\ upc = "idle" /\ tab # NULL
    /\ tab' = NULL /\ elements' = 0 /\ gcexp' = NULL
    /\ left' = [e \in Watched |-> NULL] /\ loose' = {}
    /\ UNCHANGED <<uvars, gcpc, jiffies>>

\* del_timer_sync waits for a collector that is running.
ip_set_hash_destroy ==
    /\ upc = "idle" /\ tab # NULL /\ gcpc = "idle"
    /\ tab' = NULL /\ elements' = 0 /\ gcexp' = NULL
    /\ left' = [e \in Watched |-> NULL] /\ loose' = {}
    /\ UNCHANGED <<uvars, gcpc, jiffies>>

\* The set type's create function, outside this header, and type_pf_gc_init.
Create ==
    /\ tab = NULL
    /\ tab' = EmptyTable(InitBits) /\ elements' = 0
    /\ gcexp' = (jiffies + GC_PERIOD * HZ) % J
    /\ UNCHANGED <<left, loose, uvars, gcpc, jiffies>>

(***************************************************************************)
(* type_pf_tresize                                                         *)
(***************************************************************************)
\* i = h->elements, read without the lock.
TresizeCount ==
    /\ upc = "count"
    /\ ui' = elements
    /\ upc' = "clean"
    /\ UNCHANGED <<hvars, uval, newtab, gvars, jiffies>>

\* What type_pf_expire does to the set.
Expire ==
    \E shrink \in SUBSET BucketIndex(tab.htable_bits) :
        LET x == type_pf_expire(tab, shrink)
        IN  /\ tab' = x.tab /\ elements' = elements - x.gone
            /\ loose' = loose \cup x.moved /\ UNCHANGED left

\* "Try to cleanup once", under the lock;
TresizeClean ==
    /\ upc = "clean" /\ WriteLock
    /\ Expire
    /\ upc' = "compare"
    /\ UNCHANGED <<uval, ui, newtab, gvars, jiffies>>

\* if that helped, which is asked without the lock, the caller retries the add.
TresizeCompare ==
    /\ upc = "compare"
    /\ upc' = IF elements < ui THEN "retry" ELSE "copy"
    /\ ui' = 0
    /\ UNCHANGED <<hvars, uval, newtab, gvars, jiffies>>

\* The time in a slot, as a u32.
type_pf_data_timeout(data) == data.t % U32

\* The table the copy fills, and whether every element found room.  The last
\* argument of type_pf_elem_tadd is what the slot of the old table holds.
rehash(t, bits) ==
    LET all   == FlattenSeq([i \in 1 .. jhash_size(t.htable_bits) |-> t.bucket[i - 1].slots])
        Of(i) == SelectSeq(all, LAMBDA data : HKEY(data.e, bits) = i)
        Copy(data) == [e |-> data.e, t |-> ip_set_timeout_set(type_pf_data_timeout(data))]
    IN  [htable_bits |-> bits,
         bucket |-> [i \in BucketIndex(bits) |->
            [size  |-> AHASH_INIT_SIZE * ((Len(Of(i)) + AHASH_INIT_SIZE - 1) \div AHASH_INIT_SIZE),
             slots |-> [k \in DOMAIN Of(i) |-> Copy(Of(i)[k])]]]]

Fits(t) == \A i \in BucketIndex(t.htable_bits) : t.bucket[i].size <= AHASH_MAX

\* From "retry:" to the end of the copy; more than one doubling at a time does
\* not happen (CopyFits of IpSetHash).  The read lock is kept on success.
TresizeCopy ==
    /\ upc = "copy"
    /\ \/ \* IPSET_ERR_HASH_FULL or ENOMEM
          /\ upc' = "idle" /\ uval' = NULL /\ UNCHANGED newtab
       \/ /\ tab.htable_bits < MaxBits
          /\ Fits(rehash(tab, tab.htable_bits + 1))
          /\ newtab' = rehash(tab, tab.htable_bits + 1)
          /\ upc' = "publish" /\ UNCHANGED uval
    /\ UNCHANGED <<hvars, ui, gvars, jiffies>>

\* rcu_assign_pointer; when the grace period is over the caller retries.
TresizePublish ==
    /\ upc = "publish"
    /\ tab' = newtab /\ newtab' = NULL
    /\ loose' = loose \cup {e \in Watched : \E data \in Stored(tab) :
                            data.e = e /\ data.t # IPSET_ELEM_PERMANENT}
    /\ upc' = "retry"
    /\ UNCHANGED <<elements, left, uval, ui, gvars, jiffies>>

(***************************************************************************)
(* Time and the collector                                                  *)
(***************************************************************************)
Overdue == IF gcexp = NULL THEN FALSE ELSE (jiffies - gcexp) % J < J \div 2

\* type_pf_gc: under the lock,
GcExpire ==
    /\ Overdue /\ WriteLock
    /\ gcexp' = NULL /\ gcpc' = "rearm"
    /\ Expire
    /\ UNCHANGED <<uvars, jiffies>>

\* Wrong variant of GcRearm: the timer is not started again.
gc_once == gcpc = "rearm" /\ gcpc' = "idle" /\ UNCHANGED <<hvars, uvars, gcexp, jiffies>>

\* and after it.
GcRearm ==
    /\ gcpc = "rearm"
    /\ gcexp' = (jiffies + GC_PERIOD * HZ) % J
    /\ gcpc' = "idle"
    /\ UNCHANGED <<hvars, uvars, jiffies>>

\* A tick of the clock.  The timer is served at most GcDelay ticks late.
Tick ==
    /\ Overdue => (jiffies - gcexp) % J < GcDelay
    /\ gcpc = "idle"
    /\ jiffies' = (jiffies + 1) % J
    /\ left' = [e \in Watched |->
          IF left[e] \in {NULL, Ever, Floor} THEN left[e] ELSE left[e] - 1]
    /\ UNCHANGED <<tab, elements, loose, uvars, gvars>>

Next ==
    \/ \E e \in Elem, secs \in Timeout, exist \in BOOLEAN :
          /\ WriteLock
          /\ \E r \in Outcomes(e, secs, exist) : UserAdd(e, secs, exist, r) \/ KernelAdd(e, secs, r)
    \/ RetryAdd
    \/ \E e \in Elem : type_pf_tdel(e)
    \/ ip_set_hash_flush \/ ip_set_hash_destroy \/ Create
    \/ TresizeCount \/ TresizeClean \/ TresizeCompare \/ TresizeCopy \/ TresizePublish
    \/ GcExpire \/ GcRearm \/ Tick

Spec == Init /\ [][Next]_vars
-----------------------------------------------------------------------------
(***************************************************************************)
(* Properties                                                              *)
(***************************************************************************)
\* Over adds that reuse slots, deletes that move them, the collector, the
\* cleanups and resizes: h->elements is the number of slots in use and never
\* more than maxelem, no element is stored twice, each is in the bucket it
\* hashes to, and no bucket uses more slots than it has allocated.
TableSound ==
    tab # NULL =>
        LET Slots(i) == tab.bucket[i].slots
        IN  /\ elements = SlotCount(tab) /\ elements <= maxelem
            /\ \A i \in BucketIndex(tab.htable_bits) :
                  /\ Len(Slots(i)) <= tab.bucket[i].size
                  /\ \A j, k \in DOMAIN Slots(i) :
                        /\ HKEY(Slots(i)[j].e, tab.htable_bits) = i
                        /\ j # k => Slots(i)[j].e # Slots(i)[k].e

\* type_pf_tadd answers IPSET_ERR_HASH_FULL only when maxelem elements are
\* alive: its cleanup always frees a slot if one of them has expired, even
\* though one pass of type_pf_expire may miss some.
FullMeansAlive ==
    tab # NULL /\ elements >= maxelem =>
        \/ elements - type_pf_expire(tab, {}).gone < maxelem
        \/ \A data \in Stored(tab) : ~ip_set_timeout_expired(data.t)

\* An element that keeps the slot it was added to is found by type_pf_ttest from
\* the add until as many ticks have passed as it was given, and no longer than
\* one tick more, also across a wrap of jiffies: none goes early, and none comes
\* back because nobody collected it in time.  What was deleted is not found.
TestExact ==
    tab # NULL => \A e \in Watched \ loose :
        IF left[e] = NULL THEN ~type_pf_ttest(tab, e)
        ELSE /\ left[e] >= 0 => type_pf_ttest(tab, e)
             /\ left[e] < -1 => ~type_pf_ttest(tab, e)

\* Once the set is destroyed no collector is pending or running on it.
GcStops == gcexp # NULL \/ gcpc # "idle" => tab # NULL

\* An element whose time has passed is out of the table, or added again, before
\* the collector has run as often as a bucket has slots: the slots that one run
\* of type_pf_expire skips are reached by later ones.
CollectedInTime ==
    tab # NULL => \A e \in Watched \ loose :
        left[e] = Floor => \A data \in Stored(tab) : data.e # e

\* "Delete expired elements from the hashtable": what type_pf_ttest finds before
\* type_pf_expire it finds after it.
ExpireSparesAlive ==
    tab # NULL => \A e \in Elem :
        type_pf_ttest(tab, e) => type_pf_ttest(type_pf_expire(tab, {}).tab, e)

\* "Create a new hash table with doubling the hashsize and inserting the
\* elements to it": the new table holds the old one's elements, as they were.
ResizeKeepsElements ==
    upc = "publish" => Stored(newtab) = Stored(tab)
=============================================================================
