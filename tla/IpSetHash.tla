------------------------------ MODULE IpSetHash ------------------------------
(***************************************************************************)
(* The array hash of linux/netfilter/ipset/ip_set_ahash.h, in the flavour  *)
(* without timeout: adding, deleting, testing, flushing and listing, and   *)
(* the resizing that runs beside the packet path.                          *)
(*                                                                         *)
(* Who runs.  Userspace commands are serialised by the nfnl mutex: they    *)
(* are one process, upc.  The packet path adds, deletes and tests at any   *)
(* time.  set->lock is a reader/writer lock: adding, deleting and flushing *)
(* run under the write lock and so are one step each, taken when nobody    *)
(* holds the read lock; a test, one message of a listing, and the copying  *)
(* part of a resize hold the read lock between two steps of theirs.        *)
(*                                                                         *)
(* Slots of a bucket have no order here: deleting moves the last element   *)
(* into the hole, and no operation of this flavour can tell.  The number   *)
(* of slots in use, pos, is kept beside the elements.                      *)
(***************************************************************************)
EXTENDS Integers, FiniteSets

CONSTANTS
    Elem,             \* the elements userspace and packets name
    jhash2,           \* jhash2[e]: the hash of e's key under h->initval
    Group,            \* Group[e]: the part of e that "multi" counts
    MULTI,            \* IP_SET_HASH_WITH_MULTI
    AHASH_INIT_SIZE,  \* slots an array block grows and shrinks by
    AHASH_LIMIT,      \* the hard limit of tune_ahash_max
    BITS_MOD,         \* htable_bits is a u8: 2^8
    InitBits,         \* htable_bits of a new set
    maxelem,          \* h->maxelem
    MsgCap,           \* elements that fit into one netlink message
    Reader,           \* kernel-side testers
    Dumper,           \* the netlink dump
    NULL

VARIABLES
    table,       \* h->table: which of the two blocks of heap; NULL: no set
    heap,        \* the hash tables in memory, NULL for a free block
    elements,    \* h->elements
    ahash_max,   \* h->ahash_max
    upc,         \* where the userspace command stands
    uval,        \* the element it adds
    ubits,       \* htable_bits, the local variable of type_pf_resize
    rd,          \* rd[p]: the table p read under the read lock, NULL if none
    grace,       \* the readers synchronize_rcu_bh still waits for
    dumping,     \* a listing is in progress
    cursor,      \* cb->args[2], the bucket the next message starts at
    seen,        \* ghost: elements listed so far
    owed,        \* ghost: elements present since the listing began
    missed       \* ghost: elements a completed listing owed and left out

hvars == <<table, heap, elements, ahash_max>>
uvars == <<upc, uval, ubits>>
dvars == <<dumping, cursor, seen, owed, missed>>
vars == <<hvars, uvars, rd, grace, dvars>>

Block == {0, 1}
Process == Reader \cup {Dumper}
AHASH_MAX_SIZE == 3 * AHASH_INIT_SIZE
Bits == 0 .. BITS_MOD - 1
\* The code shifts a u32, so from 32 bits on it would have another value; no
\* table of that size can be allocated.
jhash_size(bits) == 2 ^ bits
HKEY(e, bits) == jhash2[e] % jhash_size(bits)
BucketIndex(bits) == 0 .. jhash_size(bits) - 1

ASSUME SizeAssumption ==
    /\ AHASH_INIT_SIZE \in Nat \ {0}
    /\ AHASH_LIMIT \in Nat /\ AHASH_MAX_SIZE <= AHASH_LIMIT
    /\ maxelem \in Nat /\ MsgCap \in Nat
    /\ BITS_MOD \in Nat /\ InitBits \in Bits
    /\ MULTI \in BOOLEAN

Bucket == [size : Nat, pos : Nat, value : SUBSET Elem]

ASSUME ElemAssumption ==
    /\ IsFiniteSet(Elem)
    /\ jhash2 \in [Elem -> Nat]
    /\ Dumper \notin Reader
    /\ NULL \notin Block
    /\ NULL \notin [htable_bits : Bits, bucket : UNION {[BucketIndex(i) -> Bucket] : i \in Bits}]

\* Facts of binary masks that the proofs need, for the widths in use.
ASSUME MaskAssumption ==
    /\ \A b \in Bits : jhash_size(b) \in Nat \ {0}
    /\ \A e \in Elem, b \in Bits : HKEY(e, b) \in BucketIndex(b)
    /\ \A e \in Elem, b, c \in Bits : b <= c => HKEY(e, b) <= HKEY(e, c)
    /\ \A e, f \in Elem, b, c \in Bits :
          b <= c /\ HKEY(e, c) = HKEY(f, c) => HKEY(e, b) = HKEY(f, b)

IsHTable(t) ==
    /\ t = [htable_bits |-> t.htable_bits, bucket |-> t.bucket]
    /\ t.htable_bits \in Bits
    /\ t.bucket \in [BucketIndex(t.htable_bits) -> Bucket]

EmptyTable(bits) ==
    [htable_bits |-> bits,
     bucket |-> [i \in BucketIndex(bits) |-> [size |-> 0, pos |-> 0, value |-> {}]]]

MembersOf(t) == UNION {t.bucket[i].value : i \in BucketIndex(t.htable_bits)}

PutBucket(t, i, n) ==
    [htable_bits |-> t.htable_bits, bucket |-> [t.bucket EXCEPT ![i] = n]]

\* The set's elements, wherever in the table they are.
Members == IF table = NULL THEN {} ELSE MembersOf(heap[table])

\* type_pf_test: only the bucket the element hashes to is searched.
type_pf_test(t, e) == e \in t.bucket[HKEY(e, t.htable_bits)].value

(***************************************************************************)
(* Buckets                                                                 *)
(***************************************************************************)
tune_ahash_max(curr, multi) ==
    IF multi >= curr /\ curr + AHASH_INIT_SIZE <= AHASH_LIMIT
    THEN curr + AHASH_INIT_SIZE
    ELSE curr

\* ret and the bucket after type_pf_elem_add; alloc: kzalloc succeeds.
type_pf_elem_add(n, e, max, alloc) ==
    LET grow   == n.pos >= n.size
        stored == [size  |-> IF grow THEN n.size + AHASH_INIT_SIZE ELSE n.size,
                   pos   |-> n.pos + 1,
                   value |-> n.value \cup {e}]
    IN  CASE grow /\ n.size >= max -> [ret |-> "EAGAIN", n |-> n]
          [] grow /\ n.size < max /\ ~alloc -> [ret |-> "ENOMEM", n |-> n]
          [] OTHER -> [ret |-> "ok", n |-> stored]

\* The bucket after type_pf_del: the element gone, and an array block given
\* back if more than one is unused and the smaller array can be allocated.
elem_del(n, e, alloc) ==
    LET pos == n.pos - 1
    IN  [size  |-> IF pos + AHASH_INIT_SIZE < n.size /\ alloc
                   THEN n.size - AHASH_INIT_SIZE
                   ELSE n.size,
         pos   |-> pos,
         value |-> n.value \ {e}]

\* Wrong variant of rehash: the copy hashes with another mask.
rehash_shifted(orig, bits) ==
    [htable_bits |-> bits,
     bucket |-> [i \in BucketIndex(bits) |->
        LET copied == {e \in MembersOf(orig) : HKEY(e, bits) = (i + 1) % jhash_size(bits)}
        IN  [size |-> Cardinality(copied), pos |-> Cardinality(copied), value |-> copied]]]

\* Wrong variant of rehash: the copy stops half way.
rehash_half(orig, bits) ==
    [htable_bits |-> bits,
     bucket |-> [i \in BucketIndex(bits) |->
        LET copied == {e \in MembersOf(orig) : HKEY(e, bits) = i /\ i < jhash_size(bits - 1)}
        IN  [size |-> Cardinality(copied), pos |-> Cardinality(copied), value |-> copied]]]

\* The table a resize fills: every element of orig, in the bucket its hash has
\* under the new mask, the array blocks grown AHASH_INIT_SIZE slots at a time.
rehash(orig, bits) ==
    [htable_bits |-> bits,
     bucket |-> [i \in BucketIndex(bits) |->
        LET copied == {e \in MembersOf(orig) : HKEY(e, bits) = i}
            pos    == Cardinality(copied)
        IN  [size  |-> AHASH_INIT_SIZE * ((pos + AHASH_INIT_SIZE - 1) \div AHASH_INIT_SIZE),
             pos   |-> pos,
             value |-> copied]]]

\* Wrong variant of NextBits: the size is not counted up.
SameBits(bits) == bits

\* htable_bits++ on a u8.
NextBits(bits) == (bits + 1) % BITS_MOD

\* Every insertion of the copy found room: no bucket would need more than max.
Fits(t, max) == \A i \in BucketIndex(t.htable_bits) : t.bucket[i].size <= max

(***************************************************************************)
(* Initial state: a set that has just been created.                        *)
(***************************************************************************)
Init ==
    /\ table = 0
    /\ heap = [b \in Block |-> IF b = 0 THEN EmptyTable(InitBits) ELSE NULL]
    /\ elements = 0
    /\ ahash_max = AHASH_MAX_SIZE
    /\ upc = "idle" /\ uval = NULL /\ ubits = 0
    /\ rd = [p \in Process |-> NULL]
    /\ grace = {}
    /\ dumping = FALSE /\ cursor = 0
    /\ seen = {} /\ owed = {} /\ missed = {}

(***************************************************************************)
(* The operations under the write lock                                     *)
(***************************************************************************)
\* write_lock_bh(&set->lock) is granted: no reader, and no resize copying.
WriteLock ==
    /\ table # NULL
    /\ \A p \in Process : rd[p] = NULL
    /\ upc # "publish"

\* Wrong variant of TUNE_AHASH_MAX: the new limit is used and not stored.
tune_unsaved(max) == ahash_max' = ahash_max

\* h->ahash_max after TUNE_AHASH_MAX(h, multi).
TUNE_AHASH_MAX(max) == ahash_max' = max

\* type_pf_add; ret is its return value.
type_pf_add(e, alloc, ret) ==
    LET t     == heap[table]
        key   == HKEY(e, t.htable_bits)
        n     == t.bucket[key]
        multi == Cardinality({x \in n.value : Group[x] = Group[e]})
        max   == IF MULTI THEN tune_ahash_max(ahash_max, multi) ELSE ahash_max
        added == type_pf_elem_add(n, e, max, alloc)
    IN  IF elements >= maxelem \/ e \in n.value
        THEN /\ ret = IF elements >= maxelem THEN "HASH_FULL" ELSE "EXIST"
             /\ UNCHANGED hvars
        ELSE /\ ret = added.ret
             /\ TUNE_AHASH_MAX(max)
             /\ heap' = [heap EXCEPT ![table] = PutBucket(t, key, added.n)]
             /\ elements' = IF ret = "ok" THEN elements + 1 ELSE elements
             /\ UNCHANGED table

type_pf_del(e, alloc) ==
    LET t   == heap[table]
        key == HKEY(e, t.htable_bits)
    IN  /\ e \in t.bucket[key].value
        /\ heap' = [heap EXCEPT ![table] = PutBucket(t, key, elem_del(t.bucket[key], e, alloc))]
        /\ elements' = elements - 1
        /\ owed' = owed \ {e}
        /\ UNCHANGED <<table, ahash_max, dumping, cursor, seen, missed>>

\* One round of a userspace add: on EAGAIN the caller goes on to resize.
uadd(e) ==
    /\ WriteLock
    /\ \E alloc \in BOOLEAN, ret \in {"ok", "EXIST", "HASH_FULL", "ENOMEM", "EAGAIN"} :
          /\ type_pf_add(e, alloc, ret)
          /\ upc' = IF ret = "EAGAIN" THEN "resize" ELSE "idle"
          /\ uval' = IF ret = "EAGAIN" THEN e ELSE NULL
          /\ ubits' = IF ret = "EAGAIN" THEN heap[table].htable_bits ELSE 0
    /\ UNCHANGED <<rd, grace, dvars>>

UserAdd(e) == upc = "idle" /\ uadd(e)

\* The same add, tried again after a successful resize.
RetryAdd == upc = "retry" /\ uadd(uval)

\* An add from the packet path: nobody resizes for it.
KernelAdd(e) ==
    /\ WriteLock
    /\ \E alloc \in BOOLEAN, ret \in {"ok", "EXIST", "HASH_FULL", "ENOMEM", "EAGAIN"} :
          type_pf_add(e, alloc, ret)
    /\ UNCHANGED <<uvars, rd, grace, dvars>>

\* A delete, from userspace or from the packet path.
Del(e) ==
    /\ WriteLock
    /\ \E alloc \in BOOLEAN : type_pf_del(e, alloc)
    /\ UNCHANGED <<uvars, rd, grace>>

\* Wrong variant of ip_set_hash_flush: h->elements is left as it is.
flush_uncounted ==
    /\ upc = "idle"
    /\ WriteLock
    /\ heap' = [heap EXCEPT ![table] = EmptyTable(@.htable_bits)]
    /\ owed' = {}
    /\ UNCHANGED <<table, elements, ahash_max, uvars, rd, grace, dumping, cursor, seen, missed>>

ip_set_hash_flush ==
    /\ upc = "idle"
    /\ WriteLock
    /\ heap' = [heap EXCEPT ![table] = EmptyTable(@.htable_bits)]
    /\ elements' = 0
    /\ owed' = {}
    /\ UNCHANGED <<table, ahash_max, uvars, rd, grace, dumping, cursor, seen, missed>>

\* A set is destroyed when no rule and no listing refers to it.
ip_set_hash_destroy ==
    /\ upc = "idle" /\ ~dumping
    /\ WriteLock
    /\ heap' = [heap EXCEPT ![table] = NULL]
    /\ table' = NULL
    /\ elements' = 0
    /\ UNCHANGED <<ahash_max, uvars, rd, grace, dvars>>

\* The set type's create function, outside this header.
Create ==
    /\ table = NULL
    /\ table' = 0
    /\ heap' = [heap EXCEPT ![0] = EmptyTable(InitBits)]
    /\ elements' = 0
    /\ ahash_max' = AHASH_MAX_SIZE
    /\ UNCHANGED <<uvars, rd, grace, dvars>>

(***************************************************************************)
(* type_pf_resize                                                          *)
(***************************************************************************)
\* From "retry:" to the end of the copy.  The read lock is released again on
\* a failure, EAGAIN going back to "retry:", and kept until the new table is
\* published on success.
ResizeCopy ==
    LET bits == NextBits(ubits)
        t    == rehash(heap[table], bits)
    IN  /\ upc = "resize"
        /\ \/ \* IPSET_ERR_HASH_FULL, or ENOMEM for the table or for a block
              /\ upc' = "idle" /\ uval' = NULL /\ ubits' = 0
              /\ UNCHANGED heap
           \/ /\ bits # 0
              /\ upc' = IF Fits(t, ahash_max) THEN "publish" ELSE "resize"
              /\ heap' = IF Fits(t, ahash_max) THEN [heap EXCEPT ![1 - table] = t] ELSE heap
              /\ ubits' = bits
              /\ UNCHANGED uval
        /\ UNCHANGED <<table, elements, ahash_max, rd, grace, dvars>>

\* Wrong variant of ResizePublish: the old table is freed without a grace period.
ResizeNoSync ==
    /\ upc = "publish"
    /\ table' = 1 - table
    /\ upc' = "sync"
    /\ UNCHANGED <<heap, elements, ahash_max, uval, ubits, rd, grace, dvars>>

\* rcu_assign_pointer(h->table, t) and read_unlock_bh; synchronize_rcu_bh
\* then waits for whoever is inside a read-side section now.
ResizePublish ==
    /\ upc = "publish"
    /\ table' = 1 - table
    /\ upc' = "sync"
    /\ grace' = {p \in Process : rd[p] # NULL}
    /\ UNCHANGED <<heap, elements, ahash_max, uval, ubits, rd, dvars>>

\* ahash_destroy(orig) after the grace period.
ResizeFree ==
    /\ upc = "sync"
    /\ grace = {}
    /\ heap' = [heap EXCEPT ![1 - table] = NULL]
    /\ upc' = "retry"
    /\ UNCHANGED <<table, elements, ahash_max, uval, ubits, rd, grace, dvars>>

(***************************************************************************)
(* Readers                                                                 *)
(***************************************************************************)
\* read_lock_bh and t = h->table.
ReadLock(p) ==
    /\ table # NULL
    /\ rd[p] = NULL
    /\ rd' = [rd EXCEPT ![p] = table]

ReadUnlock(p) ==
    /\ rd[p] # NULL
    /\ rd' = [rd EXCEPT ![p] = NULL]
    /\ grace' = grace \ {p}

TestBegin(p) ==
    /\ ReadLock(p)
    /\ UNCHANGED <<hvars, uvars, grace, dvars>>

\* The search itself reads rd[p] and changes nothing: see type_pf_test.
TestEnd(p) ==
    /\ ReadUnlock(p)
    /\ UNCHANGED <<hvars, uvars, dvars>>

ListStart ==
    /\ table # NULL /\ ~dumping
    /\ dumping' = TRUE /\ cursor' = 0
    /\ seen' = {} /\ owed' = Members
    /\ UNCHANGED <<hvars, uvars, rd, grace, missed>>

ListBegin ==
    /\ dumping
    /\ ReadLock(Dumper)
    /\ UNCHANGED <<hvars, uvars, grace, dvars>>

\* How a message ends.  Set listing finished:
ListDone(listed) ==
    /\ dumping' = FALSE /\ cursor' = 0
    /\ missed' = owed \ (seen \cup listed)
    /\ seen' = {} /\ owed' = {}

\* the message is full and the next one goes on at bucket stop:
ListMore(listed, stop) ==
    /\ cursor' = stop
    /\ seen' = seen \cup listed
    /\ UNCHANGED <<dumping, owed, missed>>

\* Wrong variant of ListFail: the caller tries the same bucket again.
ListSpin == UNCHANGED dvars

\* EMSGSIZE, not even one bucket fitted, which ends the dump:
ListFail ==
    /\ dumping' = FALSE /\ cursor' = 0
    /\ seen' = {} /\ owed' = {}
    /\ UNCHANGED missed

\* Whole buckets go into the message from cb->args[2] on, until one does not
\* fit; a bucket that fitted in part is trimmed off again.
type_pf_list ==
    LET t       == heap[rd[Dumper]]
        size    == jhash_size(t.htable_bits)
        Upto(j) == UNION {t.bucket[i].value : i \in cursor .. j - 1}
    IN  /\ ReadUnlock(Dumper)
        /\ \E stop \in cursor .. size :
              /\ Cardinality(Upto(stop)) <= MsgCap
              /\ stop < size => Cardinality(Upto(stop + 1)) > MsgCap
              /\ \/ stop = size /\ ListDone(Upto(size))
                 \/ cursor < stop /\ stop < size /\ ListMore(Upto(stop), stop)
                 \/ cursor = stop /\ stop < size /\ ListFail
        /\ UNCHANGED <<hvars, uvars>>

Next ==
    \/ \E e \in Elem : UserAdd(e) \/ KernelAdd(e) \/ Del(e)
    \/ RetryAdd \/ ResizeCopy \/ ResizePublish \/ ResizeFree
    \/ ip_set_hash_flush \/ ip_set_hash_destroy \/ Create
    \/ \E p \in Reader : TestBegin(p) \/ TestEnd(p)
    \/ ListStart \/ ListBegin \/ type_pf_list

Spec == Init /\ [][Next]_vars

\* A resize and the add it serves run to their end; a test and a message do,
\* with bottom halves off; the write lock is not withheld from the add for
\* ever.  Nothing is assumed of who adds, deletes, lists or tests.
Fairness ==
    /\ WF_vars(ResizeCopy) /\ WF_vars(ResizePublish) /\ WF_vars(ResizeFree)
    /\ SF_vars(RetryAdd)
    /\ \A p \in Reader : WF_vars(TestEnd(p))
    /\ WF_vars(ListBegin) /\ WF_vars(type_pf_list)

FairSpec == Spec /\ Fairness

(***************************************************************************)
(* Properties                                                              *)
(***************************************************************************)
\* Every variable has the type the header declares for it; htable_bits is a u8.
TypeOK ==
    /\ table \in Block \cup {NULL}
    /\ heap = [i \in Block |-> heap[i]]
    /\ \A i \in Block : heap[i] = NULL \/ IsHTable(heap[i])
    /\ elements \in Nat
    /\ ahash_max \in Nat
    /\ upc \in {"idle", "resize", "publish", "sync", "retry"}
    /\ uval \in Elem \cup {NULL}
    /\ ubits \in Bits
    /\ rd \in [Process -> Block \cup {NULL}]
    /\ grace \in SUBSET Process
    /\ dumping \in BOOLEAN
    /\ cursor \in Nat
    /\ seen \in SUBSET Elem /\ owed \in SUBSET Elem /\ missed \in SUBSET Elem

\* h->elements, which type_pf_add compares with maxelem and which a resize
\* deliberately leaves alone, is the number of elements the table holds, and
\* pos is the number a bucket holds, however adds, deletes, flushes and failed
\* or repeated resizes were interleaved.
CountExact ==
    table # NULL =>
        /\ elements = Cardinality(Members)
        /\ \A i \in BucketIndex(heap[table].htable_bits) :
              heap[table].bucket[i].pos = Cardinality(heap[table].bucket[i].value)

\* No array block outgrows the limit that lets one bucket fit into a message,
\* and the slots in use are slots that exist (type_pf_elem_add,
\* tune_ahash_max, the shrinking in type_pf_del).
BlockBound ==
    table # NULL => \A i \in BucketIndex(heap[table].htable_bits) :
        LET n == heap[table].bucket[i]
        IN  n.pos <= n.size /\ n.size <= ahash_max /\ ahash_max <= AHASH_LIMIT

\* The copy of a resize never runs out of room in a bucket: the branch of
\* type_pf_resize that throws the new table away and doubles again is not
\* taken, because no bucket is shared by elements that were in two, unless
\* htable_bits wraps around, when there is no copy.
CopyFits ==
    upc = "resize" /\ NextBits(ubits) # 0 => Fits(rehash(heap[table], NextBits(ubits)), ahash_max)

\* A reader never looks at a freed table, and type_pf_test gives it the same
\* answer in the table it dereferenced before a resize was published as the
\* current table would.
ReaderView ==
    \A p \in Process : rd[p] # NULL =>
        /\ heap[rd[p]] # NULL
        /\ \A e \in Elem : type_pf_test(heap[rd[p]], e) <=> e \in Members

\* An element that was in the set from the start of a listing to its end is
\* listed, whatever was added or deleted and however often the table was
\* resized between two messages (type_pf_list keeps only a bucket index).
ListComplete == missed = {}

\* The set behaves as the bounded set of module IpSet: in particular no step
\* of a resize adds or loses an element.
Abstract == INSTANCE IpSet WITH members <- Members
ImplementsIpSet == Abstract!Spec

\* A userspace command returns: the loop of resizing and retrying an add ends,
\* although packets may keep filling the bucket it resized for.
UserReturns == upc # "idle" ~> upc = "idle"

\* A listing ends: each message moves the cursor on, and a resize does not
\* move it out of reach.
ListEnds == dumping ~> ~dumping
=============================================================================
