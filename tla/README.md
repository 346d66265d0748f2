# TLA+ specifications for the Linux 3.4 include tree

The repository is the `include/` tree of a Linux 3.4 kernel: some 3650 header
files.  Most of them declare structures, constants and prototypes.  A small
part is executable: inline functions and macros that implement locks, rings,
counters and tables, and one header, `linux/netfilter/ipset/ip_set_ahash.h`,
that is the whole implementation of a data structure.  These specifications
model that part, one component at a time.

Paths below are relative to `src/`.  `PROJECT.json` lists the components, the
source lines each definition stands for, the runs, the theorems, the findings
and the hazards.

## 1. Inventory

### Modelled

| component | source | state | operations | what makes it hard |
|---|---|---|---|---|
| Array hash of ip sets | `linux/netfilter/ipset/ip_set_ahash.h` | table of buckets, element count, array limit | add, delete, test, list, flush, destroy, resize | packets run beside commands; a resize gives the lock up between its phases; a listing resumes in a table that has changed |
| The same with timeouts | same, `ip_set_timeout.h`, `linux/jiffies.h` | the table, expiry times, a timer | the same, expire, collect | wrapping clock; slots move while they are scanned; the timer re-arms itself without the lock |
| Sets of networks | same | array of prefix sizes | add_cidr, del_cidr and their five callers, lookup | an array kept sorted and dense by loops that stop at the first zero |
| Shared ring | `xen/interface/io/ring.h` | indices, entries, event fields | queue, push, consume, final check, attach | two domains share one page and nothing else; indices wrap; an end may be replaced |
| Sequence lock | `linux/seqlock.h` | sequence, lock, data words | write section, read section, barrier | readers take no lock; the sequence wraps |
| Local/global lock | `linux/lglock.h` | one spinlock per CPU, mask of CPUs | local, global and online sections, hotplug callback | CPUs come and go between the loops that lock and unlock |
| Bit-locked list | `linux/list_bl.h`, `rculist_bl.h`, `bit_spinlock.h` | a head word that is pointer and lock, nodes | lock, unlock, add, delete, walk | lock bit and pointer share a word, and the unlock is not atomic |
| Transmit queue | `linux/netdevice.h`, `dynamic_queue_limits.h`, `net/sch_generic.h` | three stop bits, byte queue limit, RUNNING and SCHED | send, complete, freeze, disable, reset | four parties stop and wake a queue, and each relies on another to do it |
| Wait queue | `linux/wait.h` | queue, task states, condition | eight `wait_event` macros, four ways to wake | wake-ups for one task only, signals, timeouts |
| RCU lists | `linux/rculist.h` | pointers, readers, grace periods | all list and hlist operations | readers walk between any two stores |
| Lists and buffer queues | `linux/list.h`, `skbuff.h` | pointers, `qlen` | all functions that change a list | long sequences of calls with pointers that coincide |
| Indirect PCM buffers | `sound/pcm-indirect.h` | two rings, five counters | transfer, pointer, both directions | three positions that wrap at different places |

### Not modelled, planned

Lock fast paths (`asm-generic/mutex-dec.h`, `rwsem.h`), `llist`, `kfifo`, NAPI,
tasklets, RED, socket accounting, nulls lists, speculative page references,
`i_size`, run-time power management, virtio's event rule.  Section 8 gives the
order.

### Not modelled, and why

* Register layouts, constants, structures and prototypes (ACPI, PCI, USB, SCSI,
  sound, video, DRM, media, MFD, RDMA and most of `linux/`): what they declare
  is implemented outside this tree.
* Trace event macros: they generate output code and keep no state.
* Soft floating point in `math-emu/`: comparing it with real arithmetic is out
  of reach of checking by enumeration.
* Generated headers and build configuration.

## 2. How the parts interact

The three ip set modules describe one header from three sides.  `IpSetHash` has
the concurrency: userspace commands are one process (the netfilter mutex
serialises them), packets act at any time, and the reader/writer lock
`set->lock` orders them.  `IpSetTimeout` has the clock and the order of slots.
`IpSetNets` abstracts the table to the set of its elements and keeps the array
of prefix sizes.  The core that calls them, `ip_set_core`, is not in the tree;
its locking and its loop of resizing and retrying are modelled from how the
header is used, and such definitions are marked external in the map.

The others are used by code outside the tree and do not call each other, with
these exceptions, which are modelled together: a bit-locked list is its lock
and its list; a transmit queue is its state bits, its byte queue limit and the
discipline that feeds it; the `sk_buff` queues splice with the same steps as
the lists.

## 3. Modules

| module | models |
|---|---|
| `IpSet` | what a set promises: a bounded set that is added to, deleted from and flushed |
| `IpSetHash` | the array hash without timeouts, and the refinement mapping to `IpSet` |
| `IpSetHash_proofs` | its theorems |
| `IpSetBounds_proofs` | the theorems about the limits of its array blocks |
| `IpSetTimeout` | the array hash with timeouts |
| `IpSetNets` | the prefix sizes and the lookup by longest prefix |
| `RequestChannel` | what a ring promises: requests in order, served, answered once |
| `XenRing` | the ring, and the refinement mapping to `RequestChannel` |
| `SeqLock` | sequence locks and counters |
| `SeqLock_proofs` | their theorems |
| `LgLock`, `LgLock_proofs` | local/global locks under CPU hotplug, and their theorems |
| `BlList`, `BlList_proofs` | the bit-locked RCU hash list, and its theorems |
| `NetTx` | a transmit queue, its byte queue limit and its discipline |
| `WaitQueue` | the `wait_event` macros |
| `RcuList` | the RCU lists and hlists |
| `KList` | lists, hlists and `sk_buff` queues under a lock |
| `PcmIndirect` | the two rings of a sound stream |
| `MCStructures`, `MCQueues`, `MCWaiting` | sums of components: one run checks several, each behaviour being one of one component |
| other `MC...` | constants and symmetries for TLC |

Names follow the source.  A definition marked "wrong variant" is a deliberate
mistake; `PROJECT.json` names the property that catches it.

### IpSetHash

`heap` holds at most two tables, the current and the one a resize fills or
retires; `table` says which is current.  A bucket has its elements, `pos` and
`size`.  What runs under the write lock is one step.  A test, one message of a
listing and the copy of a resize hold the read lock over two steps, so others
that only read may come between.  `type_pf_resize` is three actions:
`ResizeCopy` (allocate, take the read lock, copy), `ResizePublish`
(`rcu_assign_pointer`, unlock), `ResizeFree` (after the grace period).  Any
allocation may fail.  The ghosts `seen`, `owed` and `missed` record what a
listing has to show.

### IpSetTimeout

A bucket is the sequence of its slots, because `type_pf_expire` depends on the
order.  `jiffies` counts modulo `J`, milliseconds modulo `U32`.  Every slot that
`type_pf_expire` frees takes one off `elements`.  `type_pf_data_copy`, with which
deleting and expiring fill a hole, is a function on `struct type_pf_elem`, used on
sets with and without timeouts: it moves the element and not the time.
`type_pf_tresize` is five actions: reading the count without the lock, cleaning
up, reading the count again, copying, publishing.  The collector is two:
expiring under the lock and re-arming after it.

For the elements in `Watched` two ghosts keep what was asked for.  `left` is
the seconds of the add in ticks, counted down by the clock; neither the stored
time nor the conversion is used for it.  `loose` has the elements the code makes
no promise about: moved into the slot of another, copied by a resize, or given
seconds whose milliseconds are no `int`.  An add or a delete takes an element
out of it.

### IpSetNets

`nets` is the array; `stored` the elements with their match flag and whether
they have expired.  The loops of `add_cidr` and `del_cidr` are recursive
functions over the positions they walk.

### XenRing

Every access to the shared page is a step: a push stores the index in one and
reads the event field in another, and the final check is three.  An entry is
its kind and the id of its request.  `FrontAttach` and `BackAttach` replace an
end at any moment, dropping its private state.  The macros take no lock; a
driver may hold one over them, so that pushing and consuming exclude each
other within its end.  The constant `OneLock` says whether it does.  The safety
run, `queues`, takes it that there is none; `ring_live` has one, which keeps the liveness
check small, and the two ends still interleave at every access.  The fair
specification of `ring_live` is about two ends that stay (`Handover`): the
answer to a request may go with an end that is replaced.

### SeqLock

Every access to the sequence or to a data word is a step.  A ghost, `age`,
counts the increments since a reader's section began.  One word, `Fenced`, is
written outside write sections and protected by `write_seqcount_barrier`.

### LgLock

A CPU runs one operation at a time; each spinlock it takes or releases is a
step, in the order of the loop.  Hotplug is the sequence of its notifications:
prepare, then online or canceled; offline, then dead.  `name_lock_init`
registers the notifier and fills the mask in two steps, because a CPU may be
half way up or down in between.

### BlList

The head word is a pointer and a bit.  Loads and stores of it are steps, so the
unlock, which is a load and a store, can be overtaken by a `test_and_set_bit`
that fails.  Readers walk without the lock; a node is freed after the readers
of its time have left, or added again at once if it was deleted by
`hlist_bl_del_init_rcu`.

### NetTx

`tx_state` is the set of stop bits.  `netdev_tx_sent_queue` is five steps and
`netdev_tx_completed_queue` four, each access to a bit or a counter one.  The
packets have one byte and the new limit of `dql_completed` is any up to the
maximum, which covers whatever it computes.  Two senders exclude each other as
the RUNNING bit and `_xmit_lock` make them.

### WaitQueue

The condition is that there is an item.  Exclusive waiters take one when they
return, so a wake-up that goes to the wrong task shows.  What `wait.h` only
declares (`prepare_to_wait`, `__wake_up` and so on) works under the queue's lock
and is one step.  All eight macros may be used on one queue.

### RcuList and KList

`RcuList` turns each function into its sequence of stores, and readers load
between any two.  `rl_seq` is what the lists are to hold, `rl_must` what a reader
is owed.  `KList` has the same structures without readers, every function of
`list.h` that changes a list, and the `sk_buff` queues.

### PcmIndirect

`pi_appl` and `pi_card` move at any time, the callbacks look at them once.  The
loop of a transfer is one step per copy.  The application and the core count
frames of `PiFrame` bytes, the record and the card bytes; `frames_to_bytes` and
`bytes_to_frames` convert, the second cutting off a begun frame.

### MCStructures, MCQueues, MCWaiting

The initial state chooses a component; the others stay in their initial
states.  Nothing is composed: a run of a sum is the run of each of its parts.

**Memory model.**  All modules are sequentially consistent at the granularity
of single accesses.  The barriers in the code are taken to do their job;
leaving one out is not something these models can see, except where the
order of two program steps expresses it.

## 4. Runs

| run | checks | size of the instance |
|---|---|---|
| `ipset_core` | `CountExact`, `UserReturns`, `ListEnds`, and that the hash implements `IpSet` | 4 elements that collide until the table has 4 buckets |
| `ipset_list` | `ListComplete`: a listing shows every element that stayed | 5 elements, a resize between two messages |
| `ipset_readers` | `ReaderView`: no reader meets a freed table, both tables of a resize agree; `CopyFits` with the tuned array limit | 5 elements that no doubling parts, one tester beside the listing |
| `timeout_sets` | `TablesSound`, `NoStrayGc`, `FullMeansAllAlive` | a wide set: 3 elements, one doubling; and the set of the next row |
| | `FoundInTime`: an element that keeps its slot is found exactly while its time runs, across wraps; `ExpiredGo`: it is out of the table before the collector has run as often as a bucket has slots | 2 elements in one bucket, permanent, for 2 seconds or for more than 32 bits of milliseconds hold; clock of 12 ticks |
| `timeout_moves` | `ExpireSparesAlive`, violated | 2 elements in one bucket |
| `timeout_resize` | `ResizeKeepsElements`, violated | 2 elements |
| `nets_all` | `LongestMatch`, violated | 3-bit addresses, all sizes |
| `ring_live` | `NoLostWakeup`, that the ring implements `RequestChannel`, `EveryRequestAnswered` | 2 slots, 2 ids, indices modulo 4, no replacement, one lock at each end |
| `wait_timeout` | `WqTimeoutMeansFalse`, violated | 2 tasks, 1 waker |
| `structures` | `StructuresTypeOK`, the type invariants of all six parts | |
| | sequence lock: `ConsistentRead`, `BarrierHolds` | 2 writers, 1 reader, 2 words and the fenced one, sequence modulo 4 |
| | bit-locked list: `BlMutex`, `BlReaderSafe`, `BlSeesAll` | 3 nodes, 2 writers, 1 reader |
| | RCU lists: `RlReaderSafe`, `RlSeesAll` | 3 nodes, 2 lists, 1 hlist, 1 reader |
| | lists: `KlLinked` | 3 nodes, 2 lists, 2 hlists, 2 queues |
| | sound: `PiInStep`, `PiCopySafe` | rings of 4 (queue of 3) and 6 bytes, frames of 2 bytes, positions modulo 12 frames |
| | networks: `BookKeeping`, `LongestMatch` | 4-bit addresses, 3 of 4 sizes, 5 networks |
| `queues` | `QueuesTypeOK`, the type invariants of all four parts | |
| | ring: `SlotDiscipline`, `AnsweredOnce` | 2 slots, ends replaceable at any moment, no lock at either end |
| | local/global lock: `LgExclusion`, `LgBalanced` | 3 CPUs |
| | transmit queue: `TxNoStall` | 2 senders, limit, ring and backlog of 2, counters modulo 8 |
| | wait queue: `WqNoLostWakeup` | 2 tasks, 1 waker, all 8 macros, 2 items |
| `waiting` | `WritersEnter`, `RetriesEnd`, `LgWaitersEnter`, `PacketsLeave`, `SleepersWake` | the smallest instances in which somebody waits: 2 writers, 2 CPUs, limit 1, 2 tasks |

What the properties of the last three runs say: a reader of an RCU list never
meets a node after it was freed, and when it comes to the end it has seen all
that was there throughout; the pointers and lengths of the locked lists are
those of the lists the calls describe; nothing is lost or repeated between the
two rings of a sound stream; a global section is alone; a transmit queue that
has packets is being served, or is stopped over its limit or with a full ring
and has a completion to come; a task never sleeps on a true condition with
nobody on the way.

The back pointers of the two RCU lists have no invariant of their own: a wrong
one is seen when a later deletion leads a reader astray.  A conjunction such as
`StructuresTypeOK` has one wrong variant, so the other conjuncts have none.

### Why the bounds are enough

* Hash values are fixed so that elements collide in the first tables and part
  only after one or two doublings; with `AHASH_INIT_SIZE = 1` a bucket
  overflows after three elements.  Every branch of add, delete and resize is
  taken.  `BITS_MOD` stands for the 2^8 values of `htable_bits`, so the
  wrap to zero is reached too.
* The ring has two slots, so full, half full and empty all occur, and its
  indices wrap after two rounds.  An id is free again as soon as its answer is
  collected, so one request can stay in service while the other is
  asked and answered many times.
* The sequence wraps after two write sections.
* In `timeout_sets` the clock is long enough for the collector, at most
  `GcDelay` ticks late, to need two passes over a bucket; `TimeoutAssumption`
  states that timeouts whose milliseconds are an `int` are less than half the
  clock, as they are in the kernel.  The two elements of the small set are in one
  bucket and interchangeable, so one is watched.  The wide set watches none, which
  its three properties do not need.
* In `structures` the sizes of networks in use are fewer than `HOST_MASK`; the
  other case is `nets_all`.
* Three nodes are enough for a first, a middle and a last one, and for pointers
  that coincide when there are fewer.  A third node lets a reader stand on a
  deleted node while two others change places.
* Three CPUs let one come up while two others hold and wait.  Two senders and a
  ring of two reach full, half full and empty, and counters modulo 8 wrap.
* Two tasks and two items give every pair of macros, one woken and the other
  passed over.  A lost wake-up needs no third.
* The sound positions wrap after four rounds of the larger ring, and the card
  may stand inside a frame.  Frames of 1 and 3 bytes, rings of equal size and
  queues of the whole ring were also tried, with the same result.

### Fairness

* `IpSetHash`: the command that runs goes on, readers leave, a listing is read
  to its end.  `RetryAdd` is strongly fair: the write lock is granted again and
  again.  The lock prefers readers, so with testers that overlap for ever no
  writer would get in; the run that checks liveness has none.
* `IpSetTimeout`: none.  `ExpiredGo` is a bound in ticks: the clock does not
  advance past a timer that is `GcDelay` ticks late, so a tick that happens
  implies the collector runs due before it.
* `XenRing`: each end finishes its macros and handles its notifications; each
  request taken is answered in the end, whatever else is answered meanwhile.
  Nobody has to ask anything.
* `LgLock`: code that holds a lock goes on; a spinlock that is released again
  and again is granted in the end (ticket locks); hotplug comes to its end.
* `NetTx`: a sender that runs goes on, a scheduled discipline is served by the
  softirq, the device completes what it was given, and whoever froze or disabled
  the queue undoes it.
* `WaitQueue`: who is awake inside a macro runs, and a waker that has changed
  the condition calls `wake_up`.  No item, signal or timeout is promised.
* `SeqLock`: a writer that waits for a spinlock gets it in the end and writers
  finish their sections.  `WritersNotStarved` assumes nothing of readers.
  `ReadersFinish` is stated for readers that go on and for the case that writers
  become quiet: a sequence lock promises readers no more.

## 5. Proofs

`IpSetHash_proofs`, for any elements, hash, sizes and readers:

* `TypeCorrect`, `CountersExact`, `ReadersSafe`: the invariants `TypeOK`,
  `CountExact` and `ReaderView`.
* `Refinement`: `Spec => ImplementsIpSet`.
* In `IpSetBounds_proofs`, `BlocksBounded` (`BlockBound`) and `ResizeFits`
  (`CopyFits`).

The inductive invariant `Inv` adds to the type invariant: every table in memory
is well formed (each element in the bucket it hashes to, `pos` exact);
`elements` counts the current table; a copy that is about to be published holds
what the current table holds; and a reader is on the current table or on the
retired one, while the resize is still waiting for it.  Neither `CountExact` nor
`ReaderView` is inductive alone: the first needs the copy to be complete when it
is published, and the second needs to know who holds the read lock.  The lemmas
about tables come first (what adding, deleting and rehashing do to the
elements and to their number), then one lemma per action.

`BlockBound` needs a second invariant, `BoundInv`, on top of `Inv`: that the
limit and every array block are whole numbers of `AHASH_INIT_SIZE` slots, so
that a block below the limit can grow without passing it; that a copy waiting
to be published obeys the limit as well; and that a resize starts from the size
of the current table.  From these `CopyFits` follows, because a bucket of the
copy holds a part of one bucket of the original: with a larger mask, elements
that hash alike did so before (`MaskAssumption`).

`SeqLock_proofs`, for any even number of sequence values and any readers,
writers and words:

* `TypeCorrect`, `ReadsConsistent` (`ConsistentRead`) and `BarrierSound`
  (`BarrierHolds`).

Here the invariant says that the sequence is odd exactly while a writer is in
its section; and that a reader inside a section started at an even value, is
`age` increments behind, and, if that is zero, holds current words only.  The
arithmetic lemmas show that an `age` between 1 and `W - 1` is always seen.
`ConsistentRead` speaks of sections during which fewer than `W` increments
happen; the code cannot tell more.

`LgLock_proofs`, for any number of CPUs: `LgTypeCorrect`, `LgExcludes`
(`LgExclusion`) and `LgReleasesAll` (`LgBalanced`).  The invariant `LgInv` adds
three facts to the type invariant: who owns each lock (`LgOwners`), where in its
loop a CPU may stand (`LgPlaces`), and that the mask holds every CPU that is
online and the one that is about to be (`LgMasked`).

`BlList_proofs`, for any nodes, writers and readers: `BlTypeCorrect`,
`BlExcludes` (`BlMutex`) and `BlReadersSafe` (`BlReaderSafe`).  The invariant
`BlInv` adds that what a writer has loaded from the head is still there when it
stores (`BlArgs`), how the nodes are linked (`BlLinks`), and that a node a reader
stands on is hashed or was unlinked since the reader began, as is what it points
to (`BlProtected`).
That is why exclusion and the readers' safety are proved together: the list is
well formed only because writers exclude each other.

Assumptions on constants: `SizeAssumption`, `ElemAssumption` and
`MaskAssumption` in `IpSetHash`, `SeqAssumption` in `SeqLock`, and those named
likewise in `LgLock` and `BlList`; TLC evaluates them in every run of the module.
`MaskAssumption` holds facts about powers of two that the provers cannot derive.

Proved and in no run: `TypeOK` of `IpSetHash`, and `BlockBound`.

Only model-checked: everything about `IpSetTimeout`, `IpSetNets`, `XenRing`,
`NetTx`, `WaitQueue`, `RcuList`, `KList` and `PcmIndirect`; `ListComplete`
and `BlSeesAll`; and liveness, which is out of the prover's reach.

## 6. Findings

1. **`type_pf_tresize` changes expiry times** (`ip_set_ahash.h:866`).  It passes
   the stored expiry time, in jiffies, where `type_pf_elem_tadd` takes
   seconds from now.  Run `timeout_resize`.
2. **An element moved into another's slot gets its time** (`ip_set_ahash.h:802`,
   `:981`).  `type_pf_data_copy` knows nothing of timeouts.  When the collector
   frees a slot, a living element that is moved there is expired from then on.
   When `type_pf_tdel` does, it lives as long as the deleted one would have; if
   that was for ever, an element that had expired is back for good.  Run
   `timeout_moves`.
3. **`del_cidr` with every prefix size in use** (`ip_set_ahash.h:182`).  It
   clears the last but one place and not the last, and lookups lose a size.
   Run `nets_all`.
4. **A timeout that hides a true condition** (`linux/wait.h:233`).
   `wait_event_timeout` and its interruptible sibling return 0 when the timeout
   elapses after the condition became true and before the task runs.
   Run `wait_timeout`.

Also seen: `type_pf_expire` (`ip_set_ahash.h:800`) does not examine the slot it
moves into a hole, so one pass may leave an expired element.  `ExpiredGo` and
`FullMeansAllAlive` show that this is harmless: the next pass of a bucket of two
slots collects it (one pass is not enough; a bucket of three slots passes the
same bound), and a full set still frees a slot.  `ip_set_timeout_set` multiplies seconds by 1000 in
32 bits (`ip_set_timeout.h:114`), while `ip_set_timeout_uget` lets all but one
value pass: above 4294967 seconds the product wraps and an element may expire
far too early, and from 2147484 seconds up to there `msecs_to_jiffies` takes it for
an infinite time.  No property claims anything of such timeouts.  The branch of `type_pf_resize` that doubles the table
again because the copy did not fit is never taken (`CopyFits`); a back end that
attaches to a live ring counts the requests its predecessor had taken and not
answered as taken, so those are lost.

## 7. What the models leave out

* `IpSetHash` and `IpSetTimeout`: `type_pf_head`, memory sizes, netlink
  encoding; `type_pf_tlist`.  In `IpSetTimeout` also the branch of
  `type_pf_tresize` that doubles again (see section 6), and the doubling is
  bounded by `MaxBits`.  `jhash_size` is a power of two of any size; the code's
  is a `u32`, which differs from 32 bits on, where no table can be allocated.
* `IpSetNets`: combination with `IP_SET_HASH_WITH_MULTI`.
* `XenRing`: the rounding of the ring size at compile time; a re-attached end
  that fails to notify, which is up to the driver.
* `SeqLock`: interrupt masking variants, which are the same steps.
* `LgLock`, `BlList`: the lockdep annotations; a uniprocessor build, in which
  most of this is empty (the configuration in `generated/` is one).
* `BlList`: `hlist_bl_del` and the walks of `list_bl.h` that hold the lock.
* `NetTx`: several queues per device, LLTX drivers, packet sizes.
* `WaitQueue`: waiting on a bit, `sleep_on`, poll keys.
* `KList`: the traversal macros.
* `PcmIndirect`: what happens when its assumptions fail.  A card buffer larger
  than the application's can leave `sw_io` out of range (`pcm-indirect.h:170`),
  a card that goes round a buffer between two reads of its pointer seems to
  stand still,
  and a rewind back across the wrap-around of `appl_ptr` is taken for a jump
  forward (`:57`, `:122`).

## 8. Plan

1. Lock words: mutex and rwsem fast paths, `llist`, each with an abstract lock
   or list that it implements.
2. Network: NAPI, tasklets, RED, `kfifo`, socket accounting.
3. Nulls lists: a reader that ends in another chain starts again.
4. Users of the sequence counter: `i_size`, `u64_stats_sync`.
5. Proofs: `NetTx` (`TxNoStall` for any number of senders), `XenRing`
   (`SlotDiscipline` and `NoLostWakeup` for every index width, then the
   refinement), `TableSound` of `IpSetTimeout`.
