------------------------------- MODULE BlList -------------------------------
(***************************************************************************)
(* A list with a bit lock in its head (linux/list_bl.h, bit_spinlock.h),   *)
(* changed under that lock and walked by readers without it                *)
(* (linux/rculist_bl.h).                                                   *)
(*                                                                         *)
(* The head is one word: a pointer and the lock bit.  Writers that spin    *)
(* access the word while the holder changes it by plain loads and stores,  *)
(* so a load of the word and the store that depends on it are two steps;   *)
(* so are the stores that a reader tells apart.                            *)
(***************************************************************************)
EXTENDS Integers

CONSTANTS
    BlNode,     \* the nodes: places in memory
    BlWriter, BlReader,
    BlNull,     \* NULL
    BlPoison,   \* LIST_POISON1, LIST_POISON2; and what is found in freed memory
    BlHead      \* the address of the head's first, as &n->next is that of a node

ASSUME BlAssumption ==
    /\ BlNull \notin BlNode /\ BlPoison \notin BlNode /\ BlHead \notin BlNode
    /\ BlNull # BlPoison /\ BlNull # BlHead /\ BlHead # BlPoison

VARIABLES
    bl_first,   \* the head: [ptr, bit]
    bl_next, bl_pprev,  \* the fields of each node
    bl_state,   \* of each node: "free", "unhashed", "hashed" or "retired"
    bl_hold,    \* the readers that were reading when a node was unlinked
    bl_pc,      \* where each writer is
    bl_arg,     \* its node n and the word it has loaded
    bl_pos,     \* the node a reader is at, BlNull at the end of the list, BlHead outside
    bl_owed     \* ghost: what a reader has to see yet

bl_mem == <<bl_first, bl_next, bl_pprev>>
bl_read == <<bl_pos, bl_owed>>
bl_vars == <<bl_mem, bl_state, bl_hold, bl_pc, bl_arg, bl_read>>

BlWord == [ptr : BlNode \cup {BlNull}, bit : BOOLEAN]
BlNoWord == [ptr |-> BlNull, bit |-> FALSE]
BlReading == {r \in BlReader : bl_pos[r] # BlHead}

\* INIT_HLIST_BL_HEAD
BlInit ==
    /\ bl_first = BlNoWord
    /\ bl_next = [n \in BlNode |-> BlPoison]
    /\ bl_pprev = [n \in BlNode |-> BlPoison]
    /\ bl_state = [n \in BlNode |-> "free"]
    /\ bl_hold = [n \in BlNode |-> {}]
    /\ bl_pc = [w \in BlWriter |-> "idle"]
    /\ bl_arg = [w \in BlWriter |-> [n |-> BlNull, word |-> BlNoWord]]
    /\ bl_pos = [r \in BlReader |-> BlHead]
    /\ bl_owed = [r \in BlReader |-> {}]

(***************************************************************************)
(* bit_spin_lock, bit_spin_trylock and __bit_spin_unlock, on bit 0         *)
(***************************************************************************)
BlGoto(w, pc, n, word) ==
    /\ bl_pc' = [bl_pc EXCEPT ![w] = pc]
    /\ bl_arg' = [bl_arg EXCEPT ![w] = [n |-> n, word |-> word]]

\* test_and_set_bit_lock, which is atomic.  bit_spin_trylock returns when the
\* bit was set, bit_spin_lock goes into its inner loop;
BlTestAndSet(w) ==
    /\ bl_pc[w] = "idle"
    /\ bl_first' = [bl_first EXCEPT !.bit = TRUE]
    /\ \E pc \in IF bl_first.bit THEN {"idle", "spin"} ELSE {"cs"} :
          BlGoto(w, pc, BlNull, BlNoWord)
    /\ UNCHANGED <<bl_next, bl_pprev, bl_state, bl_hold, bl_read>>

\* it leaves that by test_bit.
BlTestBit(w) ==
    /\ bl_pc[w] = "spin" /\ ~bl_first.bit
    /\ BlGoto(w, "idle", BlNull, BlNoWord)
    /\ UNCHANGED <<bl_mem, bl_state, bl_hold, bl_read>>

\* __bit_spin_unlock is not atomic: a load of the word
BlUnlockLoad(w) ==
    /\ bl_pc[w] = "cs"
    /\ BlGoto(w, "unlock", BlNull, bl_first)
    /\ UNCHANGED <<bl_mem, bl_state, bl_hold, bl_read>>

\* and a store of it, without the bit.
BlUnlockStore(w) ==
    /\ bl_pc[w] = "unlock"
    /\ bl_first' = [ptr |-> bl_arg[w].word.ptr, bit |-> FALSE]
    /\ BlGoto(w, "idle", BlNull, BlNoWord)
    /\ UNCHANGED <<bl_next, bl_pprev, bl_state, bl_hold, bl_read>>

(***************************************************************************)
(* The list operations, under the lock                                     *)
(***************************************************************************)
\* INIT_HLIST_BL_NODE of a node just allocated.
BlAlloc(n) ==
    /\ bl_state[n] = "free"
    /\ bl_next' = [bl_next EXCEPT ![n] = BlNull]
    /\ bl_pprev' = [bl_pprev EXCEPT ![n] = BlNull]
    /\ bl_state' = [bl_state EXCEPT ![n] = "unhashed"]
    /\ UNCHANGED <<bl_first, bl_hold, bl_pc, bl_arg, bl_read>>

\* A store through a pprev, of a pointer and, in the head, the bit.
BlStore(pprev, ptr, bit) ==
    /\ bl_first' = IF pprev = BlHead THEN [ptr |-> ptr, bit |-> bit] ELSE bl_first
    /\ bl_next' = IF pprev \in BlNode THEN [bl_next EXCEPT ![pprev] = ptr] ELSE bl_next

\* Wrong variant of BlAddLink: the node is not linked to the rest of the list
\* before it is published.
bl_add_unlinked(w, n) ==
    /\ bl_pc[w] = "cs" /\ bl_state[n] = "unhashed"
    /\ bl_pprev' = [m \in BlNode |->
          IF m = n THEN BlHead ELSE IF m = bl_first.ptr THEN n ELSE bl_pprev[m]]
    /\ BlGoto(w, "add", n, BlNoWord)
    /\ UNCHANGED <<bl_first, bl_next, bl_state, bl_hold, bl_read>>

\* hlist_bl_add_head_rcu, of a node that is in no list though a reader may
\* still be at it, up to
BlAddLink(w, n) ==
    /\ bl_pc[w] = "cs" /\ bl_state[n] = "unhashed"
    /\ bl_next' = [bl_next EXCEPT ![n] = bl_first.ptr]
    /\ bl_pprev' = [m \in BlNode |->
          IF m = n THEN BlHead ELSE IF m = bl_first.ptr THEN n ELSE bl_pprev[m]]
    /\ BlGoto(w, "add", n, BlNoWord)
    /\ UNCHANGED <<bl_first, bl_state, bl_hold, bl_read>>

\* and with hlist_bl_set_first_rcu.
BlAddPublish(w) ==
    LET n == bl_arg[w].n
    IN  /\ bl_pc[w] = "add"
        /\ bl_first' = [ptr |-> n, bit |-> TRUE]
        /\ bl_state' = [bl_state EXCEPT ![n] = "hashed"]
        /\ BlGoto(w, "cs", BlNull, BlNoWord)
        /\ UNCHANGED <<bl_next, bl_pprev, bl_hold, bl_read>>

\* __hlist_bl_del up to the load of *pprev (next and pprev are the node's own
\* and change under the lock only), for a node that hlist_bl_unhashed does not
\* send back;
BlDelLoad(w, n) ==
    /\ bl_pc[w] = "cs" /\ bl_state[n] = "hashed"
    /\ BlGoto(w, "del", n,
              IF bl_pprev[n] = BlHead THEN bl_first
              ELSE [ptr |-> bl_next[bl_pprev[n]], bit |-> FALSE])
    /\ UNCHANGED <<bl_mem, bl_state, bl_hold, bl_read>>

\* Wrong variant of BlDelStore: the store through pprev loses the lock bit.
bl_del_unlocks(w, state, pprev) ==
    LET n == bl_arg[w].n
    IN  /\ bl_pc[w] = "del"
        /\ BlStore(bl_pprev[n], bl_next[n], FALSE)
        /\ bl_pprev' = [m \in BlNode |->
              IF m = n THEN pprev ELSE IF m = bl_next[n] THEN bl_pprev[n] ELSE bl_pprev[m]]
        /\ bl_state' = [bl_state EXCEPT ![n] = state]
        /\ bl_hold' = [bl_hold EXCEPT ![n] = BlReading]
        /\ bl_owed' = [r \in BlReader |-> bl_owed[r] \ {n}]
        /\ BlGoto(w, "cs", BlNull, BlNoWord)
        /\ UNCHANGED bl_pos

\* the rest of it, and the store to the node's own pprev that makes it
\* hlist_bl_del_rcu or hlist_bl_del_init_rcu.
BlDelStore(w, state, pprev) ==
    LET n == bl_arg[w].n
    IN  /\ bl_pc[w] = "del"
        /\ BlStore(bl_pprev[n], bl_next[n], bl_arg[w].word.bit)
        /\ bl_pprev' = [m \in BlNode |->
              IF m = n THEN pprev ELSE IF m = bl_next[n] THEN bl_pprev[n] ELSE bl_pprev[m]]
        /\ bl_state' = [bl_state EXCEPT ![n] = state]
        /\ bl_hold' = [bl_hold EXCEPT ![n] = BlReading]
        /\ bl_owed' = [r \in BlReader |-> bl_owed[r] \ {n}]
        /\ BlGoto(w, "cs", BlNull, BlNoWord)
        /\ UNCHANGED bl_pos

hlist_bl_del_rcu(w) == BlDelStore(w, "retired", BlPoison)
hlist_bl_del_init_rcu(w) == BlDelStore(w, "unhashed", BlNull)

\* A node deleted by hlist_bl_del_init_rcu may be given up instead of added again.
BlDrop(n) ==
    /\ bl_state[n] = "unhashed"
    /\ \A w \in BlWriter : bl_arg[w].n # n
    /\ bl_state' = [bl_state EXCEPT ![n] = "retired"]
    /\ UNCHANGED <<bl_mem, bl_hold, bl_pc, bl_arg, bl_read>>

\* Wrong variant of BlFree: no grace period.
bl_free_early(n) ==
    /\ bl_state[n] = "retired"
    /\ bl_state' = [bl_state EXCEPT ![n] = "free"]
    /\ bl_next' = [bl_next EXCEPT ![n] = BlPoison]
    /\ UNCHANGED <<bl_first, bl_pprev, bl_hold, bl_pc, bl_arg, bl_read>>

\* A node given up, or deleted by hlist_bl_del_rcu, is freed after a grace period: the
\* readers that might be at it are gone.
BlFree(n) ==
    /\ bl_state[n] = "retired" /\ bl_hold[n] = {}
    /\ bl_state' = [bl_state EXCEPT ![n] = "free"]
    /\ bl_next' = [bl_next EXCEPT ![n] = BlPoison]
    /\ UNCHANGED <<bl_first, bl_pprev, bl_hold, bl_pc, bl_arg, bl_read>>

(***************************************************************************)
(* hlist_bl_for_each_entry_rcu, inside rcu_read_lock                       *)
(***************************************************************************)
BlHashed == {n \in BlNode : bl_state[n] = "hashed"}

\* hlist_bl_first_rcu;
BlWalkFirst(r) ==
    /\ bl_pos[r] = BlHead
    /\ bl_pos' = [bl_pos EXCEPT ![r] = bl_first.ptr]
    /\ bl_owed' = [bl_owed EXCEPT ![r] = BlHashed \ {bl_first.ptr}]
    /\ UNCHANGED <<bl_mem, bl_state, bl_hold, bl_pc, bl_arg>>

\* rcu_dereference_raw(pos->next);
BlWalkNext(r) ==
    /\ bl_pos[r] \in BlNode
    /\ bl_pos' = [bl_pos EXCEPT ![r] = bl_next[bl_pos[r]]]
    /\ bl_owed' = [bl_owed EXCEPT ![r] = @ \ {bl_next[bl_pos[r]]}]
    /\ UNCHANGED <<bl_mem, bl_state, bl_hold, bl_pc, bl_arg>>

\* and rcu_read_unlock, after the last entry or a break.
BlWalkEnd(r) ==
    /\ bl_pos[r] # BlHead
    /\ bl_pos' = [bl_pos EXCEPT ![r] = BlHead]
    /\ bl_owed' = [bl_owed EXCEPT ![r] = {}]
    /\ bl_hold' = [n \in BlNode |-> bl_hold[n] \ {r}]
    /\ UNCHANGED <<bl_mem, bl_state, bl_pc, bl_arg>>

BlNext ==
    \/ \E w \in BlWriter :
          \/ BlTestAndSet(w) \/ BlTestBit(w) \/ BlUnlockLoad(w) \/ BlUnlockStore(w)
          \/ \E n \in BlNode : BlAddLink(w, n) \/ BlDelLoad(w, n)
          \/ BlAddPublish(w) \/ hlist_bl_del_rcu(w) \/ hlist_bl_del_init_rcu(w)
    \/ \E n \in BlNode : BlAlloc(n) \/ BlDrop(n) \/ BlFree(n)
    \/ \E r \in BlReader : BlWalkFirst(r) \/ BlWalkNext(r) \/ BlWalkEnd(r)

BlSpec == BlInit /\ [][BlNext]_bl_vars

(***************************************************************************)
(* Properties                                                              *)
(***************************************************************************)
\* Every variable has its type.
BlTypeOK ==
    /\ bl_first \in BlWord
    /\ bl_next \in [BlNode -> BlNode \cup {BlNull, BlPoison}]
    /\ bl_pprev \in [BlNode -> BlNode \cup {BlHead, BlNull, BlPoison}]
    /\ bl_state \in [BlNode -> {"free", "unhashed", "hashed", "retired"}]
    /\ bl_hold \in [BlNode -> SUBSET BlReader]
    /\ bl_pc \in [BlWriter -> {"idle", "spin", "cs", "add", "del", "unlock"}]
    /\ bl_arg \in [BlWriter -> [n : BlNode \cup {BlNull}, word : [ptr : BlNode \cup {BlNull, BlPoison}, bit : BOOLEAN]]]
    /\ bl_pos \in [BlReader -> BlNode \cup {BlHead, BlNull, BlPoison}]
    /\ bl_owed \in [BlReader -> SUBSET BlNode]

\* One writer at a time is in the list, and the lock bit is set exactly while
\* one is: no store of a pointer to the head loses the bit, and the unlock that
\* is not atomic loses no pointer and frees nobody else's lock.
BlMutex ==
    /\ \A v, w \in BlWriter :
          bl_pc[v] \notin {"idle", "spin"} /\ bl_pc[w] \notin {"idle", "spin"} => v = w
    /\ bl_first.bit <=> \E w \in BlWriter : bl_pc[w] \notin {"idle", "spin"}

\* A reader is never at a node that was freed, nor follows a poisoned pointer,
\* though nodes are unlinked, freed and added again while it walks.
BlReaderSafe ==
    \A r \in BlReader :
        /\ bl_pos[r] # BlPoison
        /\ bl_pos[r] \in BlNode => bl_state[bl_pos[r]] # "free"

\* A reader that comes to the end has seen every node that was in the list from
\* its first step to its last, even if it was at a node that was unlinked, or
\* that was added again without a grace period.
BlSeesAll == \A r \in BlReader : bl_pos[r] = BlNull => bl_owed[r] = {}
=============================================================================
