------------------------------- MODULE RcuList -------------------------------
(***************************************************************************)
(* The RCU-protected lists of linux/rculist.h: readers walk a list while   *)
(* an updater, which excludes other updaters, changes it.                  *)
(*                                                                         *)
(* A function is the sequence of its stores, carried out one at a time;    *)
(* what it loads is loaded from pointers only the updater changes.  A node *)
(* of an hlist has a pprev that points into the cell before it, which is   *)
(* modelled as that cell: rings and hlists then differ in how they end.    *)
(***************************************************************************)
EXTENDS Integers, Sequences, SequencesExt

CONSTANTS
    RlNode,     \* nodes
    RlReader,   \* readers
    RlRing,     \* heads of struct list_head lists
    RlHash,     \* heads of hlists
    RlNull, RlPoison    \* NULL, and LIST_POISON2 or what freed memory holds

RlHead == RlRing \cup RlHash
RlCell == RlHead \cup RlNode

VARIABLES
    rl_next, rl_prev,   \* the pointers; first and pprev of hlists
    rl_todo,            \* the stores the updater has yet to make
    rl_free,            \* nodes nobody uses
    rl_wait,            \* deleted nodes and the readers they still wait for
    rl_list, rl_pos,    \* the list each reader is in, and where
    rl_grace,           \* readers that sync() waits for
    \* What the lists are to hold, and what readers saw:
    rl_seq,             \* the abstract lists
    rl_new,             \* the nodes the updater is adding
    rl_seen,            \* the nodes a reader has seen
    rl_must             \* one node of each of these sets it must see

rl_heap == <<rl_next, rl_prev>>
rl_reader == <<rl_list, rl_pos, rl_seen>>
rl_vars == <<rl_heap, rl_todo, rl_free, rl_wait, rl_grace, rl_reader, rl_seq, rl_new, rl_must>>

\* Where a walk ends.
RlEnd(h) == IF h \in RlRing THEN h ELSE RlNull

RlInit ==
    /\ rl_next = [c \in RlCell |-> IF c \in RlHead THEN RlEnd(c) ELSE RlPoison]
    /\ rl_prev = [c \in RlCell |-> IF c \in RlRing THEN c ELSE RlPoison]
    /\ rl_todo = <<>>
    /\ rl_free = RlNode
    /\ rl_wait = [n \in {} |-> {}]
    /\ rl_list = [r \in RlReader |-> RlNull] /\ rl_pos = [r \in RlReader |-> RlNull]
    /\ rl_grace = {}
    /\ rl_seq = [h \in RlHead |-> <<>>]
    /\ rl_new = {}
    /\ rl_seen = [r \in RlReader |-> {}] /\ rl_must = [r \in RlReader |-> {}]

RlIn(h) == ToSet(rl_seq[h])
RlActive == {r \in RlReader : rl_list[r] # RlNull}

(***************************************************************************)
(* Functions as stores                                                     *)
(***************************************************************************)
RlSetNext(c, val) == <<[field |-> "next", cell |-> c, val |-> val]>>
RlSetPrev(c, val) == IF c = RlNull THEN <<>> ELSE <<[field |-> "prev", cell |-> c, val |-> val]>>
RlSync == <<[field |-> "sync", cell |-> RlNull, val |-> RlNull]>>
RlCallRcu(n) == <<[field |-> "free", cell |-> n, val |-> RlNull]>>

__list_add_rcu(new, prev, next) ==
    RlSetNext(new, next) \o RlSetPrev(new, prev) \o RlSetNext(prev, new) \o RlSetPrev(next, new)
list_add_rcu(new, head) == __list_add_rcu(new, head, rl_next[head])
list_add_tail_rcu(new, head) == __list_add_rcu(new, rl_prev[head], head)

\* In an hlist the next node may be NULL.
hlist_add_head_rcu(n, h) ==
    RlSetNext(n, rl_next[h]) \o RlSetPrev(n, h) \o RlSetNext(h, n) \o RlSetPrev(rl_next[h], n)
hlist_add_before_rcu(n, next) ==
    RlSetPrev(n, rl_prev[next]) \o RlSetNext(n, next) \o RlSetNext(rl_prev[next], n) \o RlSetPrev(next, n)
hlist_add_after_rcu(prev, n) ==
    RlSetNext(n, rl_next[prev]) \o RlSetPrev(n, prev) \o RlSetNext(prev, n) \o RlSetPrev(rl_next[prev], n)

\* list_del_rcu: __list_del stores backwards first,
list_del_rcu(n) ==
    RlSetPrev(rl_next[n], rl_prev[n]) \o RlSetNext(rl_prev[n], rl_next[n]) \o RlSetPrev(n, RlPoison)

\* and __hlist_del forwards first.
RlHashDel(n) == RlSetNext(rl_prev[n], rl_next[n]) \o RlSetPrev(rl_next[n], rl_prev[n])

\* Wrong variant of hlist_del_rcu: the node is initialized as hlist_del_init
\* does, and a reader on it takes it for the last.
rl_hdel_init(n) == RlHashDel(n) \o RlSetNext(n, RlNull) \o RlSetPrev(n, RlPoison)

hlist_del_rcu(n) == RlHashDel(n) \o RlSetPrev(n, RlPoison)
hlist_del_init_rcu(n) == RlHashDel(n) \o RlSetPrev(n, RlNull)

list_replace_rcu(old, new) ==
    RlSetNext(new, rl_next[old]) \o RlSetPrev(new, rl_prev[old])
      \o RlSetNext(rl_prev[old], new) \o RlSetPrev(rl_next[old], new) \o RlSetPrev(old, RlPoison)

\* The same stores, of which the fourth is left out at the end of the hlist.
hlist_replace_rcu(old, new) == list_replace_rcu(old, new)

\* Wrong variant of list_splice_init_rcu: it does not wait for the readers.
rl_splice_unsynced(list, head) ==
    LET first == rl_next[list]  last == rl_prev[list]  at == rl_next[head]
    IN  RlSetNext(list, list) \o RlSetPrev(list, list)
          \o RlSetNext(last, at) \o RlSetNext(head, first) \o RlSetPrev(first, head) \o RlSetPrev(at, last)

list_splice_init_rcu(list, head) ==
    LET first == rl_next[list]  last == rl_prev[list]  at == rl_next[head]
    IN  RlSetNext(list, list) \o RlSetPrev(list, list)
          \o RlSync
          \o RlSetNext(last, at) \o RlSetNext(head, first) \o RlSetPrev(first, head) \o RlSetPrev(at, last)

(***************************************************************************)
(* The updater                                                             *)
(***************************************************************************)
\* Where a node n of list h is, and h with n put at place i.
RlAt(h, n) == CHOOSE i \in DOMAIN rl_seq[h] : rl_seq[h][i] = n
RlPut(h, i, n) == [rl_seq EXCEPT ![h] = InsertAt(@, i, n)]

RlAdd(n) ==
    /\ rl_todo = <<>> /\ n \in rl_free
    /\ rl_free' = rl_free \ {n}
    /\ rl_new' = {n}
    /\ \/ \E h \in RlRing :
            \/ rl_todo' = list_add_rcu(n, h) /\ rl_seq' = RlPut(h, 1, n)
            \/ rl_todo' = list_add_tail_rcu(n, h) /\ rl_seq' = RlPut(h, Len(rl_seq[h]) + 1, n)
       \/ \E h \in RlHash :
            \/ rl_todo' = hlist_add_head_rcu(n, h) /\ rl_seq' = RlPut(h, 1, n)
            \/ \E m \in RlIn(h) :
                  \/ rl_todo' = hlist_add_before_rcu(n, m) /\ rl_seq' = RlPut(h, RlAt(h, m), n)
                  \/ rl_todo' = hlist_add_after_rcu(m, n) /\ rl_seq' = RlPut(h, RlAt(h, m) + 1, n)
    /\ UNCHANGED <<rl_heap, rl_wait, rl_grace, rl_reader, rl_must>>

\* A node is deleted and handed to call_rcu.
RlDel(h, n) ==
    /\ rl_todo = <<>> /\ n \in RlIn(h)
    /\ \E stores \in IF h \in RlRing THEN {list_del_rcu(n)}
                                     ELSE {hlist_del_rcu(n), hlist_del_init_rcu(n)} :
          rl_todo' = stores \o RlCallRcu(n)
    /\ rl_seq' = [rl_seq EXCEPT ![h] = SelectSeq(@, LAMBDA m : m # n)]
    /\ rl_must' = [r \in RlReader |-> {s \in rl_must[r] : n \notin s}]
    /\ UNCHANGED <<rl_heap, rl_free, rl_wait, rl_grace, rl_reader, rl_new>>

RlReplace(h, old, new) ==
    /\ rl_todo = <<>> /\ old \in RlIn(h) /\ new \in rl_free
    /\ rl_todo' = (IF h \in RlRing THEN list_replace_rcu(old, new) ELSE hlist_replace_rcu(old, new))
                    \o RlCallRcu(old)
    /\ rl_free' = rl_free \ {new}
    /\ rl_new' = {new}
    /\ rl_seq' = [rl_seq EXCEPT ![h][RlAt(h, old)] = new]
    /\ rl_must' = [r \in RlReader |->
                     {IF old \in s THEN s \cup {new} ELSE s : s \in rl_must[r]}]
    /\ UNCHANGED <<rl_heap, rl_wait, rl_grace, rl_reader>>

RlSplice(list, head) ==
    /\ rl_todo = <<>> /\ list # head /\ rl_next[list] # list
    /\ rl_todo' = list_splice_init_rcu(list, head)
    /\ rl_new' = RlIn(list)
    /\ rl_seq' = [rl_seq EXCEPT ![head] = rl_seq[list] \o @, ![list] = <<>>]
    /\ rl_must' = [r \in RlReader |-> {s \in rl_must[r] : s \cap RlIn(list) = {}}]
    /\ UNCHANGED <<rl_heap, rl_free, rl_wait, rl_grace, rl_reader>>

\* The next store.
RlStore ==
    /\ rl_todo # <<>> /\ Head(rl_todo).field \in {"next", "prev"}
    /\ LET st == Head(rl_todo)
       IN  IF st.field = "next"
             THEN rl_next' = [rl_next EXCEPT ![st.cell] = st.val] /\ UNCHANGED rl_prev
             ELSE rl_prev' = [rl_prev EXCEPT ![st.cell] = st.val] /\ UNCHANGED rl_next
    /\ rl_todo' = Tail(rl_todo)
    /\ UNCHANGED <<rl_free, rl_wait, rl_grace, rl_reader, rl_seq, rl_new, rl_must>>

\* sync() waits for the readers there are when it is called.
RlSyncBegin ==
    /\ rl_todo # <<>> /\ Head(rl_todo).field = "sync"
    /\ rl_grace' = RlActive
    /\ rl_todo' = <<[Head(rl_todo) EXCEPT !.field = "wait"]>> \o Tail(rl_todo)
    /\ UNCHANGED <<rl_heap, rl_free, rl_wait, rl_reader, rl_seq, rl_new, rl_must>>

RlSyncEnd ==
    /\ rl_todo # <<>> /\ Head(rl_todo).field = "wait" /\ rl_grace = {}
    /\ rl_todo' = Tail(rl_todo)
    /\ UNCHANGED <<rl_heap, rl_free, rl_wait, rl_grace, rl_reader, rl_seq, rl_new, rl_must>>

\* call_rcu, and the end of the grace period: memory that is freed changes.
RlDefer ==
    /\ rl_todo # <<>> /\ Head(rl_todo).field = "free"
    /\ rl_wait' = [n \in DOMAIN rl_wait \cup {Head(rl_todo).cell} |->
                     IF n \in DOMAIN rl_wait THEN rl_wait[n] ELSE RlActive]
    /\ rl_todo' = Tail(rl_todo)
    /\ UNCHANGED <<rl_heap, rl_free, rl_grace, rl_reader, rl_seq, rl_new, rl_must>>

RlFree(n) ==
    /\ n \in DOMAIN rl_wait /\ rl_wait[n] = {}
    /\ rl_wait' = [m \in DOMAIN rl_wait \ {n} |-> rl_wait[m]]
    /\ rl_free' = rl_free \cup {n}
    /\ rl_next' = [rl_next EXCEPT ![n] = RlPoison]
    /\ rl_prev' = [rl_prev EXCEPT ![n] = RlPoison]
    /\ UNCHANGED <<rl_todo, rl_grace, rl_reader, rl_seq, rl_new, rl_must>>

(***************************************************************************)
(* Readers: list_for_each_entry_rcu and its relatives                      *)
(***************************************************************************)
\* rcu_read_lock; the head is loaded next.
RlWalk(r, h) ==
    /\ rl_list[r] = RlNull
    /\ rl_list' = [rl_list EXCEPT ![r] = h]
    /\ rl_pos' = [rl_pos EXCEPT ![r] = h]
    /\ rl_seen' = [rl_seen EXCEPT ![r] = {}]
    /\ rl_must' = [rl_must EXCEPT ![r] =
                     {{n} : n \in RlIn(h) \ (IF rl_todo = <<>> THEN {} ELSE rl_new)}]
    /\ UNCHANGED <<rl_heap, rl_todo, rl_free, rl_wait, rl_grace, rl_seq, rl_new>>

RlWalkNext(r) ==
    /\ rl_list[r] # RlNull /\ rl_pos[r] \in RlCell
    /\ rl_seen[r] = {} \/ rl_pos[r] # RlEnd(rl_list[r])
    /\ rl_pos' = [rl_pos EXCEPT ![r] = rl_next[rl_pos[r]]]
    /\ rl_seen' = [rl_seen EXCEPT ![r] = @ \cup {rl_pos'[r]}]
    /\ UNCHANGED <<rl_heap, rl_todo, rl_free, rl_wait, rl_grace, rl_list, rl_seq, rl_new, rl_must>>

\* rcu_read_unlock, at the end of the walk or after a break.
RlWalkEnd(r) ==
    /\ rl_list[r] # RlNull
    /\ rl_list' = [rl_list EXCEPT ![r] = RlNull]
    /\ rl_pos' = [rl_pos EXCEPT ![r] = RlNull]
    /\ rl_seen' = [rl_seen EXCEPT ![r] = {}]
    /\ rl_must' = [rl_must EXCEPT ![r] = {}]
    /\ rl_grace' = rl_grace \ {r}
    /\ rl_wait' = [n \in DOMAIN rl_wait |-> rl_wait[n] \ {r}]
    /\ UNCHANGED <<rl_heap, rl_todo, rl_free, rl_seq, rl_new>>

RlNext ==
    \/ \E n \in RlNode : RlAdd(n) \/ RlFree(n)
    \/ \E h \in RlHead, n \in RlNode : RlDel(h, n) \/ \E m \in RlNode : RlReplace(h, n, m)
    \/ \E list, head \in RlRing : RlSplice(list, head)
    \/ RlStore \/ RlSyncBegin \/ RlSyncEnd \/ RlDefer
    \/ \E r \in RlReader : RlWalkNext(r) \/ RlWalkEnd(r) \/ \E h \in RlHead : RlWalk(r, h)

RlSpec == RlInit /\ [][RlNext]_rl_vars

(***************************************************************************)
(* Properties                                                              *)
(***************************************************************************)
\* Every variable has its type, and a node is in one place.
RlTypeOK ==
    /\ rl_next \in [RlCell -> RlCell \cup {RlNull, RlPoison}]
    /\ rl_prev \in [RlCell -> RlCell \cup {RlNull, RlPoison}]
    /\ rl_seq \in [RlHead -> Seq(RlNode)] /\ \A h \in RlHead : IsInjective(rl_seq[h])
    /\ \A g, h \in RlHead : g # h => RlIn(g) \cap RlIn(h) = {}
    /\ rl_free \subseteq RlNode \ UNION {RlIn(h) : h \in RlHead}
    /\ DOMAIN rl_wait \subseteq RlNode \ (rl_free \cup UNION {RlIn(h) : h \in RlHead})
    /\ rl_list \in [RlReader -> RlHead \cup {RlNull}]
    /\ rl_grace \subseteq RlActive

\* A reader is never led astray: it stands on a node that is not freed, or at
\* the end of the very list it started on, and never at another list's head.
RlReaderSafe ==
    \A r \in RlActive : rl_pos[r] \in (RlNode \ rl_free) \cup {rl_list[r], RlEnd(rl_list[r])}

\* A walk that has come to its end has seen every node that was on the list
\* all the time, and of a node and its replacement exactly one.
RlSeesAll ==
    \A r \in RlActive :
        rl_pos[r] = RlEnd(rl_list[r]) /\ rl_seen[r] # {} =>
            \A s \in rl_must[r] : \E n \in s : s \cap rl_seen[r] = {n}
=============================================================================
