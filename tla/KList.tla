-------------------------------- MODULE KList --------------------------------
(***************************************************************************)
(* The doubly linked lists and hlists of linux/list.h and the sk_buff      *)
(* queues of linux/skbuff.h, each function a function of the pointers.     *)
(* Whoever calls them holds a lock, so calls do not overlap; what is       *)
(* modelled is every order of calls, and pointers that coincide.           *)
(*                                                                         *)
(* A pprev points into the head or the node before and is modelled as that *)
(* cell.                                                                   *)
(***************************************************************************)
EXTENDS Integers, Sequences, SequencesExt

CONSTANTS
    KlNode,     \* entries, buffers
    KlList, KlHash, KlQueue,    \* heads: list_head, hlist_head, sk_buff_head
    KlNull, KlPoison            \* NULL; LIST_POISON1 and LIST_POISON2

KlHead == KlList \cup KlHash \cup KlQueue
KlRing == KlList \cup KlQueue

VARIABLES
    kl_heap,    \* next, prev (first, pprev), and qlen of the queues
    kl_seq      \* what each list is to hold

kl_vars == <<kl_heap, kl_seq>>

(***************************************************************************)
(* linux/list.h                                                            *)
(***************************************************************************)
INIT_LIST_HEAD(h, list) == [h EXCEPT !.next[list] = list, !.prev[list] = list]

__list_add(h, new, prev, next) ==
    [h EXCEPT !.prev[next] = new, !.next[new] = next, !.prev[new] = prev, !.next[prev] = new]
list_add(h, new, head) == __list_add(h, new, head, h.next[head])
list_add_tail(h, new, head) == __list_add(h, new, h.prev[head], head)

__list_del(h, prev, next) == [h EXCEPT !.prev[next] = prev, !.next[prev] = next]
__list_del_entry(h, entry) == __list_del(h, h.prev[entry], h.next[entry])
list_del(h, entry) ==
    [__list_del_entry(h, entry) EXCEPT !.next[entry] = KlPoison, !.prev[entry] = KlPoison]
list_del_init(h, entry) == INIT_LIST_HEAD(__list_del_entry(h, entry), entry)

\* Each store may change what the next one loads.
list_replace(h, old, new) ==
    LET h1 == [h EXCEPT !.next[new] = h.next[old]]
        h2 == [h1 EXCEPT !.prev[h1.next[new]] = new]
        h3 == [h2 EXCEPT !.prev[new] = h2.prev[old]]
    IN  [h3 EXCEPT !.next[h3.prev[new]] = new]
list_replace_init(h, old, new) == INIT_LIST_HEAD(list_replace(h, old, new), old)

list_move(h, list, head) == list_add(__list_del_entry(h, list), list, head)
list_move_tail(h, list, head) == list_add_tail(__list_del_entry(h, list), list, head)

list_empty(h, head) == h.next[head] = head
list_is_singular(h, head) == ~list_empty(h, head) /\ h.next[head] = h.prev[head]

list_rotate_left(h, head) ==
    IF list_empty(h, head) THEN h ELSE list_move_tail(h, h.next[head], head)

__list_cut_position(h, list, head, entry) ==
    LET new_first == h.next[entry]
        h1 == [h EXCEPT !.next[list] = h.next[head]]
        h2 == [h1 EXCEPT !.prev[h1.next[list]] = list, !.prev[list] = entry, !.next[entry] = list]
    IN  [h2 EXCEPT !.next[head] = new_first, !.prev[new_first] = head]

\* Wrong variant of list_cut_position: nothing is done about entry = head.
kl_cut_head(h, list, head, entry) ==
    IF list_empty(h, head) THEN h ELSE __list_cut_position(h, list, head, entry)

list_cut_position(h, list, head, entry) ==
    CASE list_empty(h, head) -> h
      [] list_is_singular(h, head) /\ h.next[head] # entry /\ head # entry -> h
      [] OTHER -> IF entry = head THEN INIT_LIST_HEAD(h, list)
                                  ELSE __list_cut_position(h, list, head, entry)

__list_splice(h, list, prev, next) ==
    [h EXCEPT !.prev[h.next[list]] = prev, !.next[prev] = h.next[list],
              !.next[h.prev[list]] = next, !.prev[next] = h.prev[list]]

\* Without _init the caller has to initialize the list before using it again.
list_splice(h, list, head) ==
    IF list_empty(h, list) THEN h ELSE __list_splice(h, list, head, h.next[head])
list_splice_tail(h, list, head) ==
    IF list_empty(h, list) THEN h ELSE __list_splice(h, list, h.prev[head], head)
list_splice_init(h, list, head) ==
    IF list_empty(h, list) THEN h
    ELSE INIT_LIST_HEAD(__list_splice(h, list, head, h.next[head]), list)
list_splice_tail_init(h, list, head) ==
    IF list_empty(h, list) THEN h
    ELSE INIT_LIST_HEAD(__list_splice(h, list, h.prev[head], head), list)

(***************************************************************************)
(* hlists                                                                  *)
(***************************************************************************)
INIT_HLIST_NODE(h, n) == [h EXCEPT !.next[n] = KlNull, !.prev[n] = KlNull]
hlist_unhashed(h, n) == h.prev[n] = KlNull

\* if (n) n->pprev = pprev
KlPprev(h, n, pprev) == IF n = KlNull THEN h ELSE [h EXCEPT !.prev[n] = pprev]

__hlist_del(h, n) ==
    LET h1 == [h EXCEPT !.next[h.prev[n]] = h.next[n]] IN KlPprev(h1, h.next[n], h.prev[n])
hlist_del(h, n) ==
    [__hlist_del(h, n) EXCEPT !.next[n] = KlPoison, !.prev[n] = KlPoison]
hlist_del_init(h, n) ==
    IF hlist_unhashed(h, n) THEN h ELSE INIT_HLIST_NODE(__hlist_del(h, n), n)

hlist_add_head(h, n, head) ==
    LET first == h.next[head]
        h1 == KlPprev([h EXCEPT !.next[n] = first], first, n)
    IN  [h1 EXCEPT !.next[head] = n, !.prev[n] = head]
hlist_add_before(h, n, next) ==
    LET h1 == [h EXCEPT !.prev[n] = h.prev[next], !.next[n] = next, !.prev[next] = n]
    IN  [h1 EXCEPT !.next[h1.prev[n]] = n]
hlist_add_after(h, n, next) ==
    LET h1 == [h EXCEPT !.next[next] = h.next[n]]
        h2 == [h1 EXCEPT !.next[n] = next, !.prev[next] = n]
    IN  KlPprev(h2, h2.next[next], next)
hlist_add_fake(h, n) == [h EXCEPT !.prev[n] = n]
hlist_move_list(h, old, new) ==
    LET h1 == [h EXCEPT !.next[new] = h.next[old]]
    IN  [KlPprev(h1, h1.next[new], new) EXCEPT !.next[old] = KlNull]

(***************************************************************************)
(* sk_buff queues (linux/skbuff.h)                                         *)
(***************************************************************************)
__skb_queue_head_init(h, list) == [INIT_LIST_HEAD(h, list) EXCEPT !.qlen[list] = 0]

__skb_insert(h, newsk, prev, next, list) ==
    [h EXCEPT !.next[newsk] = next, !.prev[newsk] = prev,
              !.next[prev] = newsk, !.prev[next] = newsk, !.qlen[list] = @ + 1]
__skb_queue_after(h, list, prev, newsk) == __skb_insert(h, newsk, prev, h.next[prev], list)
__skb_queue_before(h, list, next, newsk) == __skb_insert(h, newsk, h.prev[next], next, list)

skb_queue_splice_init(h, list, head) ==
    IF list_empty(h, list) THEN h
    ELSE __skb_queue_head_init([__list_splice(h, list, head, h.next[head])
                                  EXCEPT !.qlen[head] = @ + h.qlen[list]], list)
skb_queue_splice_tail_init(h, list, head) ==
    IF list_empty(h, list) THEN h
    ELSE __skb_queue_head_init([__list_splice(h, list, h.prev[head], head)
                                  EXCEPT !.qlen[head] = @ + h.qlen[list]], list)

__skb_unlink(h, skb, list) ==
    LET next == h.next[skb]  prev == h.prev[skb]
    IN  [h EXCEPT !.qlen[list] = @ - 1, !.next[skb] = KlNull, !.prev[skb] = KlNull,
                  !.prev[next] = prev, !.next[prev] = next]

skb_peek(h, list) == IF h.next[list] = list THEN KlNull ELSE h.next[list]
skb_peek_tail(h, list) == IF h.prev[list] = list THEN KlNull ELSE h.prev[list]
__skb_dequeue(h, list) ==
    IF skb_peek(h, list) = KlNull THEN h ELSE __skb_unlink(h, skb_peek(h, list), list)
__skb_dequeue_tail(h, list) ==
    IF skb_peek_tail(h, list) = KlNull THEN h ELSE __skb_unlink(h, skb_peek_tail(h, list), list)

(***************************************************************************)
(* Callers, beside what each call is to do to the abstract lists           *)
(***************************************************************************)
KlInit ==
    /\ kl_heap = [next |-> [c \in KlHead \cup KlNode |-> IF c \in KlRing THEN c ELSE KlNull],
                  prev |-> [c \in KlHead \cup KlNode |-> IF c \in KlRing THEN c ELSE KlNull],
                  qlen |-> [q \in KlQueue |-> 0]]
    /\ kl_seq = [head \in KlHead |-> <<>>]

KlIn(head) == ToSet(kl_seq[head])
KlFree == KlNode \ UNION {KlIn(head) : head \in KlHead}
KlWithout(s, n) == SelectSeq(s, LAMBDA m : m # n)
KlAt(head, n) == CHOOSE i \in DOMAIN kl_seq[head] : kl_seq[head][i] = n

\* Adding.
KlAdd(n) ==
    /\ n \in KlFree
    /\ \/ \E head \in KlList :
            \/ /\ kl_heap' = list_add(kl_heap, n, head)
               /\ kl_seq' = [kl_seq EXCEPT ![head] = <<n>> \o @]
            \/ /\ kl_heap' = list_add_tail(kl_heap, n, head)
               /\ kl_seq' = [kl_seq EXCEPT ![head] = Append(@, n)]
       \/ \E head \in KlHash :
            /\ kl_heap' = hlist_add_head(kl_heap, n, head)
            /\ kl_seq' = [kl_seq EXCEPT ![head] = <<n>> \o @]
       \/ \E head \in KlHash : \E m \in KlIn(head) :
            \/ /\ kl_heap' = hlist_add_before(kl_heap, n, m)
               /\ kl_seq' = [kl_seq EXCEPT ![head] = InsertAt(@, KlAt(head, m), n)]
            \/ /\ kl_heap' = hlist_add_after(kl_heap, m, n)
               /\ kl_seq' = [kl_seq EXCEPT ![head] = InsertAt(@, KlAt(head, m) + 1, n)]
       \/ \E q \in KlQueue : \E m \in KlIn(q) \cup {q} :
            \/ /\ kl_heap' = __skb_queue_after(kl_heap, q, m, n)
               /\ kl_seq' = [kl_seq EXCEPT ![q] = InsertAt(@, IF m = q THEN 1 ELSE KlAt(q, m) + 1, n)]
            \/ /\ kl_heap' = __skb_queue_before(kl_heap, q, m, n)
               /\ kl_seq' = [kl_seq EXCEPT ![q] = InsertAt(@, IF m = q THEN Len(@) + 1 ELSE KlAt(q, m), n)]

\* Deleting.  A node that was deleted by list_del_init or hlist_del_init may
\* be deleted so again, and one that pretends to be on an hlist by hlist_del.
KlDel(n) ==
    \/ \E head \in KlList : n \in KlIn(head)
         /\ kl_heap' \in {list_del(kl_heap, n), list_del_init(list_del_init(kl_heap, n), n)}
         /\ kl_seq' = [kl_seq EXCEPT ![head] = KlWithout(@, n)]
    \/ \E head \in KlHash : n \in KlIn(head)
         /\ kl_heap' \in {hlist_del(kl_heap, n), hlist_del_init(hlist_del_init(kl_heap, n), n)}
         /\ kl_seq' = [kl_seq EXCEPT ![head] = KlWithout(@, n)]
    \/ \E q \in KlQueue :
         /\ \/ n \in KlIn(q) /\ kl_heap' = __skb_unlink(kl_heap, n, q)
            \/ n = skb_peek(kl_heap, q) /\ kl_heap' = __skb_dequeue(kl_heap, q)
            \/ n = skb_peek_tail(kl_heap, q) /\ kl_heap' = __skb_dequeue_tail(kl_heap, q)
         /\ kl_seq' = [kl_seq EXCEPT ![q] = KlWithout(@, n)]
    \/ /\ n \in KlFree /\ kl_heap.next[n] = KlNull
       /\ kl_heap' = hlist_del(hlist_add_fake(kl_heap, n), n)
       /\ UNCHANGED kl_seq

\* Replacing an entry by another, or a head by one whose list is empty.
KlReplace(old, new) ==
    \/ \E head \in KlList :
         /\ old \in KlIn(head) /\ new \in KlFree
         /\ kl_heap' \in {list_replace(kl_heap, old, new), list_replace_init(kl_heap, old, new)}
         /\ kl_seq' = [kl_seq EXCEPT ![head][KlAt(head, old)] = new]
    \/ /\ old \in KlList /\ new \in KlList /\ old # new /\ kl_seq[new] = <<>>
       /\ kl_heap' = list_replace_init(kl_heap, old, new)
       /\ kl_seq' = [kl_seq EXCEPT ![new] = kl_seq[old], ![old] = <<>>]
    \/ /\ old \in KlHash /\ new \in KlHash /\ old # new /\ kl_seq[new] = <<>>
       /\ kl_heap' = hlist_move_list(kl_heap, old, new)
       /\ kl_seq' = [kl_seq EXCEPT ![new] = kl_seq[old], ![old] = <<>>]

KlMove(n, from, to) ==
    /\ n \in KlIn(from)
    /\ LET seq == [kl_seq EXCEPT ![from] = KlWithout(@, n)]
       IN  \/ /\ kl_heap' = list_move(kl_heap, n, to)
              /\ kl_seq' = [seq EXCEPT ![to] = <<n>> \o @]
           \/ /\ kl_heap' = list_move_tail(kl_heap, n, to)
              /\ kl_seq' = [seq EXCEPT ![to] = Append(@, n)]

KlRotate(head) ==
    /\ kl_heap' = list_rotate_left(kl_heap, head)
    /\ kl_seq' = [kl_seq EXCEPT ![head] = IF @ = <<>> THEN @ ELSE Append(Tail(@), Head(@))]

\* "@list should be an empty list or a list you do not care about losing its
\* data": its nodes are nobody's afterwards, except that nothing at all happens
\* when @head is empty.  The entry may be the head, and then nothing moves.
KlCut(list, head, entry) ==
    /\ list # head /\ entry \in KlIn(head) \cup {head}
    /\ kl_heap' = list_cut_position(kl_heap, list, head, entry)
    /\ LET i == IF entry = head THEN 0 ELSE KlAt(head, entry)
       IN  kl_seq' = IF kl_seq[head] = <<>> THEN kl_seq
                     ELSE [kl_seq EXCEPT ![list] = SubSeq(kl_seq[head], 1, i),
                                         ![head] = SubSeq(@, i + 1, Len(@))]

KlSplice(list, head) ==
    /\ list # head
    /\ \/ /\ \/ /\ {list, head} \subseteq KlList
                /\ kl_heap' \in {list_splice_init(kl_heap, list, head),
                                 INIT_LIST_HEAD(list_splice(kl_heap, list, head), list)}
             \/ {list, head} \subseteq KlQueue /\ kl_heap' = skb_queue_splice_init(kl_heap, list, head)
          /\ kl_seq' = [kl_seq EXCEPT ![head] = kl_seq[list] \o @, ![list] = <<>>]
       \/ /\ \/ /\ {list, head} \subseteq KlList
                /\ kl_heap' \in {list_splice_tail_init(kl_heap, list, head),
                                 INIT_LIST_HEAD(list_splice_tail(kl_heap, list, head), list)}
             \/ {list, head} \subseteq KlQueue /\ kl_heap' = skb_queue_splice_tail_init(kl_heap, list, head)
          /\ kl_seq' = [kl_seq EXCEPT ![head] = @ \o kl_seq[list], ![list] = <<>>]

KlNext ==
    \/ \E n \in KlNode : KlAdd(n) \/ KlDel(n) \/ \E from, to \in KlList : KlMove(n, from, to)
    \/ \E old, new \in KlHead \cup KlNode : KlReplace(old, new)
    \/ \E head \in KlList :
          \/ KlRotate(head)
          \/ \E list \in KlList, entry \in KlNode \cup {head} : KlCut(list, head, entry)
    \/ \E list, head \in KlRing : KlSplice(list, head)

KlSpec == KlInit /\ [][KlNext]_kl_vars

(***************************************************************************)
(* Properties                                                              *)
(***************************************************************************)
\* Every variable has its type, and a node is in one place.
KlTypeOK ==
    /\ {kl_heap.next, kl_heap.prev} \subseteq
          [KlHead \cup KlNode -> KlHead \cup KlNode \cup {KlNull, KlPoison}]
    /\ kl_heap.qlen \in [KlQueue -> Nat]
    /\ kl_seq \in [KlHead -> Seq(KlNode)] /\ \A head \in KlHead : IsInjective(kl_seq[head])
    /\ \A g, h \in KlHead : g # h => KlIn(g) \cap KlIn(h) = {}

\* After any sequence of calls the pointers are the lists the calls describe:
\* forwards and backwards the same nodes in the same order, the head included,
\* no head is left pointing into a list it has given away, and the qlen of a
\* queue is the length of its list.
KlLinked ==
    /\ \A q \in KlQueue : kl_heap.qlen[q] = Len(kl_seq[q])
    /\ \A head \in KlHead :
        LET ring == <<head>> \o kl_seq[head] \o <<IF head \in KlRing THEN head ELSE KlNull>>
        IN  \A i \in 1 .. Len(ring) - 1 :
               /\ kl_heap.next[ring[i]] = ring[i + 1]
               /\ ring[i + 1] # KlNull => kl_heap.prev[ring[i + 1]] = ring[i]
=============================================================================
