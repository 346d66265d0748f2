------------------------------- MODULE XenRing -------------------------------
(***************************************************************************)
(* The shared producer-consumer ring of xen/interface/io/ring.h: a front   *)
(* end that queues requests and a back end that overwrites them, in place, *)
(* by its responses, with free-running indices of a fixed width and the    *)
(* notification hold-off through req_event and rsp_event.                  *)
(*                                                                         *)
(* The two ends share memory and nothing else, so every access to the page *)
(* is a step of its own: a push stores the index in one step and reads the *)
(* event field in another, a final check looks, arms the event field and   *)
(* looks again in three.  Steps are sequentially consistent: what          *)
(* mb() and wmb() are there to ensure.  Within one end, queueing and       *)
(* consuming exclude each other only if the driver makes them (OneLock).   *)
(*                                                                         *)
(* An entry is abstracted to its kind and the id of the request, which the *)
(* front end chooses among those not in use and the back end copies into   *)
(* its response.                                                           *)
(***************************************************************************)
EXTENDS Integers, FiniteSets, SequencesExt

CONSTANTS
    W,          \* the number of values of a RING_IDX: 2^32
    Size,       \* RING_SIZE: a power of two
    Id,         \* the ids of requests
    OneLock,    \* whether each end's driver holds one lock over each macro
    NULL

VARIABLES
    req_prod, req_event, rsp_prod, rsp_event, ring,    \* the shared page
    req_prod_pvt, rsp_cons,  \* the front end's private indices
    rsp_prod_pvt, req_cons,  \* the back end's private indices
    fold, bold,     \* __old while a push is between its two steps, else NULL
    fwait, bwait,   \* "awake", "checked" and "armed" (in a final check), "asleep"
    fevt, bevt,     \* a notification for this end is pending
    serving,        \* requests the back end has taken and not answered
    open            \* ghost: requests queued that can still be collected

shared == <<req_prod, req_event, rsp_prod, rsp_event, ring>>
front == <<req_prod_pvt, rsp_cons, fold, fwait>>
back == <<rsp_prod_pvt, req_cons, bold, bwait, serving>>
vars == <<shared, front, back, fevt, bevt, open>>

\* The index wraps around at a multiple of the ring's size.
ASSUME RingAssumption ==
    /\ Size \in Nat \ {0}
    /\ W \in Nat /\ W % Size = 0 /\ 2 * Size <= W
    /\ OneLock \in BOOLEAN
    /\ NULL \notin 0 .. W - 1 /\ NULL \notin Id

Idx == 0 .. W - 1

\* Arithmetic of RING_IDX, an unsigned int.
Add(i, n) == (i + n) % W
Sub(i, j) == (i - j) % W

\* The indices from i up to, and without, j.
Window(i, j) == {Add(i, n) : n \in 0 .. Sub(j, i) - 1}

\* RING_GET_REQUEST and RING_GET_RESPONSE: idx & (RING_SIZE - 1).
RING_GET(idx) == ring[idx % Size]
Ids(i, j) == {RING_GET(k).id : k \in Window(i, j)}

RING_FREE_REQUESTS == Sub(Size, Sub(req_prod_pvt, rsp_cons))
\* Wrong variant of RING_FULL: the front end does not look for room.
never_full == FALSE

RING_FULL == RING_FREE_REQUESTS = 0

RING_HAS_UNCONSUMED_RESPONSES == Sub(rsp_prod, rsp_cons)

RING_HAS_UNCONSUMED_REQUESTS ==
    LET req == Sub(req_prod, req_cons)
        rsp == Sub(Size, Sub(req_cons, rsp_prod_pvt))
    IN  IF req < rsp THEN req ELSE rsp

RING_REQUEST_CONS_OVERFLOW(cons) == Sub(cons, rsp_prod_pvt) >= Size

\* The test of the two CHECK_NOTIFY macros: did the push from old to new pass
\* the index the other end asked to be woken at?
Notify(new, old, event) == Sub(new, event) < Sub(new, old)

\* A driver with one lock starts neither half of the ring's work in the middle
\* of the other half's macro.
MayPush(wait) == OneLock => wait \notin {"checked", "armed"}
MayConsume(old) == OneLock => old = NULL

(***************************************************************************)
(* SHARED_RING_INIT, FRONT_RING_INIT, BACK_RING_INIT                       *)
(***************************************************************************)
Init ==
    /\ req_prod = 0 /\ rsp_prod = 0
    /\ req_event = 1 /\ rsp_event = 1
    /\ ring = [s \in 0 .. Size - 1 |-> [kind |-> "none", id |-> NULL]]
    /\ req_prod_pvt = 0 /\ rsp_cons = 0
    /\ rsp_prod_pvt = 0 /\ req_cons = 0
    /\ fold = NULL /\ bold = NULL
    /\ fwait = "asleep" /\ bwait = "asleep"
    /\ fevt = FALSE /\ bevt = FALSE
    /\ serving = {} /\ open = {}

(***************************************************************************)
(* The front end                                                           *)
(***************************************************************************)
\* A driver that finds the ring not full fills in the entry at req_prod_pvt.
QueueRequest(id) ==
    /\ fold = NULL /\ MayPush(fwait)
    /\ ~RING_FULL
    /\ id \notin open
    /\ ring' = [ring EXCEPT ![req_prod_pvt % Size] = [kind |-> "req", id |-> id]]
    /\ req_prod_pvt' = Add(req_prod_pvt, 1)
    /\ open' = open \cup {id}
    /\ UNCHANGED <<req_prod, req_event, rsp_prod, rsp_event, rsp_cons, fold, fwait, back, fevt, bevt>>

\* RING_PUSH_REQUESTS_AND_CHECK_NOTIFY, up to the store of req_prod (a driver
\* pushes when it has queued something);
PushRequests ==
    /\ fold = NULL /\ MayPush(fwait)
    /\ req_prod # req_prod_pvt
    /\ fold' = req_prod
    /\ req_prod' = req_prod_pvt
    /\ UNCHANGED <<req_event, rsp_prod, rsp_event, ring, req_prod_pvt, rsp_cons, fwait, back, fevt, bevt, open>>

\* and from the read of req_event, with the notification it calls for.
CheckReqEvent ==
    /\ fold # NULL
    /\ bevt' = (bevt \/ Notify(req_prod, fold, req_event))
    /\ fold' = NULL
    /\ UNCHANGED <<shared, req_prod_pvt, rsp_cons, fwait, back, fevt, open>>

\* The front end takes the next response off the ring.
CollectResponse ==
    /\ fwait = "awake" /\ MayConsume(fold)
    /\ RING_HAS_UNCONSUMED_RESPONSES # 0
    /\ rsp_cons' = Add(rsp_cons, 1)
    /\ open' = open \ {RING_GET(rsp_cons).id}
    /\ UNCHANGED <<shared, req_prod_pvt, fold, fwait, back, fevt, bevt>>

\* RING_FINAL_CHECK_FOR_RESPONSES: nothing there,
CheckResponses ==
    /\ fwait = "awake" /\ MayConsume(fold)
    /\ RING_HAS_UNCONSUMED_RESPONSES = 0
    /\ fwait' = "checked"
    /\ UNCHANGED <<shared, req_prod_pvt, rsp_cons, fold, back, fevt, bevt, open>>

\* so ask to be woken,
ArmRspEvent ==
    /\ fwait = "checked"
    /\ rsp_event' = Add(rsp_cons, 1)
    /\ fwait' = "armed"
    /\ UNCHANGED <<req_prod, req_event, rsp_prod, ring, req_prod_pvt, rsp_cons, fold, back, fevt, bevt, open>>

\* Wrong variant of RecheckResponses: goes to sleep without looking again.
recheck_nothing ==
    /\ fwait = "armed"
    /\ fwait' = "asleep"
    /\ UNCHANGED <<shared, req_prod_pvt, rsp_cons, fold, back, fevt, bevt, open>>

\* Wrong variant of RecheckResponses: arms again and never consumes.
recheck_spin ==
    /\ fwait = "armed"
    /\ fwait' = IF RING_HAS_UNCONSUMED_RESPONSES # 0 THEN "checked" ELSE "asleep"
    /\ UNCHANGED <<shared, req_prod_pvt, rsp_cons, fold, back, fevt, bevt, open>>

\* and look once more before going to sleep.
RecheckResponses ==
    /\ fwait = "armed"
    /\ fwait' = IF RING_HAS_UNCONSUMED_RESPONSES # 0 THEN "awake" ELSE "asleep"
    /\ UNCHANGED <<shared, req_prod_pvt, rsp_cons, fold, back, fevt, bevt, open>>

\* A notification wakes the front end.
FrontEvent ==
    /\ fevt /\ fwait = "asleep" /\ MayConsume(fold)
    /\ fevt' = FALSE /\ fwait' = "awake"
    /\ UNCHANGED <<shared, req_prod_pvt, rsp_cons, fold, back, bevt, open>>

\* FRONT_RING_ATTACH by a new front end: requests queued and not pushed, and
\* responses pushed and not collected, are gone.
FrontAttach ==
    /\ req_prod_pvt' = req_prod
    /\ rsp_cons' = rsp_prod
    /\ fold' = NULL /\ fwait' = "awake"
    /\ open' = open \ (Ids(req_prod, req_prod_pvt) \cup Ids(rsp_cons, rsp_prod))
    /\ UNCHANGED <<shared, back, fevt, bevt>>

(***************************************************************************)
(* The back end                                                            *)
(***************************************************************************)
\* The back end takes the next request, if its own count of unanswered ones
\* leaves room.
TakeRequest ==
    /\ bwait = "awake" /\ MayConsume(bold)
    /\ RING_HAS_UNCONSUMED_REQUESTS # 0
    /\ ~RING_REQUEST_CONS_OVERFLOW(req_cons)
    /\ serving' = serving \cup {RING_GET(req_cons).id}
    /\ req_cons' = Add(req_cons, 1)
    /\ UNCHANGED <<shared, front, rsp_prod_pvt, bold, bwait, fevt, bevt, open>>

\* Requests complete in any order; a response takes the next entry in turn.
QueueResponse(id) ==
    /\ bold = NULL /\ MayPush(bwait)
    /\ id \in serving
    /\ ring' = [ring EXCEPT ![rsp_prod_pvt % Size] = [kind |-> "rsp", id |-> id]]
    /\ serving' = serving \ {id}
    /\ rsp_prod_pvt' = Add(rsp_prod_pvt, 1)
    /\ UNCHANGED <<req_prod, req_event, rsp_prod, rsp_event, front, req_cons, bold, bwait, fevt, bevt, open>>

\* Wrong variant of PushResponses: publishes responses that are not written yet.
push_skipping ==
    /\ bold = NULL /\ MayPush(bwait)
    /\ bold' = rsp_prod
    /\ rsp_prod' = req_cons
    /\ UNCHANGED <<req_prod, req_event, rsp_event, ring, front, rsp_prod_pvt, req_cons, bwait, serving, fevt, bevt, open>>

\* RING_PUSH_RESPONSES_AND_CHECK_NOTIFY, in the same two steps.
PushResponses ==
    /\ bold = NULL /\ MayPush(bwait)
    /\ rsp_prod # rsp_prod_pvt
    /\ bold' = rsp_prod
    /\ rsp_prod' = rsp_prod_pvt
    /\ UNCHANGED <<req_prod, req_event, rsp_event, ring, front, rsp_prod_pvt, req_cons, bwait, serving, fevt, bevt, open>>

\* The event field is read, and the notification sent if it calls for one.
CheckRspEvent ==
    /\ bold # NULL
    /\ fevt' = (fevt \/ Notify(rsp_prod, bold, rsp_event))
    /\ bold' = NULL
    /\ UNCHANGED <<shared, front, rsp_prod_pvt, req_cons, bwait, serving, bevt, open>>

\* RING_FINAL_CHECK_FOR_REQUESTS, in the same three steps.
CheckRequests ==
    /\ bwait = "awake" /\ MayConsume(bold)
    /\ RING_HAS_UNCONSUMED_REQUESTS = 0
    /\ bwait' = "checked"
    /\ UNCHANGED <<shared, front, rsp_prod_pvt, req_cons, bold, serving, fevt, bevt, open>>

\* The back end asks to be woken,
ArmReqEvent ==
    /\ bwait = "checked"
    /\ req_event' = Add(req_cons, 1)
    /\ bwait' = "armed"
    /\ UNCHANGED <<req_prod, rsp_prod, rsp_event, ring, front, rsp_prod_pvt, req_cons, bold, serving, fevt, bevt, open>>

\* and looks once more.
RecheckRequests ==
    /\ bwait = "armed"
    /\ bwait' = IF RING_HAS_UNCONSUMED_REQUESTS # 0 THEN "awake" ELSE "asleep"
    /\ UNCHANGED <<shared, front, rsp_prod_pvt, req_cons, bold, serving, fevt, bevt, open>>

\* A notification wakes the back end.
BackEvent ==
    /\ bevt /\ bwait = "asleep" /\ MayConsume(bold)
    /\ bevt' = FALSE /\ bwait' = "awake"
    /\ UNCHANGED <<shared, front, rsp_prod_pvt, req_cons, bold, serving, fevt, open>>

\* Wrong variant of BackAttach: takes requests up again from the last response.
attach_replay ==
    /\ rsp_prod_pvt' = rsp_prod
    /\ req_cons' = rsp_prod
    /\ bold' = NULL /\ bwait' = "awake" /\ serving' = {}
    /\ UNCHANGED <<shared, front, fevt, bevt, open>>

\* BACK_RING_ATTACH by a new back end: every request it finds pushed counts as
\* taken, so only what has been answered, or is not pushed yet, stays open.
BackAttach ==
    /\ rsp_prod_pvt' = rsp_prod
    /\ req_cons' = req_prod
    /\ bold' = NULL /\ bwait' = "awake" /\ serving' = {}
    /\ open' = Ids(req_prod, req_prod_pvt) \cup Ids(rsp_cons, rsp_prod)
    /\ UNCHANGED <<shared, front, fevt, bevt>>

\* The producing and the consuming side of each end.
FrontPush == PushRequests \/ CheckReqEvent
FrontConsume ==
    CollectResponse \/ CheckResponses \/ ArmRspEvent \/ RecheckResponses \/ FrontEvent
BackPush == PushResponses \/ CheckRspEvent
BackConsume ==
    TakeRequest \/ CheckRequests \/ ArmReqEvent \/ RecheckRequests \/ BackEvent

\* Two ends that stay, and ends that may go away and others attach.
Handover ==
    \/ \E id \in Id : QueueRequest(id) \/ QueueResponse(id)
    \/ FrontPush \/ FrontConsume \/ BackPush \/ BackConsume

Next == Handover \/ FrontAttach \/ BackAttach

Spec == Init /\ [][Next]_vars

\* Each end runs: it pushes what it has queued, consumes what it finds, serves
\* what it has taken, each request in the end (SF: whatever it answers in the
\* meantime), finishes its macros, and handles its notifications.  No
\* fairness for queueing a request: the front end may have nothing to ask.
Fairness ==
    /\ WF_vars(FrontPush) /\ WF_vars(FrontConsume)
    /\ WF_vars(BackPush) /\ WF_vars(BackConsume)
    /\ \A id \in Id : SF_vars(QueueResponse(id))

\* An end that is replaced drops what it was about to notify, so liveness is
\* about ends that stay.
FairSpec == Init /\ [][Handover]_vars /\ Fairness

(***************************************************************************)
(* Properties                                                              *)
(***************************************************************************)
\* The indices keep their width, and every field its type.
TypeOK ==
    /\ {req_prod, req_event, rsp_prod, rsp_event} \subseteq Idx
    /\ {req_prod_pvt, rsp_cons, rsp_prod_pvt, req_cons} \subseteq Idx
    /\ ring \in [0 .. Size - 1 -> [kind : {"none", "req", "rsp"}, id : Id \cup {NULL}]]
    /\ {fold, bold} \subseteq Idx \cup {NULL}
    /\ {fwait, bwait} \subseteq {"awake", "checked", "armed", "asleep"}
    /\ fevt \in BOOLEAN /\ bevt \in BOOLEAN
    /\ serving \in SUBSET Id /\ open \in SUBSET Id

\* One array holds both directions, and the macros do "NO INTERLOCKS": still
\* no request is overwritten before the back end has taken it and no response
\* before the front end has collected it, with all Size entries in use, across
\* the wrap-around of the indices and after either end was replaced.
SlotDiscipline ==
    /\ \A i \in Window(req_cons, req_prod_pvt) : RING_GET(i).kind = "req"
    /\ \A i \in Window(rsp_cons, rsp_prod_pvt) : RING_GET(i).kind = "rsp"

\* An open request is in one place only: waiting in the ring, being served, or
\* answered by exactly one response.  So none is answered twice, and a new
\* back end (BACK_RING_ATTACH) serves nothing its predecessor has answered.
AnsweredOnce ==
    LET waiting  == Ids(req_cons, req_prod_pvt)
        answered == Ids(rsp_cons, rsp_prod_pvt)
    IN  /\ waiting \cap serving = {}
        /\ answered \cap (waiting \cup serving) = {}
        /\ Cardinality(waiting) = Sub(req_prod_pvt, req_cons)
        /\ Cardinality(answered) = Sub(rsp_prod_pvt, rsp_cons)
        /\ open = waiting \cup serving \cup answered

\* The notification hold-off never loses a wake-up: an end that sleeps with no
\* notification pending, and none about to be sent, has nothing to consume, and
\* the very next message will wake it (RING_FINAL_CHECK_FOR_* against
\* RING_PUSH_*_AND_CHECK_NOTIFY).
NoLostWakeup ==
    /\ bwait = "asleep" /\ ~bevt /\ fold = NULL =>
          /\ RING_HAS_UNCONSUMED_REQUESTS = 0
          /\ \A n \in 1 .. Size : Notify(Add(req_prod, n), req_prod, req_event)
    /\ fwait = "asleep" /\ ~fevt /\ bold = NULL =>
          /\ RING_HAS_UNCONSUMED_RESPONSES = 0
          /\ \A n \in 1 .. Size : Notify(Add(rsp_prod, n), rsp_prod, rsp_event)

\* What the two ends see through the ring is a request channel: nothing is
\* lost, repeated, reordered within a direction, or visible before its entry
\* is written.  A response that is queued but not pushed still counts as being
\* served.
Entries(i, j) == [n \in 1 .. Sub(j, i) |-> RING_GET(Add(i, n - 1)).id]
Channel == INSTANCE RequestChannel WITH
    queue <- Entries(req_cons, req_prod),
    serving <- serving \cup ToSet(Entries(rsp_prod, rsp_prod_pvt)),
    replies <- Entries(rsp_cons, rsp_prod)
ImplementsChannel == Channel!Spec

\* Every request is answered in the end, and the answer collected: the two
\* ends never sleep on each other.
EveryRequestAnswered == \A id \in Id : id \in open ~> id \notin open
=============================================================================
