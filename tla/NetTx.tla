-------------------------------- MODULE NetTx --------------------------------
(***************************************************************************)
(* A transmit queue of linux/netdevice.h: the bits by which the driver     *)
(* (DRV_XOFF), the byte queue limit (STACK_XOFF) and netif_tx_lock         *)
(* (FROZEN) stop it, the limit itself (linux/dynamic_queue_limits.h), and  *)
(* the queueing discipline that feeds it (net/sch_generic.h).              *)
(*                                                                         *)
(* Senders, which exclude each other by the discipline's RUNNING bit and   *)
(* the queue's _xmit_lock, run beside the handler of completed packets,    *)
(* which takes no lock.  What is not in the tree is modelled as the        *)
(* functions here are used: the loop of __qdisc_run, net_tx_action,        *)
(* dql_completed, and a driver with a ring of TxRing descriptors that      *)
(* stops the queue when the ring is full.  All packets have one byte.      *)
(***************************************************************************)
EXTENDS Integers, FiniteSets

CONSTANTS
    TxCpu,      \* CPUs that send
    TxW,        \* the number of values of an unsigned int
    TxMaxLimit, \* max_limit of the byte queue limit
    TxRing,     \* descriptors of the device
    TxBacklog   \* bound: packets the discipline holds

ASSUME TxAssumption ==
    /\ TxMaxLimit \in Nat /\ TxRing \in Nat \ {0} /\ TxBacklog \in Nat
    /\ TxW \in Nat /\ 2 * (TxMaxLimit + 1) < TxW

VARIABLES
    tx_state,   \* dev_queue->state
    tx_queued, tx_completed, tx_limit, tx_adj,  \* num_queued, num_completed, limit, adj_limit
    tx_hw,      \* packets the device has been given
    tx_backlog, tx_running, tx_sched,   \* the discipline: packets, RUNNING, SCHED
    tx_pc,      \* where each sender is
    tx_done,    \* where the completion handler is
    tx_freeze,  \* where the holder of netif_tx_lock is
    tx_reset    \* where a reset of the device is

tx_dql == <<tx_queued, tx_completed, tx_limit, tx_adj>>
tx_qdisc == <<tx_backlog, tx_running, tx_sched>>
tx_vars == <<tx_state, tx_dql, tx_hw, tx_qdisc, tx_pc, tx_done, tx_freeze, tx_reset>>

\* dql_avail: the difference as an int.
TxSub(i, j) == (i - j) % TxW
TxSigned(n) == IF 2 * n < TxW THEN n ELSE n - TxW
dql_avail == TxSigned(TxSub(tx_adj, tx_queued))

TxXoff == {"DRV_XOFF", "STACK_XOFF"}
netif_xmit_stopped == tx_state \cap TxXoff # {}
netif_xmit_frozen_or_stopped == tx_state # {}

\* A sender holds _xmit_lock.
TxLocked == \E p \in TxCpu : tx_pc[p] \in {"queued", "over", "xoff", "room", "hand", "sent", "full"}

TxInit ==
    /\ tx_state = {}
    /\ tx_queued = 0 /\ tx_completed = 0 /\ tx_limit = 0 /\ tx_adj = 0
    /\ tx_hw = 0
    /\ tx_backlog = 0 /\ tx_running = FALSE /\ tx_sched = FALSE
    /\ tx_pc = [p \in TxCpu |-> "idle"]
    /\ tx_done = "idle" /\ tx_freeze = "idle" /\ tx_reset = "idle"

TxGoto(p, pc) == tx_pc' = [tx_pc EXCEPT ![p] = pc]

(***************************************************************************)
(* Senders                                                                 *)
(***************************************************************************)
\* qdisc_run_begin, under the discipline's lock.
qdisc_run_begin(p) ==
    /\ tx_running' = TRUE
    /\ IF tx_running THEN UNCHANGED tx_pc ELSE TxGoto(p, "run")
    /\ UNCHANGED <<tx_state, tx_dql, tx_hw, tx_done, tx_freeze, tx_reset>>

\* A packet comes in and is queued;
TxEnqueue(p) ==
    /\ tx_pc[p] = "idle" /\ tx_backlog < TxBacklog
    /\ tx_backlog' = tx_backlog + 1
    /\ qdisc_run_begin(p)
    /\ UNCHANGED tx_sched

\* or the softirq serves a discipline that was scheduled.
net_tx_action(p) ==
    /\ tx_pc[p] = "idle" /\ tx_sched
    /\ tx_sched' = FALSE
    /\ qdisc_run_begin(p)
    /\ UNCHANGED tx_backlog

\* Back at the discipline's lock: qdisc_run_end when it is empty or the queue
\* is stopped,
qdisc_run_end(p) ==
    /\ tx_pc[p] = "run"
    /\ tx_backlog = 0 \/ netif_xmit_frozen_or_stopped
    /\ tx_running' = FALSE
    /\ TxGoto(p, "idle")
    /\ UNCHANGED <<tx_state, tx_dql, tx_hw, tx_backlog, tx_sched, tx_done, tx_freeze, tx_reset>>

\* else a packet is taken off.
TxDequeue(p) ==
    /\ tx_pc[p] = "run"
    /\ tx_backlog > 0 /\ ~netif_xmit_frozen_or_stopped
    /\ TxGoto(p, "lock")
    /\ UNCHANGED <<tx_state, tx_dql, tx_hw, tx_qdisc, tx_done, tx_freeze, tx_reset>>

\* With HARD_TX_LOCK the state is looked at again.  The packet goes to the
\* driver, which starts netdev_tx_sent_queue by dql_queued;
dql_queued(p) ==
    /\ tx_pc[p] = "lock" /\ ~TxLocked /\ ~netif_xmit_frozen_or_stopped
    /\ tx_backlog' = tx_backlog - 1
    /\ tx_queued' = (tx_queued + 1) % TxW
    /\ TxGoto(p, "queued")
    /\ UNCHANGED <<tx_state, tx_completed, tx_limit, tx_adj, tx_hw, tx_running, tx_sched, tx_done, tx_freeze, tx_reset>>

\* or it is put back and the discipline scheduled.
TxRequeue(p) ==
    /\ tx_pc[p] = "lock" /\ ~TxLocked /\ netif_xmit_frozen_or_stopped
    /\ tx_sched' = TRUE
    /\ TxGoto(p, "run")
    /\ UNCHANGED <<tx_state, tx_dql, tx_hw, tx_backlog, tx_running, tx_done, tx_freeze, tx_reset>>

\* netdev_tx_sent_queue: is there room within the limit?
TxSentCheck(p) ==
    /\ tx_pc[p] = "queued"
    /\ TxGoto(p, IF dql_avail >= 0 THEN "hand" ELSE "over")
    /\ UNCHANGED <<tx_state, tx_dql, tx_hw, tx_qdisc, tx_done, tx_freeze, tx_reset>>

TxSentXoff(p) ==
    /\ tx_pc[p] = "over"
    /\ tx_state' = tx_state \cup {"STACK_XOFF"}
    /\ TxGoto(p, "xoff")
    /\ UNCHANGED <<tx_dql, tx_hw, tx_qdisc, tx_done, tx_freeze, tx_reset>>

\* Wrong variant of TxSentRecheck: the limit is not looked at again.
tx_sent_norecheck(p) ==
    /\ tx_pc[p] = "xoff"
    /\ TxGoto(p, "hand")
    /\ UNCHANGED <<tx_state, tx_dql, tx_hw, tx_qdisc, tx_done, tx_freeze, tx_reset>>

\* The limit is looked at again with the bit set,
TxSentRecheck(p) ==
    /\ tx_pc[p] = "xoff"
    /\ TxGoto(p, IF dql_avail >= 0 THEN "room" ELSE "hand")
    /\ UNCHANGED <<tx_state, tx_dql, tx_hw, tx_qdisc, tx_done, tx_freeze, tx_reset>>

\* and the bit cleared if there is room after all.
TxSentXon(p) ==
    /\ tx_pc[p] = "room"
    /\ tx_state' = tx_state \ {"STACK_XOFF"}
    /\ TxGoto(p, "hand")
    /\ UNCHANGED <<tx_dql, tx_hw, tx_qdisc, tx_done, tx_freeze, tx_reset>>

\* The driver hands the packet to the device,
TxHand(p) ==
    /\ tx_pc[p] = "hand"
    /\ tx_hw' = tx_hw + 1
    /\ TxGoto(p, "sent")
    /\ UNCHANGED <<tx_state, tx_dql, tx_qdisc, tx_done, tx_freeze, tx_reset>>

\* __netif_schedule, which test_and_sets SCHED.
__netif_schedule(on) == tx_sched' = (tx_sched \/ on)

\* Leaving the driver: the loop goes on, or its quota is used up and the
\* discipline is scheduled.
TxUnlock(p, on) ==
    \/ __netif_schedule(on) /\ TxGoto(p, "run") /\ UNCHANGED tx_running
    \/ __netif_schedule(TRUE) /\ TxGoto(p, "idle") /\ tx_running' = FALSE

\* stops the queue if the ring is full (netif_tx_stop_queue),
TxRingCheck(p) ==
    /\ tx_pc[p] = "sent"
    /\ \/ /\ tx_hw >= TxRing
          /\ tx_state' = tx_state \cup {"DRV_XOFF"}
          /\ TxGoto(p, "full")
          /\ UNCHANGED <<tx_running, tx_sched>>
       \/ /\ tx_hw < TxRing
          /\ TxUnlock(p, FALSE)
          /\ UNCHANGED tx_state
    /\ UNCHANGED <<tx_dql, tx_hw, tx_backlog, tx_done, tx_freeze, tx_reset>>

\* and looks at the ring again (netif_tx_wake_queue).
TxRingRecheck(p) ==
    /\ tx_pc[p] = "full"
    /\ \/ /\ tx_hw < TxRing
          /\ tx_state' = tx_state \ {"DRV_XOFF"}
          /\ TxUnlock(p, "DRV_XOFF" \in tx_state)
       \/ /\ tx_hw >= TxRing
          /\ TxUnlock(p, FALSE)
          /\ UNCHANGED tx_state
    /\ UNCHANGED <<tx_dql, tx_hw, tx_backlog, tx_done, tx_freeze, tx_reset>>

(***************************************************************************)
(* Completion                                                              *)
(***************************************************************************)
\* The device has sent n packets: dql_completed, which sets a new limit.
dql_completed(n) ==
    /\ tx_done = "idle" /\ tx_reset = "idle" /\ n <= tx_hw
    /\ tx_hw' = tx_hw - n
    /\ tx_completed' = (tx_completed + n) % TxW
    /\ \E limit \in 0 .. TxMaxLimit :
          tx_limit' = limit /\ tx_adj' = (tx_completed' + limit) % TxW
    /\ tx_done' = "completed"
    /\ UNCHANGED <<tx_state, tx_queued, tx_qdisc, tx_pc, tx_freeze, tx_reset>>

\* The rest of netdev_tx_completed_queue: dql_avail,
TxDoneCheck ==
    /\ tx_done = "completed"
    /\ tx_done' = IF dql_avail < 0 THEN "ring" ELSE "clear"
    /\ UNCHANGED <<tx_state, tx_dql, tx_hw, tx_qdisc, tx_pc, tx_freeze, tx_reset>>

\* test_and_clear_bit,
TxDoneXon ==
    /\ tx_done = "clear"
    /\ tx_state' = tx_state \ {"STACK_XOFF"}
    /\ tx_done' = IF "STACK_XOFF" \in tx_state THEN "schedule" ELSE "ring"
    /\ UNCHANGED <<tx_dql, tx_hw, tx_qdisc, tx_pc, tx_freeze, tx_reset>>

\* Wrong variant of netif_schedule_queue: nobody is told.
tx_schedule_nothing == UNCHANGED tx_sched

netif_schedule_queue == __netif_schedule(~netif_xmit_stopped)

TxDoneSchedule ==
    /\ tx_done = "schedule"
    /\ netif_schedule_queue
    /\ tx_done' = "ring"
    /\ UNCHANGED <<tx_state, tx_dql, tx_hw, tx_backlog, tx_running, tx_pc, tx_freeze, tx_reset>>

\* The driver wakes a queue it has stopped, now that the ring has room.
netif_tx_wake_queue ==
    /\ tx_state' = tx_state \ {"DRV_XOFF"}
    /\ __netif_schedule("DRV_XOFF" \in tx_state)

TxDoneWake ==
    /\ tx_done = "ring"
    /\ IF tx_hw < TxRing THEN netif_tx_wake_queue ELSE UNCHANGED <<tx_state, tx_sched>>
    /\ tx_done' = "idle"
    /\ UNCHANGED <<tx_dql, tx_hw, tx_backlog, tx_running, tx_pc, tx_freeze, tx_reset>>

(***************************************************************************)
(* netif_tx_lock and netif_tx_unlock; a reset of the device                *)
(***************************************************************************)
netif_tx_lock ==
    /\ tx_freeze = "idle" /\ ~TxLocked
    /\ tx_state' = tx_state \cup {"FROZEN"}
    /\ tx_freeze' = "frozen"
    /\ UNCHANGED <<tx_dql, tx_hw, tx_qdisc, tx_pc, tx_done, tx_reset>>

netif_tx_unlock ==
    /\ tx_freeze = "frozen"
    /\ tx_state' = tx_state \ {"FROZEN"}
    /\ tx_freeze' = "thaw"
    /\ UNCHANGED <<tx_dql, tx_hw, tx_qdisc, tx_pc, tx_done, tx_reset>>

TxThaw ==
    /\ tx_freeze = "thaw"
    /\ netif_schedule_queue
    /\ tx_freeze' = "idle"
    /\ UNCHANGED <<tx_state, tx_dql, tx_hw, tx_backlog, tx_running, tx_pc, tx_done, tx_reset>>

\* Completion is off and netif_tx_disable has stopped the queue;
netif_tx_disable ==
    /\ tx_reset = "idle" /\ tx_done = "idle" /\ ~TxLocked
    /\ tx_state' = tx_state \cup {"DRV_XOFF"}
    /\ tx_reset' = "disabled"
    /\ UNCHANGED <<tx_dql, tx_hw, tx_qdisc, tx_pc, tx_done, tx_freeze>>

\* what the device still had is gone, and netdev_tx_reset_queue (dql_reset)
\* forgets it;
netdev_tx_reset_queue ==
    /\ tx_reset = "disabled"
    /\ tx_state' = tx_state \ {"STACK_XOFF"}
    /\ tx_queued' = 0 /\ tx_completed' = 0 /\ tx_limit' = 0 /\ tx_adj' = 0
    /\ tx_hw' = 0
    /\ tx_reset' = "restart"
    /\ UNCHANGED <<tx_qdisc, tx_pc, tx_done, tx_freeze>>

\* then the queue is woken.
TxRestart ==
    /\ tx_reset = "restart"
    /\ netif_tx_wake_queue
    /\ tx_reset' = "idle"
    /\ UNCHANGED <<tx_dql, tx_hw, tx_backlog, tx_running, tx_pc, tx_done, tx_freeze>>

TxSend(p) ==
    \/ qdisc_run_end(p) \/ TxDequeue(p) \/ dql_queued(p) \/ TxRequeue(p)
    \/ TxSentCheck(p) \/ TxSentXoff(p) \/ TxSentRecheck(p) \/ TxSentXon(p)
    \/ TxHand(p) \/ TxRingCheck(p) \/ TxRingRecheck(p)

TxDone ==
    \/ \E n \in 1 .. TxRing : dql_completed(n)
    \/ TxDoneCheck \/ TxDoneXon \/ TxDoneSchedule \/ TxDoneWake

TxThawing == netif_tx_unlock \/ TxThaw
TxResetting == netdev_tx_reset_queue \/ TxRestart

TxNext ==
    \/ \E p \in TxCpu : TxEnqueue(p) \/ net_tx_action(p) \/ TxSend(p)
    \/ TxDone
    \/ netif_tx_lock \/ TxThawing
    \/ netif_tx_disable \/ TxResetting

TxSpec == TxInit /\ [][TxNext]_tx_vars

\* A sender that runs goes on, a scheduled discipline is served, the device
\* completes what it was given, and who froze or disabled the queue comes to
\* an end.  Nobody has to send, to freeze or to reset anything.
TxFairness ==
    /\ \A p \in TxCpu : WF_tx_vars(TxSend(p))
    /\ WF_tx_vars(\E p \in TxCpu : net_tx_action(p))
    /\ WF_tx_vars(TxDone)
    /\ WF_tx_vars(TxThawing)
    /\ WF_tx_vars(TxResetting)

TxFairSpec == TxSpec /\ TxFairness

(***************************************************************************)
(* Properties                                                              *)
(***************************************************************************)
\* Every variable has its type.
TxTypeOK ==
    /\ tx_state \in SUBSET {"DRV_XOFF", "STACK_XOFF", "FROZEN"}
    /\ {tx_queued, tx_completed, tx_adj} \subseteq 0 .. TxW - 1
    /\ tx_limit \in 0 .. TxMaxLimit
    /\ tx_hw \in 0 .. TxRing
    /\ tx_backlog \in 0 .. TxBacklog
    /\ tx_running \in BOOLEAN /\ tx_sched \in BOOLEAN
    /\ tx_pc \in [TxCpu -> {"idle", "run", "lock", "queued", "over", "xoff", "room", "hand", "sent", "full"}]
    /\ tx_done \in {"idle", "completed", "clear", "schedule", "ring"}
    /\ tx_freeze \in {"idle", "frozen", "thaw"}
    /\ tx_reset \in {"idle", "disabled", "restart"}

TxQuiet ==
    /\ \A p \in TxCpu : tx_pc[p] = "idle"
    /\ ~tx_sched
    /\ tx_done = "idle" /\ tx_freeze = "idle" /\ tx_reset = "idle"

\* Packets are never left waiting without a reason and with nobody to come back
\* for them: when all is quiet and the discipline is not empty, the queue is
\* stopped because it is over its limit or the ring is full, and the device
\* has a packet whose completion will wake it.  In the words of
\* netdev_tx_completed_queue, the queue is not "stopped forever".
TxNoStall ==
    TxQuiet /\ tx_backlog > 0 =>
        /\ tx_hw > 0
        /\ \/ "STACK_XOFF" \in tx_state /\ dql_avail < 0
           \/ "DRV_XOFF" \in tx_state /\ tx_hw = TxRing

\* If freezing and resetting end, a discipline that is not empty goes on
\* sending, however stops and completions interleave.
TxProgress ==
    <>[](tx_freeze = "idle" /\ tx_reset = "idle") =>
        (tx_backlog > 0 ~> \E p \in TxCpu : tx_pc[p] = "queued")
=============================================================================
