------------------------------ MODULE WaitQueue ------------------------------
(***************************************************************************)
(* The wait_event family of linux/wait.h: tasks wait for a condition, here *)
(* that there is an item, and whoever adds one calls wake_up.  A waiter    *)
(* may wait exclusively (wake_up wakes one of those), give up on a signal  *)
(* or on a timeout, or hold the queue's lock while it looks.               *)
(*                                                                         *)
(* What is declared in wait.h and not defined (prepare_to_wait,            *)
(* finish_wait, abort_exclusive_wait, __wake_up, schedule) is modelled as  *)
(* the macros rely on it.  Each of these works under the queue's lock and  *)
(* is one step.                                                            *)
(***************************************************************************)
EXTENDS Integers, Sequences, SequencesExt

CONSTANTS
    WqTask,     \* tasks that wait
    WqWaker,    \* those that add items
    WqKind,     \* the macros they use, some of WqKinds
    WqItems     \* bound: items at a time

\* Killable is interruptible by a signal that kills.
WqKinds == {"event", "timeout", "interruptible", "killable", "interruptible_timeout",
            "exclusive", "locked", "exclusive_locked"}

ASSUME WqAssumption == WqKind \subseteq WqKinds /\ WqItems \in Nat \ {0}

VARIABLES
    wq_items,   \* the condition is wq_items > 0
    wq_list,    \* task_list of the queue
    wq_kind,    \* the macro each task is in, or "none"
    wq_pc,      \* and where
    wq_running, \* the task's state is TASK_RUNNING
    wq_signal,  \* signal_pending
    wq_elapsed, \* the timeout of the sleep has elapsed
    wq_ret,     \* __ret
    wq_waker    \* where each waker is

wq_task == <<wq_kind, wq_pc, wq_running, wq_signal, wq_elapsed, wq_ret>>
wq_vars == <<wq_items, wq_list, wq_task, wq_waker>>

condition == wq_items > 0

WqExclusive(t) == wq_kind[t] \in {"exclusive", "exclusive_locked"}
WqLocked(t) == wq_kind[t] \in {"locked", "exclusive_locked"}
WqTimed(t) == wq_kind[t] \in {"timeout", "interruptible_timeout"}
WqInterrupted(t) == wq_kind[t] \notin {"event", "timeout"} /\ wq_signal[t]
WqQueued(t) == t \in ToSet(wq_list)

WqInit ==
    /\ wq_items = 0
    /\ wq_list = <<>>
    /\ wq_kind = [t \in WqTask |-> "none"]
    /\ wq_pc = [t \in WqTask |-> "idle"]
    /\ wq_running = [t \in WqTask |-> TRUE]
    /\ wq_signal = [t \in WqTask |-> FALSE]
    /\ wq_elapsed = [t \in WqTask |-> "no"]
    /\ wq_ret = [t \in WqTask |-> "ok"]
    /\ wq_waker = [p \in WqWaker |-> "idle"]

WqGoto(t, pc) == wq_pc' = [wq_pc EXCEPT ![t] = pc]
WqReturn(t, ret) == WqGoto(t, "ret") /\ wq_ret' = [wq_ret EXCEPT ![t] = ret]

(***************************************************************************)
(* Wait queues                                                             *)
(***************************************************************************)
\* __wake_up(q, TASK_NORMAL, nr): the tasks that get woken, which are those
\* asleep (or about to be) up to the nr-th exclusive one; all if nr = 0.
WqWoken(nr) ==
    LET asleep == {i \in 1 .. Len(wq_list) : ~wq_running[wq_list[i]]}
        before(i) == {j \in asleep : j < i /\ WqExclusive(wq_list[j])}
    IN  {wq_list[i] : i \in {j \in asleep : nr = 0 \/ before(j) = {}}}

\* autoremove_wake_function: who is woken is taken off the queue.
WqWake(woken) ==
    /\ wq_list' = SelectSeq(wq_list, LAMBDA t : t \notin woken)
    /\ wq_running' = [t \in WqTask |-> wq_running[t] \/ t \in woken]

\* Puts t on the queue unless it is there, and sets its state.
WqEnqueue(t, list) ==
    /\ wq_list' = IF WqQueued(t) THEN wq_list ELSE list
    /\ wq_running' = [wq_running EXCEPT ![t] = FALSE]

WqDequeue(t) ==
    /\ wq_list' = SelectSeq(wq_list, LAMBDA u : u # t)
    /\ wq_running' = [wq_running EXCEPT ![t] = TRUE]

(***************************************************************************)
(* The macros that take no lock                                            *)
(***************************************************************************)
\* The condition is looked at before anything is set up.
wait_event(t, kind) ==
    /\ wq_pc[t] = "idle" /\ kind \notin {"locked", "exclusive_locked"}
    /\ wq_kind' = [wq_kind EXCEPT ![t] = kind]
    /\ IF condition
         THEN WqReturn(t, "ok")
         ELSE WqGoto(t, "prepare") /\ UNCHANGED wq_ret
    /\ UNCHANGED <<wq_items, wq_list, wq_running, wq_signal, wq_elapsed, wq_waker>>

\* prepare_to_wait puts the task before those that wait exclusively, and
\* prepare_to_wait_exclusive behind all.
prepare_to_wait(t) ==
    /\ wq_pc[t] = "prepare"
    /\ WqEnqueue(t, IF WqExclusive(t) THEN Append(wq_list, t) ELSE <<t>> \o wq_list)
    /\ WqGoto(t, "check")
    /\ UNCHANGED <<wq_items, wq_kind, wq_signal, wq_elapsed, wq_ret, wq_waker>>

\* Wrong variant of WqCheck: an exclusive waiter that is interrupted ends its
\* wait like any other.
wq_no_abort(t) ==
    /\ wq_pc[t] = "check"
    /\ IF condition
         THEN WqGoto(t, "finish") /\ wq_ret' = [wq_ret EXCEPT ![t] = "ok"]
         ELSE IF WqInterrupted(t)
         THEN WqGoto(t, "finish") /\ wq_ret' = [wq_ret EXCEPT ![t] = "-ERESTARTSYS"]
         ELSE WqGoto(t, "sleep") /\ UNCHANGED wq_ret
    /\ wq_elapsed' = [wq_elapsed EXCEPT ![t] = "no"]
    /\ UNCHANGED <<wq_items, wq_list, wq_kind, wq_running, wq_signal, wq_waker>>

\* Then the condition is looked at again, then signal_pending; schedule and
\* schedule_timeout come last.
WqCheck(t) ==
    /\ wq_pc[t] = "check"
    /\ IF condition
         THEN WqGoto(t, "finish") /\ wq_ret' = [wq_ret EXCEPT ![t] = "ok"]
         ELSE IF WqInterrupted(t)
         THEN /\ WqGoto(t, IF WqExclusive(t) THEN "abort" ELSE "finish")
              /\ wq_ret' = [wq_ret EXCEPT ![t] = "-ERESTARTSYS"]
         ELSE WqGoto(t, "sleep") /\ UNCHANGED wq_ret
    /\ wq_elapsed' = [wq_elapsed EXCEPT ![t] = "no"]
    /\ UNCHANGED <<wq_items, wq_list, wq_kind, wq_running, wq_signal, wq_waker>>

\* schedule returns to a task that was woken or has a signal.  A timeout that
\* has elapsed by then ends the wait, and else it goes round again.
schedule(t) ==
    /\ wq_pc[t] = "sleep" /\ ~WqLocked(t)
    /\ wq_running[t] \/ WqInterrupted(t)
    /\ wq_running' = [wq_running EXCEPT ![t] = TRUE]
    /\ IF wq_elapsed[t] # "no"
         THEN WqGoto(t, "finish") /\ wq_ret' = [wq_ret EXCEPT ![t] = "0"]
         ELSE WqGoto(t, "prepare") /\ UNCHANGED wq_ret
    /\ UNCHANGED <<wq_items, wq_list, wq_kind, wq_signal, wq_elapsed, wq_waker>>

finish_wait(t) ==
    /\ wq_pc[t] = "finish"
    /\ WqDequeue(t)
    /\ WqGoto(t, "ret")
    /\ UNCHANGED <<wq_items, wq_kind, wq_signal, wq_elapsed, wq_ret, wq_waker>>

\* abort_exclusive_wait: a task that is off the queue was woken, and passes
\* that on.
abort_exclusive_wait(t) ==
    /\ wq_pc[t] = "abort"
    /\ IF WqQueued(t) THEN WqDequeue(t) ELSE WqWake(WqWoken(1) \cup {t})
    /\ WqGoto(t, "ret")
    /\ UNCHANGED <<wq_items, wq_kind, wq_signal, wq_elapsed, wq_ret, wq_waker>>

(***************************************************************************)
(* The macros that are called, and return, with the queue's lock held      *)
(***************************************************************************)
\* Wrong variant of WqLockedRound: it returns with its entry on the queue.
wq_locked_leaves(t) ==
    \/ condition /\ WqReturn(t, "ok") /\ UNCHANGED <<wq_list, wq_running>>
    \/ ~condition /\ wq_signal[t] /\ WqDequeue(t) /\ WqReturn(t, "-ERESTARTSYS")
    \/ /\ ~condition /\ ~wq_signal[t]
       /\ WqEnqueue(t, Append(wq_list, t))
       /\ WqGoto(t, "sleep")
       /\ UNCHANGED wq_ret

\* Once round the loop of __wait_event_interruptible_locked, which queues at
\* the tail whether exclusive or not, up to the unlock before schedule.
WqLockedRound(t) ==
    \/ condition /\ WqDequeue(t) /\ WqReturn(t, "ok")
    \/ ~condition /\ wq_signal[t] /\ WqDequeue(t) /\ WqReturn(t, "-ERESTARTSYS")
    \/ /\ ~condition /\ ~wq_signal[t]
       /\ WqEnqueue(t, Append(wq_list, t))
       /\ WqGoto(t, "sleep")
       /\ UNCHANGED wq_ret

wait_event_interruptible_locked(t, kind) ==
    /\ wq_pc[t] = "idle" /\ kind \in {"locked", "exclusive_locked"}
    /\ wq_kind' = [wq_kind EXCEPT ![t] = kind]
    /\ WqLockedRound(t)
    /\ UNCHANGED <<wq_items, wq_signal, wq_elapsed, wq_waker>>

WqLockedAgain(t) ==
    /\ wq_pc[t] = "sleep" /\ WqLocked(t)
    /\ wq_running[t] \/ WqInterrupted(t)
    /\ WqLockedRound(t)
    /\ UNCHANGED <<wq_items, wq_kind, wq_signal, wq_elapsed, wq_waker>>

(***************************************************************************)
(* Callers, wakers, signals and time                                       *)
(***************************************************************************)
\* The call returns.  Who waits exclusively takes an item, if it was not
\* interrupted and there still is one.
WqTakeItem(t) ==
    /\ wq_pc[t] = "ret"
    /\ wq_items' = IF WqExclusive(t) /\ wq_ret[t] = "ok" /\ condition
                     THEN wq_items - 1 ELSE wq_items
    /\ wq_kind' = [wq_kind EXCEPT ![t] = "none"]
    /\ wq_signal' = [wq_signal EXCEPT ![t] = FALSE]
    /\ wq_elapsed' = [wq_elapsed EXCEPT ![t] = "no"]
    /\ wq_ret' = [wq_ret EXCEPT ![t] = "ok"]
    /\ WqGoto(t, "idle")
    /\ UNCHANGED <<wq_list, wq_running, wq_waker>>

\* "wake_up() has to be called after changing any variable": after,
WqAddItem(p) ==
    /\ wq_waker[p] = "idle" /\ wq_items < WqItems
    /\ wq_items' = wq_items + 1
    /\ wq_waker' = [wq_waker EXCEPT ![p] = "wake"]
    /\ UNCHANGED <<wq_list, wq_task>>

wake_up(p, nr) ==
    /\ wq_waker[p] \in {"wake", "active"}
    /\ WqWake(WqWoken(nr))
    /\ wq_waker' = [wq_waker EXCEPT ![p] = "idle"]
    /\ UNCHANGED <<wq_items, wq_kind, wq_pc, wq_signal, wq_elapsed, wq_ret>>

\* or only if waitqueue_active says so, which takes no lock,
waitqueue_active(p) ==
    /\ wq_waker[p] = "wake"
    /\ wq_waker' = [wq_waker EXCEPT ![p] = IF wq_list = <<>> THEN "idle" ELSE "active"]
    /\ UNCHANGED <<wq_items, wq_list, wq_task>>

\* or both under the queue's lock, with wake_up_locked.
wake_up_locked(p) ==
    /\ wq_waker[p] = "idle" /\ wq_items < WqItems
    /\ wq_items' = wq_items + 1
    /\ WqWake(WqWoken(1))
    /\ UNCHANGED <<wq_kind, wq_pc, wq_signal, wq_elapsed, wq_ret, wq_waker>>

\* A signal, to a task it makes a difference to; it may be pending when the
\* macro is entered.
WqSignal(t) ==
    /\ ~wq_signal[t] /\ wq_kind[t] \notin {"event", "timeout"} /\ wq_pc[t] # "ret"
    /\ wq_signal' = [wq_signal EXCEPT ![t] = TRUE]
    /\ UNCHANGED <<wq_items, wq_list, wq_kind, wq_pc, wq_running, wq_elapsed, wq_ret, wq_waker>>

\* The timeout elapses before schedule_timeout returns: it wakes the task,
\* which may be awake already and not have run yet.  (What the condition was
\* then is kept for WqTimeoutMeansFalse.)
WqElapse(t) ==
    /\ wq_pc[t] = "sleep" /\ WqTimed(t) /\ wq_elapsed[t] = "no"
    /\ wq_elapsed' = [wq_elapsed EXCEPT ![t] = IF condition THEN "true" ELSE "false"]
    /\ wq_running' = [wq_running EXCEPT ![t] = TRUE]
    /\ UNCHANGED <<wq_items, wq_list, wq_kind, wq_pc, wq_signal, wq_ret, wq_waker>>

WqWait(t) ==
    \/ prepare_to_wait(t) \/ WqCheck(t) \/ schedule(t) \/ finish_wait(t)
    \/ abort_exclusive_wait(t) \/ WqLockedAgain(t) \/ WqTakeItem(t)

WqWaking(p) == (\E nr \in {0, 1} : wake_up(p, nr)) \/ waitqueue_active(p)

WqNext ==
    \/ \E t \in WqTask :
          \/ \E kind \in WqKind : wait_event(t, kind) \/ wait_event_interruptible_locked(t, kind)
          \/ WqWait(t) \/ WqSignal(t) \/ WqElapse(t)
    \/ \E p \in WqWaker : WqAddItem(p) \/ WqWaking(p) \/ wake_up_locked(p)

WqSpec == WqInit /\ [][WqNext]_wq_vars

\* Whoever is inside a macro and awake runs, and a waker calls wake_up after
\* its change.  No item, signal or timeout is promised.
WqFairness ==
    /\ \A t \in WqTask : WF_wq_vars(WqWait(t))
    /\ \A p \in WqWaker : WF_wq_vars(WqWaking(p))

WqFairSpec == WqSpec /\ WqFairness

(***************************************************************************)
(* Properties                                                              *)
(***************************************************************************)
\* Every variable has its type, nobody is queued twice, and no entry is left
\* on the queue by a task that is out of the macro whose stack it lies on.
WqTypeOK ==
    /\ wq_items \in 0 .. WqItems
    /\ IsInjective(wq_list)
    /\ ToSet(wq_list) \subseteq {t \in WqTask : wq_pc[t] \in {"prepare", "check", "sleep", "finish", "abort"}}
    /\ wq_kind \in [WqTask -> WqKind \cup {"none"}]
    /\ wq_pc \in [WqTask -> {"idle", "prepare", "check", "sleep", "finish", "abort", "ret"}]
    /\ wq_running \in [WqTask -> BOOLEAN] /\ wq_signal \in [WqTask -> BOOLEAN]
    /\ wq_elapsed \in [WqTask -> {"no", "true", "false"}]
    /\ wq_ret \in [WqTask -> {"ok", "0", "-ERESTARTSYS"}]
    /\ wq_waker \in [WqWaker -> {"idle", "wake", "active"}]

WqAsleep(t) == wq_pc[t] = "sleep" /\ ~wq_running[t] /\ ~WqInterrupted(t)

\* While a task sleeps and its condition holds, someone who will do something
\* about it is on the way: a waker before its wake_up, or another task that
\* is awake inside a macro.  Whatever signals, timeouts and other waiters do,
\* a wake-up is never lost, the ones that wake a single task included.
WqNoLostWakeup ==
    condition /\ (\E t \in WqTask : WqAsleep(t)) =>
        \/ \E p \in WqWaker : wq_waker[p] # "idle"
        \/ \E t \in WqTask : wq_pc[t] # "idle" /\ ~WqAsleep(t)

\* A task does not sleep on for ever past items that stay: it gets going, or
\* the items are used up.
WqServed ==
    \A t \in WqTask : WqAsleep(t) ~> (~WqAsleep(t) \/ ~condition)

\* "The function returns 0 if the @timeout elapsed, and the remaining jiffies
\* if the condition evaluated to true before the timeout elapsed": a call that
\* returns 0 had a condition that was false when the timeout elapsed.
WqTimeoutMeansFalse ==
    \A t \in WqTask : wq_pc[t] = "ret" /\ wq_ret[t] = "0" => wq_elapsed[t] = "false"
=============================================================================
