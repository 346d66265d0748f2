------------------------------- MODULE LgLock -------------------------------
(***************************************************************************)
(* The local/global locks of linux/lglock.h, and the reader/writer locks   *)
(* (br_read_lock, br_write_lock) made of them: one spinlock per CPU, taken *)
(* alone by a local section and all together by a global one, while CPUs   *)
(* come and go.                                                            *)
(*                                                                         *)
(* From the first spinlock it waits for to the last it releases, code is   *)
(* not preempted, so a CPU is at one place of one of these functions, and  *)
(* it is brought down only while it is at none.                            *)
(***************************************************************************)
EXTENDS Integers

CONSTANTS
    LgCpus,     \* nr_cpu_ids: the possible CPUs are 0 .. LgCpus - 1
    LgNone      \* no owner, no CPU

ASSUME LgAssumption == LgCpus \in Nat \ {0} /\ LgNone \notin 0 .. LgCpus - 1

VARIABLES
    lg_online,   \* cpu_online_mask
    lg_init,     \* progress of name_lock_init: "new", "registered", "done"
    lg_mask,     \* name_cpus
    lg_cpu_lock, \* name_cpu_lock: the CPU that holds it, or LgNone
    lg_lock,     \* the owner of each CPU's name_lock, or LgNone
    lg_op,       \* the function pair a CPU is in
    lg_pc,       \* and its place in it
    lg_pos,      \* the loop variable i, or the CPU a local section is about
    lg_hp        \* the CPU being plugged or unplugged, and how far that is

lg_cpu == <<lg_op, lg_pc, lg_pos>>
lg_vars == <<lg_online, lg_init, lg_mask, lg_cpu_lock, lg_lock, lg_cpu, lg_hp>>

LgCpu == 0 .. LgCpus - 1

\* Before the lock is initialized; unlocked is what the loop in it stores.
LgInit ==
    /\ lg_online \in SUBSET LgCpu /\ lg_online # {}
    /\ lg_init = "new" /\ lg_mask = {}
    /\ lg_cpu_lock = LgNone
    /\ lg_lock = [c \in LgCpu |-> LgNone]
    /\ lg_op = [c \in LgCpu |-> "none"]
    /\ lg_pc = [c \in LgCpu |-> "idle"]
    /\ lg_pos = [c \in LgCpu |-> 0]
    /\ lg_hp = [step |-> "none", cpu |-> LgNone]

(***************************************************************************)
(* name_lock_init                                                          *)
(***************************************************************************)
\* register_hotcpu_notifier: callbacks reach name_lg_cpu_callback from now on,
\* even for a CPU that is half way up or down.
LgRegister ==
    /\ lg_init = "new"
    /\ lg_init' = "registered"
    /\ UNCHANGED <<lg_online, lg_mask, lg_cpu_lock, lg_lock, lg_cpu, lg_hp>>

\* The mask is filled in between get_online_cpus and put_online_cpus: no CPU
\* is on its way up or down.
LgFillMask ==
    /\ lg_init = "registered" /\ lg_hp.step = "none"
    /\ lg_init' = "done"
    /\ lg_mask' = lg_mask \cup lg_online
    /\ UNCHANGED <<lg_online, lg_cpu_lock, lg_lock, lg_cpu, lg_hp>>

(***************************************************************************)
(* CPU hotplug, and name_lg_cpu_callback                                   *)
(***************************************************************************)
LgHotplug(step, c) == lg_hp' = [step |-> step, cpu |-> c]

\* The critical section of name_lg_cpu_callback, if it is registered.
LgCallback(mask) ==
    /\ lg_init # "new" => lg_cpu_lock = LgNone
    /\ lg_mask' = IF lg_init = "new" THEN lg_mask ELSE mask
    /\ UNCHANGED <<lg_init, lg_cpu_lock, lg_lock, lg_cpu>>

\* Wrong variant of LgUpPrepare: a CPU is not entered before it runs.
lg_up_unmasked(c) ==
    /\ lg_hp.step = "none" /\ c \notin lg_online
    /\ LgCallback(lg_mask)
    /\ LgHotplug("up", c)
    /\ UNCHANGED lg_online

\* CPU_UP_PREPARE
LgUpPrepare(c) ==
    /\ lg_hp.step = "none" /\ c \notin lg_online
    /\ LgCallback(lg_mask \cup {c})
    /\ LgHotplug("up", c)
    /\ UNCHANGED lg_online

\* The CPU starts;
LgOnline ==
    /\ lg_hp.step = "up"
    /\ lg_online' = lg_online \cup {lg_hp.cpu}
    /\ LgHotplug("none", LgNone)
    /\ UNCHANGED <<lg_init, lg_mask, lg_cpu_lock, lg_lock, lg_cpu>>

\* or it fails to: CPU_UP_CANCELED.
LgUpCanceled ==
    /\ lg_hp.step = "up"
    /\ LgCallback(lg_mask \ {lg_hp.cpu})
    /\ LgHotplug("none", LgNone)
    /\ UNCHANGED lg_online

\* A CPU other than the last one stops, with nothing left to run on it;
LgOffline(c) ==
    /\ lg_hp.step = "none"
    /\ c \in lg_online /\ lg_online # {c}
    /\ lg_pc[c] = "idle"
    /\ lg_online' = lg_online \ {c}
    /\ LgHotplug("dead", c)
    /\ UNCHANGED <<lg_init, lg_mask, lg_cpu_lock, lg_lock, lg_cpu>>

\* CPU_DEAD
LgDead ==
    /\ lg_hp.step = "dead"
    /\ LgCallback(lg_mask \ {lg_hp.cpu})
    /\ LgHotplug("none", LgNone)
    /\ UNCHANGED lg_online

(***************************************************************************)
(* The lock functions, on CPU p                                            *)
(***************************************************************************)
LgGoto(p, op, pc, pos) ==
    /\ lg_op' = [lg_op EXCEPT ![p] = op]
    /\ lg_pc' = [lg_pc EXCEPT ![p] = pc]
    /\ lg_pos' = [lg_pos EXCEPT ![p] = pos]
    /\ UNCHANGED <<lg_online, lg_init, lg_mask, lg_hp>>

LgCall(p) == lg_init = "done" /\ p \in lg_online /\ lg_pc[p] = "idle"

\* The CPUs the loop of a global section goes over, and where it stands.
LgSpan(p) == IF lg_op[p] = "online" THEN lg_mask ELSE LgCpu
LgLeft(p) == {i \in LgSpan(p) : i >= lg_pos[p]}

LgIsNext(p, i) == i \in LgLeft(p) /\ \A j \in LgLeft(p) : i <= j

\* name_local_lock and name_local_lock_cpu: the CPU's own lock, or that of c;
LgLocalCall(p, c) ==
    /\ LgCall(p)
    /\ LgGoto(p, "local", "lock", c)
    /\ UNCHANGED <<lg_cpu_lock, lg_lock>>

LgLocalLock(p) ==
    /\ lg_op[p] = "local" /\ lg_pc[p] = "lock"
    /\ lg_lock[lg_pos[p]] = LgNone
    /\ lg_lock' = [lg_lock EXCEPT ![lg_pos[p]] = p]
    /\ LgGoto(p, "local", "cs", lg_pos[p])
    /\ UNCHANGED lg_cpu_lock

\* name_local_unlock and name_local_unlock_cpu.
LgLocalUnlock(p) ==
    /\ lg_op[p] = "local" /\ lg_pc[p] = "cs"
    /\ lg_lock' = [lg_lock EXCEPT ![lg_pos[p]] = LgNone]
    /\ LgGoto(p, "none", "idle", 0)
    /\ UNCHANGED lg_cpu_lock

\* name_global_lock and name_global_lock_online: the second one holds
\* name_cpu_lock from before its loop until after the loop that unlocks.
LgGlobalCall(p) ==
    /\ LgCall(p)
    /\ \/ LgGoto(p, "global", "lock", 0)
       \/ LgGoto(p, "online", "wait", 0)
    /\ UNCHANGED <<lg_cpu_lock, lg_lock>>

LgCpuLock(p) ==
    /\ lg_pc[p] = "wait"
    /\ lg_cpu_lock = LgNone
    /\ lg_cpu_lock' = p
    /\ LgGoto(p, "online", "lock", 0)
    /\ UNCHANGED lg_lock

LgGlobalLock(p, i) ==
    /\ lg_op[p] # "local" /\ lg_pc[p] = "lock"
    /\ LgIsNext(p, i)
    /\ lg_lock[i] = LgNone
    /\ lg_lock' = [lg_lock EXCEPT ![i] = p]
    /\ LgGoto(p, lg_op[p], "lock", i + 1)
    /\ UNCHANGED lg_cpu_lock

LgGlobalLocked(p) ==
    /\ lg_op[p] # "local" /\ lg_pc[p] = "lock"
    /\ LgLeft(p) = {}
    /\ LgGoto(p, lg_op[p], "cs", 0)
    /\ UNCHANGED <<lg_cpu_lock, lg_lock>>

\* Wrong variant of LgGlobalUnlock: name_cpu_lock is released before the loop.
lg_unlock_early(p) ==
    /\ lg_op[p] # "local" /\ lg_pc[p] = "cs"
    /\ LgGoto(p, lg_op[p], "unlock", 0)
    /\ lg_cpu_lock' = IF lg_op[p] = "online" THEN LgNone ELSE lg_cpu_lock
    /\ UNCHANGED lg_lock

\* name_global_unlock and name_global_unlock_online.
LgGlobalUnlock(p) ==
    /\ lg_op[p] # "local" /\ lg_pc[p] = "cs"
    /\ LgGoto(p, lg_op[p], "unlock", 0)
    /\ UNCHANGED <<lg_cpu_lock, lg_lock>>

LgRelease(p, i) ==
    /\ lg_pc[p] = "unlock"
    /\ LgIsNext(p, i)
    /\ lg_lock' = [lg_lock EXCEPT ![i] = LgNone]
    /\ LgGoto(p, lg_op[p], "unlock", i + 1)
    /\ UNCHANGED lg_cpu_lock

\* Wrong variant of LgReleased: the loop starts again at the first CPU.
lg_release_again(p) ==
    /\ lg_pc[p] = "unlock"
    /\ LgLeft(p) = {}
    /\ LgGoto(p, lg_op[p], "unlock", 0)
    /\ UNCHANGED <<lg_cpu_lock, lg_lock>>

LgReleased(p) ==
    /\ lg_pc[p] = "unlock"
    /\ LgLeft(p) = {}
    /\ lg_cpu_lock' = IF lg_op[p] = "online" THEN LgNone ELSE lg_cpu_lock
    /\ LgGoto(p, "none", "idle", 0)
    /\ UNCHANGED lg_lock

LgHotplugNext ==
    \/ \E c \in LgCpu : LgUpPrepare(c) \/ LgOffline(c)
    \/ LgOnline \/ LgUpCanceled \/ LgDead

LgStep(p) ==
    \/ LgLocalUnlock(p) \/ LgGlobalLocked(p) \/ LgGlobalUnlock(p) \/ LgReleased(p)
    \/ \E i \in LgCpu : LgRelease(p, i)

LgTake(p) ==
    \/ LgCpuLock(p) \/ LgLocalLock(p)
    \/ \E i \in LgCpu : LgGlobalLock(p, i)

LgNext ==
    \/ LgRegister \/ LgFillMask \/ LgHotplugNext
    \/ \E p \in LgCpu :
          \/ \E c \in LgCpu : LgLocalCall(p, c)
          \/ LgGlobalCall(p) \/ LgTake(p) \/ LgStep(p)

LgSpec == LgInit /\ [][LgNext]_lg_vars

\* Code that holds a lock goes on; a spinlock is granted in turn, so one that
\* is released again and again is not withheld from a CPU for ever; the CPU
\* hotplug code, which waits for name_cpu_lock too, comes to its end.  Nobody
\* has to call a lock function.
LgFairness ==
    /\ \A p \in LgCpu :
          /\ WF_lg_vars(LgStep(p))
          /\ SF_lg_vars(LgTake(p))
    /\ WF_lg_vars(LgOnline)
    /\ SF_lg_vars(LgDead)

LgFairSpec == LgSpec /\ LgFairness

(***************************************************************************)
(* Properties                                                              *)
(***************************************************************************)
\* Every variable has its type.
LgTypeOK ==
    /\ lg_online \in SUBSET LgCpu
    /\ lg_init \in {"new", "registered", "done"}
    /\ lg_mask \in SUBSET LgCpu
    /\ lg_cpu_lock \in LgCpu \cup {LgNone}
    /\ lg_lock \in [LgCpu -> LgCpu \cup {LgNone}]
    /\ lg_op \in [LgCpu -> {"none", "local", "online", "global"}]
    /\ lg_pc \in [LgCpu -> {"idle", "wait", "lock", "cs", "unlock"}]
    /\ lg_pos \in [LgCpu -> 0 .. LgCpus]
    /\ lg_hp \in [step : {"none", "up", "dead"}, cpu : LgCpu \cup {LgNone}]

\* A global section excludes every other section, of either kind and on any
\* CPU, whichever CPUs came or went since; all that a global section over the
\* online CPUs lets in is name_local_lock_cpu for a CPU that is offline.  So
\* br_write_lock excludes every br_read_lock.
LgExclusion ==
    \A p, q \in LgCpu :
        /\ p # q
        /\ lg_pc[p] = "cs" /\ lg_op[p] \in {"online", "global"}
        /\ lg_pc[q] = "cs"
        => /\ lg_op[p] = "online" /\ lg_op[q] = "local"
           /\ lg_pos[q] \notin lg_online

\* A section releases the locks it has taken, all of them and no others:
\* name_cpus is the same in the loop that unlocks as in the one that locked.
LgBalanced ==
    /\ \A p \in LgCpu : lg_pc[p] = "idle" =>
          lg_cpu_lock # p /\ \A c \in LgCpu : lg_lock[c] # p
    /\ \A p \in LgCpu : lg_pc[p] = "unlock" => \A i \in LgLeft(p) : lg_lock[i] = p

\* Whoever waits for a local or a global section enters it: global sections
\* that take all locks, local ones, the two kinds of loop and the hotplug
\* callbacks never wait for each other in a circle.
LgEnters ==
    /\ \A p \in LgCpu : lg_pc[p] \in {"wait", "lock"} ~> lg_pc[p] = "cs"
    /\ lg_hp.step # "none" ~> lg_hp.step = "none"
=============================================================================
