--------------------------- MODULE LgLock_proofs ---------------------------
(* Theorems about LgLock, for any number of CPUs. *)
EXTENDS LgLock, TLAPS

(***************************************************************************)
(* The inductive invariant                                                 *)
(***************************************************************************)
\* The locks a CPU holds, by where it is in its function.
LgOwns(p, c) ==
    \/ lg_op[p] = "local" /\ lg_pc[p] = "cs" /\ lg_pos[p] = c
    \/ /\ lg_op[p] \in {"online", "global"} /\ c \in LgSpan(p)
       /\ \/ lg_pc[p] = "lock" /\ c < lg_pos[p]
          \/ lg_pc[p] = "cs"
          \/ lg_pc[p] = "unlock" /\ c >= lg_pos[p]

LgOwners ==
    /\ \A p, c \in LgCpu : lg_lock[c] = p <=> LgOwns(p, c)
    /\ \A p \in LgCpu : lg_cpu_lock = p <=>
          lg_op[p] = "online" /\ lg_pc[p] \in {"lock", "cs", "unlock"}

\* Where a CPU can be; it is there only when it is online and the lock
\* initialized.
LgPlaces ==
    \A p \in LgCpu :
        /\ lg_op[p] = "none" <=> lg_pc[p] = "idle"
        /\ lg_op[p] = "local" => lg_pc[p] \in {"lock", "cs"} /\ lg_pos[p] \in LgCpu
        /\ lg_pc[p] = "wait" => lg_op[p] = "online"
        /\ lg_pc[p] # "idle" => lg_init = "done" /\ p \in lg_online

\* The mask holds every CPU that is online, and the one that is about to be.
LgMasked ==
    /\ lg_hp.step # "none" => lg_hp.cpu \in LgCpu \ lg_online
    /\ lg_init = "done" => lg_online \subseteq lg_mask
    /\ lg_init = "done" /\ lg_hp.step = "up" => lg_hp.cpu \in lg_mask

LgInv == LgTypeOK /\ LgOwners /\ LgPlaces /\ LgMasked

(***************************************************************************)
(* It is inductive                                                         *)
(***************************************************************************)
\* It holds before the lock is initialized.
LEMMA LgInvInit == LgInit => LgInv
  BY LgAssumption
  DEF LgInit, LgInv, LgTypeOK, LgOwners, LgOwns, LgPlaces, LgMasked, LgCpu

\* Initialization and hotplug change the mask only while no loop over it is
\* running: LgCallback waits for name_cpu_lock.
LEMMA LgInvHotplug ==
    ASSUME LgInv, LgRegister \/ LgFillMask \/ LgHotplugNext
    PROVE  LgInv'
  <1>1. LgTypeOK'
    BY LgAssumption DEF LgInv, LgTypeOK, LgMasked, LgRegister, LgFillMask, LgHotplugNext,
       LgUpPrepare, LgOnline, LgUpCanceled, LgOffline, LgDead, LgCallback, LgHotplug, lg_cpu
  <1>2. UNCHANGED <<lg_cpu_lock, lg_lock, lg_op, lg_pc, lg_pos>>
    BY DEF LgRegister, LgFillMask, LgHotplugNext,
       LgUpPrepare, LgOnline, LgUpCanceled, LgOffline, LgDead, LgCallback, lg_cpu
  <1>3. (\E p \in LgCpu : lg_op[p] = "online" /\ lg_pc[p] # "wait") => UNCHANGED lg_mask
    <2> SUFFICES ASSUME NEW p \in LgCpu, lg_op[p] = "online", lg_pc[p] # "wait"
                 PROVE  UNCHANGED lg_mask
      OBVIOUS
    <2>1. lg_cpu_lock = p /\ lg_init = "done"
      BY DEF LgInv, LgOwners, LgPlaces, LgTypeOK
    <2> QED
      BY <2>1, LgAssumption DEF LgRegister, LgFillMask, LgHotplugNext, LgCpu,
         LgUpPrepare, LgOnline, LgUpCanceled, LgOffline, LgDead, LgCallback
  <1>4. \A p, c \in LgCpu : LgOwns(p, c)' <=> LgOwns(p, c)
    BY <1>2, <1>3 DEF LgOwns, LgSpan
  <1>5. LgOwners'
    BY <1>2, <1>4 DEF LgInv, LgOwners
  <1>6. LgPlaces'
    BY <1>2 DEF LgInv, LgPlaces, LgRegister, LgFillMask, LgHotplugNext,
       LgUpPrepare, LgOnline, LgUpCanceled, LgOffline, LgDead, LgCallback
  <1>7. LgMasked'
    BY LgAssumption DEF LgInv, LgMasked, LgTypeOK, LgRegister, LgFillMask, LgHotplugNext,
       LgUpPrepare, LgOnline, LgUpCanceled, LgOffline, LgDead, LgCallback, LgHotplug
  <1> QED
    BY <1>1, <1>5, <1>6, <1>7 DEF LgInv

\* A step of a CPU in its function.
LgCpuNext(p) ==
    \/ \E c \in LgCpu : LgLocalCall(p, c)
    \/ LgGlobalCall(p) \/ LgTake(p) \/ LgStep(p)

\* CPU numbers, and the loop variable that runs over them.
LEMMA LgNumbers ==
    /\ LgNone \notin LgCpu
    /\ LgCpu \subseteq Int /\ LgCpu \subseteq 0 .. LgCpus
    /\ 0 \in 0 .. LgCpus
    /\ \A i \in LgCpu : i + 1 \in 0 .. LgCpus
  BY LgAssumption DEF LgCpu

\* The steps of a CPU keep to the places, and leave the masks alone.
LEMMA LgInvPlaces ==
    ASSUME LgInv, NEW p \in LgCpu, LgCpuNext(p)
    PROVE  LgTypeOK' /\ LgPlaces' /\ LgMasked' /\ UNCHANGED <<lg_mask, lg_online, lg_init, lg_hp>>
  <1> DEFINE Moved(op, pc, pos) ==
        /\ lg_op' = [lg_op EXCEPT ![p] = op]
        /\ lg_pc' = [lg_pc EXCEPT ![p] = pc]
        /\ lg_pos' = [lg_pos EXCEPT ![p] = pos]
  <1>1. UNCHANGED <<lg_mask, lg_online, lg_init, lg_hp>>
    BY DEF LgCpuNext, LgTake, LgStep, LgLocalCall, LgLocalLock, LgLocalUnlock, LgGlobalCall,
       LgCpuLock, LgGlobalLock, LgGlobalLocked, LgGlobalUnlock, LgRelease, LgReleased, LgGoto
  <1>2. /\ lg_cpu_lock' \in LgCpu \cup {LgNone}
        /\ lg_lock' \in [LgCpu -> LgCpu \cup {LgNone}]
    BY DEF LgInv, LgTypeOK, LgCpuNext, LgTake, LgStep, LgLocalCall, LgLocalLock, LgLocalUnlock,
       LgGlobalCall, LgCpuLock, LgGlobalLock, LgGlobalLocked, LgGlobalUnlock, LgRelease, LgReleased
  <1>3. \/ /\ lg_init = "done" /\ p \in lg_online
           /\ \/ \E c \in LgCpu : Moved("local", "lock", c)
              \/ Moved("global", "lock", 0)
              \/ Moved("online", "wait", 0)
        \/ lg_pc[p] = "wait" /\ Moved("online", "lock", 0)
        \/ lg_op[p] = "local" /\ Moved("local", "cs", lg_pos[p])
        \/ Moved("none", "idle", 0)
        \/ \E i \in LgCpu : lg_op[p] # "local" /\ lg_pc[p] = "lock" /\ Moved(lg_op[p], "lock", i + 1)
        \/ lg_op[p] # "local" /\ lg_pc[p] = "lock" /\ Moved(lg_op[p], "cs", 0)
        \/ lg_op[p] # "local" /\ lg_pc[p] = "cs" /\ Moved(lg_op[p], "unlock", 0)
        \/ \E i \in LgCpu : lg_pc[p] = "unlock" /\ Moved(lg_op[p], "unlock", i + 1)
    BY DEF LgCpuNext, LgTake, LgStep, LgLocalCall, LgLocalLock, LgLocalUnlock, LgGlobalCall, LgCall,
       LgCpuLock, LgGlobalLock, LgGlobalLocked, LgGlobalUnlock, LgRelease, LgReleased, LgGoto
  <1>4. ASSUME NEW op \in {"none", "local", "online", "global"},
               NEW pc \in {"idle", "wait", "lock", "cs", "unlock"},
               NEW pos \in 0 .. LgCpus,
               Moved(op, pc, pos),
               lg_init = "done" /\ p \in lg_online,
               op = "none" <=> pc = "idle",
               op = "local" => pc \in {"lock", "cs"} /\ pos \in LgCpu,
               pc = "wait" => op = "online"
        PROVE  LgTypeOK' /\ LgPlaces'
    <2>1. LgTypeOK'
      BY <1>1, <1>2, <1>4 DEF LgInv, LgTypeOK
    <2>2. LgPlaces'
      BY <1>1, <1>4 DEF LgInv, LgTypeOK, LgPlaces
    <2> QED
      BY <2>1, <2>2
  <1>5. /\ lg_op[p] \in {"none", "local", "online", "global"}
        /\ lg_pc[p] # "idle" => lg_op[p] # "none" /\ lg_init = "done" /\ p \in lg_online
        /\ lg_op[p] = "local" => lg_pc[p] \in {"lock", "cs"} /\ lg_pos[p] \in LgCpu
    BY DEF LgInv, LgTypeOK, LgPlaces
  <1>6. lg_init = "done" /\ p \in lg_online
    BY <1>5 DEF LgCpuNext, LgTake, LgStep, LgLocalCall, LgLocalLock, LgLocalUnlock, LgGlobalCall,
       LgCall, LgCpuLock, LgGlobalLock, LgGlobalLocked, LgGlobalUnlock, LgRelease, LgReleased
  <1>7. LgTypeOK' /\ LgPlaces'
    <2> HIDE DEF Moved
    <2>1. CASE Moved("none", "idle", 0)
      BY <1>4, <1>6, <2>1, LgNumbers
    <2>2. ASSUME NEW c \in LgCpu, Moved("local", "lock", c) PROVE LgTypeOK' /\ LgPlaces'
      BY <1>4, <1>6, <2>2, LgNumbers
    <2>3. CASE Moved("global", "lock", 0)
      BY <1>4, <1>6, <2>3, LgNumbers
    <2>4. CASE Moved("online", "wait", 0)
      BY <1>4, <1>6, <2>4, LgNumbers
    <2>5. CASE Moved("online", "lock", 0)
      BY <1>4, <1>6, <2>5, LgNumbers
    <2>6. CASE lg_op[p] = "local" /\ Moved("local", "cs", lg_pos[p])
      BY <1>4, <1>5, <1>6, <2>6, LgNumbers
    <2>7. ASSUME NEW i \in LgCpu, NEW pc \in {"lock", "unlock"},
                 lg_op[p] \in {"online", "global"}, Moved(lg_op[p], pc, i + 1)
          PROVE  LgTypeOK' /\ LgPlaces'
      BY <1>4, <1>6, <2>7, LgNumbers
    <2>8. ASSUME NEW pc \in {"cs", "unlock"}, lg_op[p] \in {"online", "global"}, Moved(lg_op[p], pc, 0)
          PROVE  LgTypeOK' /\ LgPlaces'
      BY <1>4, <1>6, <2>8, LgNumbers
    <2> QED
      BY <1>3, <1>5, <2>1, <2>2, <2>3, <2>4, <2>5, <2>6, <2>7, <2>8
  <1>8. LgMasked'
    BY <1>1 DEF LgInv, LgMasked
  <1> QED
    BY <1>1, <1>7, <1>8

\* A CPU takes locks that are free and releases its own, in the order in which
\* its loop variable moves; the other CPUs' holdings stay what they are.
LEMMA LgInvOwners ==
    ASSUME LgInv, NEW p \in LgCpu, LgCpuNext(p)
    PROVE  LgOwners'
  <1> DEFINE Keeps == UNCHANGED lg_lock /\ \A c \in LgCpu : LgOwns(p, c)' <=> LgOwns(p, c)
             Takes(i) == /\ lg_lock[i] = LgNone /\ lg_lock' = [lg_lock EXCEPT ![i] = p]
                         /\ \A c \in LgCpu : LgOwns(p, c)' <=> LgOwns(p, c) \/ c = i
             Frees(i) == /\ LgOwns(p, i) /\ lg_lock' = [lg_lock EXCEPT ![i] = LgNone]
                         /\ \A c \in LgCpu : LgOwns(p, c)' <=> LgOwns(p, c) /\ c # i
  <1>0. UNCHANGED lg_mask /\ LgTypeOK'
    BY LgInvPlaces
  <1>1. \A q \in LgCpu \ {p} :
           lg_op'[q] = lg_op[q] /\ lg_pc'[q] = lg_pc[q] /\ lg_pos'[q] = lg_pos[q]
    BY DEF LgInv, LgTypeOK, LgCpuNext, LgTake, LgStep, LgLocalCall, LgLocalLock, LgLocalUnlock,
       LgGlobalCall, LgCpuLock, LgGlobalLock, LgGlobalLocked, LgGlobalUnlock, LgRelease, LgReleased,
       LgGoto
  <1>2. \A q \in LgCpu \ {p}, c \in LgCpu : LgOwns(q, c)' <=> LgOwns(q, c)
    BY <1>0, <1>1 DEF LgOwns, LgSpan
  <1>3. Keeps \/ \E i \in LgCpu : Takes(i) \/ Frees(i)
    <2> USE LgNumbers DEF LgInv, LgTypeOK, LgPlaces, LgGoto
    <2>1. ASSUME NEW c \in LgCpu, LgLocalCall(p, c) PROVE Keeps
      BY <1>0, <2>1 DEF LgOwns, LgSpan, LgLocalCall, LgCall
    <2>2. ASSUME LgGlobalCall(p) PROVE Keeps
      BY <1>0, <2>2 DEF LgOwns, LgSpan, LgGlobalCall, LgCall
    <2>3. ASSUME LgLocalLock(p) PROVE Takes(lg_pos[p])
      BY <1>0, <2>3 DEF LgOwns, LgSpan, LgLocalLock
    <2>4. ASSUME LgLocalUnlock(p) PROVE Frees(lg_pos[p])
      BY <1>0, <2>4 DEF LgOwns, LgSpan, LgLocalUnlock
    <2>5. ASSUME LgCpuLock(p) PROVE Keeps
      BY <1>0, <2>5 DEF LgOwns, LgSpan, LgCpuLock, LgCpu
    <2>6. ASSUME NEW i \in LgCpu, LgGlobalLock(p, i) PROVE Takes(i)
      <3>1. lg_op'[p] = lg_op[p] /\ lg_pc'[p] = "lock" /\ lg_pos'[p] = i + 1
        BY <2>6 DEF LgGlobalLock
      <3>2. \A c \in LgSpan(p) : c < i + 1 <=> c < lg_pos[p] \/ c = i
        BY <2>6 DEF LgGlobalLock, LgIsNext, LgLeft, LgSpan, LgCpu
      <3>3. lg_pc[p] = "lock" /\ lg_op[p] \in {"online", "global"} /\ i \in LgSpan(p)
        BY <2>6 DEF LgGlobalLock, LgIsNext, LgLeft
      <3> QED
        BY <1>0, <2>6, <3>1, <3>2, <3>3 DEF LgOwns, LgSpan, LgGlobalLock
    <2>7. ASSUME LgGlobalLocked(p) PROVE Keeps
      <3>1. \A c \in LgSpan(p) : c < lg_pos[p]
        BY <2>7 DEF LgGlobalLocked, LgLeft, LgSpan
      <3> QED
        BY <1>0, <2>7, <3>1 DEF LgOwns, LgSpan, LgGlobalLocked
    <2>8. ASSUME LgGlobalUnlock(p) PROVE Keeps
      BY <1>0, <2>8 DEF LgOwns, LgSpan, LgGlobalUnlock, LgCpu
    <2>9. ASSUME NEW i \in LgCpu, LgRelease(p, i) PROVE Frees(i)
      <3>1. lg_op'[p] = lg_op[p] /\ lg_pc'[p] = "unlock" /\ lg_pos'[p] = i + 1
        BY <2>9 DEF LgRelease
      <3>2. \A c \in LgSpan(p) : c >= i + 1 <=> c >= lg_pos[p] /\ c # i
        BY <2>9 DEF LgRelease, LgIsNext, LgLeft, LgSpan, LgCpu
      <3>3. /\ lg_pc[p] = "unlock" /\ lg_op[p] \in {"online", "global"}
            /\ i \in LgSpan(p) /\ i >= lg_pos[p]
        BY <2>9 DEF LgRelease, LgIsNext, LgLeft
      <3> QED
        BY <1>0, <2>9, <3>1, <3>2, <3>3 DEF LgOwns, LgSpan, LgRelease
    <2>10. ASSUME LgReleased(p) PROVE Keeps
      BY <1>0, <2>10 DEF LgOwns, LgSpan, LgLeft, LgReleased
    <2>11. lg_op[p] = "local" => lg_pos[p] \in LgCpu
      OBVIOUS
    <2> HIDE DEF Keeps, Takes, Frees
    <2> QED
      BY <2>1, <2>2, <2>3, <2>4, <2>5, <2>6, <2>7, <2>8, <2>9, <2>10, <2>11
      DEF LgCpuNext, LgTake, LgStep, LgLocalLock, LgLocalUnlock
  <1>4. \A q, c \in LgCpu : lg_lock'[c] = q <=> LgOwns(q, c)'
    <2>1. \A q, c \in LgCpu : lg_lock[c] = q <=> LgOwns(q, c)
      BY DEF LgInv, LgOwners
    <2>2. lg_lock \in [LgCpu -> LgCpu \cup {LgNone}]
      BY DEF LgInv, LgTypeOK
    <2> QED
      BY <1>2, <1>3, <2>1, <2>2, LgNumbers
  <1>5. \A q \in LgCpu : lg_cpu_lock' = q <=>
           lg_op'[q] = "online" /\ lg_pc'[q] \in {"lock", "cs", "unlock"}
    <2>1. \A q \in LgCpu : lg_cpu_lock = q <=>
             lg_op[q] = "online" /\ lg_pc[q] \in {"lock", "cs", "unlock"}
      BY DEF LgInv, LgOwners
    <2> QED
      BY <1>1, <2>1, LgNumbers
      DEF LgInv, LgTypeOK, LgPlaces, LgCpuNext, LgTake, LgStep, LgLocalCall, LgLocalLock, LgLocalUnlock,
       LgGlobalCall, LgCall, LgCpuLock, LgGlobalLock, LgGlobalLocked, LgGlobalUnlock, LgRelease,
       LgReleased, LgGoto
  <1> QED
    BY <1>4, <1>5 DEF LgOwners

\* Every step keeps the invariant.
LEMMA LgInvNext == LgInv /\ [LgNext]_lg_vars => LgInv'
  <1> SUFFICES ASSUME LgInv, [LgNext]_lg_vars PROVE LgInv'
    OBVIOUS
  <1>1. CASE UNCHANGED lg_vars
    BY <1>1 DEF lg_vars, lg_cpu, LgInv, LgTypeOK, LgOwners, LgOwns, LgSpan, LgPlaces, LgMasked
  <1>2. CASE LgRegister \/ LgFillMask \/ LgHotplugNext
    BY <1>2, LgInvHotplug
  <1>3. ASSUME NEW p \in LgCpu, LgCpuNext(p) PROVE LgInv'
    BY <1>3, LgInvPlaces, LgInvOwners DEF LgInv
  <1> QED
    BY <1>1, <1>2, <1>3 DEF LgNext, LgCpuNext

\* The invariant holds throughout.
LEMMA LgInvariant == LgSpec => []LgInv
  BY LgInvInit, LgInvNext, PTL DEF LgSpec

(***************************************************************************)
(* Theorems                                                                *)
(***************************************************************************)
\* Every variable of the local/global lock keeps its type.
THEOREM LgTypeCorrect == LgSpec => []LgTypeOK
  <1>1. LgInv => LgTypeOK
    BY DEF LgInv
  <1> QED
    BY <1>1, LgInvariant, PTL

\* name_global_lock and name_global_lock_online exclude each other and every
\* local section, whatever CPUs come and go: a CPU is in name_cpus, whose locks
\* a global section holds, from before it can run until after it has stopped.
THEOREM LgExcludes == LgSpec => []LgExclusion
  <1>1. LgInv => LgExclusion
    BY LgAssumption
    DEF LgInv, LgTypeOK, LgOwners, LgOwns, LgSpan, LgPlaces, LgMasked, LgExclusion, LgCpu
  <1> QED
    BY <1>1, LgInvariant, PTL

\* The unlock loops release exactly what the lock loops took.
THEOREM LgReleasesAll == LgSpec => []LgBalanced
  <1>1. LgInv => LgBalanced
    BY DEF LgInv, LgTypeOK, LgOwners, LgOwns, LgSpan, LgLeft, LgPlaces, LgBalanced
  <1> QED
    BY <1>1, LgInvariant, PTL
=============================================================================
