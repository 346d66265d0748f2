------------------------------ MODULE MCQueues ------------------------------
(***************************************************************************)
(* The safety of the Xen ring and of the parts of MCWaiting, on larger     *)
(* instances than liveness allows, in one run.  They share no state: every *)
(* behaviour is one of one of them, the others staying in their initial    *)
(* states.                                                                 *)
(***************************************************************************)
EXTENDS LgLock, NetTx, WaitQueue, MCXenRing

VARIABLE part  \* the one that runs

QueuesVars == <<part, vars, lg_vars, tx_vars, wq_vars>>

QueuesInit ==
    /\ part \in {"ring", "lglock", "transmit", "waitqueue"}
    /\ Init /\ LgInit /\ TxInit /\ WqInit
    /\ part # "lglock" => lg_online = LgCpu

QueuesNext ==
    \/ part = "ring" /\ Next /\ UNCHANGED <<part, lg_vars, tx_vars, wq_vars>>
    \/ part = "lglock" /\ LgNext /\ UNCHANGED <<part, vars, tx_vars, wq_vars>>
    \/ part = "transmit" /\ TxNext /\ UNCHANGED <<part, vars, lg_vars, wq_vars>>
    \/ part = "waitqueue" /\ WqNext /\ UNCHANGED <<part, vars, lg_vars, tx_vars>>

QueuesSpec == QueuesInit /\ [][QueuesNext]_QueuesVars

\* The type invariants of the parts: every index and counter is in its range,
\* and a wait queue holds only entries of tasks that are in a wait macro, on
\* whose stacks they lie.
QueuesTypeOK == TypeOK /\ LgTypeOK /\ TxTypeOK /\ WqTypeOK
=============================================================================
