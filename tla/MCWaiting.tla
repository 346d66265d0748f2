------------------------------ MODULE MCWaiting ------------------------------
(***************************************************************************)
(* Everyone who waits, in one run: the sequence lock, the local/global     *)
(* lock, the transmit queue and the wait queue.  They share no state;      *)
(* every behaviour is one of one of the four, the others staying in their  *)
(* initial states, and the fairness assumed is that part's own.            *)
(***************************************************************************)
EXTENDS SeqLock, LgLock, NetTx, WaitQueue

VARIABLE part  \* the one that runs

parts == <<part, vars, lg_vars, tx_vars, wq_vars>>

WaitingInit ==
    /\ part \in {"seqlock", "lglock", "transmit", "waitqueue"}
    /\ Init /\ LgInit /\ TxInit /\ WqInit
    /\ part # "lglock" => lg_online = LgCpu

WaitingNext ==
    \/ part = "seqlock" /\ Next /\ UNCHANGED <<part, lg_vars, tx_vars, wq_vars>>
    \/ part = "lglock" /\ LgNext /\ UNCHANGED <<part, vars, tx_vars, wq_vars>>
    \/ part = "transmit" /\ TxNext /\ UNCHANGED <<part, vars, lg_vars, wq_vars>>
    \/ part = "waitqueue" /\ WqNext /\ UNCHANGED <<part, vars, lg_vars, tx_vars>>

\* Nothing that has to go on is enabled in a part's initial state, so that the
\* fairness of the three parts at rest asks for nothing.
WaitingSpec ==
    /\ WaitingInit /\ [][WaitingNext]_parts
    /\ WriterFairness /\ LgFairness /\ TxFairness /\ WqFairness

(***************************************************************************)
(* What each part promises to those who wait                               *)
(***************************************************************************)
\* "Writers do not wait for readers": WritersNotStarved of SeqLock.
WritersEnter == part = "seqlock" => WritersNotStarved

\* Once the writers are quiet a retrying reader ends: ReadersFinish of SeqLock.
RetriesEnd == part = "seqlock" => ReadersFinish

\* Whoever waits for a local or a global section gets it: LgEnters of LgLock.
LgWaitersEnter == part = "lglock" => LgEnters

\* A packet that is queued is handed to the card although the queue was
\* stopped, frozen or reset in between: TxProgress of NetTx.
PacketsLeave == part = "transmit" => TxProgress

\* A task that waits for what stays there is woken: WqServed of WaitQueue.
SleepersWake == part = "waitqueue" => WqServed
=============================================================================
