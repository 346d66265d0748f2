------------------------------- MODULE SeqLock -------------------------------
(***************************************************************************)
(* Sequence locks and sequence counters: linux/seqlock.h.                  *)
(*                                                                         *)
(* Writers exclude one another by a lock (the spinlock of a seqlock_t, or  *)
(* the mutex a seqcount_t's users bring) and count the sequence up before  *)
(* and after they write.  A reader copies words of the data with no lock   *)
(* and keeps the copy only if the sequence is still what it was at the     *)
(* beginning.  Every access to the sequence or to a word is a step of its  *)
(* own, and steps are sequentially consistent: what smp_wmb and smp_rmb    *)
(* are there to ensure.                                                    *)
(*                                                                         *)
(* One word, Fenced, is data of the kind that write_seqcount_barrier is    *)
(* for: it is changed outside a write section, and the readers that may    *)
(* hold the old value are sent round again afterwards.                     *)
(***************************************************************************)
EXTENDS Integers

CONSTANTS
    W,         \* the number of values of an unsigned: 2^32
    Writer, Reader,
    Word,      \* the words of the data that write sections protect
    Fenced,    \* the word that write_seqcount_barrier protects
    Val,       \* what a word may hold
    InitVal,
    NULL

VARIABLES
    sequence,  \* s->sequence
    owner,     \* the writer that holds the lock, NULL if none
    wpc,       \* wpc[p]: where writer p stands
    data,      \* data[w]: the words, Fenced included
    rpc,       \* rpc[r]: "out" of a read section, "begin", "in", "done"
    start,     \* start[r]: what the section began with
    copy,      \* copy[r][w]: what r has read in this section, NULL if not yet
    age,       \* ghost: increments since start[r] was current, at most W
    outdated   \* ghost: r has read a value of Fenced from before a barrier

wvars == <<sequence, owner, wpc, data>>
rvars == <<rpc, start, copy, age, outdated>>
vars == <<wvars, rvars>>

Words == Word \cup {Fenced}

ASSUME SeqAssumption ==
    /\ W \in Nat \ {0} /\ W % 2 = 0
    /\ InitVal \in Val
    /\ NULL \notin Val /\ NULL \notin Writer
    /\ Fenced \notin Word

Nothing == [w \in Words |-> NULL]

Init ==
    /\ sequence = 0
    /\ owner = NULL
    /\ wpc = [p \in Writer |-> "out"]
    /\ data = [w \in Words |-> InitVal]
    /\ rpc = [r \in Reader |-> "out"]
    /\ start = [r \in Reader |-> 0]
    /\ copy = [r \in Reader |-> Nothing]
    /\ age = [r \in Reader |-> 0]
    /\ outdated = [r \in Reader |-> FALSE]

(***************************************************************************)
(* Writers                                                                 *)
(***************************************************************************)
\* sequence += n, and the book-keeping of how far it is from start[r].
Count(n) ==
    /\ sequence' = (sequence + n) % W
    /\ age' = [r \in Reader |-> IF age[r] + n < W THEN age[r] + n ELSE W]

\* A writer asks for the lock.  A write_tryseqlock that fails changes nothing
\* and one that succeeds is a Lock with no wait.
WriteCall(p) ==
    /\ wpc[p] = "out"
    /\ wpc' = [wpc EXCEPT ![p] = "wait"]
    /\ UNCHANGED <<sequence, owner, data, rvars>>

\* Wrong variant of Lock: waits for readers to leave.
lock_polite(p) ==
    /\ wpc[p] = "wait" /\ owner = NULL
    /\ \A r \in Reader : rpc[r] # "in"
    /\ owner' = p
    /\ wpc' = [wpc EXCEPT ![p] = "locked"]
    /\ UNCHANGED <<sequence, data, rvars>>

\* spin_lock, or spin_trylock that succeeds.
Lock(p) ==
    /\ wpc[p] = "wait" /\ owner = NULL
    /\ owner' = p
    /\ wpc' = [wpc EXCEPT ![p] = "locked"]
    /\ UNCHANGED <<sequence, data, rvars>>

\* write_seqlock after the lock, or write_seqcount_begin.
WriteBegin(p) ==
    /\ wpc[p] = "locked"
    /\ Count(1)
    /\ wpc' = [wpc EXCEPT ![p] = "writing"]
    /\ UNCHANGED <<owner, data, rpc, start, copy, outdated>>

Store(p, w, v) ==
    /\ wpc[p] = "writing"
    /\ data' = [data EXCEPT ![w] = v]
    /\ UNCHANGED <<sequence, owner, wpc, rvars>>

\* Wrong variant of WriteEnd: the second increment is missing.
end_silent(p) ==
    /\ wpc[p] = "writing"
    /\ wpc' = [wpc EXCEPT ![p] = "unlock"]
    /\ UNCHANGED <<sequence, owner, data, rvars>>

\* write_sequnlock up to the unlock, or write_seqcount_end.
WriteEnd(p) ==
    /\ wpc[p] = "writing"
    /\ Count(1)
    /\ wpc' = [wpc EXCEPT ![p] = "unlock"]
    /\ UNCHANGED <<owner, data, rpc, start, copy, outdated>>

Unlock(p) ==
    /\ wpc[p] = "unlock"
    /\ owner' = NULL
    /\ wpc' = [wpc EXCEPT ![p] = "out"]
    /\ UNCHANGED <<sequence, data, rvars>>

\* A change of Fenced under the lock, and the barrier after it.
StoreFenced(p, v) ==
    /\ wpc[p] = "locked"
    /\ data' = [data EXCEPT ![Fenced] = v]
    /\ wpc' = [wpc EXCEPT ![p] = "fence"]
    /\ UNCHANGED <<sequence, owner, rvars>>

\* Wrong variant of WriteBarrier: leaves the sequence alone.
barrier_silent(p) ==
    /\ wpc[p] = "fence"
    /\ wpc' = [wpc EXCEPT ![p] = "unlock"]
    /\ outdated' = [r \in Reader |->
          outdated[r] \/ copy[r][Fenced] \notin {NULL, data[Fenced]}]
    /\ UNCHANGED <<sequence, owner, data, rpc, start, copy, age>>

\* write_seqcount_barrier.
WriteBarrier(p) ==
    /\ wpc[p] = "fence"
    /\ Count(2)
    /\ wpc' = [wpc EXCEPT ![p] = "unlock"]
    /\ outdated' = [r \in Reader |->
          outdated[r] \/ copy[r][Fenced] \notin {NULL, data[Fenced]}]
    /\ UNCHANGED <<owner, data, rpc, start, copy>>

(***************************************************************************)
(* Readers                                                                 *)
(***************************************************************************)
ReadCall(r) ==
    /\ rpc[r] \in {"out", "done"}
    /\ rpc' = [rpc EXCEPT ![r] = "begin"]
    /\ UNCHANGED <<wvars, start, copy, age, outdated>>

Enter(r, seq) ==
    /\ rpc' = [rpc EXCEPT ![r] = "in"]
    /\ start' = [start EXCEPT ![r] = seq]
    /\ copy' = [copy EXCEPT ![r] = Nothing]
    /\ age' = [age EXCEPT ![r] = sequence - seq]
    /\ outdated' = [outdated EXCEPT ![r] = FALSE]

\* Wrong variant of read_seqbegin: does not wait for an even value.
begin_anyway(r) ==
    /\ rpc[r] = "begin"
    /\ Enter(r, sequence)
    /\ UNCHANGED wvars

\* read_seqbegin and __read_seqcount_begin: while the sequence is odd, repeat.
read_seqbegin(r) ==
    /\ rpc[r] = "begin"
    /\ sequence % 2 = 0
    /\ Enter(r, sequence)
    /\ UNCHANGED wvars

\* raw_seqcount_begin: sequence & ~1, without waiting.
raw_seqcount_begin(r) ==
    /\ rpc[r] = "begin"
    /\ Enter(r, sequence - (sequence % 2))
    /\ UNCHANGED wvars

Load(r, w) ==
    /\ rpc[r] = "in"
    /\ copy' = [copy EXCEPT ![r][w] = data[w]]
    /\ UNCHANGED <<wvars, rpc, start, age, outdated>>

\* read_seqretry, read_seqcount_retry, __read_seqcount_retry: keep the copy or
\* begin again.
read_seqretry(r) ==
    /\ rpc[r] = "in"
    /\ rpc' = [rpc EXCEPT ![r] = IF sequence # start[r] THEN "begin" ELSE "done"]
    /\ UNCHANGED <<wvars, start, copy, age, outdated>>

WriterStep(p) ==
    \/ WriteCall(p) \/ Lock(p) \/ WriteBegin(p) \/ WriteEnd(p) \/ Unlock(p)
    \/ \E w \in Word, v \in Val : Store(p, w, v)
    \/ \E v \in Val : StoreFenced(p, v)
    \/ WriteBarrier(p)

ReaderStep(r) ==
    \/ ReadCall(r) \/ read_seqbegin(r) \/ raw_seqcount_begin(r)
    \/ (\E w \in Words : Load(r, w)) \/ read_seqretry(r)

Next == (\E p \in Writer : WriterStep(p)) \/ (\E r \in Reader : ReaderStep(r))

Spec == Init /\ [][Next]_vars

\* A writer that holds the lock finishes, and a spinning writer gets the lock
\* in the end although others take it in between.  Nothing is assumed of
\* readers.
WriterFairness ==
    \A p \in Writer :
        /\ SF_vars(Lock(p))
        /\ WF_vars(WriteBegin(p) \/ \E v \in Val : StoreFenced(p, v))
        /\ WF_vars(WriteBarrier(p))
        /\ WF_vars(WriteEnd(p)) /\ WF_vars(Unlock(p))

\* A reader that has begun goes on.
ReaderFairness ==
    \A r \in Reader : WF_vars(read_seqbegin(r)) /\ WF_vars(read_seqretry(r))

\* Nothing is assumed of readers here; ReadersFinish does it.
FairSpec == Spec /\ WriterFairness

(***************************************************************************)
(* Properties                                                              *)
(***************************************************************************)
\* The sequence keeps its width, and every variable its type.
TypeOK ==
    /\ sequence \in 0 .. W - 1
    /\ owner \in Writer \cup {NULL}
    /\ wpc \in [Writer -> {"out", "wait", "locked", "writing", "fence", "unlock"}]
    /\ data \in [Words -> Val]
    /\ rpc \in [Reader -> {"out", "begin", "in", "done"}]
    /\ start \in [Reader -> 0 .. W - 1]
    /\ copy \in [Reader -> [Words -> Val \cup {NULL}]]
    /\ age \in [Reader -> 0 .. W]
    /\ outdated \in [Reader -> BOOLEAN]

\* What read_seqretry lets a reader keep is what the data was at one moment:
\* as long as the sequence equals the start of the section, every word copied
\* so far is still the current one, so that no copy mixes two writers' words.
\* It takes fewer than 2^32 increments in one section, or the sequence may be
\* back at its start.
ConsistentRead ==
    \A r \in Reader :
        rpc[r] = "in" /\ age[r] < W /\ sequence = start[r] =>
            \A w \in Word : copy[r][w] \in {NULL, data[w]}

\* "After write_seqcount_barrier, no read-side seq operations will complete
\* successfully and see data older than this", with the same proviso.
BarrierHolds ==
    \A r \in Reader :
        rpc[r] = "in" /\ age[r] < W /\ outdated[r] => sequence # start[r]

\* "Writers do not wait for readers": a writer gets into its section although
\* no reader ever takes another step.
WritersNotStarved ==
    \A p \in Writer : wpc[p] = "wait" ~> wpc[p] \in {"writing", "fence"}

\* Only writers make a reader retry: once they are quiet, every reader that
\* goes on gets its copy.
ReadersFinish ==
    ReaderFairness /\ <>[](\A p \in Writer : wpc[p] = "out") =>
        \A r \in Reader : rpc[r] = "begin" ~> rpc[r] = "done"
=============================================================================
