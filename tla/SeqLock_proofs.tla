--------------------------- MODULE SeqLock_proofs ---------------------------
(***************************************************************************)
(* Proofs about SeqLock, for every width of the counter, every number of   *)
(* readers, writers and words.                                             *)
(***************************************************************************)
EXTENDS SeqLock, TLAPS

\* The counter has at least two values.
LEMMA Width == W \in Nat /\ W >= 2 /\ W % 2 = 0
  BY SeqAssumption

\* A sum below the width is kept.
LEMMA ModSmall == ASSUME NEW s \in 0 .. W - 1 PROVE s % W = s
  BY Width
\* A sum that passes the width once wraps around.
LEMMA ModOnce == ASSUME NEW s \in W .. 2 * W - 1 PROVE s % W = s - W
  BY Width

\* Counting up flips the parity, also at the wrap-around, W being even.
LEMMA CountParity ==
  ASSUME NEW s \in 0 .. W - 1
  PROVE  /\ (s + 1) % W \in 0 .. W - 1 /\ ((s + 1) % W) % 2 = 1 - (s % 2)
         /\ (s + 2) % W \in 0 .. W - 1 /\ ((s + 2) % W) % 2 = s % 2
<1>1. \A n \in {1, 2} : (s + n) % W = IF s + n < W THEN s + n ELSE s + n - W
  BY ModSmall, ModOnce, Width
<1> QED
  BY <1>1, Width

\* Adding n to a counter that is a ahead of s puts it a + n ahead.
LEMMA AgeAdds ==
  ASSUME NEW s \in 0 .. W - 1, NEW a \in Nat, NEW n \in Nat, a + n < W
  PROVE  (((s + a) % W) + n) % W = (s + (a + n)) % W
<1>1. CASE s + a < W
  BY <1>1, ModSmall, Width
<1>2. CASE s + a >= W
  <2>1. (s + a) % W = s + a - W /\ (s + (a + n)) % W = s + (a + n) - W
    BY <1>2, ModOnce, Width
  <2>2. (s + a - W + n) % W = s + a - W + n
    BY <1>2, ModSmall, Width
  <2> QED
    BY <2>1, <2>2, Width
<1> QED
  BY <1>1, <1>2, Width

\* A counter that is ahead by less than W, and not by 0, is somewhere else.
LEMMA AgeTells ==
  ASSUME NEW s \in 0 .. W - 1, NEW a \in 0 .. W - 1, (s + a) % W = s
  PROVE  a = 0
<1>1. CASE s + a < W
  BY <1>1, ModSmall, Width
<1>2. CASE s + a >= W
  BY <1>2, ModOnce, Width
<1> QED
  BY <1>1, <1>2, Width

(***************************************************************************)
(* The inductive invariant                                                 *)
(***************************************************************************)
\* The lock excludes writers, and the sequence is odd exactly while one of
\* them is between write_seqcount_begin and write_seqcount_end.
Exclusion ==
    /\ \A p \in Writer : wpc[p] \in {"locked", "writing", "fence", "unlock"} <=> owner = p
    /\ sequence % 2 = IF owner # NULL /\ wpc[owner] = "writing" THEN 1 ELSE 0

\* What a reader inside a section knows: its start was even, the sequence is
\* age ahead of it, and if it has not moved at all the copy is current.
Section(r) ==
    /\ start[r] % 2 = 0
    /\ age[r] < W => sequence = (start[r] + age[r]) % W
    /\ age[r] = 0 => ~outdated[r] /\ \A w \in Word : copy[r][w] \in {NULL, data[w]}

Sections == \A r \in Reader : rpc[r] = "in" => Section(r)

Inv == TypeOK /\ Exclusion /\ Sections

\* The invariant is strong enough for the two safety properties.
LEMMA InvImplies == Inv => ConsistentRead /\ BarrierHolds
<1> SUFFICES ASSUME Inv, NEW r \in Reader, rpc[r] = "in", age[r] < W, sequence = start[r]
             PROVE  ~outdated[r] /\ \A w \in Word : copy[r][w] \in {NULL, data[w]}
  <2>1. ASSUME Inv, NEW r \in Reader PROVE outdated[r] \in BOOLEAN
    BY <2>1 DEF Inv, TypeOK
  <2> QED
    BY <2>1 DEF ConsistentRead, BarrierHolds
<1>1. Section(r) /\ start[r] \in 0 .. W - 1 /\ age[r] \in 0 .. W - 1
  BY Width DEF Inv, Sections, TypeOK
<1>2. age[r] = 0
  BY <1>1, AgeTells DEF Section
<1> QED
  BY <1>1, <1>2 DEF Section

\* It holds when the lock has been initialised.
LEMMA InitInv == Init => Inv
  BY SeqAssumption DEF Init, Inv, TypeOK, Exclusion, Sections, Nothing, Words

\* A step that counts the sequence up leaves every reader's section coherent.
LEMMA CountSections ==
  ASSUME Inv, NEW n \in {1, 2}, Count(n),
         UNCHANGED <<data, rpc, start, copy>>,
         \A r \in Reader : outdated'[r] \in BOOLEAN
  PROVE  /\ Sections'
         /\ sequence' \in 0 .. W - 1
         /\ sequence' % 2 = IF n = 1 THEN 1 - (sequence % 2) ELSE sequence % 2
         /\ age' \in [Reader -> 0 .. W]
<1>1. sequence \in 0 .. W - 1 /\ sequence' = (sequence + n) % W
  BY DEF Inv, TypeOK, Count
<1>2. ASSUME NEW r \in Reader, rpc'[r] = "in"
      PROVE  Section(r)'
  <2>1. /\ Section(r) /\ start[r] \in 0 .. W - 1 /\ age[r] \in 0 .. W
        /\ age'[r] = IF age[r] + n < W THEN age[r] + n ELSE W
    BY <1>2 DEF Inv, Sections, TypeOK, Count
  <2>2. age'[r] # 0
    BY <2>1, Width
  <2>3. ASSUME age'[r] < W PROVE sequence' = (start[r] + age'[r]) % W
    <3>1. age'[r] = age[r] + n /\ age[r] + n < W /\ age[r] \in Nat
      BY <2>1, <2>3, Width
    <3>2. sequence = (start[r] + age[r]) % W
      BY <2>1, <3>1, Width DEF Section
    <3> QED
      BY <1>1, <2>1, <3>1, <3>2, AgeAdds
  <2> QED
    BY <2>1, <2>2, <2>3 DEF Section
<1>3. age' \in [Reader -> 0 .. W]
  <2>1. \A r \in Reader : age[r] \in 0 .. W
    BY DEF Inv, TypeOK
  <2> QED
    BY <2>1, Width DEF Count
<1> QED
  BY <1>1, <1>2, <1>3, CountParity DEF Sections

\* Writers preserve the invariant.
LEMMA WriterInv == ASSUME Inv, NEW p \in Writer, WriterStep(p) PROVE Inv'
<1> USE DEF Inv
<1>1. CASE WriteCall(p)
  BY <1>1 DEF WriteCall, TypeOK, Exclusion, Sections, Section, rvars
<1>2. CASE Lock(p)
  BY <1>2, SeqAssumption DEF Lock, TypeOK, Exclusion, Sections, Section, rvars
<1>3. CASE WriteBegin(p)
  <2>1. TypeOK' /\ Sections'
    BY <1>3, CountSections DEF WriteBegin, TypeOK
  <2>2. Exclusion'
    BY <1>3, CountSections, SeqAssumption DEF WriteBegin, TypeOK, Exclusion
  <2> QED
    BY <2>1, <2>2
<1>4. CASE WriteEnd(p)
  <2>1. TypeOK' /\ Sections'
    BY <1>4, CountSections DEF WriteEnd, TypeOK
  <2>2. Exclusion'
    BY <1>4, CountSections, SeqAssumption DEF WriteEnd, TypeOK, Exclusion
  <2> QED
    BY <2>1, <2>2
<1>5. CASE WriteBarrier(p)
  <2>1. outdated' \in [Reader -> BOOLEAN]
    BY <1>5 DEF WriteBarrier, TypeOK
  <2>2. TypeOK' /\ Sections'
    BY <1>5, <2>1, CountSections DEF WriteBarrier, TypeOK
  <2>3. Exclusion'
    BY <1>5, <2>1, CountSections, SeqAssumption DEF WriteBarrier, TypeOK, Exclusion
  <2> QED
    BY <2>2, <2>3
<1>6. CASE Unlock(p)
  BY <1>6, SeqAssumption DEF Unlock, TypeOK, Exclusion, Sections, Section, rvars
<1>7. ASSUME NEW w \in Word, NEW v \in Val, Store(p, w, v) PROVE Inv'
  <2>1. TypeOK' /\ Exclusion'
    BY <1>7 DEF Store, TypeOK, Exclusion, rvars, Words
  <2>2. sequence % 2 = 1
    BY <1>7, SeqAssumption DEF Store, Exclusion
  <2>3. ASSUME NEW r \in Reader, rpc[r] = "in" PROVE Section(r)'
    <3>1. Section(r) /\ start[r] \in 0 .. W - 1
      BY <2>3 DEF Sections, TypeOK
    <3>2. age[r] # 0
      BY <2>2, <3>1, ModSmall, SeqAssumption DEF Section
    <3> QED
      BY <1>7, <3>1, <3>2 DEF Store, Section, rvars
  <2> QED
    BY <1>7, <2>1, <2>3 DEF Sections, Store, rvars
<1>8. ASSUME NEW v \in Val, StoreFenced(p, v) PROVE Inv'
  <2>1. TypeOK' /\ Exclusion'
    BY <1>8, SeqAssumption DEF StoreFenced, TypeOK, Exclusion, rvars, Words
  <2>2. Sections'
    BY <1>8, SeqAssumption DEF StoreFenced, TypeOK, Sections, Section, rvars, Words
  <2> QED
    BY <2>1, <2>2
<1> QED
  BY <1>1, <1>2, <1>3, <1>4, <1>5, <1>6, <1>7, <1>8 DEF WriterStep

\* Entering a section at the current even value, or just below an odd one,
\* starts it coherently.
LEMMA EnterInv ==
  ASSUME Inv, NEW r \in Reader, Enter(r, sequence - (sequence % 2)), UNCHANGED wvars
  PROVE  Inv'
<1> DEFINE seq == sequence - (sequence % 2)
<1>1. /\ seq \in 0 .. W - 1 /\ seq % 2 = 0 /\ sequence - seq \in {0, 1}
      /\ sequence \in 0 .. W - 1
  <2>1. sequence \in 0 .. W - 1
    BY DEF Inv, TypeOK
  <2> QED
    BY <2>1, Width
<1>2. sequence = (seq + (sequence - seq)) % W
  BY <1>1, ModSmall
<1> HIDE DEF seq
<1>3. Enter(r, seq)
  BY DEF seq
<1>4. TypeOK'
  BY <1>1, <1>3, SeqAssumption DEF Inv, TypeOK, Enter, wvars, Nothing
<1>5. Exclusion'
  BY DEF Inv, Exclusion, wvars
<1>6. ASSUME NEW q \in Reader, rpc'[q] = "in" PROVE Section(q)'
  <2>1. CASE q = r
    BY <1>1, <1>2, <1>3, <2>1 DEF Inv, TypeOK, Enter, Section, wvars, Nothing, Words
  <2>2. CASE q # r
    BY <1>3, <1>6, <2>2 DEF Inv, TypeOK, Enter, Sections, Section, wvars
  <2> QED
    BY <2>1, <2>2
<1> QED
  BY <1>4, <1>5, <1>6 DEF Inv, Sections

\* Readers preserve the invariant.
LEMMA ReaderInv == ASSUME Inv, NEW r \in Reader, ReaderStep(r) PROVE Inv'
<1> USE DEF Inv
<1>1. CASE ReadCall(r)
  BY <1>1 DEF ReadCall, TypeOK, Exclusion, Sections, Section, wvars
<1>2. CASE read_seqbegin(r)
  <2>1. sequence - (sequence % 2) = sequence
    BY <1>2 DEF read_seqbegin, TypeOK
  <2> QED
    BY <1>2, <2>1, EnterInv DEF read_seqbegin
<1>3. CASE raw_seqcount_begin(r)
  BY <1>3, EnterInv DEF raw_seqcount_begin
<1>4. ASSUME NEW w \in Words, Load(r, w) PROVE Inv'
  <2>1. TypeOK' /\ Exclusion'
    BY <1>4 DEF Load, TypeOK, Exclusion, wvars
  <2>2. Sections'
    BY <1>4 DEF Load, TypeOK, Sections, Section, wvars, Words
  <2> QED
    BY <2>1, <2>2
<1>5. CASE read_seqretry(r)
  BY <1>5 DEF read_seqretry, TypeOK, Exclusion, Sections, Section, wvars
<1> QED
  BY <1>1, <1>2, <1>3, <1>4, <1>5 DEF ReaderStep

\* Every step preserves the invariant.
LEMMA NextInv == Inv /\ [Next]_vars => Inv'
<1> SUFFICES ASSUME Inv, [Next]_vars PROVE Inv'
  OBVIOUS
<1>1. CASE UNCHANGED vars
  BY <1>1 DEF vars, wvars, rvars, Inv, TypeOK, Exclusion, Sections, Section
<1> QED
  BY <1>1, WriterInv, ReaderInv DEF Next

\* Every variable of the sequence lock keeps its type; in particular the
\* sequence stays below its width.
THEOREM TypeCorrect == Spec => []TypeOK
<1>1. Inv => TypeOK
  BY DEF Inv
<1> QED
  BY <1>1, InitInv, NextInv, PTL DEF Spec

\* read_seqretry and its variants let no torn copy through, for any width of
\* the counter, provided fewer increments than it has values fall into one
\* section.
THEOREM ReadsConsistent == Spec => []ConsistentRead
  BY InvImplies, InitInv, NextInv, PTL DEF Spec

\* write_seqcount_barrier sends round every reader that holds an old value.
THEOREM BarrierSound == Spec => []BarrierHolds
  BY InvImplies, InitInv, NextInv, PTL DEF Spec
=============================================================================
