--------------------------- MODULE BlList_proofs ---------------------------
(* Theorems about BlList, for any nodes, writers and readers. *)
EXTENDS BlList, TLAPS

(***************************************************************************)
(* The inductive invariant                                                 *)
(***************************************************************************)
\* What a writer that is half way through an operation relies on: nobody else
\* changed the head, or its node, since it looked.
BlArgs ==
    \A w \in BlWriter :
        /\ bl_pc[w] = "add" =>
              /\ bl_arg[w].n \in BlNode /\ bl_state[bl_arg[w].n] = "unhashed"
              /\ bl_next[bl_arg[w].n] = bl_first.ptr
        /\ bl_pc[w] = "del" =>
              /\ bl_arg[w].n \in BlNode /\ bl_state[bl_arg[w].n] = "hashed"
              /\ bl_pprev[bl_arg[w].n] = BlHead => bl_arg[w].word = bl_first
        /\ bl_pc[w] = "unlock" => bl_arg[w].word = bl_first

\* The head and the next of a hashed node point to hashed nodes, and those
\* point back; the first node already points back to a node being added.
BlLinks ==
    /\ bl_first.ptr \in BlHashed \cup {BlNull}
    /\ \A m \in BlHashed : bl_next[m] \in BlHashed \cup {BlNull} /\ bl_pprev[m] \in BlNode \cup {BlHead}
    /\ \A m, n \in BlHashed : bl_next[m] = n => bl_pprev[n] = m
    /\ bl_first.ptr \in BlNode =>
          \/ bl_pprev[bl_first.ptr] = BlHead
          \/ \E w \in BlWriter : bl_pc[w] = "add" /\ bl_pprev[bl_first.ptr] = bl_arg[w].n
    /\ \A w \in BlWriter : bl_pc[w] = "add" =>
          /\ bl_pprev[bl_arg[w].n] = BlHead
          /\ bl_first.ptr \in BlNode => bl_pprev[bl_first.ptr] = bl_arg[w].n

\* The nodes a reader may come to are those that are hashed and those that were
\* unlinked since it began; a pointer in one of them leads to another.
BlSafeFor(r, n) == n \in BlNode /\ (bl_state[n] = "hashed" \/ r \in bl_hold[n])

BlProtected ==
    /\ \A n \in BlNode : bl_hold[n] \subseteq BlReading
    /\ \A n \in BlNode : bl_state[n] = "free" => bl_hold[n] = {}
    /\ \A r \in BlReading :
          /\ bl_pos[r] = BlNull \/ BlSafeFor(r, bl_pos[r])
          /\ \A n \in BlNode : BlSafeFor(r, n) =>
                bl_next[n] = BlNull \/ BlSafeFor(r, bl_next[n])

BlInv == BlTypeOK /\ BlMutex /\ BlArgs /\ BlLinks /\ BlProtected

(***************************************************************************)
(* It is inductive                                                         *)
(***************************************************************************)
\* It holds of an empty list.
LEMMA BlInvInit == BlInit => BlInv
  BY BlAssumption
  DEF BlInit, BlInv, BlTypeOK, BlWord, BlNoWord, BlMutex, BlArgs, BlLinks, BlHashed, BlProtected,
      BlReading

\* A writer's place and arguments keep their types.
BlArg == [n : BlNode \cup {BlNull}, word : [ptr : BlNode \cup {BlNull, BlPoison}, bit : BOOLEAN]]

LEMMA BlGotoType ==
    ASSUME BlTypeOK, NEW w \in BlWriter,
           NEW pc \in {"idle", "spin", "cs", "add", "del", "unlock"},
           NEW n \in BlNode \cup {BlNull},
           NEW word \in [ptr : BlNode \cup {BlNull, BlPoison}, bit : BOOLEAN],
           BlGoto(w, pc, n, word)
    PROVE  /\ bl_pc' \in [BlWriter -> {"idle", "spin", "cs", "add", "del", "unlock"}]
           /\ bl_arg' \in [BlWriter -> BlArg]
           /\ bl_pc'[w] = pc /\ bl_arg'[w].n = n /\ bl_arg'[w].word = word
           /\ \A v \in BlWriter : v # w => bl_pc'[v] = bl_pc[v] /\ bl_arg'[v] = bl_arg[v]
  <1>1. [n |-> n, word |-> word] \in BlArg
    BY DEF BlArg
  <1>2. bl_arg \in [BlWriter -> BlArg] /\ bl_pc \in [BlWriter -> {"idle", "spin", "cs", "add", "del", "unlock"}]
    BY DEF BlTypeOK, BlArg
  <1> QED
    BY <1>1, <1>2 DEF BlGoto

\* The lock: test_and_set_bit_lock, test_bit, and the unlock in two steps.
LEMMA BlInvLock ==
    ASSUME BlInv, NEW w \in BlWriter,
           BlTestAndSet(w) \/ BlTestBit(w) \/ BlUnlockLoad(w) \/ BlUnlockStore(w)
    PROVE  BlInv'
  <1> USE BlAssumption
  <1>0. /\ UNCHANGED <<bl_next, bl_pprev, bl_state, bl_hold, bl_pos, bl_owed>>
        /\ bl_first' \in BlWord
        /\ bl_first'.ptr = bl_first.ptr
    <2>1. bl_first \in BlWord /\ (bl_pc[w] = "unlock" => bl_arg[w].word = bl_first)
      BY DEF BlInv, BlTypeOK, BlArgs
    <2>2. CASE BlTestAndSet(w)
      BY <2>1, <2>2 DEF BlWord, BlTestAndSet, bl_read
    <2>3. CASE BlTestBit(w) \/ BlUnlockLoad(w)
      BY <2>1, <2>3 DEF BlTestBit, BlUnlockLoad, bl_mem, bl_read
    <2>4. CASE BlUnlockStore(w)
      BY <2>1, <2>4 DEF BlWord, BlUnlockStore, bl_read
    <2> QED
      BY <2>2, <2>3, <2>4
  <1>1. PICK pc \in {"idle", "spin", "cs", "unlock"},
             word \in [ptr : BlNode \cup {BlNull, BlPoison}, bit : BOOLEAN] :
          /\ BlGoto(w, pc, BlNull, word)
          /\ pc = "unlock" => word = bl_first /\ bl_first' = bl_first /\ bl_pc[w] = "cs"
          /\ pc = "cs" => bl_pc[w] = "idle" /\ bl_first.bit = FALSE /\ bl_first'.bit = TRUE
          /\ pc \in {"idle", "spin"} =>
                \/ bl_pc[w] = "unlock" /\ bl_first'.bit = FALSE
                \/ bl_pc[w] \in {"idle", "spin"} /\ bl_first' = bl_first
    <2>0. bl_first \in BlWord
      BY DEF BlInv, BlTypeOK
    <2>1. bl_first \in [ptr : BlNode \cup {BlNull, BlPoison}, bit : BOOLEAN]
      BY <2>0 DEF BlWord
    <2>2. BlNoWord \in [ptr : BlNode \cup {BlNull, BlPoison}, bit : BOOLEAN]
      BY DEF BlNoWord
    <2>3. CASE BlTestAndSet(w)
      <3>1. bl_first.bit = TRUE => bl_first' = bl_first
        BY <2>0, <2>3 DEF BlTestAndSet, BlWord
      <3>2. bl_first'.bit = TRUE
        BY <2>0, <2>3 DEF BlTestAndSet, BlWord
      <3>3. bl_first.bit \in BOOLEAN
        BY <2>0 DEF BlWord
      <3>4. CASE bl_first.bit = TRUE
        BY <2>2, <2>3, <3>1, <3>4 DEF BlTestAndSet
      <3>5. CASE bl_first.bit = FALSE
        BY <2>2, <2>3, <3>2, <3>5 DEF BlTestAndSet
      <3> QED
        BY <3>3, <3>4, <3>5
    <2>4. CASE BlTestBit(w)
      BY <2>2, <2>4 DEF BlTestBit, bl_mem
    <2>5. CASE BlUnlockLoad(w)
      BY <2>1, <2>5 DEF BlUnlockLoad, bl_mem
    <2>6. CASE BlUnlockStore(w)
      <3>1. bl_first'.bit = FALSE
        BY <2>6 DEF BlUnlockStore
      <3> QED
        BY <2>2, <2>6, <3>1 DEF BlUnlockStore
    <2> QED
      BY <2>3, <2>4, <2>5, <2>6
  <1>2. /\ bl_pc' \in [BlWriter -> {"idle", "spin", "cs", "add", "del", "unlock"}]
        /\ bl_arg' \in [BlWriter -> BlArg]
        /\ bl_pc'[w] = pc /\ bl_arg'[w].n = BlNull /\ bl_arg'[w].word = word
        /\ \A v \in BlWriter : v # w => bl_pc'[v] = bl_pc[v] /\ bl_arg'[v] = bl_arg[v]
    BY <1>1, BlGotoType DEF BlInv
  <1>3. BlTypeOK'
    BY <1>0, <1>2 DEF BlInv, BlTypeOK, BlArg
  <1>4. BlMutex'
    <2> DEFINE In(v) == bl_pc[v] \notin {"idle", "spin"}
    <2>1. /\ \A u, v \in BlWriter : In(u) /\ In(v) => u = v
          /\ bl_first.bit \in BOOLEAN
          /\ bl_first.bit = TRUE <=> \E v \in BlWriter : In(v)
      BY DEF BlInv, BlTypeOK, BlMutex, BlWord
    <2>2. bl_first'.bit \in BOOLEAN
      BY <1>0 DEF BlWord
    <2>3. CASE pc = "cs"
      <3>1. bl_first'.bit = TRUE /\ bl_pc'[w] = "cs" /\ \A v \in BlWriter : ~In(v)
        BY <1>1, <2>1, <2>3, <1>2
      <3>2. \A v \in BlWriter : v # w => bl_pc'[v] \in {"idle", "spin"}
        BY <1>2, <3>1
      <3> QED
        BY <2>2, <3>1, <3>2 DEF BlMutex
    <2>4. CASE pc = "unlock"
      <3>1. bl_first' = bl_first /\ In(w) /\ bl_pc'[w] = "unlock"
        BY <1>1, <1>2, <2>4
      <3>2. bl_first'.bit = TRUE /\ \A v \in BlWriter : v # w => bl_pc'[v] \in {"idle", "spin"}
        BY <1>2, <2>1, <3>1
      <3> QED
        BY <2>2, <3>1, <3>2 DEF BlMutex
    <2>5. CASE pc \in {"idle", "spin"} /\ bl_pc[w] = "unlock" /\ bl_first'.bit = FALSE
      <3>1. \A v \in BlWriter : bl_pc'[v] \in {"idle", "spin"}
        BY <1>2, <2>1, <2>5
      <3> QED
        BY <2>2, <2>5, <3>1 DEF BlMutex
    <2>6. CASE pc \in {"idle", "spin"} /\ bl_pc[w] \in {"idle", "spin"} /\ bl_first' = bl_first
      <3>1. \A v \in BlWriter : bl_pc'[v] \notin {"idle", "spin"} <=> In(v)
        BY <1>2, <2>6
      <3> QED
        BY <2>1, <2>2, <2>6, <3>1 DEF BlMutex
    <2> QED
      BY <1>1, <2>3, <2>4, <2>5, <2>6
  <1>5. BlArgs'
    <2>1. \A v \in BlWriter : v # w /\ bl_pc[v] \in {"add", "del", "unlock"} => bl_first' = bl_first
      <3> SUFFICES ASSUME NEW v \in BlWriter, v # w, bl_pc[v] \in {"add", "del", "unlock"}
                   PROVE  bl_first' = bl_first
        OBVIOUS
      <3>1. bl_pc[w] \in {"idle", "spin"} /\ bl_first.bit
        BY DEF BlInv, BlMutex, BlTypeOK
      <3> QED
        BY <1>1, <3>1
    <2> QED
      BY <1>0, <1>1, <1>2, <2>1 DEF BlInv, BlArgs
  <1>6. BlLinks'
    <2>1. \A v \in BlWriter : bl_pc'[v] = "add" <=> bl_pc[v] = "add"
      BY <1>1, <1>2 DEF BlInv, BlTypeOK
    <2>2. \A v \in BlWriter : bl_pc[v] = "add" => bl_arg'[v] = bl_arg[v]
      BY <1>1, <1>2, <2>1
    <2> QED
      BY <1>0, <2>1, <2>2 DEF BlInv, BlLinks, BlHashed
  <1>7. BlProtected'
    BY <1>0 DEF BlInv, BlProtected, BlReading, BlSafeFor
  <1> QED
    BY <1>3, <1>4, <1>5, <1>6, <1>7 DEF BlInv

\* hlist_bl_add_head_rcu: the node is made to point at the list, then the head
\* at the node.
LEMMA BlInvAdd ==
    ASSUME BlInv, NEW w \in BlWriter,
           (\E n \in BlNode : BlAddLink(w, n)) \/ BlAddPublish(w)
    PROVE  BlInv'
  <1> USE BlAssumption
  <1>0. BlNoWord \in [ptr : BlNode \cup {BlNull, BlPoison}, bit : BOOLEAN] /\ bl_first \in BlWord
    BY DEF BlInv, BlTypeOK, BlNoWord
  <1>1. ASSUME NEW n \in BlNode, BlAddLink(w, n) PROVE BlInv'
    <2>1. /\ UNCHANGED <<bl_first, bl_state, bl_hold, bl_pos, bl_owed>>
          /\ bl_pc[w] = "cs" /\ bl_state[n] = "unhashed"
          /\ bl_next' \in [BlNode -> BlNode \cup {BlNull, BlPoison}]
          /\ bl_next'[n] = bl_first.ptr /\ \A m \in BlNode : m # n => bl_next'[m] = bl_next[m]
          /\ bl_pprev' \in [BlNode -> BlNode \cup {BlHead, BlNull, BlPoison}]
          /\ bl_pprev'[n] = BlHead
          /\ bl_first.ptr \in BlNode \ {n} => bl_pprev'[bl_first.ptr] = n
          /\ \A m \in BlNode : m # n /\ m # bl_first.ptr => bl_pprev'[m] = bl_pprev[m]
      BY <1>0, <1>1 DEF BlAddLink, BlInv, BlTypeOK, BlWord, bl_read
    <2>2. /\ bl_pc' \in [BlWriter -> {"idle", "spin", "cs", "add", "del", "unlock"}]
          /\ bl_arg' \in [BlWriter -> BlArg]
          /\ bl_pc'[w] = "add" /\ bl_arg'[w].n = n
          /\ \A v \in BlWriter : v # w => bl_pc'[v] = bl_pc[v] /\ bl_arg'[v] = bl_arg[v]
      BY <1>0, <1>1, BlGotoType DEF BlAddLink, BlInv
    <2>3. \A v \in BlWriter : v # w => bl_pc[v] \in {"idle", "spin"}
      BY <2>1 DEF BlInv, BlMutex
    <2>4. BlTypeOK'
      BY <2>1, <2>2 DEF BlInv, BlTypeOK, BlArg
    <2>5. BlMutex'
      BY <2>1, <2>2 DEF BlInv, BlMutex
    <2>6. BlArgs'
      BY <2>1, <2>2, <2>3 DEF BlInv, BlArgs
    <2>7. BlLinks'
      <3>1. n \notin BlHashed /\ BlHashed' = BlHashed /\ bl_first.ptr # n
        BY <2>1 DEF BlHashed, BlInv, BlLinks
      <3>2. bl_first.ptr \in BlNode => bl_pprev[bl_first.ptr] = BlHead
        BY <2>1, <2>3 DEF BlInv, BlLinks
      <3>3. \A m, k \in BlHashed : bl_next'[m] = k => bl_pprev'[k] = m
        <4> SUFFICES ASSUME NEW m \in BlHashed, NEW k \in BlHashed, bl_next'[m] = k
                     PROVE  bl_pprev'[k] = m
          OBVIOUS
        <4>1. bl_next[m] = k /\ bl_pprev[k] = m /\ m \in BlNode /\ k \in BlNode
          BY <2>1, <3>1 DEF BlInv, BlLinks, BlHashed
        <4> QED
          BY <2>1, <3>1, <3>2, <4>1
      <3> QED
        BY <2>1, <2>2, <2>3, <3>1, <3>2, <3>3 DEF BlInv, BlLinks, BlHashed
    <2>8. BlProtected'
      <3>1. bl_first.ptr = BlNull \/ (bl_first.ptr \in BlNode /\ bl_state[bl_first.ptr] = "hashed")
        BY DEF BlInv, BlLinks, BlHashed
      <3> QED
        BY <2>1, <3>1 DEF BlInv, BlProtected, BlReading, BlSafeFor
    <2> QED
      BY <2>4, <2>5, <2>6, <2>7, <2>8 DEF BlInv
  <1>2. CASE BlAddPublish(w)
    <2> DEFINE n == bl_arg[w].n
    <2>1. /\ UNCHANGED <<bl_next, bl_pprev, bl_hold, bl_pos, bl_owed>>
          /\ n \in BlNode /\ bl_state[n] = "unhashed" /\ bl_next[n] = bl_first.ptr
          /\ bl_pc[w] = "add" /\ bl_pprev[n] = BlHead
          /\ bl_first' \in BlWord /\ bl_first'.ptr = n /\ bl_first'.bit = TRUE
          /\ bl_state' \in [BlNode -> {"free", "unhashed", "hashed", "retired"}]
          /\ \A m \in BlNode : bl_state'[m] = IF m = n THEN "hashed" ELSE bl_state[m]
      BY <1>2 DEF BlAddPublish, BlInv, BlTypeOK, BlArgs, BlLinks, BlWord, bl_read
    <2>2. /\ bl_pc' \in [BlWriter -> {"idle", "spin", "cs", "add", "del", "unlock"}]
          /\ bl_arg' \in [BlWriter -> BlArg]
          /\ bl_pc'[w] = "cs"
          /\ \A v \in BlWriter : v # w => bl_pc'[v] = bl_pc[v] /\ bl_arg'[v] = bl_arg[v]
      BY <1>0, <1>2, BlGotoType DEF BlAddPublish, BlInv
    <2>3. \A v \in BlWriter : v # w => bl_pc[v] \in {"idle", "spin"}
      BY <2>1 DEF BlInv, BlMutex
    <2> HIDE DEF n
    <2>4. BlTypeOK'
      BY <2>1, <2>2 DEF BlInv, BlTypeOK, BlArg
    <2>5. BlMutex'
      BY <2>1, <2>2, <2>3 DEF BlInv, BlMutex
    <2>6. BlArgs'
      BY <2>1, <2>2, <2>3 DEF BlInv, BlArgs
    <2>7. BlLinks'
      <3>1. BlHashed' = BlHashed \cup {n} /\ n \notin BlHashed
        BY <2>1 DEF BlHashed
      <3>2. bl_next[n] \in BlHashed \cup {BlNull} /\ BlHashed \subseteq BlNode
        BY <2>1 DEF BlInv, BlLinks, BlHashed
      <3>3. bl_first.ptr \in BlNode => bl_pprev[bl_first.ptr] = n
        BY <2>1 DEF BlInv, BlLinks, n
      <3>4. \A m \in BlHashed :
               bl_next[m] \in BlHashed \cup {BlNull} /\ bl_pprev[m] \in BlNode \cup {BlHead}
        BY DEF BlInv, BlLinks
      <3>5. \A m, k \in BlHashed : bl_next[m] = k => bl_pprev[k] = m
        BY DEF BlInv, BlLinks
      <3>6. \A m, k \in BlHashed' : bl_next'[m] = k => bl_pprev'[k] = m
        BY <2>1, <3>1, <3>2, <3>3, <3>4, <3>5
      <3> QED
        BY <2>1, <2>2, <2>3, <3>1, <3>2, <3>4, <3>6 DEF BlLinks
    <2>8. BlProtected'
      <3>1. bl_first.ptr = BlNull \/ (bl_first.ptr \in BlNode /\ bl_state[bl_first.ptr] = "hashed")
        BY DEF BlInv, BlLinks, BlHashed
      <3> QED
        BY <2>1, <3>1 DEF BlInv, BlProtected, BlReading, BlSafeFor
    <2> QED
      BY <2>4, <2>5, <2>6, <2>7, <2>8 DEF BlInv
  <1> QED
    BY <1>1, <1>2

\* __hlist_bl_del: the node's neighbours are joined and the lock bit is kept.
\* The node itself stays readable for the readers that may be at it.
LEMMA BlInvDel ==
    ASSUME BlInv, NEW w \in BlWriter,
           (\E n \in BlNode : BlDelLoad(w, n)) \/ hlist_bl_del_rcu(w) \/ hlist_bl_del_init_rcu(w)
    PROVE  BlInv'
  <1> USE BlAssumption
  <1>0. /\ BlNoWord \in [ptr : BlNode \cup {BlNull, BlPoison}, bit : BOOLEAN]
        /\ bl_first \in BlWord
        /\ bl_first \in [ptr : BlNode \cup {BlNull, BlPoison}, bit : BOOLEAN]
    BY DEF BlInv, BlTypeOK, BlNoWord, BlWord
  <1>1. ASSUME NEW n \in BlNode, BlDelLoad(w, n) PROVE BlInv'
    <2> DEFINE word == IF bl_pprev[n] = BlHead THEN bl_first
                       ELSE [ptr |-> bl_next[bl_pprev[n]], bit |-> FALSE]
    <2>1. /\ UNCHANGED <<bl_first, bl_next, bl_pprev, bl_state, bl_hold, bl_pos, bl_owed>>
          /\ bl_pc[w] = "cs" /\ bl_state[n] = "hashed"
          /\ BlGoto(w, "del", n, word)
      BY <1>1 DEF BlDelLoad, bl_mem, bl_read
    <2>2. bl_pprev[n] \in BlNode \cup {BlHead}
      BY <2>1 DEF BlInv, BlLinks, BlHashed
    <2>3. word \in [ptr : BlNode \cup {BlNull, BlPoison}, bit : BOOLEAN]
      BY <1>0, <2>2 DEF BlInv, BlTypeOK
    <2>4. bl_pprev[n] = BlHead => word = bl_first
      OBVIOUS
    <2> HIDE DEF word
    <2>5. /\ bl_pc' \in [BlWriter -> {"idle", "spin", "cs", "add", "del", "unlock"}]
          /\ bl_arg' \in [BlWriter -> BlArg]
          /\ bl_pc'[w] = "del" /\ bl_arg'[w].n = n /\ bl_arg'[w].word = word
          /\ \A v \in BlWriter : v # w => bl_pc'[v] = bl_pc[v] /\ bl_arg'[v] = bl_arg[v]
      BY <2>1, <2>3, BlGotoType DEF BlInv
    <2>6. \A v \in BlWriter : v # w => bl_pc[v] \in {"idle", "spin"}
      BY <2>1 DEF BlInv, BlMutex
    <2>7. BlTypeOK'
      BY <2>1, <2>5 DEF BlInv, BlTypeOK, BlArg
    <2>8. BlMutex'
      BY <2>1, <2>5 DEF BlInv, BlMutex
    <2>9. BlArgs'
      BY <2>1, <2>4, <2>5, <2>6 DEF BlInv, BlArgs
    <2>10. BlLinks'
      BY <2>1, <2>5, <2>6 DEF BlInv, BlLinks, BlHashed
    <2>11. BlProtected'
      BY <2>1 DEF BlInv, BlProtected, BlReading, BlSafeFor
    <2> QED
      BY <2>7, <2>8, <2>9, <2>10, <2>11 DEF BlInv
  <1>2. ASSUME NEW state \in {"retired", "unhashed"}, NEW pprev \in {BlPoison, BlNull},
               BlDelStore(w, state, pprev)
        PROVE  BlInv'
    <2> DEFINE n == bl_arg[w].n
               p == bl_pprev[n]
               x == bl_next[n]
    <2>1. /\ bl_pc[w] = "del" /\ n \in BlNode /\ n \in BlHashed
          /\ p = BlHead => bl_arg[w].word = bl_first
          /\ p \in BlNode \cup {BlHead}
          /\ x \in BlHashed \cup {BlNull} /\ x \in BlNode \cup {BlNull}
          /\ x \in BlHashed => bl_pprev[x] = n
      BY <1>2 DEF BlDelStore, BlInv, BlArgs, BlLinks, BlHashed
    <2>2. bl_first.bit = TRUE
      BY <2>1 DEF BlInv, BlMutex, BlTypeOK, BlWord
    <2>3. /\ bl_first' \in BlWord /\ bl_first'.bit = TRUE
          /\ bl_first'.ptr = IF p = BlHead THEN x ELSE bl_first.ptr
      <3>1. CASE p = BlHead
        <4>1. bl_first' = [ptr |-> x, bit |-> bl_first.bit]
          BY <1>2, <2>1, <3>1 DEF BlDelStore, BlStore
        <4> QED
          BY <2>1, <2>2, <3>1, <4>1 DEF BlWord
      <3>2. CASE p # BlHead
        <4>1. bl_first' = bl_first
          BY <1>2, <3>2 DEF BlDelStore, BlStore
        <4> QED
          BY <1>0, <2>2, <3>2, <4>1
      <3> QED
        BY <3>1, <3>2
    <2>4. /\ bl_next' \in [BlNode -> BlNode \cup {BlNull, BlPoison}]
          /\ \A m \in BlNode : bl_next'[m] = IF m = p THEN x ELSE bl_next[m]
      BY <1>2, <2>1 DEF BlDelStore, BlStore, BlInv, BlTypeOK
    <2>5. /\ bl_pprev' \in [BlNode -> BlNode \cup {BlHead, BlNull, BlPoison}]
          /\ \A m \in BlNode :
                bl_pprev'[m] = IF m = n THEN pprev ELSE IF m = x THEN p ELSE bl_pprev[m]
      BY <1>2, <2>1 DEF BlDelStore, BlInv, BlTypeOK
    <2>6. /\ bl_state' \in [BlNode -> {"free", "unhashed", "hashed", "retired"}]
          /\ \A m \in BlNode : bl_state'[m] = IF m = n THEN state ELSE bl_state[m]
          /\ bl_hold' \in [BlNode -> SUBSET BlReader]
          /\ \A m \in BlNode : bl_hold'[m] = IF m = n THEN BlReading ELSE bl_hold[m]
          /\ bl_owed' \in [BlReader -> SUBSET BlNode]
          /\ UNCHANGED bl_pos
      BY <1>2, <2>1 DEF BlDelStore, BlInv, BlTypeOK, BlReading
    <2>7. /\ bl_pc' \in [BlWriter -> {"idle", "spin", "cs", "add", "del", "unlock"}]
          /\ bl_arg' \in [BlWriter -> BlArg]
          /\ bl_pc'[w] = "cs"
          /\ \A v \in BlWriter : v # w => bl_pc'[v] = bl_pc[v] /\ bl_arg'[v] = bl_arg[v]
      BY <1>0, <1>2, BlGotoType DEF BlDelStore, BlInv
    <2>8. \A v \in BlWriter : v # w => bl_pc[v] \in {"idle", "spin"}
      BY <2>1 DEF BlInv, BlMutex
    <2> HIDE DEF n, p, x
    <2>9. BlTypeOK'
      BY <2>3, <2>4, <2>5, <2>6, <2>7 DEF BlInv, BlTypeOK, BlArg
    <2>10. BlMutex'
      BY <2>1, <2>3, <2>7, <2>8 DEF BlInv, BlMutex
    <2>11. BlArgs'
      BY <2>7, <2>8 DEF BlInv, BlArgs
    <2>12. BlLinks'
      <3>1. BlHashed' = BlHashed \ {n} /\ BlHashed \subseteq BlNode
        BY <2>6 DEF BlHashed
      <3>2. /\ bl_first.ptr \in BlHashed \cup {BlNull}
            /\ bl_first.ptr \in BlNode => bl_pprev[bl_first.ptr] = BlHead
        BY <2>1, <2>8 DEF BlInv, BlLinks
      <3>3. \A m \in BlHashed : bl_next[m] \in BlHashed \cup {BlNull} /\ bl_pprev[m] \in BlNode \cup {BlHead}
        BY DEF BlInv, BlLinks
      <3>4. \A m, k \in BlHashed : bl_next[m] = k => bl_pprev[k] = m
        BY DEF BlInv, BlLinks
      <3>5. bl_pprev[n] = p /\ bl_next[n] = x
        BY DEF n, p, x
      <3>6. bl_first'.ptr \in BlHashed' \cup {BlNull}
        BY <2>1, <2>3, <3>1, <3>2, <3>5
      <3>7. \A m \in BlHashed' :
               bl_next'[m] \in BlHashed' \cup {BlNull} /\ bl_pprev'[m] \in BlNode \cup {BlHead}
        BY <2>1, <2>4, <2>5, <3>1, <3>3, <3>4, <3>5
      <3>8. \A m, k \in BlHashed' : bl_next'[m] = k => bl_pprev'[k] = m
        BY <2>1, <2>4, <2>5, <3>1, <3>3, <3>4, <3>5
      <3>9. bl_first'.ptr \in BlNode => bl_pprev'[bl_first'.ptr] = BlHead
        BY <2>1, <2>3, <2>5, <3>1, <3>2, <3>5
      <3>10. \A v \in BlWriter : bl_pc'[v] # "add"
        BY <2>7, <2>8
      <3> QED
        BY <3>6, <3>7, <3>8, <3>9, <3>10 DEF BlLinks
    <2>13. BlProtected'
      <3>1. BlReading' = BlReading
        BY <2>6 DEF BlReading
      <3>2. \A r \in BlReading, m \in BlNode : BlSafeFor(r, m) => BlSafeFor(r, m)'
        BY <2>1, <2>6 DEF BlSafeFor
      <3>3. \A r \in BlReading, m \in BlNode : BlSafeFor(r, m)' => BlSafeFor(r, m)
        BY <2>1, <2>6 DEF BlSafeFor, BlHashed
      <3>4. \A r \in BlReading : x = BlNull \/ BlSafeFor(r, x)
        BY <2>1 DEF BlSafeFor, BlHashed
      <3>5. \A r \in BlReading :
               /\ bl_pos[r] = BlNull \/ BlSafeFor(r, bl_pos[r])
               /\ \A m \in BlNode : BlSafeFor(r, m) =>
                     bl_next[m] = BlNull \/ BlSafeFor(r, bl_next[m])
        BY DEF BlInv, BlProtected
      <3>6. \A r, m : BlSafeFor(r, m) => m \in BlNode
        BY DEF BlSafeFor
      <3>7. \A r \in BlReading :
               /\ bl_pos'[r] = BlNull \/ BlSafeFor(r, bl_pos[r])'
               /\ \A m \in BlNode : BlSafeFor(r, m)' =>
                     bl_next'[m] = BlNull \/ BlSafeFor(r, bl_next[m])'
        <4> SUFFICES ASSUME NEW r \in BlReading
                     PROVE  /\ bl_pos'[r] = BlNull \/ BlSafeFor(r, bl_pos[r])'
                            /\ \A m \in BlNode : BlSafeFor(r, m)' =>
                                  bl_next'[m] = BlNull \/ BlSafeFor(r, bl_next[m])'
          OBVIOUS
        <4>1. \A m \in BlNode : BlSafeFor(r, m) <=> bl_state'[m] = "hashed" \/ r \in bl_hold'[m]
          BY <3>2, <3>3 DEF BlSafeFor
        <4> QED
          BY <2>4, <2>6, <3>4, <3>5, <3>6, <4>1 DEF BlSafeFor
      <3> QED
        BY <2>6, <3>1, <3>7 DEF BlInv, BlProtected
    <2> QED
      BY <2>9, <2>10, <2>11, <2>12, <2>13 DEF BlInv
  <1> QED
    BY <1>1, <1>2 DEF hlist_bl_del_rcu, hlist_bl_del_init_rcu

\* Memory: only a node that no reader can come to is freed.
LEMMA BlInvMemory ==
    ASSUME BlInv, NEW n \in BlNode, BlAlloc(n) \/ BlDrop(n) \/ BlFree(n)
    PROVE  BlInv'
  <1> USE BlAssumption
  <1>1. /\ UNCHANGED <<bl_first, bl_hold, bl_pc, bl_arg, bl_pos, bl_owed>>
        /\ bl_state[n] # "hashed" /\ bl_state'[n] # "hashed" /\ bl_state'[n] \in {"free", "unhashed", "retired"}
        /\ bl_state' = [bl_state EXCEPT ![n] = bl_state'[n]]
        /\ bl_state'[n] = "free" => bl_hold[n] = {}
        /\ bl_hold[n] # {} => bl_next'[n] = bl_next[n]
        /\ bl_next' \in [BlNode -> BlNode \cup {BlNull, BlPoison}]
        /\ \A m \in BlNode : m # n => bl_next'[m] = bl_next[m] /\ bl_pprev'[m] = bl_pprev[m]
        /\ bl_pprev' \in [BlNode -> BlNode \cup {BlHead, BlNull, BlPoison}]
    <2>1. CASE BlAlloc(n)
      BY <2>1 DEF BlInv, BlTypeOK, BlProtected, BlAlloc, bl_read
    <2>2. CASE BlDrop(n)
      BY <2>2 DEF BlInv, BlTypeOK, BlDrop, bl_mem, bl_read
    <2>3. CASE BlFree(n)
      BY <2>3 DEF BlInv, BlTypeOK, BlFree, bl_read
    <2> QED
      BY <2>1, <2>2, <2>3
  <1>2. \A w \in BlWriter : bl_pc[w] \in {"add", "del"} => bl_arg[w].n # n
    BY DEF BlInv, BlTypeOK, BlArgs, BlAlloc, BlDrop, BlFree
  <1>3. BlTypeOK'
    BY <1>1 DEF BlInv, BlTypeOK
  <1>4. BlMutex'
    BY <1>1 DEF BlInv, BlMutex
  <1>5. BlArgs'
    BY <1>1, <1>2 DEF BlInv, BlTypeOK, BlArgs
  <1>6. BlHashed' = BlHashed /\ n \notin BlHashed
    BY <1>1 DEF BlHashed, BlInv, BlTypeOK
  <1>7. BlLinks'
    <2>1. \A m \in BlHashed : m # n /\ m \in BlNode
      BY <1>6 DEF BlHashed
    <2>2. bl_first.ptr # n
      BY <1>6 DEF BlInv, BlLinks
    <2>3. \A w \in BlWriter : bl_pc[w] = "add" => bl_arg[w].n \in BlNode
      BY DEF BlInv, BlArgs
    <2> QED
      BY <1>1, <1>2, <1>6, <2>1, <2>2, <2>3 DEF BlInv, BlLinks
  <1>8. BlProtected'
    <2>1. BlReading' = BlReading
      BY <1>1 DEF BlReading
    <2>2. \A m \in BlNode : bl_state'[m] = "hashed" <=> bl_state[m] = "hashed"
      BY <1>1 DEF BlInv, BlTypeOK
    <2>3. \A m \in BlNode : bl_state'[m] = "free" => bl_hold[m] = {}
      BY <1>1 DEF BlInv, BlTypeOK, BlProtected
    <2>4. \A r \in BlReading, m \in BlNode : BlSafeFor(r, m) => bl_next'[m] = bl_next[m]
      BY <1>1 DEF BlSafeFor
    <2> QED
      BY <1>1, <2>1, <2>2, <2>3, <2>4 DEF BlInv, BlProtected, BlSafeFor
  <1> QED
    BY <1>3, <1>4, <1>5, <1>7, <1>8 DEF BlInv

\* A reader's steps.
LEMMA BlInvReader ==
    ASSUME BlInv, NEW r \in BlReader, BlWalkFirst(r) \/ BlWalkNext(r) \/ BlWalkEnd(r)
    PROVE  BlInv'
  <1> USE BlAssumption
  <1>1. UNCHANGED <<bl_first, bl_next, bl_pprev, bl_state, bl_pc, bl_arg>>
    BY DEF BlWalkFirst, BlWalkNext, BlWalkEnd, bl_mem
  <1>2. BlMutex' /\ BlArgs' /\ BlLinks'
    BY <1>1 DEF BlInv, BlMutex, BlArgs, BlLinks, BlHashed
  <1>3. CASE BlWalkFirst(r)
    <2>1. bl_first.ptr = BlNull \/ (bl_first.ptr \in BlNode /\ bl_state[bl_first.ptr] = "hashed")
      BY DEF BlInv, BlLinks, BlHashed
    <2>2. bl_hold' = bl_hold /\ bl_pos' = [bl_pos EXCEPT ![r] = bl_first.ptr] /\ bl_pos[r] = BlHead
      BY <1>3 DEF BlWalkFirst
    <2>3. BlTypeOK'
      BY <1>1, <1>3, <2>1, <2>2 DEF BlInv, BlTypeOK, BlWalkFirst, BlHashed
    <2>4. BlReading' = BlReading \cup {r} /\ r \notin BlReading
      BY <2>1, <2>2 DEF BlInv, BlTypeOK, BlReading
    <2>5. \A n \in BlNode : bl_state[n] = "hashed" =>
             bl_next[n] = BlNull \/ (bl_next[n] \in BlNode /\ bl_state[bl_next[n]] = "hashed")
      BY DEF BlInv, BlLinks, BlHashed
    <2>6. BlProtected'
      BY <1>1, <2>1, <2>2, <2>4, <2>5 DEF BlInv, BlTypeOK, BlProtected, BlSafeFor
    <2> QED
      BY <1>2, <2>3, <2>6 DEF BlInv
  <1>4. CASE BlWalkNext(r)
    <2>1. r \in BlReading /\ bl_pos[r] \in BlNode
      BY <1>4 DEF BlWalkNext, BlReading
    <2>2. bl_next[bl_pos[r]] = BlNull \/ BlSafeFor(r, bl_next[bl_pos[r]])
      BY <2>1 DEF BlInv, BlProtected
    <2>3. bl_hold' = bl_hold /\ bl_pos' = [bl_pos EXCEPT ![r] = bl_next[bl_pos[r]]]
      BY <1>4 DEF BlWalkNext
    <2>4. BlTypeOK'
      BY <1>1, <1>4, <2>1, <2>3 DEF BlInv, BlTypeOK, BlWalkNext
    <2>5. BlReading' = BlReading
      BY <2>1, <2>2, <2>3 DEF BlInv, BlTypeOK, BlReading, BlSafeFor
    <2>6. BlProtected'
      BY <1>1, <2>2, <2>3, <2>5 DEF BlInv, BlTypeOK, BlProtected, BlSafeFor, BlReading
    <2> QED
      BY <1>2, <2>4, <2>6 DEF BlInv
  <1>5. CASE BlWalkEnd(r)
    <2>1. /\ bl_pos' = [bl_pos EXCEPT ![r] = BlHead]
          /\ bl_hold' = [n \in BlNode |-> bl_hold[n] \ {r}]
          /\ bl_owed' = [bl_owed EXCEPT ![r] = {}]
      BY <1>5 DEF BlWalkEnd
    <2>2. BlTypeOK'
      BY <1>1, <2>1 DEF BlInv, BlTypeOK
    <2>3. BlReading' = BlReading \ {r}
      BY <2>1 DEF BlInv, BlTypeOK, BlReading
    <2>4. \A q \in BlReading', n \in BlNode : q \in bl_hold'[n] <=> q \in bl_hold[n]
      BY <2>1, <2>3
    <2>5. BlProtected'
      <3>1. \A q \in BlReading' :
               /\ bl_pos'[q] = bl_pos[q] /\ q \in BlReading
               /\ \A n : BlSafeFor(q, n)' <=> BlSafeFor(q, n)
        BY <1>1, <2>1, <2>3, <2>4 DEF BlSafeFor, BlInv, BlTypeOK, BlReading
      <3>2. \A n \in BlNode : bl_hold'[n] = bl_hold[n] \ {r}
        BY <2>1
      <3> QED
        BY <1>1, <2>3, <3>1, <3>2 DEF BlInv, BlProtected, BlSafeFor
    <2> QED
      BY <1>2, <2>2, <2>5 DEF BlInv
  <1> QED
    BY <1>3, <1>4, <1>5

\* Every step keeps the invariant.
LEMMA BlInvNext == BlInv /\ [BlNext]_bl_vars => BlInv'
  <1>1. ASSUME BlInv, UNCHANGED bl_vars PROVE BlInv'
    BY <1>1 DEF BlInv, BlTypeOK, BlMutex, BlArgs, BlLinks, BlHashed, BlProtected, BlReading,
       BlSafeFor, bl_vars, bl_mem, bl_read
  <1> QED
    BY <1>1, BlInvLock, BlInvAdd, BlInvDel, BlInvMemory, BlInvReader DEF BlNext

\* The invariant holds throughout.
LEMMA BlInvariant == BlSpec => []BlInv
  BY BlInvInit, BlInvNext, PTL DEF BlSpec

(***************************************************************************)
(* Theorems                                                                *)
(***************************************************************************)
\* Every variable of the list keeps its type: no store puts a poisoned pointer
\* into the head.
THEOREM BlTypeCorrect == BlSpec => []BlTypeOK
  <1>1. BlInv => BlTypeOK
    BY DEF BlInv
  <1> QED
    BY <1>1, BlInvariant, PTL

\* The lock bit in the head excludes writers and survives every store to the
\* head, those of __bit_spin_unlock and __hlist_bl_del included.
THEOREM BlExcludes == BlSpec => []BlMutex
  <1>1. BlInv => BlMutex
    BY DEF BlInv
  <1> QED
    BY <1>1, BlInvariant, PTL

\* Readers meet no freed memory and no poison, whatever nodes are deleted, freed
\* after a grace period and added again while they walk.
THEOREM BlReadersSafe == BlSpec => []BlReaderSafe
  <1>1. BlInv => BlReaderSafe
    BY BlAssumption DEF BlInv, BlTypeOK, BlProtected, BlReading, BlSafeFor, BlReaderSafe
  <1> QED
    BY <1>1, BlInvariant, PTL
=============================================================================
