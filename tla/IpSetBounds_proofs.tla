-------------------------- MODULE IpSetBounds_proofs --------------------------
(***************************************************************************)
(* The limits of the array blocks of IpSetHash, for any sizes: a bucket    *)
(* never grows past h->ahash_max, nor that past AHASH_MAX_TUNED.           *)
(***************************************************************************)
EXTENDS IpSetHash_proofs

\* A number of slots that is whole array blocks.
Whole(n) == \E k \in Nat : n = AHASH_INIT_SIZE * k

\* A bucket that has room for what it stores, in whole blocks, at most max.
Roomy(n, max) == n.pos <= n.size /\ n.size <= max /\ Whole(n.size)

RoomyTable(t, max) == \A i \in BucketIndex(t.htable_bits) : Roomy(t.bucket[i], max)

\* BlockBound is not inductive: that a full block below the limit may grow by
\* a whole one without passing it needs both to be whole, and that the table
\* a resize publishes obeys the limit needs that of the copy.  CopyFits rests
\* on the copy starting from the size of the current table.
BoundInv ==
    /\ Whole(ahash_max) /\ ahash_max <= AHASH_LIMIT
    /\ table # NULL => RoomyTable(heap[table], ahash_max)
    /\ upc = "publish" => RoomyTable(heap[1 - table], ahash_max)
    /\ upc = "resize" => ubits = heap[table].htable_bits

(***************************************************************************)
(* Numbers of slots                                                        *)
(***************************************************************************)
\* A whole number of blocks stays one when a block is added.
LEMMA WholePlus ==
    ASSUME NEW n \in Nat, Whole(n)
    PROVE  n + AHASH_INIT_SIZE \in Nat /\ Whole(n + AHASH_INIT_SIZE)
<1>1. AHASH_INIT_SIZE \in Nat \ {0}
  BY SizeAssumption
<1>2. PICK k \in Nat : n = AHASH_INIT_SIZE * k
  BY DEF Whole
<1>3. n + AHASH_INIT_SIZE = AHASH_INIT_SIZE * (k + 1) /\ k + 1 \in Nat
  BY <1>1, <1>2
<1> QED
  BY <1>1, <1>3 DEF Whole

\* The same when one is taken away that is there.
LEMMA WholeMinus ==
    ASSUME NEW n \in Nat, Whole(n), n > 0
    PROVE  n - AHASH_INIT_SIZE \in Nat /\ Whole(n - AHASH_INIT_SIZE)
<1>1. AHASH_INIT_SIZE \in Nat \ {0}
  BY SizeAssumption
<1>2. PICK k \in Nat : n = AHASH_INIT_SIZE * k
  BY DEF Whole
<1>3. k # 0
  BY <1>1, <1>2
<1>4. k - 1 \in Nat /\ n - AHASH_INIT_SIZE = AHASH_INIT_SIZE * (k - 1)
  BY <1>1, <1>2, <1>3
<1>5. AHASH_INIT_SIZE * (k - 1) \in Nat
  BY <1>1, <1>4
<1> QED
  BY <1>4, <1>5 DEF Whole

\* Between two whole numbers of blocks there is room for a block.
LEMMA WholeGap ==
    ASSUME NEW m \in Nat, NEW n \in Nat, Whole(m), Whole(n), m < n
    PROVE  m + AHASH_INIT_SIZE <= n
<1>1. AHASH_INIT_SIZE \in Nat \ {0}
  BY SizeAssumption
<1>2. PICK j \in Nat : m = AHASH_INIT_SIZE * j
  BY DEF Whole
<1>3. PICK k \in Nat : n = AHASH_INIT_SIZE * k
  BY DEF Whole
<1>4. j < k
  <2> SUFFICES ASSUME k <= j PROVE FALSE
    BY <1>2, <1>3
  <2>1. j - k \in Nat /\ AHASH_INIT_SIZE * (j - k) \in Nat
    BY <1>1
  <2>2. m = n + AHASH_INIT_SIZE * (j - k)
    BY <1>1, <1>2, <1>3
  <2> QED
    BY <2>1, <2>2
<1>5. k - j - 1 \in Nat
  BY <1>4
<1>6. AHASH_INIT_SIZE * (k - j - 1) \in Nat
  BY <1>1, <1>5
<1>7. n = m + AHASH_INIT_SIZE + AHASH_INIT_SIZE * (k - j - 1)
  BY <1>1, <1>2, <1>3
<1> QED
  BY <1>1, <1>6, <1>7

\* The blocks a resize allocates are whole and hold the bucket's elements.
LEMMA BlocksHold ==
    ASSUME NEW pos \in Nat
    PROVE  LET size == AHASH_INIT_SIZE * ((pos + AHASH_INIT_SIZE - 1) \div AHASH_INIT_SIZE)
           IN  Whole(size) /\ pos <= size
<1> DEFINE q == (pos + AHASH_INIT_SIZE - 1) \div AHASH_INIT_SIZE
<1>1. AHASH_INIT_SIZE \in Nat \ {0}
  BY SizeAssumption
<1>2. q \in Nat
  BY <1>1
<1>3. pos + AHASH_INIT_SIZE - 1 < AHASH_INIT_SIZE * q + AHASH_INIT_SIZE
  BY <1>1
<1> HIDE DEF q
<1>4. AHASH_INIT_SIZE * q \in Nat
  BY <1>1, <1>2
<1>5. Whole(AHASH_INIT_SIZE * q)
  BY <1>2 DEF Whole
<1>6. pos <= AHASH_INIT_SIZE * q
  BY <1>1, <1>3, <1>4
<1> QED
  BY <1>5, <1>6 DEF q

\* They are no more than a whole number of slots that holds the elements.
LEMMA BlocksLeast ==
    ASSUME NEW pos \in Nat, NEW n \in Nat, Whole(n), pos <= n
    PROVE  AHASH_INIT_SIZE * ((pos + AHASH_INIT_SIZE - 1) \div AHASH_INIT_SIZE) <= n
<1> DEFINE q == (pos + AHASH_INIT_SIZE - 1) \div AHASH_INIT_SIZE
<1>1. AHASH_INIT_SIZE \in Nat \ {0}
  BY SizeAssumption
<1>2. q \in Nat
  BY <1>1
<1>3. AHASH_INIT_SIZE * q <= pos + AHASH_INIT_SIZE - 1
  BY <1>1
<1> HIDE DEF q
<1>4. AHASH_INIT_SIZE * q \in Nat /\ Whole(AHASH_INIT_SIZE * q)
  BY <1>1, <1>2 DEF Whole
<1>5. CASE n < AHASH_INIT_SIZE * q
  <2>1. n + AHASH_INIT_SIZE <= AHASH_INIT_SIZE * q
    BY <1>4, <1>5, WholeGap
  <2> QED
    BY <1>1, <1>3, <1>4, <2>1
<1> QED
  BY <1>4, <1>5 DEF q

(***************************************************************************)
(* Tables                                                                  *)
(***************************************************************************)
\* An empty table has room under any limit.
LEMMA EmptyRoomy ==
    ASSUME NEW b \in Bits, NEW max \in Nat
    PROVE  RoomyTable(EmptyTable(b), max)
<1>1. Whole(0)
  BY SizeAssumption DEF Whole
<1> QED
  BY <1>1 DEF RoomyTable, Roomy, EmptyTable

\* Storing a roomy bucket keeps a table roomy, also under a higher limit.
LEMMA PutRoomy ==
    ASSUME NEW t, IsHTable(t), NEW i \in BucketIndex(t.htable_bits), NEW n \in Bucket,
           NEW old \in Nat, NEW max \in Nat, old <= max,
           RoomyTable(t, old), Roomy(n, max)
    PROVE  RoomyTable(PutBucket(t, i, n), max)
<1> DEFINE u == PutBucket(t, i, n)
<1>1. /\ u.htable_bits = t.htable_bits /\ u.bucket[i] = n
      /\ \A j \in BucketIndex(t.htable_bits) \ {i} : u.bucket[j] = t.bucket[j]
  BY PutBucketType
<1> HIDE DEF u
<1>2. \A j \in BucketIndex(t.htable_bits) : t.bucket[j].size \in Nat
  BY DEF IsHTable, Bucket
<1>3. \A j \in BucketIndex(t.htable_bits) : Roomy(t.bucket[j], max)
  BY <1>2 DEF RoomyTable, Roomy
<1> QED
  BY <1>1, <1>3 DEF RoomyTable, u

\* A copy to a larger size fits under the limit the table obeys: a bucket of
\* the copy holds a part of one bucket of the original.
LEMMA RehashFits ==
    ASSUME NEW t, Good(t), NEW b \in Bits, t.htable_bits <= b,
           NEW max \in Nat, RoomyTable(t, max)
    PROVE  Fits(rehash(t, b), max)
<1> DEFINE copied(i) == {e \in MembersOf(t) : HKEY(e, b) = i}
           Blocks(pos) == AHASH_INIT_SIZE * ((pos + AHASH_INIT_SIZE - 1) \div AHASH_INIT_SIZE)
<1>1. IsHTable(t) /\ Placed(t) /\ Counted(t) /\ t.htable_bits \in Bits
  BY DEF Good, IsHTable
<1>2. MembersOf(t) \subseteq Elem
  BY <1>1, MembersType
<1>3. /\ rehash(t, b).htable_bits = b
      /\ \A i \in BucketIndex(b) : rehash(t, b).bucket[i].size = Blocks(Cardinality(copied(i)))
  BY DEF rehash
<1>4. ASSUME NEW i \in BucketIndex(b) PROVE Blocks(Cardinality(copied(i))) <= max
  <2>1. PICK k \in BucketIndex(t.htable_bits) : copied(i) \subseteq t.bucket[k].value
    <3>1. CASE copied(i) = {}
      <4>1. 0 \in BucketIndex(t.htable_bits)
        BY <1>1, MaskAssumption DEF BucketIndex
      <4> QED
        BY <3>1, <4>1
    <3>2. CASE copied(i) # {}
      <4>1. PICK e \in copied(i) : TRUE
        BY <3>2
      <4>2. e \in Elem /\ HKEY(e, t.htable_bits) \in BucketIndex(t.htable_bits)
        BY <1>1, <1>2, MaskAssumption
      <4>3. \A f \in copied(i) : HKEY(f, t.htable_bits) = HKEY(e, t.htable_bits)
        BY <1>1, <1>2, <4>2, MaskAssumption
      <4>4. \A f \in copied(i) : f \in t.bucket[HKEY(f, t.htable_bits)].value
        BY <1>1 DEF MembersOf, Placed
      <4> QED
        BY <4>2, <4>3, <4>4
    <3> QED
      BY <3>1, <3>2
  <2>2. /\ t.bucket[k] \in Bucket /\ t.bucket[k].pos = Cardinality(t.bucket[k].value)
        /\ IsFiniteSet(t.bucket[k].value)
    BY <1>1, ElemAssumption, FS_Subset DEF IsHTable, Counted, Bucket
  <2>3. Cardinality(copied(i)) \in Nat /\ Cardinality(copied(i)) <= t.bucket[k].pos
    BY <2>1, <2>2, FS_Subset, FS_CardinalityType
  <2>4. /\ t.bucket[k].size \in Nat /\ t.bucket[k].pos \in Nat
        /\ Roomy(t.bucket[k], max)
    BY <2>2 DEF RoomyTable, Bucket
  <2> HIDE DEF copied
  <2>5. Blocks(Cardinality(copied(i))) <= t.bucket[k].size
    BY <2>3, <2>4, BlocksLeast DEF Roomy
  <2>6. Blocks(Cardinality(copied(i))) \in Nat
    BY <2>3, BlocksType
  <2> HIDE DEF Blocks
  <2> QED
    BY <2>4, <2>5, <2>6 DEF Roomy
<1> QED
  BY <1>3, <1>4 DEF Fits

\* A copy that fits is a roomy table.
LEMMA RehashRoomy ==
    ASSUME NEW t, IsHTable(t), NEW b \in Bits, NEW max \in Nat, Fits(rehash(t, b), max)
    PROVE  RoomyTable(rehash(t, b), max)
<1> DEFINE u == rehash(t, b)
           copied(i) == {e \in MembersOf(t) : HKEY(e, b) = i}
           Blocks(pos) == AHASH_INIT_SIZE * ((pos + AHASH_INIT_SIZE - 1) \div AHASH_INIT_SIZE)
<1>1. \A i : Cardinality(copied(i)) \in Nat
  BY MembersType, FS_Subset, FS_CardinalityType
<1>2. /\ u.htable_bits = b
      /\ \A i \in BucketIndex(b) : /\ u.bucket[i].size = Blocks(Cardinality(copied(i)))
                                   /\ u.bucket[i].pos = Cardinality(copied(i))
  BY DEF rehash
<1> HIDE DEF copied
<1>3. \A pos \in Nat : Whole(Blocks(pos)) /\ pos <= Blocks(pos)
  BY BlocksHold
<1> HIDE DEF Blocks, u
<1>4. \A i \in BucketIndex(b) : u.bucket[i].size <= max
  BY <1>2 DEF Fits, u
<1> QED
  BY <1>1, <1>2, <1>3, <1>4 DEF RoomyTable, Roomy, u

(***************************************************************************)
(* The operations                                                          *)
(***************************************************************************)
\* The part of the invariant about the limit and the current table.
TableBound ==
    /\ Whole(ahash_max) /\ ahash_max <= AHASH_LIMIT
    /\ table # NULL => RoomyTable(heap[table], ahash_max)

\* TUNE_AHASH_MAX raises the limit by a whole block or not at all.
LEMMA TuneBound ==
    ASSUME NEW curr \in Nat, Whole(curr), curr <= AHASH_LIMIT, NEW multi
    PROVE  /\ tune_ahash_max(curr, multi) \in Nat
           /\ Whole(tune_ahash_max(curr, multi))
           /\ curr <= tune_ahash_max(curr, multi)
           /\ tune_ahash_max(curr, multi) <= AHASH_LIMIT
<1>1. CASE tune_ahash_max(curr, multi) = curr
  BY <1>1
<1>2. CASE /\ tune_ahash_max(curr, multi) = curr + AHASH_INIT_SIZE
           /\ curr + AHASH_INIT_SIZE <= AHASH_LIMIT
  BY <1>2, WholePlus, SizeAssumption
<1> QED
  BY <1>1, <1>2 DEF tune_ahash_max

\* type_pf_elem_add keeps a bucket roomy.
LEMMA ElemAddRoomy ==
    ASSUME NEW n \in Bucket, NEW max \in Nat, Whole(max), Roomy(n, max),
           NEW e \in Elem, NEW alloc \in BOOLEAN
    PROVE  /\ type_pf_elem_add(n, e, max, alloc).n \in Bucket
           /\ Roomy(type_pf_elem_add(n, e, max, alloc).n, max)
<1> DEFINE m == type_pf_elem_add(n, e, max, alloc).n
<1>1. n.size \in Nat /\ n.pos \in Nat /\ AHASH_INIT_SIZE \in Nat \ {0}
  BY SizeAssumption DEF Bucket
<1>2. CASE m = n
  BY <1>2
<1>3. CASE /\ n.pos < n.size
           /\ m = [size |-> n.size, pos |-> n.pos + 1, value |-> n.value \cup {e}]
  BY <1>1, <1>3 DEF Roomy, Bucket
<1>4. CASE /\ n.pos >= n.size /\ n.size < max
           /\ m = [size |-> n.size + AHASH_INIT_SIZE, pos |-> n.pos + 1, value |-> n.value \cup {e}]
  <2>1. n.size + AHASH_INIT_SIZE <= max /\ Whole(n.size + AHASH_INIT_SIZE)
    BY <1>1, <1>4, WholeGap, WholePlus DEF Roomy
  <2> QED
    BY <1>1, <1>4, <2>1 DEF Roomy, Bucket
<1>5. \/ m = n
      \/ /\ n.pos < n.size
         /\ m = [size |-> n.size, pos |-> n.pos + 1, value |-> n.value \cup {e}]
      \/ /\ n.pos >= n.size /\ n.size < max
         /\ m = [size |-> n.size + AHASH_INIT_SIZE, pos |-> n.pos + 1, value |-> n.value \cup {e}]
  BY <1>1 DEF type_pf_elem_add
<1> QED
  BY <1>2, <1>3, <1>4, <1>5

\* type_pf_add keeps the limit whole and the table within it.
LEMMA AddBound ==
    ASSUME Inv, TableBound, WriteLock, NEW e \in Elem, NEW alloc \in BOOLEAN, NEW ret,
           type_pf_add(e, alloc, ret)
    PROVE  TableBound' /\ table' = table /\ heap'[table].htable_bits = heap[table].htable_bits
<1> DEFINE t     == heap[table]
           key   == HKEY(e, t.htable_bits)
           n     == t.bucket[key]
           multi == Cardinality({x \in n.value : Group[x] = Group[e]})
           max   == IF MULTI THEN tune_ahash_max(ahash_max, multi) ELSE ahash_max
           added == type_pf_elem_add(n, e, max, alloc)
<1>1. /\ table \in Block /\ heap = [i \in Block |-> heap[i]] /\ table # NULL
      /\ IsHTable(t) /\ ahash_max \in Nat
  BY DEF Inv, TypeOK, WriteLock, SetInv
<1>2. /\ key \in BucketIndex(t.htable_bits) /\ n \in Bucket
      /\ Roomy(n, ahash_max)
  BY <1>1, MaskAssumption DEF IsHTable, TableBound, RoomyTable
<1>3. CASE elements >= maxelem \/ e \in n.value
  BY <1>3 DEF type_pf_add, hvars, TableBound
<1>4. CASE ~(elements >= maxelem \/ e \in n.value)
  <2>1. /\ ahash_max' = max /\ table' = table
        /\ heap' = [heap EXCEPT ![table] = PutBucket(t, key, added.n)]
    BY <1>4 DEF type_pf_add, TUNE_AHASH_MAX
  <2>2. max \in Nat /\ Whole(max) /\ ahash_max <= max /\ max <= AHASH_LIMIT
    <3> HIDE DEF multi
    <3>1. CASE MULTI
      BY <1>1, <3>1, TuneBound DEF TableBound
    <3>2. CASE ~MULTI
      BY <1>1, <3>2 DEF TableBound
    <3> QED
      BY <3>1, <3>2
  <2> HIDE DEF max
  <2>3. Roomy(n, max)
    BY <1>1, <1>2, <2>2 DEF Roomy, Bucket
  <2> HIDE DEF n
  <2>4. added.n \in Bucket /\ Roomy(added.n, max)
    BY <1>2, <2>2, <2>3, ElemAddRoomy
  <2> HIDE DEF added, key
  <2>5. heap'[table] = PutBucket(t, key, added.n)
    BY <1>1, <2>1
  <2>6. RoomyTable(t, ahash_max)
    BY <1>1 DEF TableBound
  <2> HIDE DEF t
  <2>7. RoomyTable(PutBucket(t, key, added.n), max)
    BY <1>1, <1>2, <2>2, <2>4, <2>6, PutRoomy
  <2> QED
    BY <2>1, <2>2, <2>5, <2>7 DEF TableBound, PutBucket, t
<1> QED
  BY <1>3, <1>4

\* type_pf_del gives back at most a block that is not needed.
LEMMA DelBound ==
    ASSUME Inv, TableBound, WriteLock, NEW e \in Elem, NEW alloc \in BOOLEAN,
           type_pf_del(e, alloc)
    PROVE  TableBound' /\ table' = table /\ heap'[table].htable_bits = heap[table].htable_bits
<1> DEFINE t   == heap[table]
           key == HKEY(e, t.htable_bits)
           n   == t.bucket[key]
           m   == elem_del(n, e, alloc)
<1>1. /\ table \in Block /\ heap = [i \in Block |-> heap[i]] /\ table # NULL
      /\ IsHTable(t) /\ Counted(t) /\ ahash_max \in Nat
  BY DEF Inv, TypeOK, WriteLock, SetInv, Good
<1>2. /\ key \in BucketIndex(t.htable_bits) /\ n \in Bucket
      /\ Roomy(n, ahash_max) /\ n.pos = Cardinality(n.value)
  BY <1>1, MaskAssumption DEF IsHTable, TableBound, RoomyTable, Counted
<1>3. /\ e \in n.value /\ table' = table /\ ahash_max' = ahash_max
      /\ heap' = [heap EXCEPT ![table] = PutBucket(t, key, m)]
  BY DEF type_pf_del
<1>4. n.pos \in Nat /\ n.size \in Nat /\ n.pos # 0 /\ AHASH_INIT_SIZE \in Nat \ {0}
  <2>1. IsFiniteSet(n.value)
    BY <1>2, ElemAssumption, FS_Subset DEF Bucket
  <2> QED
    BY <1>2, <1>3, <2>1, FS_EmptySet, SizeAssumption DEF Bucket
<1>5. /\ m.value = n.value \ {e} /\ m.pos = n.pos - 1
      /\ m = [size |-> m.size, pos |-> m.pos, value |-> m.value]
      /\ \/ m.size = n.size
         \/ m.size = n.size - AHASH_INIT_SIZE /\ n.pos - 1 + AHASH_INIT_SIZE < n.size
  BY DEF elem_del
<1> HIDE DEF m, n
<1>6. m \in Bucket /\ Roomy(m, ahash_max)
  <2>1. CASE m.size = n.size
    BY <1>1, <1>2, <1>4, <1>5, <2>1 DEF Roomy, Bucket
  <2>2. CASE m.size = n.size - AHASH_INIT_SIZE /\ n.pos - 1 + AHASH_INIT_SIZE < n.size
    <3>1. n.size > 0 /\ Whole(n.size)
      BY <1>2, <1>4, <2>2 DEF Roomy
    <3>2. m.size \in Nat /\ Whole(m.size)
      BY <1>4, <2>2, <3>1, WholeMinus
    <3> QED
      BY <1>1, <1>2, <1>4, <1>5, <2>2, <3>2 DEF Roomy, Bucket
  <2> QED
    BY <1>5, <2>1, <2>2
<1> HIDE DEF key
<1>7. heap'[table] = PutBucket(t, key, m) /\ RoomyTable(t, ahash_max)
  BY <1>1, <1>3 DEF TableBound
<1> HIDE DEF t
<1>8. RoomyTable(PutBucket(t, key, m), ahash_max)
  BY <1>1, <1>2, <1>6, <1>7, PutRoomy
<1> QED
  BY <1>3, <1>7, <1>8 DEF TableBound, PutBucket, t

(***************************************************************************)
(* The invariant                                                           *)
(***************************************************************************)
\* A copy about to be made fits.
LEMMA CopyFitsFromInv ==
    ASSUME Inv, BoundInv
    PROVE  CopyFits
<1> SUFFICES ASSUME upc = "resize", NextBits(ubits) # 0
             PROVE  Fits(rehash(heap[table], NextBits(ubits)), ahash_max)
  BY DEF CopyFits
<1>1. /\ table # NULL /\ Good(heap[table]) /\ ahash_max \in Nat
      /\ RoomyTable(heap[table], ahash_max)
      /\ ubits \in Bits /\ heap[table].htable_bits = ubits
  BY DEF Inv, TypeOK, NoSetInv, SetInv, BoundInv
<1>2. NextBits(ubits) \in Bits /\ ubits <= NextBits(ubits)
  BY <1>1, SizeAssumption DEF NextBits, Bits
<1> QED
  BY <1>1, <1>2, RehashFits

\* A new set obeys the limits.
LEMMA InitBound == Init => BoundInv
<1> SUFFICES ASSUME Init PROVE BoundInv
  OBVIOUS
<1>1. Whole(AHASH_MAX_SIZE) /\ AHASH_MAX_SIZE \in Nat
  BY SizeAssumption DEF Whole, AHASH_MAX_SIZE
<1>2. heap[0] = EmptyTable(InitBits)
  BY DEF Init, Block
<1>3. RoomyTable(EmptyTable(InitBits), AHASH_MAX_SIZE)
  BY <1>1, EmptyRoomy, SizeAssumption
<1> QED
  BY <1>1, <1>2, <1>3, SizeAssumption DEF Init, BoundInv

\* Every step preserves the limits.
LEMMA NextBound == Inv /\ BoundInv /\ [Next]_vars => BoundInv'
<1> SUFFICES ASSUME Inv, BoundInv, [Next]_vars PROVE BoundInv'
  OBVIOUS
<1> USE DEF BoundInv
<1>1. TableBound /\ ahash_max \in Nat
  BY DEF TableBound, Inv, TypeOK
<1>2. ASSUME NEW e \in Elem, uadd(e) PROVE BoundInv'
  <2>1. PICK alloc \in BOOLEAN, ret \in {"ok", "EXIST", "HASH_FULL", "ENOMEM", "EAGAIN"} :
           /\ type_pf_add(e, alloc, ret)
           /\ upc' = IF ret = "EAGAIN" THEN "resize" ELSE "idle"
           /\ ubits' = IF ret = "EAGAIN" THEN heap[table].htable_bits ELSE 0
    BY <1>2 DEF uadd
  <2>2. TableBound' /\ table' = table /\ heap'[table].htable_bits = heap[table].htable_bits
    BY <1>1, <1>2, <2>1, AddBound DEF uadd
  <2> QED
    BY <2>1, <2>2 DEF TableBound
<1>3. ASSUME NEW e \in Elem, KernelAdd(e) PROVE BoundInv'
  <2>1. PICK alloc \in BOOLEAN, ret \in {"ok", "EXIST", "HASH_FULL", "ENOMEM", "EAGAIN"} :
           type_pf_add(e, alloc, ret)
    BY <1>3 DEF KernelAdd
  <2>2. TableBound' /\ table' = table /\ heap'[table].htable_bits = heap[table].htable_bits
    BY <1>1, <1>3, <2>1, AddBound DEF KernelAdd
  <2> QED
    BY <1>3, <2>2 DEF TableBound, KernelAdd, WriteLock, uvars
<1>4. ASSUME NEW e \in Elem, Del(e) PROVE BoundInv'
  <2>1. PICK alloc \in BOOLEAN : type_pf_del(e, alloc)
    BY <1>4 DEF Del
  <2>2. TableBound' /\ table' = table /\ heap'[table].htable_bits = heap[table].htable_bits
    BY <1>1, <1>4, <2>1, DelBound DEF Del
  <2> QED
    BY <1>4, <2>2 DEF TableBound, Del, WriteLock, uvars
<1>5. CASE RetryAdd
  BY <1>2, <1>5 DEF RetryAdd, Inv
<1>6. CASE ip_set_hash_flush
  <2>1. /\ table \in Block /\ heap = [i \in Block |-> heap[i]] /\ heap[table].htable_bits \in Bits
    BY <1>6 DEF ip_set_hash_flush, WriteLock, Inv, TypeOK, SetInv, IsHTable
  <2>2. heap'[table] = EmptyTable(heap[table].htable_bits)
    BY <1>6, <2>1 DEF ip_set_hash_flush
  <2>3. RoomyTable(heap'[table], ahash_max)
    BY <1>1, <2>1, <2>2, EmptyRoomy
  <2> QED
    BY <1>6, <2>3 DEF ip_set_hash_flush, uvars
<1>7. CASE ip_set_hash_destroy
  BY <1>7 DEF ip_set_hash_destroy, uvars
<1>8. CASE Create
  <2>1. Whole(AHASH_MAX_SIZE) /\ AHASH_MAX_SIZE \in Nat /\ AHASH_MAX_SIZE <= AHASH_LIMIT
    BY SizeAssumption DEF Whole, AHASH_MAX_SIZE
  <2>2. heap'[0] = EmptyTable(InitBits)
    BY <1>8 DEF Create, Inv, TypeOK, Block
  <2>3. RoomyTable(EmptyTable(InitBits), AHASH_MAX_SIZE)
    BY <2>1, EmptyRoomy, SizeAssumption
  <2> QED
    BY <1>8, <2>1, <2>2, <2>3 DEF Create, Inv, NoSetInv, uvars
<1>9. CASE ResizeCopy
  <2> DEFINE bits == NextBits(ubits)
             t    == rehash(heap[table], bits)
  <2>1. /\ upc = "resize" /\ table \in Block /\ 1 - table \in Block /\ 1 - table # table
        /\ heap = [i \in Block |-> heap[i]] /\ IsHTable(heap[table]) /\ bits \in Bits
        /\ table' = table /\ ahash_max' = ahash_max
    BY <1>9, SizeAssumption DEF ResizeCopy, Inv, TypeOK, NoSetInv, SetInv, Block, NextBits, Bits
  <2>2. CASE upc' = "idle" /\ heap' = heap
    BY <2>1, <2>2
  <2>3. CASE bits # 0 /\ upc' = "publish" /\ heap' = [heap EXCEPT ![1 - table] = t]
    <3>1. RoomyTable(t, ahash_max)
      BY <1>1, <2>1, <2>3, CopyFitsFromInv, RehashRoomy DEF CopyFits
    <3>2. heap'[table] = heap[table] /\ heap'[1 - table] = t
      BY <2>1, <2>3
    <3> QED
      BY <2>1, <2>3, <3>1, <3>2
  <2> QED
    BY <1>9, <2>1, <2>2, <2>3, CopyFitsFromInv DEF ResizeCopy, CopyFits
<1>10. CASE ResizePublish
  BY <1>10 DEF ResizePublish
<1>11. CASE ResizeFree
  <2>1. table \in Block /\ heap'[table] = heap[table]
    BY <1>11 DEF ResizeFree, Inv, TypeOK, NoSetInv, Block
  <2> QED
    BY <1>11, <2>1 DEF ResizeFree
<1>12. CASE UNCHANGED <<hvars, uvars>>
  BY <1>12 DEF hvars, uvars
<1>13. ASSUME NEW e \in Elem, UserAdd(e) PROVE BoundInv'
  BY <1>2, <1>13 DEF UserAdd
<1>14. ASSUME NEW p \in Reader, TestBegin(p) \/ TestEnd(p) PROVE UNCHANGED <<hvars, uvars>>
  BY <1>14 DEF TestBegin, TestEnd
<1>15. ListStart \/ ListBegin \/ type_pf_list \/ UNCHANGED vars => UNCHANGED <<hvars, uvars>>
  BY DEF ListStart, ListBegin, type_pf_list, vars
<1> HIDE DEF BoundInv
<1> QED
  BY <1>3, <1>4, <1>5, <1>6, <1>7, <1>8, <1>9, <1>10, <1>11, <1>12, <1>13, <1>14, <1>15 DEF Next

(***************************************************************************)
(* The theorems                                                            *)
(***************************************************************************)
\* No bucket outgrows its array block, no block the tuned limit of the set,
\* and that not the hard one: type_pf_elem_add, type_pf_del and TUNE_AHASH_MAX
\* keep to whole blocks, through every resize.
THEOREM BlocksBounded == Spec => []BlockBound
<1>1. Inv /\ BoundInv => BlockBound
  BY DEF BoundInv, BlockBound, RoomyTable, Roomy
<1> QED
  BY <1>1, InitInv, NextInv, InitBound, NextBound, PTL DEF Spec

\* type_pf_resize never has to start again for want of room in a bucket.
THEOREM ResizeFits == Spec => []CopyFits
BY CopyFitsFromInv, InitInv, NextInv, InitBound, NextBound, PTL DEF Spec
=============================================================================
