--------------------------- MODULE IpSetHash_proofs ---------------------------
(***************************************************************************)
(* Proofs about IpSetHash, for any elements, hash, sizes and readers.      *)
(***************************************************************************)
EXTENDS IpSetHash, FiniteSetTheorems, TLAPS

\* Every element is in the bucket its hash names.
Placed(t) == \A i \in BucketIndex(t.htable_bits) :
                \A e \in t.bucket[i].value : HKEY(e, t.htable_bits) = i

\* Every bucket's pos counts its elements.
Counted(t) == \A i \in BucketIndex(t.htable_bits) :
                 t.bucket[i].pos = Cardinality(t.bucket[i].value)

Good(t) == IsHTable(t) /\ Placed(t) /\ Counted(t)

(***************************************************************************)
(* Tables                                                                  *)
(***************************************************************************)
\* Storing a bucket of the right type yields a table with the same mask.
LEMMA PutBucketType ==
    ASSUME NEW t, IsHTable(t), NEW i \in BucketIndex(t.htable_bits), NEW n \in Bucket
    PROVE  /\ IsHTable(PutBucket(t, i, n))
           /\ PutBucket(t, i, n).htable_bits = t.htable_bits
           /\ PutBucket(t, i, n).bucket[i] = n
           /\ \A j \in BucketIndex(t.htable_bits) \ {i} :
                 PutBucket(t, i, n).bucket[j] = t.bucket[j]
BY DEF IsHTable, PutBucket

\* In a well-placed table the search of one bucket, type_pf_test, decides
\* membership in the whole table.
LEMMA TestIsMembership ==
    ASSUME NEW t, IsHTable(t), Placed(t), NEW e \in Elem
    PROVE  type_pf_test(t, e) <=> e \in MembersOf(t)
<1>1. t.htable_bits \in Bits
  BY DEF IsHTable
<1>2. HKEY(e, t.htable_bits) \in BucketIndex(t.htable_bits)
  BY <1>1, MaskAssumption
<1> QED
  BY <1>2 DEF type_pf_test, MembersOf, Placed

\* A table's members are elements, finitely many.
LEMMA MembersType ==
    ASSUME NEW t, IsHTable(t)
    PROVE  MembersOf(t) \subseteq Elem /\ IsFiniteSet(MembersOf(t))
<1>1. MembersOf(t) \subseteq Elem
  BY DEF MembersOf, IsHTable, Bucket
<1> QED
  BY <1>1, FS_Subset, ElemAssumption

\* The empty table is a good one, without members.
LEMMA EmptyTableGood ==
    ASSUME NEW b \in Bits
    PROVE  Good(EmptyTable(b)) /\ MembersOf(EmptyTable(b)) = {}
<1>1. IsHTable(EmptyTable(b))
  BY DEF IsHTable, EmptyTable, Bucket
<1>2. Placed(EmptyTable(b))
  BY DEF EmptyTable, Placed
<1>3. Counted(EmptyTable(b))
  BY FS_EmptySet DEF EmptyTable, Counted
<1>4. MembersOf(EmptyTable(b)) = {}
  BY DEF EmptyTable, MembersOf
<1> QED
  BY <1>1, <1>2, <1>3, <1>4 DEF Good

\* Adding an element to the bucket it hashes to adds it to the table.
LEMMA PutAdds ==
    ASSUME NEW t, Good(t), NEW e \in Elem, NEW n \in Bucket,
           n.value = t.bucket[HKEY(e, t.htable_bits)].value \cup {e},
           n.pos = Cardinality(n.value)
    PROVE  /\ Good(PutBucket(t, HKEY(e, t.htable_bits), n))
           /\ MembersOf(PutBucket(t, HKEY(e, t.htable_bits), n)) = MembersOf(t) \cup {e}
<1> DEFINE k == HKEY(e, t.htable_bits)
           u == PutBucket(t, k, n)
<1>1. IsHTable(t) /\ Placed(t) /\ Counted(t)
  BY DEF Good
<1>2. k \in BucketIndex(t.htable_bits)
  BY <1>1, MaskAssumption DEF IsHTable
<1>3. /\ IsHTable(u) /\ u.htable_bits = t.htable_bits
      /\ u.bucket[k] = n
      /\ \A j \in BucketIndex(t.htable_bits) \ {k} : u.bucket[j] = t.bucket[j]
  BY <1>1, <1>2, PutBucketType
<1> HIDE DEF u
<1>4. Placed(u)
  BY <1>1, <1>2, <1>3 DEF Placed
<1>5. Counted(u)
  BY <1>1, <1>2, <1>3 DEF Counted
<1>6. MembersOf(u) = MembersOf(t) \cup {e}
  BY <1>2, <1>3 DEF MembersOf
<1> QED
  BY <1>3, <1>4, <1>5, <1>6 DEF Good, u

\* Deleting an element from the bucket it hashes to deletes it from the table.
LEMMA PutDeletes ==
    ASSUME NEW t, Good(t), NEW e \in Elem, NEW n \in Bucket,
           n.value = t.bucket[HKEY(e, t.htable_bits)].value \ {e},
           n.pos = Cardinality(n.value)
    PROVE  /\ Good(PutBucket(t, HKEY(e, t.htable_bits), n))
           /\ MembersOf(PutBucket(t, HKEY(e, t.htable_bits), n)) = MembersOf(t) \ {e}
<1> DEFINE k == HKEY(e, t.htable_bits)
           u == PutBucket(t, k, n)
<1>1. IsHTable(t) /\ Placed(t) /\ Counted(t)
  BY DEF Good
<1>2. k \in BucketIndex(t.htable_bits)
  BY <1>1, MaskAssumption DEF IsHTable
<1>3. /\ IsHTable(u) /\ u.htable_bits = t.htable_bits
      /\ u.bucket[k] = n
      /\ \A j \in BucketIndex(t.htable_bits) \ {k} : u.bucket[j] = t.bucket[j]
  BY <1>1, <1>2, PutBucketType
<1> HIDE DEF u
<1>4. Placed(u)
  BY <1>1, <1>2, <1>3 DEF Placed
<1>5. Counted(u)
  BY <1>1, <1>2, <1>3 DEF Counted
<1>6. MembersOf(u) = MembersOf(t) \ {e}
  <2>1. \A j \in BucketIndex(t.htable_bits) \ {k} : e \notin t.bucket[j].value
    BY <1>1 DEF Placed
  <2> QED
    BY <1>2, <1>3, <2>1 DEF MembersOf
<1> QED
  BY <1>3, <1>4, <1>5, <1>6 DEF Good, u

\* The number of slots a resize allocates for a bucket is a number.
LEMMA BlocksType ==
    ASSUME NEW pos \in Nat
    PROVE  AHASH_INIT_SIZE * ((pos + AHASH_INIT_SIZE - 1) \div AHASH_INIT_SIZE) \in Nat
<1> DEFINE q == (pos + AHASH_INIT_SIZE - 1) \div AHASH_INIT_SIZE
<1>1. AHASH_INIT_SIZE \in Nat \ {0}
  BY SizeAssumption
<1>2. q \in Nat
  BY <1>1
<1> HIDE DEF q
<1>3. AHASH_INIT_SIZE * q \in Nat
  BY <1>1, <1>2
<1> QED
  BY <1>3 DEF q

\* The copy made by a resize is a good table with exactly the old members.
LEMMA RehashGood ==
    ASSUME NEW t, IsHTable(t), NEW b \in Bits
    PROVE  Good(rehash(t, b)) /\ MembersOf(rehash(t, b)) = MembersOf(t)
<1> DEFINE u == rehash(t, b)
           copied(i) == {e \in MembersOf(t) : HKEY(e, b) = i}
<1>1. \A i : copied(i) \subseteq Elem /\ IsFiniteSet(copied(i))
  BY MembersType, FS_Subset
<1>2. \A i : Cardinality(copied(i)) \in Nat
  BY <1>1, FS_CardinalityType
<1>3. u.htable_bits = b /\ b \in Bits
  BY DEF rehash
<1>4. \A i \in BucketIndex(b) : /\ u.bucket[i] \in Bucket
                                /\ u.bucket[i].value = copied(i)
                                /\ u.bucket[i].pos = Cardinality(copied(i))
  BY <1>1, <1>2, BlocksType DEF rehash, Bucket
<1>5. IsHTable(u)
  BY <1>4 DEF rehash, IsHTable
<1> HIDE DEF u
<1>6. Placed(u)
  BY <1>3, <1>4 DEF Placed
<1>7. Counted(u)
  BY <1>3, <1>4 DEF Counted
<1>8. \A e \in MembersOf(t) : HKEY(e, b) \in BucketIndex(b)
  BY MembersType, MaskAssumption
<1>9. MembersOf(u) = MembersOf(t)
  <2>1. UNION {copied(i) : i \in BucketIndex(b)} = MembersOf(t)
    BY <1>8
  <2> HIDE DEF copied
  <2>2. MembersOf(u) = UNION {copied(i) : i \in BucketIndex(b)}
    BY <1>3, <1>4 DEF MembersOf
  <2> QED
    BY <2>1, <2>2
<1> QED
  BY <1>5, <1>6, <1>7, <1>9 DEF Good, u

(***************************************************************************)
(* The inductive invariant                                                 *)
(***************************************************************************)
\* The current table exists and h->elements counts what it holds.
SetInv ==
    table # NULL =>
        /\ heap[table] # NULL
        /\ elements = Cardinality(MembersOf(heap[table]))

\* Nobody is at work on a set that does not exist.
NoSetInv == table = NULL => upc = "idle" /\ \A p \in Process : rd[p] = NULL

\* The table about to be published holds what the current one does: the read
\* lock that the resize keeps has held every writer off.
CopyInv ==
    upc = "publish" =>
        /\ heap[1 - table] # NULL
        /\ MembersOf(heap[1 - table]) = MembersOf(heap[table])

\* A reader is on the current table, or on the one retired by the resize that
\* is waiting for it, and both hold the same elements.
ReaderInv ==
    \A p \in Process : rd[p] # NULL =>
        /\ heap[rd[p]] # NULL
        /\ MembersOf(heap[rd[p]]) = MembersOf(heap[table])
        /\ rd[p] # table => upc = "sync" /\ p \in grace

Inv ==
    /\ TypeOK
    /\ \A i \in Block : heap[i] # NULL => Good(heap[i])
    /\ SetInv
    /\ NoSetInv
    /\ upc # "idle" => uval \in Elem
    /\ CopyInv
    /\ ReaderInv

\* A table is not the null pointer.
LEMMA TableNotNull ==
    ASSUME NEW t, IsHTable(t)
    PROVE  t # NULL
BY ElemAssumption DEF IsHTable

\* What an operation under the write lock does to the set.
WriteEffect ==
    /\ table' = table
    /\ Good(heap'[table])
    /\ heap' = [heap EXCEPT ![table] = heap'[table]]
    /\ elements' = Cardinality(MembersOf(heap'[table]))
    /\ ahash_max' \in Nat
    /\ UNCHANGED <<rd, grace>>

\* An operation under the write lock cannot disturb a reader, because there is
\* none, nor the copy of a resize, which holds the read lock.
LEMMA WritePreserves ==
    ASSUME Inv, WriteLock, WriteEffect,
           upc' \in {"idle", "resize", "sync", "retry"},
           uval' \in Elem \cup {NULL}, upc' # "idle" => uval' \in Elem,
           ubits' \in Bits,
           dumping' \in BOOLEAN, cursor' \in Nat,
           seen' \in SUBSET Elem, owed' \in SUBSET Elem, missed' \in SUBSET Elem
    PROVE  Inv'
<1>1. /\ table \in Block /\ table' = table
      /\ heap = [i \in Block |-> heap[i]]
      /\ \A p \in Process : rd'[p] = NULL
  BY DEF Inv, TypeOK, WriteLock, WriteEffect
<1>2. IsHTable(heap'[table]) /\ heap'[table] # NULL
  BY TableNotNull DEF WriteEffect, Good
<1>3. \A i \in Block : i # table => heap'[i] = heap[i]
  BY <1>1 DEF WriteEffect
<1>4. heap' = [i \in Block |-> heap'[i]]
  BY <1>1 DEF WriteEffect
<1>5. Cardinality(MembersOf(heap'[table])) \in Nat
  BY <1>2, MembersType, FS_CardinalityType
<1>6. TypeOK'
  BY <1>1, <1>2, <1>3, <1>4, <1>5 DEF Inv, TypeOK, WriteEffect
<1>7. (\A i \in Block : heap[i] # NULL => Good(heap[i]))'
  BY <1>1, <1>3 DEF Inv, WriteEffect
<1>8. SetInv' /\ NoSetInv'
  BY <1>1, <1>2, ElemAssumption DEF SetInv, NoSetInv, WriteEffect
<1>9. CopyInv' /\ ReaderInv'
  BY <1>1 DEF CopyInv, ReaderInv
<1> QED
  BY <1>6, <1>7, <1>8, <1>9 DEF Inv

\* type_pf_add leaves a good table whose members h->elements counts.
LEMMA AddEffect ==
    ASSUME Inv, WriteLock, NEW e \in Elem, NEW alloc \in BOOLEAN, NEW ret,
           type_pf_add(e, alloc, ret), UNCHANGED <<rd, grace>>
    PROVE  /\ WriteEffect
           /\ \/ MembersOf(heap'[table]) = MembersOf(heap[table])
              \/ /\ e \notin MembersOf(heap[table])
                 /\ elements < maxelem
                 /\ MembersOf(heap'[table]) = MembersOf(heap[table]) \cup {e}
<1> DEFINE t     == heap[table]
           key   == HKEY(e, t.htable_bits)
           n     == t.bucket[key]
           multi == Cardinality({x \in n.value : Group[x] = Group[e]})
           max   == IF MULTI THEN tune_ahash_max(ahash_max, multi) ELSE ahash_max
           added == type_pf_elem_add(n, e, max, alloc)
<1>1. /\ table \in Block /\ heap = [i \in Block |-> heap[i]]
      /\ Good(t) /\ elements = Cardinality(MembersOf(t)) /\ ahash_max \in Nat
  BY DEF Inv, TypeOK, WriteLock, SetInv
<1>2. IsHTable(t) /\ Placed(t) /\ Counted(t)
  BY <1>1 DEF Good
<1>3. key \in BucketIndex(t.htable_bits)
  BY <1>2, MaskAssumption DEF IsHTable
<1>4. n \in Bucket /\ n.pos = Cardinality(n.value)
  BY <1>2, <1>3 DEF IsHTable, Counted
<1>5. CASE elements >= maxelem \/ e \in n.value
  <2>1. UNCHANGED hvars
    BY <1>5 DEF type_pf_add
  <2> QED
    BY <1>1, <2>1 DEF WriteEffect, hvars
<1>6. CASE ~(elements >= maxelem \/ e \in n.value)
  <2>1. /\ ret = added.ret
        /\ ahash_max' = max
        /\ heap' = [heap EXCEPT ![table] = PutBucket(t, key, added.n)]
        /\ elements' = IF ret = "ok" THEN elements + 1 ELSE elements
        /\ table' = table
    BY <1>6 DEF type_pf_add, TUNE_AHASH_MAX
  <2>2. max \in Nat
    BY <1>1, SizeAssumption DEF tune_ahash_max
  <2>3. heap'[table] = PutBucket(t, key, added.n)
    BY <1>1, <2>1
  <2>4. CASE added.ret = "ok"
    <3>1. /\ added.n.value = n.value \cup {e}
          /\ added.n.pos = n.pos + 1
          /\ added.n \in Bucket
      <4> HIDE DEF n, max
      <4> QED
        BY <1>4, <2>2, <2>4, SizeAssumption DEF type_pf_elem_add, Bucket
    <3>2. IsFiniteSet(n.value)
      BY <1>4, ElemAssumption, FS_Subset DEF Bucket
    <3>3. added.n.pos = Cardinality(added.n.value)
      BY <1>4, <1>6, <3>1, <3>2, FS_AddElement
    <3> HIDE DEF added
    <3>4. Good(heap'[table]) /\ MembersOf(heap'[table]) = MembersOf(t) \cup {e}
      <4>1. /\ Good(PutBucket(t, HKEY(e, t.htable_bits), added.n))
            /\ MembersOf(PutBucket(t, HKEY(e, t.htable_bits), added.n)) = MembersOf(t) \cup {e}
        <5> HIDE DEF t
        <5> QED
          BY <1>1, <3>1, <3>3, PutAdds
      <4> QED
        BY <2>3, <4>1
    <3>5. e \notin MembersOf(t)
      BY <1>2, <1>6, TestIsMembership DEF type_pf_test
    <3>6. Cardinality(MembersOf(t) \cup {e}) = Cardinality(MembersOf(t)) + 1
      BY <1>2, <3>5, MembersType, FS_AddElement
    <3>7. elements < maxelem
      BY <1>6, SizeAssumption DEF Inv, TypeOK
    <3> QED
      BY <1>1, <2>1, <2>2, <2>3, <2>4, <3>4, <3>5, <3>6, <3>7 DEF WriteEffect
  <2>5. CASE added.ret # "ok"
    <3>1. added.n = n
      <4> HIDE DEF n, max
      <4> QED
        BY <2>5 DEF type_pf_elem_add
    <3>2. PutBucket(t, key, n) = t
      BY <1>2, <1>3 DEF PutBucket, IsHTable
    <3> QED
      BY <1>1, <2>1, <2>2, <2>3, <2>5, <3>1, <3>2 DEF WriteEffect
  <2> QED
    BY <2>4, <2>5
<1> QED
  BY <1>5, <1>6

\* type_pf_del leaves a good table whose members h->elements counts.
LEMMA DelEffect ==
    ASSUME Inv, WriteLock, NEW e \in Elem, NEW alloc \in BOOLEAN,
           type_pf_del(e, alloc), UNCHANGED <<rd, grace>>
    PROVE  WriteEffect /\ MembersOf(heap'[table]) = MembersOf(heap[table]) \ {e}
<1> DEFINE t   == heap[table]
           key == HKEY(e, t.htable_bits)
           n   == t.bucket[key]
           m   == elem_del(n, e, alloc)
<1>1. /\ table \in Block /\ heap = [i \in Block |-> heap[i]]
      /\ Good(t) /\ elements = Cardinality(MembersOf(t)) /\ ahash_max \in Nat
  BY DEF Inv, TypeOK, WriteLock, SetInv
<1>2. IsHTable(t) /\ Placed(t) /\ Counted(t)
  BY <1>1 DEF Good
<1>3. key \in BucketIndex(t.htable_bits)
  BY <1>2, MaskAssumption DEF IsHTable
<1>4. n \in Bucket /\ n.pos = Cardinality(n.value) /\ e \in n.value
  BY <1>2, <1>3 DEF IsHTable, Counted, type_pf_del
<1>5. IsFiniteSet(n.value)
  BY <1>4, ElemAssumption, FS_Subset DEF Bucket
<1>6. Cardinality(n.value \ {e}) = n.pos - 1 /\ Cardinality(n.value \ {e}) \in Nat
  BY <1>4, <1>5, FS_RemoveElement, FS_CardinalityType, FS_Subset
<1>7. m \in Bucket /\ m.value = n.value \ {e} /\ m.pos = n.pos - 1
  <2> HIDE DEF n
  <2> QED
    BY <1>4, <1>6, SizeAssumption DEF elem_del, Bucket
<1>8. heap'[table] = PutBucket(t, key, m)
  BY <1>1 DEF type_pf_del
<1> HIDE DEF m
<1>9. Good(heap'[table]) /\ MembersOf(heap'[table]) = MembersOf(t) \ {e}
  <2>1. m.pos = Cardinality(m.value)
    BY <1>6, <1>7
  <2>2. /\ Good(PutBucket(t, HKEY(e, t.htable_bits), m))
        /\ MembersOf(PutBucket(t, HKEY(e, t.htable_bits), m)) = MembersOf(t) \ {e}
    <3> HIDE DEF t
    <3> QED
      BY <1>1, <1>7, <2>1, PutDeletes
  <2> QED
    BY <1>8, <2>2
<1>10. e \in MembersOf(t)
  BY <1>2, <1>4, TestIsMembership DEF type_pf_test
<1>11. Cardinality(MembersOf(t) \ {e}) = elements - 1
  BY <1>1, <1>2, <1>10, MembersType, FS_RemoveElement
<1> QED
  BY <1>1, <1>8, <1>9, <1>11 DEF WriteEffect, type_pf_del, m

(***************************************************************************)
(* Every step preserves the invariant                                      *)
(***************************************************************************)
LEMMA InitInv == Init => Inv
<1> SUFFICES ASSUME Init PROVE Inv
  OBVIOUS
<1>1. InitBits \in Bits /\ 0 \in Bits
  BY SizeAssumption DEF Bits
<1>2. /\ Good(EmptyTable(InitBits)) /\ MembersOf(EmptyTable(InitBits)) = {}
      /\ IsHTable(EmptyTable(InitBits)) /\ EmptyTable(InitBits) # NULL
  BY <1>1, EmptyTableGood, TableNotNull DEF Good
<1>3. heap[0] = EmptyTable(InitBits) /\ heap[1] = NULL /\ table = 0
  BY DEF Init, Block
<1>4. TypeOK
  <2>1. /\ heap = [i \in Block |-> heap[i]]
        /\ \A i \in Block : heap[i] = NULL \/ IsHTable(heap[i])
    BY <1>2, <1>3 DEF Init, Block
  <2>2. AHASH_MAX_SIZE \in Nat
    BY SizeAssumption DEF AHASH_MAX_SIZE
  <2> QED
    BY <1>1, <1>3, <2>1, <2>2 DEF Init, TypeOK, Block
<1>5. \A i \in Block : heap[i] # NULL => Good(heap[i])
  BY <1>2, <1>3 DEF Block
<1>6. SetInv
  BY <1>2, <1>3, FS_EmptySet DEF SetInv, Init
<1>7. NoSetInv /\ CopyInv /\ ReaderInv
  BY <1>3, ElemAssumption DEF Init, NoSetInv, CopyInv, ReaderInv, Block
<1> QED
  BY <1>4, <1>5, <1>6, <1>7 DEF Inv, Init

\* Adding, from userspace or the packet path, first try or retry.
LEMMA AddInv ==
    ASSUME Inv, NEW e \in Elem, UserAdd(e) \/ KernelAdd(e) \/ RetryAdd
    PROVE  Inv'
<1>1. PICK x \in Elem, alloc \in BOOLEAN,
           ret \in {"ok", "EXIST", "HASH_FULL", "ENOMEM", "EAGAIN"} :
        /\ WriteLock /\ type_pf_add(x, alloc, ret)
        /\ UNCHANGED <<rd, grace, dvars>>
        /\ \/ UNCHANGED uvars
           \/ /\ upc' = IF ret = "EAGAIN" THEN "resize" ELSE "idle"
              /\ uval' = IF ret = "EAGAIN" THEN x ELSE NULL
              /\ ubits' = IF ret = "EAGAIN" THEN heap[table].htable_bits ELSE 0
  <2>1. CASE UserAdd(e)
    BY <2>1 DEF UserAdd, uadd
  <2>2. CASE KernelAdd(e)
    BY <2>2 DEF KernelAdd
  <2>3. CASE RetryAdd
    BY <2>3 DEF RetryAdd, uadd, Inv
  <2> QED
    BY <2>1, <2>2, <2>3
<1>2. WriteEffect
  BY <1>1, AddEffect
<1>3. heap[table].htable_bits \in Bits /\ 0 \in Bits
  BY <1>1, SizeAssumption DEF Inv, TypeOK, WriteLock, SetInv, Good, IsHTable, Bits
<1>4. /\ upc' \in {"idle", "resize", "sync", "retry"}
      /\ uval' \in Elem \cup {NULL} /\ (upc' # "idle" => uval' \in Elem)
      /\ ubits' \in Bits
  BY <1>1, <1>3 DEF Inv, TypeOK, uvars, WriteLock
<1>5. /\ dumping' \in BOOLEAN /\ cursor' \in Nat /\ seen' \in SUBSET Elem
      /\ owed' \in SUBSET Elem /\ missed' \in SUBSET Elem
  BY <1>1 DEF Inv, TypeOK, dvars
<1> QED
  BY <1>1, <1>2, <1>4, <1>5, WritePreserves

\* type_pf_del, from either side, preserves the invariant: the counter goes
\* down with the bucket.
LEMMA DelInv ==
    ASSUME Inv, NEW e \in Elem, Del(e)
    PROVE  Inv'
<1>1. WriteEffect
  BY DelEffect DEF Del
<1>2. /\ upc' \in {"idle", "resize", "sync", "retry"} /\ ubits' \in Bits
      /\ uval' \in Elem \cup {NULL} /\ (upc' # "idle" => uval' \in Elem)
  BY DEF Inv, TypeOK, Del, uvars, WriteLock
<1>3. /\ dumping' \in BOOLEAN /\ cursor' \in Nat /\ seen' \in SUBSET Elem
      /\ owed' \in SUBSET Elem /\ missed' \in SUBSET Elem
  BY DEF Inv, TypeOK, Del, type_pf_del
<1> QED
  BY <1>1, <1>2, <1>3, WritePreserves DEF Del

\* ip_set_hash_flush preserves the invariant: all buckets and the counter are
\* cleared together.
LEMMA FlushInv ==
    ASSUME Inv, ip_set_hash_flush
    PROVE  Inv'
<1>1. table \in Block /\ heap = [i \in Block |-> heap[i]] /\ heap[table].htable_bits \in Bits
  BY DEF ip_set_hash_flush, WriteLock, Inv, TypeOK, SetInv, Good, IsHTable
<1>2. heap'[table] = EmptyTable(heap[table].htable_bits)
  BY <1>1 DEF ip_set_hash_flush
<1>3. Good(heap'[table]) /\ MembersOf(heap'[table]) = {}
  BY <1>1, <1>2, EmptyTableGood
<1>4. WriteEffect
  BY <1>1, <1>2, <1>3, FS_EmptySet DEF WriteEffect, ip_set_hash_flush, Inv, TypeOK
<1>5. /\ upc' \in {"idle", "resize", "sync", "retry"} /\ ubits' \in Bits
      /\ uval' \in Elem \cup {NULL} /\ (upc' # "idle" => uval' \in Elem)
  BY DEF Inv, TypeOK, ip_set_hash_flush, uvars
<1>6. /\ dumping' \in BOOLEAN /\ cursor' \in Nat /\ seen' \in SUBSET Elem
      /\ owed' \in SUBSET Elem /\ missed' \in SUBSET Elem
  BY DEF Inv, TypeOK, ip_set_hash_flush
<1> QED
  BY <1>4, <1>5, <1>6, WritePreserves DEF ip_set_hash_flush

\* ip_set_hash_destroy preserves the invariant: no reader or resize is left.
LEMMA DestroyInv ==
    ASSUME Inv, ip_set_hash_destroy
    PROVE  Inv'
<1>1. /\ table \in Block /\ table' = NULL /\ heap = [i \in Block |-> heap[i]]
      /\ \A p \in Process : rd'[p] = NULL
      /\ upc' = "idle" /\ heap' = [heap EXCEPT ![table] = NULL]
  BY DEF ip_set_hash_destroy, WriteLock, Inv, TypeOK, uvars
<1>2. TypeOK'
  BY <1>1 DEF ip_set_hash_destroy, Inv, TypeOK, uvars, dvars
<1>3. (\A i \in Block : heap[i] # NULL => Good(heap[i]))'
  BY <1>1 DEF Inv
<1>4. SetInv' /\ NoSetInv' /\ CopyInv' /\ ReaderInv'
  BY <1>1 DEF SetInv, NoSetInv, CopyInv, ReaderInv
<1> QED
  BY <1>1, <1>2, <1>3, <1>4 DEF Inv

\* Creating a set preserves the invariant.
LEMMA CreateInv ==
    ASSUME Inv, Create
    PROVE  Inv'
<1>1. /\ table' = 0 /\ heap = [i \in Block |-> heap[i]]
      /\ \A p \in Process : rd'[p] = NULL
      /\ upc' = "idle" /\ heap' = [heap EXCEPT ![0] = EmptyTable(InitBits)]
  BY DEF Create, Inv, TypeOK, NoSetInv, uvars
<1>2. /\ Good(EmptyTable(InitBits)) /\ MembersOf(EmptyTable(InitBits)) = {}
      /\ IsHTable(EmptyTable(InitBits)) /\ EmptyTable(InitBits) # NULL
  BY SizeAssumption, EmptyTableGood, TableNotNull DEF Good
<1>3. heap'[0] = EmptyTable(InitBits) /\ heap'[1] = heap[1]
  BY <1>1 DEF Block
<1>4. TypeOK'
  <2>1. heap' = [i \in Block |-> heap'[i]]
    BY <1>1
  <2>2. (\A i \in Block : heap[i] = NULL \/ IsHTable(heap[i]))'
    BY <1>2, <1>3 DEF Inv, TypeOK, Block
  <2>3. AHASH_MAX_SIZE \in Nat
    BY SizeAssumption DEF AHASH_MAX_SIZE
  <2> QED
    BY <1>1, <2>1, <2>2, <2>3 DEF Create, Inv, TypeOK, uvars, dvars, Block
<1>5. (\A i \in Block : heap[i] # NULL => Good(heap[i]))'
  BY <1>2, <1>3 DEF Inv, Block
<1>6. SetInv'
  BY <1>1, <1>2, <1>3, FS_EmptySet DEF SetInv, Create
<1>7. NoSetInv' /\ CopyInv' /\ ReaderInv'
  BY <1>1, ElemAssumption DEF NoSetInv, CopyInv, ReaderInv, Block
<1> QED
  BY <1>1, <1>4, <1>5, <1>6, <1>7 DEF Inv

\* The copy of type_pf_resize preserves the invariant: it leaves h->table alone
\* and fills a table with the same elements.
LEMMA ResizeCopyInv ==
    ASSUME Inv, ResizeCopy
    PROVE  Inv'
<1> DEFINE bits == NextBits(ubits)
           t    == rehash(heap[table], bits)
<1>1. /\ upc = "resize" /\ table \in Block /\ table' = table /\ heap[table] # NULL
      /\ heap = [i \in Block |-> heap[i]] /\ 1 - table \in Block /\ 1 - table # table
      /\ IsHTable(heap[table]) /\ Good(heap[table])
      /\ UNCHANGED <<rd, grace, elements, ahash_max, dvars>>
  BY DEF ResizeCopy, Inv, TypeOK, NoSetInv, SetInv, Block
<1>2. 0 \in Bits /\ bits \in Bits
  BY SizeAssumption DEF Inv, TypeOK, NextBits, Bits
<1>3. /\ Good(t) /\ IsHTable(t) /\ t # NULL
      /\ MembersOf(t) = MembersOf(heap[table])
  BY <1>1, <1>2, RehashGood, TableNotNull DEF Good
<1>4. \A p \in Process : rd[p] # NULL => rd[p] = table
  BY <1>1 DEF Inv, ReaderInv
<1> HIDE DEF t
<1>5. CASE /\ upc' = "idle" /\ uval' = NULL /\ ubits' = 0
           /\ heap' = heap
  <2>1. TypeOK'
    BY <1>1, <1>2, <1>5 DEF Inv, TypeOK, dvars
  <2> QED
    BY <1>1, <1>4, <1>5, <2>1 DEF Inv, SetInv, NoSetInv, CopyInv, ReaderInv
<1>6. CASE /\ upc' = "resize" /\ heap' = heap /\ ubits' = bits /\ uval' = uval
  <2>1. TypeOK'
    BY <1>1, <1>2, <1>6 DEF Inv, TypeOK, dvars
  <2> QED
    BY <1>1, <1>4, <1>6, <2>1 DEF Inv, SetInv, NoSetInv, CopyInv, ReaderInv
<1>7. CASE /\ upc' = "publish" /\ ubits' = bits /\ uval' = uval
           /\ heap' = [heap EXCEPT ![1 - table] = t]
  <2>1. heap'[table] = heap[table] /\ heap'[1 - table] = t
    BY <1>1, <1>7
  <2>2. \A i \in Block : i = table \/ i = 1 - table
    BY <1>1 DEF Block
  <2>3. TypeOK'
    <3>1. heap' = [i \in Block |-> heap'[i]]
      BY <1>1, <1>7
    <3>2. (\A i \in Block : heap[i] = NULL \/ IsHTable(heap[i]))'
      BY <1>1, <1>3, <2>1, <2>2
    <3> QED
      BY <1>1, <1>2, <1>7, <3>1, <3>2 DEF Inv, TypeOK, dvars
  <2>4. (\A i \in Block : heap[i] # NULL => Good(heap[i]))'
    BY <1>1, <1>3, <2>1, <2>2
  <2>5. SetInv' /\ NoSetInv' /\ CopyInv'
    BY <1>1, <1>3, <1>7, <2>1 DEF Inv, SetInv, NoSetInv, CopyInv
  <2>6. ReaderInv'
    BY <1>1, <1>4, <2>1 DEF ReaderInv
  <2> QED
    BY <1>1, <1>7, <2>3, <2>4, <2>5, <2>6 DEF Inv
<1> QED
  BY <1>1, <1>5, <1>6, <1>7 DEF ResizeCopy, t

\* rcu_assign_pointer in type_pf_resize preserves the invariant: the new table
\* holds the elements the counter counts, and readers keep the old one.
LEMMA ResizePublishInv ==
    ASSUME Inv, ResizePublish
    PROVE  Inv'
<1>1. /\ upc = "publish" /\ table \in Block /\ table' = 1 - table /\ 1 - table \in Block
      /\ 1 - (1 - table) = table /\ table # NULL /\ 1 - table # NULL
      /\ upc' = "sync" /\ grace' = {p \in Process : rd[p] # NULL}
      /\ UNCHANGED <<heap, elements, ahash_max, uval, ubits, rd, dvars>>
  BY ElemAssumption DEF ResizePublish, Inv, TypeOK, NoSetInv, Block
<1>2. TypeOK'
  BY <1>1 DEF Inv, TypeOK, dvars
<1>3. SetInv' /\ NoSetInv' /\ CopyInv' /\ ReaderInv'
  BY <1>1 DEF Inv, SetInv, NoSetInv, CopyInv, ReaderInv
<1> QED
  BY <1>1, <1>2, <1>3 DEF Inv

\* ahash_destroy(orig) in type_pf_resize preserves the invariant: after the grace
\* period no reader holds the old table.
LEMMA ResizeFreeInv ==
    ASSUME Inv, ResizeFree
    PROVE  Inv'
<1>1. /\ upc = "sync" /\ table \in Block /\ table' = table /\ table # NULL
      /\ 1 - table \in Block /\ 1 - table # table
      /\ heap = [i \in Block |-> heap[i]]
      /\ heap' = [heap EXCEPT ![1 - table] = NULL]
      /\ upc' = "retry" /\ grace = {}
      /\ UNCHANGED <<elements, ahash_max, uval, ubits, rd, grace, dvars>>
  BY ElemAssumption DEF ResizeFree, Inv, TypeOK, NoSetInv, Block
<1>2. heap'[table] = heap[table] /\ heap'[1 - table] = NULL
  BY <1>1
<1>3. \A i \in Block : i = table \/ i = 1 - table
  BY <1>1 DEF Block
<1>4. \A p \in Process : rd[p] # NULL => rd[p] = table
  BY <1>1 DEF Inv, ReaderInv
<1>5. TypeOK'
  <2>1. heap' = [i \in Block |-> heap'[i]]
    BY <1>1
  <2>2. (\A i \in Block : heap[i] = NULL \/ IsHTable(heap[i]))'
    BY <1>2, <1>3 DEF Inv, TypeOK
  <2> QED
    BY <1>1, <2>1, <2>2 DEF Inv, TypeOK, dvars
<1>6. (\A i \in Block : heap[i] # NULL => Good(heap[i]))'
  BY <1>2, <1>3 DEF Inv
<1>7. SetInv' /\ NoSetInv' /\ CopyInv'
  BY <1>1, <1>2 DEF Inv, SetInv, NoSetInv, CopyInv
<1>8. ReaderInv'
  BY <1>1, <1>2, <1>4 DEF Inv, ReaderInv
<1> QED
  BY <1>1, <1>5, <1>6, <1>7, <1>8 DEF Inv

\* Taking the read lock and dereferencing h->table.
LEMMA ReadLockInv ==
    ASSUME Inv, NEW p \in Process, ReadLock(p), UNCHANGED <<hvars, uvars, grace, dvars>>
    PROVE  Inv'
<1>1. table # NULL /\ table \in Block /\ rd' = [rd EXCEPT ![p] = table]
  BY DEF ReadLock, Inv, TypeOK
<1>2. TypeOK'
  BY <1>1 DEF Inv, TypeOK, hvars, uvars, dvars
<1>3. SetInv' /\ NoSetInv' /\ CopyInv'
  BY <1>1 DEF Inv, SetInv, NoSetInv, CopyInv, hvars, uvars
<1>4. ReaderInv'
  BY <1>1 DEF Inv, TypeOK, SetInv, ReaderInv, hvars, uvars
<1> QED
  BY <1>2, <1>3, <1>4 DEF Inv, hvars, uvars

\* Dropping it, with whatever a listing does to its own state.
LEMMA ReadUnlockInv ==
    ASSUME Inv, NEW p \in Process, ReadUnlock(p), UNCHANGED <<hvars, uvars>>,
           dumping' \in BOOLEAN, cursor' \in Nat,
           seen' \in SUBSET Elem, owed' \in SUBSET Elem, missed' \in SUBSET Elem
    PROVE  Inv'
<1>1. rd' = [rd EXCEPT ![p] = NULL] /\ grace' = grace \ {p}
  BY DEF ReadUnlock
<1>2. TypeOK'
  BY <1>1 DEF Inv, TypeOK, hvars, uvars
<1>3. SetInv' /\ NoSetInv' /\ CopyInv'
  BY <1>1 DEF Inv, TypeOK, SetInv, NoSetInv, CopyInv, hvars, uvars
<1>4. ReaderInv'
  BY <1>1 DEF Inv, TypeOK, ReaderInv, hvars, uvars
<1> QED
  BY <1>2, <1>3, <1>4 DEF Inv, hvars, uvars

\* Starting a listing preserves the invariant.
LEMMA ListStartInv ==
    ASSUME Inv, ListStart
    PROVE  Inv'
<1>1. Members \in SUBSET Elem
  BY MembersType DEF ListStart, Members, Inv, SetInv, TypeOK, Good
<1>2. TypeOK'
  BY <1>1 DEF ListStart, Inv, TypeOK, hvars, uvars
<1> QED
  BY <1>2 DEF ListStart, Inv, SetInv, NoSetInv, CopyInv, ReaderInv, hvars, uvars

\* A message of type_pf_list preserves the invariant: it only reads the table.
LEMMA ListInv ==
    ASSUME Inv, type_pf_list
    PROVE  Inv'
<1> DEFINE t       == heap[rd[Dumper]]
           size    == jhash_size(t.htable_bits)
           Upto(j) == UNION {t.bucket[i].value : i \in cursor .. j - 1}
<1>1. Dumper \in Process /\ ReadUnlock(Dumper) /\ UNCHANGED <<hvars, uvars>>
  BY DEF type_pf_list, Process
<1>2. IsHTable(t)
  BY <1>1 DEF ReadUnlock, Inv, ReaderInv, TypeOK, Good
<1>3. size \in Nat /\ cursor \in Nat
  BY <1>2, MaskAssumption DEF IsHTable, Inv, TypeOK
<1>4. \A j \in cursor .. size : Upto(j) \subseteq Elem
  <2> SUFFICES ASSUME NEW j \in cursor .. size, NEW i \in cursor .. j - 1
               PROVE  t.bucket[i].value \subseteq Elem
    OBVIOUS
  <2>1. i \in BucketIndex(t.htable_bits)
    BY <1>3 DEF BucketIndex
  <2> QED
    BY <1>2, <2>1 DEF IsHTable, Bucket
<1>5. PICK stop \in cursor .. size :
        \/ ListDone(Upto(size)) \/ ListMore(Upto(stop), stop) \/ ListFail
  BY DEF type_pf_list
<1>6. Upto(stop) \subseteq Elem /\ stop \in Nat
  BY <1>3, <1>4
<1> HIDE DEF Upto, size
<1>7. /\ dumping' \in BOOLEAN /\ cursor' \in Nat /\ seen' \in SUBSET Elem
      /\ owed' \in SUBSET Elem /\ missed' \in SUBSET Elem
  <2>1. /\ dumping \in BOOLEAN /\ seen \in SUBSET Elem
        /\ owed \in SUBSET Elem /\ missed \in SUBSET Elem
    BY DEF Inv, TypeOK
  <2>2. CASE ListDone(Upto(size))
    BY <2>1, <2>2 DEF ListDone
  <2>3. CASE ListMore(Upto(stop), stop)
    BY <1>6, <2>1, <2>3 DEF ListMore
  <2>4. CASE ListFail
    BY <2>1, <2>4 DEF ListFail
  <2> QED
    BY <1>5, <2>2, <2>3, <2>4
<1> QED
  BY <1>1, <1>7, ReadUnlockInv

\* Every step preserves the inductive invariant.
LEMMA NextInv == Inv /\ [Next]_vars => Inv'
<1> SUFFICES ASSUME Inv, [Next]_vars PROVE Inv'
  OBVIOUS
<1>1. ASSUME NEW e \in Elem, UserAdd(e) \/ KernelAdd(e) PROVE Inv'
  BY <1>1, AddInv
<1>2. CASE RetryAdd
  <2>1. uval \in Elem
    BY <1>2 DEF RetryAdd, Inv
  <2> QED
    BY <1>2, <2>1, AddInv
<1>3. ASSUME NEW e \in Elem, Del(e) PROVE Inv'
  BY <1>3, DelInv
<1>4. CASE ip_set_hash_flush \/ ip_set_hash_destroy \/ Create
  BY <1>4, FlushInv, DestroyInv, CreateInv
<1>5. CASE ResizeCopy \/ ResizePublish \/ ResizeFree
  BY <1>5, ResizeCopyInv, ResizePublishInv, ResizeFreeInv
<1>6. ASSUME NEW p \in Reader, TestBegin(p) PROVE Inv'
  BY <1>6, ReadLockInv DEF TestBegin, Process
<1>7. ASSUME NEW p \in Reader, TestEnd(p) PROVE Inv'
  BY <1>7, ReadUnlockInv DEF TestEnd, Process, Inv, TypeOK, dvars
<1>8. CASE ListStart
  BY <1>8, ListStartInv
<1>9. CASE ListBegin
  BY <1>9, ReadLockInv DEF ListBegin, Process
<1>10. CASE type_pf_list
  BY <1>10, ListInv
<1>11. CASE UNCHANGED vars
  BY <1>11 DEF vars, hvars, uvars, dvars, Inv, TypeOK, SetInv, NoSetInv, CopyInv, ReaderInv
<1> QED
  BY <1>1, <1>2, <1>3, <1>4, <1>5, <1>6, <1>7, <1>8, <1>9, <1>10, <1>11 DEF Next

(***************************************************************************)
(* The theorems                                                            *)
(***************************************************************************)
\* Every variable of the array hash keeps its type, for any elements, hash,
\* table width and number of readers.
THEOREM TypeCorrect == Spec => []TypeOK
<1>1. Inv => TypeOK
  BY DEF Inv
<1> QED
  BY <1>1, InitInv, NextInv, PTL DEF Spec

\* h->elements and every bucket's pos are exact in every reachable state: the
\* counters type_pf_resize spares, and those type_pf_add, type_pf_del and
\* ip_set_hash_flush maintain, never drift from the contents of the table.
THEOREM CountersExact == Spec => []CountExact
<1>1. Inv => CountExact
  BY DEF Inv, TypeOK, SetInv, Good, Counted, CountExact, Members
<1> QED
  BY <1>1, InitInv, NextInv, PTL DEF Spec

\* The grace period of type_pf_resize is enough: no reader ever uses a freed
\* table, and a reader on the retired table gets from type_pf_test the answer
\* of the current one.
THEOREM ReadersSafe == Spec => []ReaderView
<1>1. Inv => ReaderView
  <2> SUFFICES ASSUME Inv, NEW p \in Process, rd[p] # NULL
               PROVE  /\ heap[rd[p]] # NULL
                      /\ \A e \in Elem : type_pf_test(heap[rd[p]], e) <=> e \in Members
    BY DEF ReaderView
  <2>1. /\ heap[rd[p]] # NULL /\ table # NULL /\ rd[p] \in Block
        /\ MembersOf(heap[rd[p]]) = Members
    BY DEF Inv, TypeOK, ReaderInv, NoSetInv, Members
  <2>2. IsHTable(heap[rd[p]]) /\ Placed(heap[rd[p]])
    BY <2>1 DEF Inv, Good
  <2> QED
    BY <2>1, <2>2, TestIsMembership
<1> QED
  BY <1>1, InitInv, NextInv, PTL DEF Spec

\* A step that leaves the current table alone, or replaces it by one with the
\* same members, is a stuttering step of the bounded set.
LEMMA StepRefines == Inv /\ [Next]_vars => [Abstract!Next]_Members
<1> SUFFICES ASSUME Inv, [Next]_vars PROVE [Abstract!Next]_Members
  OBVIOUS
<1> USE DEF Members
<1>1. ASSUME NEW e \in Elem, UserAdd(e) \/ KernelAdd(e) \/ (RetryAdd /\ e = uval)
      PROVE  [Abstract!Next]_Members
  <2>1. PICK alloc \in BOOLEAN, ret \in {"ok", "EXIST", "HASH_FULL", "ENOMEM", "EAGAIN"} :
          WriteLock /\ type_pf_add(e, alloc, ret) /\ UNCHANGED <<rd, grace>>
    BY <1>1 DEF UserAdd, KernelAdd, RetryAdd, uadd
  <2>2. /\ table # NULL /\ table' = table
        /\ \/ MembersOf(heap'[table]) = MembersOf(heap[table])
           \/ /\ e \notin MembersOf(heap[table])
              /\ elements < maxelem
              /\ MembersOf(heap'[table]) = MembersOf(heap[table]) \cup {e}
    BY <2>1, AddEffect DEF WriteEffect, WriteLock
  <2>3. elements = Cardinality(MembersOf(heap[table]))
    BY <2>2 DEF Inv, SetInv
  <2> QED
    BY <2>2, <2>3 DEF Abstract!Next, Abstract!Add, Abstract!Cardinality, Cardinality
<1>2. ASSUME NEW e \in Elem, Del(e) PROVE [Abstract!Next]_Members
  <2>1. /\ table # NULL /\ table' = table
        /\ MembersOf(heap'[table]) = MembersOf(heap[table]) \ {e}
    BY <1>2, DelEffect DEF Del, WriteEffect, WriteLock
  <2> QED
    BY <2>1 DEF Abstract!Next, Abstract!Del
<1>3. CASE ip_set_hash_flush
  <2>1. /\ table # NULL /\ table' = table /\ table \in Block
        /\ heap = [i \in Block |-> heap[i]] /\ heap[table].htable_bits \in Bits
    BY <1>3 DEF ip_set_hash_flush, WriteLock, Inv, TypeOK, SetInv, IsHTable
  <2>2. heap'[table] = EmptyTable(heap[table].htable_bits)
    BY <1>3, <2>1 DEF ip_set_hash_flush
  <2> QED
    BY <2>1, <2>2, EmptyTableGood DEF Abstract!Next, Abstract!Flush
<1>4. CASE ip_set_hash_destroy
  BY <1>4 DEF ip_set_hash_destroy, Abstract!Next, Abstract!Flush
<1>5. CASE Create
  <2>1. heap'[0] = EmptyTable(InitBits) /\ table' = 0
    BY <1>5 DEF Create, Inv, TypeOK, Block
  <2> QED
    BY <2>1, EmptyTableGood, SizeAssumption, <1>5 DEF Create, Abstract!Next, Abstract!Flush
<1>6. CASE ResizeCopy
  <2>1. /\ upc = "resize" /\ table' = table /\ table \in Block /\ 1 - table # table
        /\ table # NULL /\ heap = [i \in Block |-> heap[i]]
    BY <1>6, ElemAssumption DEF ResizeCopy, Inv, TypeOK, NoSetInv, Block
  <2>2. heap'[table] = heap[table]
    BY <1>6, <2>1 DEF ResizeCopy
  <2> QED
    BY <2>1, <2>2
<1>7. CASE ResizePublish
  BY <1>7, ElemAssumption DEF ResizePublish, Inv, TypeOK, NoSetInv, CopyInv, Block
<1>8. CASE ResizeFree
  <2>1. /\ upc = "sync" /\ table' = table /\ table \in Block /\ 1 - table # table
        /\ table # NULL /\ heap = [i \in Block |-> heap[i]]
    BY <1>8, ElemAssumption DEF ResizeFree, Inv, TypeOK, NoSetInv, Block
  <2>2. heap'[table] = heap[table]
    BY <1>8, <2>1 DEF ResizeFree
  <2> QED
    BY <2>1, <2>2
<1>9. CASE UNCHANGED hvars
  BY <1>9 DEF hvars
<1>10. ASSUME NEW p \in Reader, TestBegin(p) \/ TestEnd(p) PROVE [Abstract!Next]_Members
  BY <1>9, <1>10 DEF TestBegin, TestEnd
<1>11. CASE ListStart \/ ListBegin \/ type_pf_list
  BY <1>9, <1>11 DEF ListStart, ListBegin, type_pf_list
<1>12. CASE RetryAdd
  BY <1>1, <1>12 DEF RetryAdd, Inv
<1>13. CASE UNCHANGED vars
  BY <1>9, <1>13 DEF vars
<1> QED
  BY <1>1, <1>2, <1>3, <1>4, <1>5, <1>6, <1>7, <1>8, <1>10, <1>11, <1>12, <1>13 DEF Next

\* The array hash implements the bounded set of module IpSet: whatever the
\* interleaving of commands, packets, listings and the phases of a resize, the
\* elements a test finds change only by an add that had room, a delete or a
\* flush.
THEOREM Refinement == Spec => ImplementsIpSet
<1>1. Init => Abstract!Init
  <2> SUFFICES ASSUME Init PROVE Members = {}
    BY DEF Abstract!Init
  <2>1. table = 0 /\ heap[0] = EmptyTable(InitBits)
    BY DEF Init, Block
  <2> QED
    BY <2>1, EmptyTableGood, SizeAssumption, ElemAssumption DEF Members, Block
<1> QED
  BY <1>1, InitInv, NextInv, StepRefines, PTL DEF Spec, ImplementsIpSet, Abstract!Spec
=============================================================================
