------------------------- MODULE RelayStoreFSProofs -------------------------
(***************************************************************************)
(* Proofs about RelayStoreFS, for any owners, blob ids, record sizes, caps,*)
(* handlers, clock and number of crashes.                                  *)
(***************************************************************************)
EXTENDS RelayStoreFS, FiniteSetTheorems, TLAPS

-----------------------------------------------------------------------------
\* Byte cells: how writing and removing one record changes what is counted.

Contents == [Key -> Entry]

\* There are finitely many keys, in all and of one owner.
LEMMA FiniteKeys == IsFiniteSet(Key) /\ \A i \in Identity : IsFiniteSet(KeysOf(i)) /\ KeysOf(i) \subseteq Key
<1>1. IsFiniteSet(Key)
  BY StoreAssumption, FS_Product DEF Key
<1>2. \A i \in Identity : KeysOf(i) \subseteq Key
  BY DEF Key, KeysOf
<1>3. QED
  BY <1>1, <1>2, FS_Subset

\* What is stored is finite, so that counting it gives a number.
LEMMA FiniteCells ==
  ASSUME NEW f, NEW ks, IsFiniteSet(ks)
  PROVE  /\ IsFiniteSet(Cells(f, ks)) /\ Cardinality(Cells(f, ks)) \in Nat
         /\ IsFiniteSet(Present(f, ks)) /\ Cardinality(Present(f, ks)) \in Nat
<1>1. IsFiniteSet(1..MaxSize)
  BY StoreAssumption, FS_Interval
<1>2. IsFiniteSet(ks \X (1..MaxSize))
  BY <1>1, FS_Product
<1>3. Cells(f, ks) \subseteq ks \X (1..MaxSize) /\ Present(f, ks) \subseteq ks
  BY DEF Cells, Present
<1>4. QED
  BY <1>2, <1>3, FS_Subset, FS_CardinalityType

\* The contents f and g are the same but for the key k.
Differ(f, g, k) == \A j \in Key \ {k} : g[j] = f[j]

\* A record under a key that had none adds its size and one to what is counted.
LEMMA AddRecord ==
  ASSUME NEW f \in Contents, NEW k \in Key, NEW r \in Record, f[k] = Absent,
         NEW g \in Contents, Differ(f, g, k), g[k] = r,
         NEW ks \in SUBSET Key, IsFiniteSet(ks), k \in ks
  PROVE  /\ Cardinality(Cells(g, ks)) = Cardinality(Cells(f, ks)) + r.size
         /\ Cardinality(Present(g, ks)) = Cardinality(Present(f, ks)) + 1
<1> DEFINE new == {k} \X (1..r.size)
<1>1. r.size \in 1..MaxSize /\ MaxSize \in Nat
  BY StoreAssumption DEF Record
<1>2. IsFiniteSet(new) /\ Cardinality(new) = r.size
  <2>1. IsFiniteSet({k}) /\ Cardinality({k}) = 1
    BY FS_Singleton
  <2>2. IsFiniteSet(1..r.size) /\ Cardinality(1..r.size) = r.size
    BY <1>1, FS_Interval
  <2>3. IsFiniteSet(new) /\ Cardinality(new) = Cardinality({k}) * Cardinality(1..r.size)
    BY <2>1, <2>2, FS_Product
  <2>4. QED
    BY <1>1, <2>1, <2>2, <2>3
<1>3. \A j \in ks : j # k => g[j] = f[j]
  BY DEF Differ
<1>4. g[k] = r /\ f[k].size = 0
  BY DEF Absent
<1>5. Cells(g, ks) = Cells(f, ks) \cup new
  BY <1>1, <1>3, <1>4 DEF Cells
<1>6. Cells(f, ks) \cap new = {}
  BY <1>4 DEF Cells
<1>7. Cardinality(Cells(g, ks)) = Cardinality(Cells(f, ks)) + r.size
  <2>1. IsFiniteSet(Cells(f, ks)) /\ Cardinality(Cells(f, ks)) \in Nat
    BY FiniteCells
  <2>2. Cardinality(Cells(f, ks) \cup new)
          = Cardinality(Cells(f, ks)) + Cardinality(new) - Cardinality(Cells(f, ks) \cap new)
    BY <1>2, <2>1, FS_Union
  <2>3. Cardinality(Cells(f, ks) \cap new) = 0
    BY <1>6, FS_EmptySet
  <2>4. r.size \in Int
    BY <1>1
  <2> HIDE DEF new
  <2>5. QED
    BY <1>2, <1>5, <2>1, <2>2, <2>3, <2>4
<1>8. Present(g, ks) = Present(f, ks) \cup {k} /\ k \notin Present(f, ks)
  BY <1>1, <1>3, <1>4 DEF Present
<1>9. Cardinality(Present(g, ks)) = Cardinality(Present(f, ks)) + 1
  BY <1>8, FiniteCells, FS_AddElement
<1>10. QED
  BY <1>7, <1>9

\* Contents that agree on some keys count the same on them.
LEMMA OtherKeys ==
  ASSUME NEW f \in Contents, NEW k \in Key, NEW g \in Contents, Differ(f, g, k),
         NEW ks \in SUBSET Key, k \notin ks
  PROVE  Cells(g, ks) = Cells(f, ks) /\ Present(g, ks) = Present(f, ks)
<1>1. \A j \in ks : g[j] = f[j]
  BY DEF Differ
<1>2. QED
  BY <1>1 DEF Cells, Present

\* Usage and total are natural numbers for any contents.
LEMMA CountersAreNumbers ==
  ASSUME NEW f
  PROVE  /\ AllBytes(f) \in Nat
         /\ \A i \in Identity : Bytes(f, i) \in Nat /\ Count(f, i) \in Nat
<1>1. AllBytes(f) \in Nat
  <2>1. Cardinality(Cells(f, Key)) \in Nat
    BY FiniteKeys, FiniteCells
  <2>2. QED
    BY <2>1 DEF AllBytes, Key
<1>2. ASSUME NEW i \in Identity
      PROVE  Bytes(f, i) \in Nat /\ Count(f, i) \in Nat
  <2>1. /\ Cardinality(Cells(f, KeysOf(i))) \in Nat
        /\ Cardinality(Present(f, KeysOf(i))) \in Nat
    BY FiniteKeys, FiniteCells
  <2>2. QED
    BY <2>1 DEF Bytes, Count
<1>3. QED
  BY <1>1, <1>2

\* What one more record adds to the counters, and what it does not.
LEMMA AddCounts ==
  ASSUME NEW f \in Contents, NEW k \in Key, NEW r \in Record, f[k] = Absent,
         NEW g \in Contents, Differ(f, g, k), g[k] = r
  PROVE  /\ k[1] \in Identity /\ r.size \in 1..MaxSize
         /\ AllBytes(g) = AllBytes(f) + r.size
         /\ Bytes(g, k[1]) = Bytes(f, k[1]) + r.size
         /\ Count(g, k[1]) = Count(f, k[1]) + 1
         /\ \A i \in Identity : i # k[1] => /\ Bytes(g, i) = Bytes(f, i)
                                            /\ Count(g, i) = Count(f, i)
<1>1. k[1] \in Identity /\ k \in KeysOf(k[1]) /\ r.size \in 1..MaxSize
  BY DEF Key, KeysOf, Record
<1>2. AllBytes(g) = AllBytes(f) + r.size
  <2>1. Cardinality(Cells(g, Key)) = Cardinality(Cells(f, Key)) + r.size
    BY FiniteKeys, AddRecord
  <2>2. QED
    BY <2>1 DEF AllBytes, Key
<1>3. Bytes(g, k[1]) = Bytes(f, k[1]) + r.size /\ Count(g, k[1]) = Count(f, k[1]) + 1
  <2> DEFINE ks == KeysOf(k[1])
  <2>1. ks \in SUBSET Key /\ IsFiniteSet(ks) /\ k \in ks
    BY <1>1, FiniteKeys
  <2>2. /\ Cardinality(Cells(g, ks)) = Cardinality(Cells(f, ks)) + r.size
        /\ Cardinality(Present(g, ks)) = Cardinality(Present(f, ks)) + 1
    <3> HIDE DEF ks
    <3>1. QED
      BY <2>1, AddRecord
  <2>3. QED
    BY <2>2 DEF Bytes, Count
<1>4. ASSUME NEW i \in Identity, i # k[1]
      PROVE  Bytes(g, i) = Bytes(f, i) /\ Count(g, i) = Count(f, i)
  <2>1. k \notin KeysOf(i) /\ KeysOf(i) \in SUBSET Key
    BY <1>4, FiniteKeys DEF KeysOf
  <2>2. QED
    BY <2>1, OtherKeys DEF Bytes, Count
<1>5. QED
  BY <1>1, <1>2, <1>3, <1>4

\* What removing a record takes from the counters.
LEMMA RemoveCounts ==
  ASSUME NEW f \in Contents, NEW k \in Key, f[k] # Absent,
         NEW g \in Contents, Differ(f, g, k), g[k] = Absent
  PROVE  /\ k[1] \in Identity /\ f[k].size \in 1..MaxSize
         /\ AllBytes(g) = AllBytes(f) - f[k].size
         /\ Bytes(g, k[1]) = Bytes(f, k[1]) - f[k].size
         /\ Count(g, k[1]) = Count(f, k[1]) - 1
         /\ \A i \in Identity : i # k[1] => /\ Bytes(g, i) = Bytes(f, i)
                                            /\ Count(g, i) = Count(f, i)
<1>1. f[k] \in Record /\ Differ(g, f, k)
  BY DEF Contents, Entry, Differ
<1>2. /\ k[1] \in Identity /\ f[k].size \in 1..MaxSize
      /\ AllBytes(f) = AllBytes(g) + f[k].size
      /\ Bytes(f, k[1]) = Bytes(g, k[1]) + f[k].size
      /\ Count(f, k[1]) = Count(g, k[1]) + 1
      /\ \A i \in Identity : i # k[1] => /\ Bytes(f, i) = Bytes(g, i)
                                         /\ Count(f, i) = Count(g, i)
  BY <1>1, AddCounts
<1>3. AllBytes(g) \in Nat /\ Bytes(g, k[1]) \in Nat /\ Count(g, k[1]) \in Nat
  BY <1>2, CountersAreNumbers
<1>4. QED
  BY <1>2, <1>3

\* Nothing stored counts zero.
LEMMA EmptyCounts ==
  ASSUME NEW f, f = [k \in Key |-> Absent]
  PROVE  AllBytes(f) = 0 /\ \A i \in Identity : Bytes(f, i) = 0 /\ Count(f, i) = 0
<1>1. ASSUME NEW ks \in SUBSET Key
      PROVE  Cardinality(Cells(f, ks)) = 0 /\ Cardinality(Present(f, ks)) = 0
  <2>1. Cells(f, ks) = {} /\ Present(f, ks) = {}
    BY DEF Cells, Present, Absent
  <2>2. QED
    BY <2>1, FS_EmptySet
<1>2. Cardinality(Cells(f, Key)) = 0
  BY <1>1
<1>3. QED
  BY <1>1, <1>2, FiniteKeys DEF AllBytes, Bytes, Count, Key

-----------------------------------------------------------------------------
\* The inductive invariant.

Holding == {"renaming", "indexing", "unindexing"}

\* The write lock is held by the process inside a locked section, the relay is
\* down as a whole, and whoever works on something works on a key.
Locked ==
  /\ \A p \in Proc : pc[p] \in Holding <=> lock = p
  /\ \A p \in Proc : pc[p] = "down" <=> ~Up
  /\ pc[Sweeper] \in {"idle", "reaping", "unindexing", "down"}
  /\ \A p \in Proc : pc[p] \notin {"idle", "down"} => job[p].key \in Key

\* Files and index agree but for the key that the holder of the lock works on.
InStep ==
  Up =>
    /\ lock = Free => disk = index
    /\ \A p \in Proc :
         LET k == job[p].key
             r == job[p].rec
         IN /\ pc[p] = "renaming" => /\ r \in Record /\ index[k] = Absent
                                     /\ disk = index /\ Fits(k, r.size)
            /\ pc[p] = "indexing" => /\ r \in Record /\ index[k] = Absent
                                     /\ disk = [index EXCEPT ![k] = r]
            /\ pc[p] = "unindexing" => /\ index[k] # Absent
                                       /\ disk = [index EXCEPT ![k] = Absent]

\* The counters are those of the index.
Counted ==
  Up => /\ total = AllBytes(index)
        /\ \A i \in Identity : /\ bytes[i] = Bytes(index, i)
                               /\ count[i] = Count(index, i)
                               /\ i \notin known => count[i] = 0

\* What a reader may open is younger than its look at the index.
Fresh ==
  /\ \A p \in Handler : pc[p] = "opening" =>
       /\ job[p].at <= now
       /\ disk[job[p].key] # Absent => disk[job[p].key].exp > job[p].at
       /\ \A q \in Handler : pc[q] = "renaming" => job[q].rec.exp > job[p].at
  /\ ServesLive

IInv == TypeOK /\ Locked /\ InStep /\ Counted /\ TempsOwned

\* Every step keeps the types.
LEMMA TypeNext ==
  ASSUME TypeOK, Locked, [Next]_vars
  PROVE  TypeOK'
<1> USE DEF TypeOK, memory, Entry, Job, Stage, Why, NoJob, Finish, Proc
<1>1. ASSUME NEW p \in Handler, NEW k \in Key, NEW size \in 1..MaxSize, NEW ttl \in TTL,
             PutStart(p, k, size, ttl)
      PROVE  TypeOK'
  BY <1>1, StoreAssumption DEF PutStart, BeginPut, Record
<1>2. ASSUME NEW p \in Handler, PutRename(p)
      PROVE  TypeOK'
  BY <1>2 DEF PutRename
<1>3. ASSUME NEW p \in Handler, PutFail(p)
      PROVE  TypeOK'
  BY <1>3 DEF PutFail
<1>4. ASSUME NEW p \in Handler, PutIndex(p)
      PROVE  TypeOK'
  BY <1>4, StoreAssumption DEF PutIndex, Locked, Holding, indexAdd, Record, Key, Absent
<1>5. ASSUME NEW p \in Handler, NEW k \in Key, Lookup(p, k)
      PROVE  TypeOK'
  BY <1>5 DEF Lookup
<1>6. ASSUME NEW p \in Handler, Open(p)
      PROVE  TypeOK'
  <2>1. job[p] \in Job /\ (disk[job[p].key] \in Entry \/ pc[p] # "opening")
    BY DEF Locked
  <2>2. QED
    BY <1>6, <2>1 DEF Open
<1>7. ASSUME NEW p \in Handler, Answered(p)
      PROVE  TypeOK'
  BY <1>7 DEF Answered
<1>8. ASSUME NEW p \in Handler, NEW k \in Key, Delete(p, k)
      PROVE  TypeOK'
  BY <1>8 DEF Delete
<1>9. ASSUME SweepCollect
      PROVE  TypeOK'
  BY <1>9 DEF SweepCollect
<1>10. ASSUME NEW k \in Key, SweepNext(k)
      PROVE  TypeOK'
  BY <1>10 DEF SweepNext
<1>11. ASSUME NEW p \in Proc, ReapNothing(p)
      PROVE  TypeOK'
  BY <1>11 DEF ReapNothing
<1>12. ASSUME NEW p \in Proc, ReapFile(p)
      PROVE  TypeOK'
  BY <1>12 DEF ReapFile
<1>13. ASSUME NEW p \in Proc, ReapFail(p)
      PROVE  TypeOK'
  BY <1>13 DEF ReapFail
<1>14. ASSUME NEW p \in Proc, ReapIndex(p)
      PROVE  TypeOK'
  BY <1>14 DEF ReapIndex, Locked, Holding, Record, Key, Absent
<1>15. ASSUME Tick
      PROVE  TypeOK'
  BY <1>15 DEF Tick
<1>16. ASSUME Crash
      PROVE  TypeOK'
  BY <1>16 DEF Crash
<1>17. ASSUME Restart
      PROVE  TypeOK'
  BY <1>17, CountersAreNumbers DEF Restart, Load, Remember
<1>18. CASE UNCHANGED vars
  BY <1>18 DEF vars
<1>19. QED
  BY <1>1, <1>2, <1>3, <1>4, <1>5, <1>6, <1>7, <1>8, <1>9, <1>10, <1>11, <1>12, <1>13, <1>14,
     <1>15, <1>16, <1>17, <1>18
  DEF Next, Request, deleteFile


\* Every step keeps the lock with the process in a write section, and nobody else's.
LEMMA LockedNext ==
  ASSUME TypeOK, Locked, [Next]_vars
  PROVE  Locked'
<1> USE DEF TypeOK, Job, Locked, Holding, Up, Proc, Stage, Finish
<1>1. ASSUME NEW p \in Handler, NEW k \in Key, NEW size \in 1..MaxSize, NEW ttl \in TTL,
             PutStart(p, k, size, ttl)
      PROVE  Locked'
  BY <1>1, StoreAssumption DEF PutStart, BeginPut
<1>2. ASSUME NEW p \in Handler, PutRename(p)
      PROVE  Locked'
  BY <1>2, StoreAssumption DEF PutRename
<1>3. ASSUME NEW p \in Handler, PutFail(p)
      PROVE  Locked'
  BY <1>3, StoreAssumption DEF PutFail
<1>4. ASSUME NEW p \in Handler, PutIndex(p)
      PROVE  Locked'
  BY <1>4, StoreAssumption DEF PutIndex
<1>5. ASSUME NEW p \in Handler, NEW k \in Key, Lookup(p, k)
      PROVE  Locked'
  BY <1>5, StoreAssumption DEF Lookup
<1>6. ASSUME NEW p \in Handler, Open(p)
      PROVE  Locked'
  BY <1>6, StoreAssumption DEF Open
<1>7. ASSUME NEW p \in Handler, Answered(p)
      PROVE  Locked'
  BY <1>7, StoreAssumption DEF Answered
<1>8. ASSUME NEW p \in Handler, NEW k \in Key, Delete(p, k)
      PROVE  Locked'
  BY <1>8, StoreAssumption DEF Delete
<1>9. ASSUME SweepCollect
      PROVE  Locked'
  BY <1>9, StoreAssumption DEF SweepCollect
<1>10. ASSUME NEW k \in Key, SweepNext(k)
      PROVE  Locked'
  BY <1>10, StoreAssumption DEF SweepNext
<1>11. ASSUME NEW p \in Proc, ReapNothing(p)
      PROVE  Locked'
  BY <1>11, StoreAssumption DEF ReapNothing
<1>12. ASSUME NEW p \in Proc, ReapFile(p)
      PROVE  Locked'
  BY <1>12, StoreAssumption DEF ReapFile
<1>13. ASSUME NEW p \in Proc, ReapFail(p)
      PROVE  Locked'
  BY <1>13, StoreAssumption DEF ReapFail
<1>14. ASSUME NEW p \in Proc, ReapIndex(p)
      PROVE  Locked'
  BY <1>14, StoreAssumption DEF ReapIndex
<1>15. ASSUME Tick
      PROVE  Locked'
  BY <1>15, StoreAssumption DEF Tick
<1>16. ASSUME Crash
      PROVE  Locked'
  BY <1>16, StoreAssumption DEF Crash
<1>17. ASSUME Restart
      PROVE  Locked'
  BY <1>17, StoreAssumption DEF Restart
<1>18. CASE UNCHANGED vars
  BY <1>18 DEF vars
<1>19. QED
  BY <1>1, <1>2, <1>3, <1>4, <1>5, <1>6, <1>7, <1>8, <1>9,
     <1>10, <1>11, <1>12, <1>13, <1>14, <1>15, <1>16, <1>17, <1>18
  DEF Next, Request, deleteFile

\* Every step keeps disk and index apart in the key of the write section only.
LEMMA InStepNext ==
  ASSUME TypeOK, Locked, InStep, [Next]_vars
  PROVE  InStep'
<1> USE DEF TypeOK, Locked, Holding, Up, Proc, Finish, InStep, NoJob, Fits, memory
<1>1. ASSUME NEW p \in Handler, NEW k \in Key, NEW size \in 1..MaxSize, NEW ttl \in TTL,
             PutStart(p, k, size, ttl)
      PROVE  InStep'
  BY <1>1, StoreAssumption DEF PutStart, BeginPut, Record, Fits
<1>2. ASSUME NEW p \in Handler, PutRename(p)
      PROVE  InStep'
  BY <1>2, StoreAssumption DEF PutRename
<1>3. ASSUME NEW p \in Handler, PutFail(p)
      PROVE  InStep'
  BY <1>3, StoreAssumption DEF PutFail
<1>4. ASSUME NEW p \in Handler, PutIndex(p)
      PROVE  InStep'
  BY <1>4, StoreAssumption DEF PutIndex, indexAdd
<1>5. ASSUME NEW p \in Handler, NEW k \in Key, Lookup(p, k)
      PROVE  InStep'
  BY <1>5, StoreAssumption DEF Lookup
<1>6. ASSUME NEW p \in Handler, Open(p)
      PROVE  InStep'
  BY <1>6, StoreAssumption DEF Open
<1>7. ASSUME NEW p \in Handler, Answered(p)
      PROVE  InStep'
  BY <1>7, StoreAssumption DEF Answered
<1>8. ASSUME NEW p \in Handler, NEW k \in Key, Delete(p, k)
      PROVE  InStep'
  BY <1>8, StoreAssumption DEF Delete
<1>9. ASSUME SweepCollect
      PROVE  InStep'
  BY <1>9, StoreAssumption DEF SweepCollect
<1>10. ASSUME NEW k \in Key, SweepNext(k)
      PROVE  InStep'
  BY <1>10, StoreAssumption DEF SweepNext
<1>11. ASSUME NEW p \in Proc, ReapNothing(p)
      PROVE  InStep'
  BY <1>11, StoreAssumption DEF ReapNothing
<1>12. ASSUME NEW p \in Proc, ReapFile(p)
      PROVE  InStep'
  BY <1>12, StoreAssumption DEF ReapFile
<1>13. ASSUME NEW p \in Proc, ReapFail(p)
      PROVE  InStep'
  BY <1>13, StoreAssumption DEF ReapFail
<1>14. ASSUME NEW p \in Proc, ReapIndex(p)
      PROVE  InStep'
  BY <1>14, StoreAssumption DEF ReapIndex
<1>15. ASSUME Tick
      PROVE  InStep'
  BY <1>15, StoreAssumption DEF Tick
<1>16. ASSUME Crash
      PROVE  InStep'
  BY <1>16, StoreAssumption DEF Crash
<1>17. ASSUME Restart
      PROVE  InStep'
  BY <1>17, StoreAssumption DEF Restart, Load, Remember
<1>18. CASE UNCHANGED vars
  BY <1>18 DEF vars
<1>19. QED
  BY <1>1, <1>2, <1>3, <1>4, <1>5, <1>6, <1>7, <1>8, <1>9,
     <1>10, <1>11, <1>12, <1>13, <1>14, <1>15, <1>16, <1>17, <1>18
  DEF Next, Request, deleteFile

\* Every step leaves no temp file but that of the put in its write section.
LEMMA OwnedNext ==
  ASSUME TypeOK, Locked, TempsOwned, [Next]_vars
  PROVE  TempsOwned'
<1> USE DEF TypeOK, Locked, Holding, Up, Proc, Finish, TempsOwned
<1>1. ASSUME NEW p \in Handler, NEW k \in Key, NEW size \in 1..MaxSize, NEW ttl \in TTL,
             PutStart(p, k, size, ttl)
      PROVE  TempsOwned'
  BY <1>1, StoreAssumption DEF PutStart, BeginPut
<1>2. ASSUME NEW p \in Handler, PutRename(p)
      PROVE  TempsOwned'
  BY <1>2, StoreAssumption DEF PutRename
<1>3. ASSUME NEW p \in Handler, PutFail(p)
      PROVE  TempsOwned'
  BY <1>3, StoreAssumption DEF PutFail
<1>4. ASSUME NEW p \in Handler, PutIndex(p)
      PROVE  TempsOwned'
  BY <1>4, StoreAssumption DEF PutIndex
<1>5. ASSUME NEW p \in Handler, NEW k \in Key, Lookup(p, k)
      PROVE  TempsOwned'
  BY <1>5, StoreAssumption DEF Lookup
<1>6. ASSUME NEW p \in Handler, Open(p)
      PROVE  TempsOwned'
  BY <1>6, StoreAssumption DEF Open
<1>7. ASSUME NEW p \in Handler, Answered(p)
      PROVE  TempsOwned'
  BY <1>7, StoreAssumption DEF Answered
<1>8. ASSUME NEW p \in Handler, NEW k \in Key, Delete(p, k)
      PROVE  TempsOwned'
  BY <1>8, StoreAssumption DEF Delete
<1>9. ASSUME SweepCollect
      PROVE  TempsOwned'
  BY <1>9, StoreAssumption DEF SweepCollect
<1>10. ASSUME NEW k \in Key, SweepNext(k)
      PROVE  TempsOwned'
  BY <1>10, StoreAssumption DEF SweepNext
<1>11. ASSUME NEW p \in Proc, ReapNothing(p)
      PROVE  TempsOwned'
  BY <1>11, StoreAssumption DEF ReapNothing
<1>12. ASSUME NEW p \in Proc, ReapFile(p)
      PROVE  TempsOwned'
  BY <1>12, StoreAssumption DEF ReapFile
<1>13. ASSUME NEW p \in Proc, ReapFail(p)
      PROVE  TempsOwned'
  BY <1>13, StoreAssumption DEF ReapFail
<1>14. ASSUME NEW p \in Proc, ReapIndex(p)
      PROVE  TempsOwned'
  BY <1>14, StoreAssumption DEF ReapIndex
<1>15. ASSUME Tick
      PROVE  TempsOwned'
  BY <1>15, StoreAssumption DEF Tick
<1>16. ASSUME Crash
      PROVE  TempsOwned'
  BY <1>16, StoreAssumption DEF Crash
<1>17. ASSUME Restart
      PROVE  TempsOwned'
  BY <1>17, StoreAssumption DEF Restart
<1>18. CASE UNCHANGED vars
  BY <1>18 DEF vars
<1>19. QED
  BY <1>1, <1>2, <1>3, <1>4, <1>5, <1>6, <1>7, <1>8, <1>9,
     <1>10, <1>11, <1>12, <1>13, <1>14, <1>15, <1>16, <1>17, <1>18
  DEF Next, Request, deleteFile

\* Every step keeps the counters equal to what the index holds.
LEMMA CountedNext ==
  ASSUME TypeOK, Locked, InStep, Counted, [Next]_vars
  PROVE  Counted'
<1>1. ASSUME NEW p \in Handler, NEW k \in Key, NEW size \in 1..MaxSize, NEW ttl \in TTL,
             PutStart(p, k, size, ttl)
      PROVE  Counted'
  BY <1>1 DEF Counted, Up, Proc, Finish, TypeOK, memory, PutStart, BeginPut
<1>2. ASSUME NEW p \in Handler, PutRename(p)
      PROVE  Counted'
  BY <1>2 DEF Counted, Up, Proc, Finish, TypeOK, memory, PutRename
<1>3. ASSUME NEW p \in Handler, PutFail(p)
      PROVE  Counted'
  BY <1>3 DEF Counted, Up, Proc, Finish, TypeOK, memory, PutFail
<1>4. ASSUME NEW p \in Handler, PutIndex(p)
      PROVE  Counted'
  <2>1. Up /\ pc[p] = "indexing" /\ p \in Proc /\ lock = p
    BY <1>4 DEF PutIndex, Locked, Holding, Up, Proc
  <2> DEFINE k == job[p].key
             r == job[p].rec
  <2>2. k \in Key /\ r \in Record /\ index[k] = Absent /\ index \in Contents
    BY <2>1 DEF InStep, Locked, TypeOK, Contents
  <2>3. /\ index' = [index EXCEPT ![k] = r]
        /\ known' = known \cup {k[1]}
        /\ bytes' = [bytes EXCEPT ![k[1]] = @ + r.size]
        /\ count' = [count EXCEPT ![k[1]] = @ + 1]
        /\ total' = total + r.size
    BY <1>4, Zenon DEF PutIndex, indexAdd
  <2> HIDE DEF k, r
  <2>4. index' \in Contents /\ Differ(index, index', k) /\ index'[k] = r
    BY <2>2, <2>3 DEF Contents, Differ, Entry
  <2>5. /\ k[1] \in Identity
        /\ AllBytes(index') = AllBytes(index) + r.size
        /\ Bytes(index', k[1]) = Bytes(index, k[1]) + r.size
        /\ Count(index', k[1]) = Count(index, k[1]) + 1
        /\ \A i \in Identity : i # k[1] => /\ Bytes(index', i) = Bytes(index, i)
                                           /\ Count(index', i) = Count(index, i)
    BY <2>2, <2>4, AddCounts
  <2>6. /\ total = AllBytes(index) /\ bytes \in [Identity -> Int] /\ count \in [Identity -> Int]
        /\ \A i \in Identity : /\ bytes[i] = Bytes(index, i) /\ count[i] = Count(index, i)
                               /\ i \notin known => count[i] = 0
    BY <2>1 DEF Counted, TypeOK
  <2>7. /\ total' = AllBytes(index')
        /\ \A i \in Identity : /\ bytes'[i] = Bytes(index', i) /\ count'[i] = Count(index', i)
                               /\ i \notin known' => count'[i] = 0
    BY <2>3, <2>5, <2>6
  <2>8. QED
    BY <2>7 DEF Counted
<1>5. ASSUME NEW p \in Handler, NEW k \in Key, Lookup(p, k)
      PROVE  Counted'
  BY <1>5 DEF Counted, Up, Proc, Finish, TypeOK, memory, Lookup
<1>6. ASSUME NEW p \in Handler, Open(p)
      PROVE  Counted'
  BY <1>6 DEF Counted, Up, Proc, Finish, TypeOK, memory, Open
<1>7. ASSUME NEW p \in Handler, Answered(p)
      PROVE  Counted'
  BY <1>7 DEF Counted, Up, Proc, Finish, TypeOK, memory, Answered
<1>8. ASSUME NEW p \in Handler, NEW k \in Key, Delete(p, k)
      PROVE  Counted'
  BY <1>8 DEF Counted, Up, Proc, Finish, TypeOK, memory, Delete
<1>9. ASSUME SweepCollect
      PROVE  Counted'
  BY <1>9 DEF Counted, Up, Proc, Finish, TypeOK, memory, SweepCollect
<1>10. ASSUME NEW k \in Key, SweepNext(k)
      PROVE  Counted'
  BY <1>10 DEF Counted, Up, Proc, Finish, TypeOK, memory, SweepNext
<1>11. ASSUME NEW p \in Proc, ReapNothing(p)
      PROVE  Counted'
  BY <1>11 DEF Counted, Up, Proc, Finish, TypeOK, memory, ReapNothing
<1>12. ASSUME NEW p \in Proc, ReapFile(p)
      PROVE  Counted'
  BY <1>12 DEF Counted, Up, Proc, Finish, TypeOK, memory, ReapFile
<1>13. ASSUME NEW p \in Proc, ReapFail(p)
      PROVE  Counted'
  BY <1>13 DEF Counted, Up, Proc, Finish, TypeOK, memory, ReapFail
<1>14. ASSUME NEW p \in Proc, ReapIndex(p)
      PROVE  Counted'
  <2>1. Up /\ pc[p] = "unindexing" /\ lock = p
    BY <1>14 DEF ReapIndex, Locked, Holding, Up, Proc
  <2> DEFINE k == job[p].key
             e == index[k]
  <2>2. k \in Key /\ e # Absent /\ index \in Contents
    BY <2>1 DEF InStep, Locked, TypeOK, Contents
  <2>3. /\ index' = [index EXCEPT ![k] = Absent]
        /\ known' = known
        /\ bytes' = [bytes EXCEPT ![k[1]] = @ - e.size]
        /\ count' = [count EXCEPT ![k[1]] = @ - 1]
        /\ total' = total - e.size
    BY <1>14, Zenon DEF ReapIndex
  <2> HIDE DEF k
  <2>4. index' \in Contents /\ Differ(index, index', k) /\ index'[k] = Absent
    BY <2>2, <2>3 DEF Contents, Differ, Entry
  <2>5. /\ k[1] \in Identity
        /\ AllBytes(index') = AllBytes(index) - e.size
        /\ Bytes(index', k[1]) = Bytes(index, k[1]) - e.size
        /\ Count(index', k[1]) = Count(index, k[1]) - 1
        /\ \A i \in Identity : i # k[1] => /\ Bytes(index', i) = Bytes(index, i)
                                           /\ Count(index', i) = Count(index, i)
    BY <2>2, <2>4, RemoveCounts
  <2>6. Count(index, k[1]) \in Nat /\ Count(index', k[1]) \in Nat
    BY <2>5, CountersAreNumbers
  <2> HIDE DEF e
  <2>7. /\ total = AllBytes(index) /\ bytes \in [Identity -> Int] /\ count \in [Identity -> Int]
        /\ \A i \in Identity : /\ bytes[i] = Bytes(index, i) /\ count[i] = Count(index, i)
                               /\ i \notin known => count[i] = 0
    BY <2>1 DEF Counted, TypeOK
  <2>8. /\ total' = AllBytes(index')
        /\ \A i \in Identity : /\ bytes'[i] = Bytes(index', i) /\ count'[i] = Count(index', i)
                               /\ i \notin known' => count'[i] = 0
    <3>1. k[1] \in known
      BY <2>5, <2>6, <2>7
    <3>2. total' = AllBytes(index')
      BY <2>3, <2>5, <2>7
    <3>3. ASSUME NEW i \in Identity
          PROVE  bytes'[i] = Bytes(index', i) /\ count'[i] = Count(index', i)
      BY <2>3, <2>5, <2>7
    <3>4. \A i \in Identity : i \notin known' => count'[i] = 0
      BY <2>3, <2>7, <3>1
    <3>5. QED
      BY <3>2, <3>3, <3>4
  <2>9. QED
    BY <2>8 DEF Counted
<1>15. ASSUME Tick
      PROVE  Counted'
  BY <1>15 DEF Counted, Up, Proc, Finish, TypeOK, memory, Tick
<1>16. ASSUME Crash
      PROVE  Counted'
  BY <1>16 DEF Counted, Up, Proc, Finish, TypeOK, memory, Crash
<1>17. ASSUME Restart
      PROVE  Counted'
  BY <1>17, CountersAreNumbers
  DEF Counted, Up, Proc, Finish, TypeOK, memory, Restart, Load, Remember
<1>18. CASE UNCHANGED vars
  BY <1>18 DEF vars, memory, Counted, Up
<1>19. QED
  BY <1>1, <1>2, <1>3, <1>4, <1>5, <1>6, <1>7, <1>8, <1>9,
     <1>10, <1>11, <1>12, <1>13, <1>14, <1>15, <1>16, <1>17, <1>18
  DEF Next, Request, deleteFile

\* Every step keeps what is stored, pending or served later than the time it was looked up.
LEMMA FreshNext ==
  ASSUME IInv, Fresh, [Next]_vars
  PROVE  Fresh'
<1> USE DEF IInv, TypeOK, Job, Locked, Holding, Up, Proc, Finish, InStep, Fresh, ServesLive, Expired, Entry, NoJob
<1>1. ASSUME NEW p \in Handler, NEW k \in Key, NEW size \in 1..MaxSize, NEW ttl \in TTL,
             PutStart(p, k, size, ttl)
      PROVE  Fresh'
  BY <1>1, StoreAssumption DEF PutStart, BeginPut
<1>2. ASSUME NEW p \in Handler, PutRename(p)
      PROVE  Fresh'
  BY <1>2, StoreAssumption DEF PutRename, Record, Absent
<1>3. ASSUME NEW p \in Handler, PutFail(p)
      PROVE  Fresh'
  BY <1>3, StoreAssumption DEF PutFail
<1>4. ASSUME NEW p \in Handler, PutIndex(p)
      PROVE  Fresh'
  BY <1>4, StoreAssumption DEF PutIndex
<1>5. ASSUME NEW p \in Handler, NEW k \in Key, Lookup(p, k)
      PROVE  Fresh'
  <2>1. Up /\ lock = Free /\ disk = index
    BY <1>5, StoreAssumption DEF Lookup
  <2>2. \A q \in Proc : pc[q] # "renaming"
    BY <2>1, StoreAssumption
  <2>3. ASSUME NEW q \in Handler, pc'[q] = "opening"
        PROVE  /\ job'[q].at <= now'
               /\ disk'[job'[q].key] # Absent => disk'[job'[q].key].exp > job'[q].at
    <3>1. CASE q = p
      <4>1. job'[q].at = now /\ job'[q].key = k /\ index[k].exp > now
        BY <1>5, <2>3, <3>1 DEF Lookup, Record, Absent
      <4>2. QED
        BY <1>5, <2>1, <4>1 DEF Lookup
    <3>2. CASE q # p
      BY <1>5, <2>3, <3>2 DEF Lookup
    <3>3. QED
      BY <3>1, <3>2
  <2>4. \A q \in Proc : pc'[q] # "renaming"
    BY <1>5, <2>2 DEF Lookup
  <2>5. ServesLive'
    BY <1>5 DEF Lookup
  <2>6. QED
    BY <2>3, <2>4, <2>5
<1>6. ASSUME NEW p \in Handler, Open(p)
      PROVE  Fresh'
  BY <1>6, StoreAssumption DEF Open
<1>7. ASSUME NEW p \in Handler, Answered(p)
      PROVE  Fresh'
  BY <1>7, StoreAssumption DEF Answered
<1>8. ASSUME NEW p \in Handler, NEW k \in Key, Delete(p, k)
      PROVE  Fresh'
  BY <1>8, StoreAssumption DEF Delete
<1>9. ASSUME SweepCollect
      PROVE  Fresh'
  BY <1>9, StoreAssumption DEF SweepCollect
<1>10. ASSUME NEW k \in Key, SweepNext(k)
      PROVE  Fresh'
  BY <1>10, StoreAssumption DEF SweepNext
<1>11. ASSUME NEW p \in Proc, ReapNothing(p)
      PROVE  Fresh'
  BY <1>11, StoreAssumption DEF ReapNothing
<1>12. ASSUME NEW p \in Proc, ReapFile(p)
      PROVE  Fresh'
  BY <1>12, StoreAssumption DEF ReapFile, Record, Absent
<1>13. ASSUME NEW p \in Proc, ReapFail(p)
      PROVE  Fresh'
  BY <1>13, StoreAssumption DEF ReapFail
<1>14. ASSUME NEW p \in Proc, ReapIndex(p)
      PROVE  Fresh'
  BY <1>14, StoreAssumption DEF ReapIndex
<1>15. ASSUME Tick
      PROVE  Fresh'
  BY <1>15, StoreAssumption DEF Tick
<1>16. ASSUME Crash
      PROVE  Fresh'
  BY <1>16, StoreAssumption DEF Crash
<1>17. ASSUME Restart
      PROVE  Fresh'
  BY <1>17, StoreAssumption DEF Restart
<1>18. CASE UNCHANGED vars
  BY <1>18 DEF vars
<1>19. QED
  BY <1>1, <1>2, <1>3, <1>4, <1>5, <1>6, <1>7, <1>8, <1>9,
     <1>10, <1>11, <1>12, <1>13, <1>14, <1>15, <1>16, <1>17, <1>18
  DEF Next, Request, deleteFile

-----------------------------------------------------------------------------
\* A step on the files is a step of the store contract.

\* A rename is a put of the storage contract: the id is free and the caps leave room.
LEMMA RenamePuts ==
  ASSUME IInv, NEW p \in Handler, PutRename(p)
  PROVE  Abs!Put(job[p].key)
<1> DEFINE k == job[p].key
           r == job[p].rec
<1>1. /\ k \in Key /\ r \in Record /\ disk[k] = Absent
      /\ Fits(k, r.size) /\ disk \in Contents
  BY DEF IInv, TypeOK, Locked, InStep, Up, PutRename, Proc, Holding, Contents
<1>2. disk' = [disk EXCEPT ![k] = r]
  BY DEF PutRename
<1>3. disk' \in Contents /\ disk'[k] = r /\ Differ(disk, disk', k)
  BY <1>1, <1>2 DEF Contents, Differ, Entry
<1>4. /\ k[1] \in Identity /\ total = AllBytes(disk)
      /\ bytes[k[1]] = Bytes(disk, k[1])
      /\ k[1] \notin known => Count(disk, k[1]) = 0
  BY <1>1 DEF IInv, Locked, InStep, Counted, Up, PutRename, Proc, Key
<1> HIDE DEF k, r
<1>5. /\ r.size \in 1..MaxSize
      /\ AllBytes(disk') = AllBytes(disk) + r.size
      /\ Bytes(disk', k[1]) = Bytes(disk, k[1]) + r.size
      /\ Count(disk', k[1]) = Count(disk, k[1]) + 1
  BY <1>1, <1>3, AddCounts
<1>6. AllBytes(disk') <= TotalCap
  BY <1>1, <1>4, <1>5 DEF Fits
<1>7. Bytes(disk', k[1]) <= IdentityCap \/ Count(disk', k[1]) = 1
  BY <1>1, <1>4, <1>5 DEF Fits
<1>8. Abs!Put(k)
  BY <1>1, <1>2, <1>3, <1>6, <1>7 DEF Abs!Put
<1>9. QED
  BY <1>8 DEF k

\* Every step is a put, a removal or a stutter of the storage contract.
LEMMA FilesNext ==
  ASSUME IInv, [Next]_vars
  PROVE  [Abs!Next]_disk
<1>1. ASSUME NEW p \in Handler, PutRename(p)
      PROVE  Abs!Next
  <2>1. job[p].key \in Key
    BY <1>1 DEF IInv, Locked, PutRename, Proc
  <2>2. QED
    BY <1>1, <2>1, RenamePuts DEF Abs!Next
<1>2. ASSUME NEW p \in Proc, ReapFile(p)
      PROVE  Abs!Next
  <2>1. job[p].key \in Key /\ disk[job[p].key] # Absent
    BY <1>2 DEF IInv, Locked, InStep, ReapFile, Up
  <2>2. QED
    BY <1>2, <2>1 DEF Abs!Next, Abs!Remove, ReapFile
<1>3. ASSUME NEW p \in Handler, NEW k \in Key,
             \/ \E size \in 1..MaxSize, ttl \in TTL : PutStart(p, k, size, ttl)
             \/ Lookup(p, k) \/ Delete(p, k)
      PROVE  UNCHANGED disk
  BY <1>3 DEF PutStart, BeginPut, Lookup, Delete
<1>4. ASSUME NEW p \in Handler, PutFail(p) \/ PutIndex(p) \/ Open(p) \/ Answered(p)
      PROVE  UNCHANGED disk
  BY <1>4 DEF PutFail, PutIndex, Open, Answered
<1>5. ASSUME NEW p \in Proc, ReapNothing(p) \/ ReapFail(p) \/ ReapIndex(p)
      PROVE  UNCHANGED disk
  BY <1>5 DEF ReapNothing, ReapFail, ReapIndex
<1>6. ASSUME SweepCollect \/ (\E k \in Key : SweepNext(k)) \/ Tick \/ Crash \/ Restart \/ UNCHANGED vars
      PROVE  UNCHANGED disk
  BY <1>6 DEF SweepCollect, SweepNext, Tick, Crash, Restart, vars
<1>7. QED
  BY <1>1, <1>2, <1>3, <1>4, <1>5, <1>6 DEF Next, Request, deleteFile

\* Every step of the storage contract keeps the caps.
LEMMA CapsNext ==
  ASSUME disk \in Contents, disk' \in Contents, WithinTotal, WithinQuota, [Abs!Next]_disk
  PROVE  WithinTotal' /\ WithinQuota'
<1> USE DEF WithinTotal, WithinQuota, Abs!WithinTotal, Abs!WithinQuota
<1>1. CASE UNCHANGED disk
  BY <1>1
<1>2. ASSUME NEW k \in Key, Abs!Put(k)
      PROVE  WithinTotal' /\ WithinQuota'
  <2> DEFINE g == disk'
             r == disk'[k]
  <2>1. /\ disk[k] = Absent /\ r \in Record /\ Differ(disk, g, k) /\ g[k] = r
        /\ AllBytes(g) <= TotalCap
        /\ Bytes(g, k[1]) <= IdentityCap \/ Count(g, k[1]) = 1
    BY <1>2 DEF Abs!Put, Differ, Contents
  <2> HIDE DEF r, g
  <2>2. g \in Contents
    BY DEF g
  <2>3. \A i \in Identity : i # k[1] => Bytes(g, i) = Bytes(disk, i) /\ Count(g, i) = Count(disk, i)
    BY <2>1, <2>2, AddCounts
  <2>4. \A i \in Identity : Bytes(g, i) <= IdentityCap \/ Count(g, i) <= 1
    BY <2>1, <2>3
  <2>5. QED
    BY <2>1, <2>4 DEF g
<1>3. ASSUME NEW k \in Key, Abs!Remove(k)
      PROVE  WithinTotal' /\ WithinQuota'
  <2> DEFINE g == disk'
  <2>1. disk[k] # Absent /\ Differ(disk, g, k) /\ g[k] = Absent
    BY <1>3 DEF Abs!Remove, Differ, Contents
  <2> HIDE DEF g
  <2>2. g \in Contents
    BY DEF g
  <2>3. /\ k[1] \in Identity /\ disk[k].size \in 1..MaxSize
        /\ AllBytes(g) = AllBytes(disk) - disk[k].size
        /\ Bytes(g, k[1]) = Bytes(disk, k[1]) - disk[k].size
        /\ Count(g, k[1]) = Count(disk, k[1]) - 1
        /\ \A i \in Identity : i # k[1] => Bytes(g, i) = Bytes(disk, i) /\ Count(g, i) = Count(disk, i)
    BY <2>1, <2>2, RemoveCounts
  <2>4. AllBytes(disk) \in Nat /\ Bytes(disk, k[1]) \in Nat /\ Count(disk, k[1]) \in Nat
    BY <2>3, CountersAreNumbers
  <2>5. AllBytes(g) <= TotalCap
    BY <2>3, <2>4, StoreAssumption
  <2>6. \A i \in Identity : Bytes(g, i) <= IdentityCap \/ Count(g, i) <= 1
    BY <2>3, <2>4, StoreAssumption
  <2>7. QED
    BY <2>5, <2>6 DEF g
<1>4. QED
  BY <1>1, <1>2, <1>3 DEF Abs!Next

-----------------------------------------------------------------------------
\* The theorems.

\* A fresh store satisfies the invariants.
LEMMA InitIInv == Init => IInv /\ Fresh /\ WithinTotal /\ WithinQuota
<1> SUFFICES ASSUME Init PROVE IInv /\ Fresh /\ WithinTotal /\ WithinQuota
  OBVIOUS
<1> USE DEF Init, NoMemory
<1>1. TypeOK
  BY StoreAssumption DEF TypeOK, Entry, Job, NoJob, Why, Stage, Proc
<1>2. Locked /\ InStep /\ TempsOwned
  BY StoreAssumption DEF Locked, InStep, TempsOwned, Holding, Up, Proc
<1>3. /\ AllBytes(disk) = 0 /\ AllBytes(index) = 0
      /\ \A i \in Identity : /\ Bytes(disk, i) = 0 /\ Count(disk, i) = 0
                             /\ Bytes(index, i) = 0 /\ Count(index, i) = 0
  BY EmptyCounts
<1>4. Counted
  BY <1>3 DEF Counted
<1>5. WithinTotal /\ WithinQuota
  BY <1>3, StoreAssumption DEF WithinTotal, WithinQuota, Abs!WithinTotal, Abs!WithinQuota
<1>6. Fresh
  BY DEF Fresh, ServesLive, Proc
<1>7. QED
  BY <1>1, <1>2, <1>4, <1>5, <1>6 DEF IInv

\* Every step preserves the inductive invariant.
LEMMA IInvNext == IInv /\ [Next]_vars => IInv'
  BY TypeNext, LockedNext, InStepNext, CountedNext, OwnedNext DEF IInv

\* The inductive invariant holds in every reachable state.
LEMMA Invariance == Spec => []IInv
<1>1. QED
  BY InitIInv, IInvNext, PTL DEF Spec

\* Every reachable state is one of the store's.
THEOREM TypeCorrect == Spec => []TypeOK
<1>1. IInv => TypeOK
  BY DEF IInv
<1>2. QED
  BY <1>1, Invariance, PTL

\* A crash leaves at most temp files, and none survives the restart: PutWithin
\* removes its own, load the leftovers.
THEOREM NoTempLeft == Spec => []TempsOwned
<1>1. IInv => TempsOwned
  BY DEF IInv
<1>2. QED
  BY <1>1, Invariance, PTL

\* Between two locked sections the index and every counter (Usage, TotalBytes)
\* are those of the files, whatever crashed before.
THEOREM CountersExact == Spec => []Accounted
<1>1. IInv => Accounted
  BY DEF IInv, InStep, Counted, Accounted
<1>2. QED
  BY <1>1, Invariance, PTL

\* The files implement the store contract: putLocked's rename is a put that fits
\* the caps, deleteFile's remove a removal, and a crash or a restart nothing.
THEOREM FilesImplementStore == Spec => ImplementsStore
<1>1. Init => Abs!Init
  BY DEF Init, Abs!Init
<1>2. QED
  BY <1>1, FilesNext, Invariance, PTL DEF Spec, ImplementsStore, Abs!Spec

\* PutWithin's checks hold the relay to its capacity and every owner to the quota
\* (but for a single record), with any number of puts, deletes and crashes.
THEOREM CapsHold == Spec => []WithinCaps
<1> DEFINE Caps == IInv /\ WithinTotal /\ WithinQuota
<1>1. Init => Caps
  BY InitIInv
<1>2. Caps /\ [Next]_vars => Caps'
  <2> SUFFICES ASSUME Caps, [Next]_vars PROVE Caps'
    OBVIOUS
  <2>1. IInv' /\ disk \in Contents /\ disk' \in Contents
    BY IInvNext DEF IInv, TypeOK, Contents
  <2>2. QED
    BY <2>1, FilesNext, CapsNext
<1>3. Caps => WithinCaps
  BY DEF WithinCaps
<1>4. QED
  BY <1>1, <1>2, <1>3, PTL DEF Spec

\* No request is answered with a record that had expired when it looked, though
\* the file it opens may have been deleted and written again meanwhile.
THEOREM LiveServed == Spec => []ServesLive
<1>1. Init => Fresh
  BY InitIInv
<1>2. IInv /\ Fresh /\ [Next]_vars => Fresh'
  BY FreshNext
<1>3. Fresh => ServesLive
  BY DEF Fresh
<1>4. QED
  BY <1>1, <1>2, <1>3, Invariance, PTL DEF Spec
=============================================================================
