------------------------- MODULE RelayStoreS3Proofs -------------------------
(***************************************************************************)
(* Proofs about RelayStoreS3, for any owners, blob ids, record sizes, caps,*)
(* handlers, clock, puts, failed requests and restarts.                    *)
(***************************************************************************)
EXTENDS RelayStoreS3, FiniteSetTheorems, TLAPS

-----------------------------------------------------------------------------
\* What is counted is finite, and one more thing of size n adds n.
LEMMA CellsAdd ==
  ASSUME NEW f, NEW S, IsFiniteSet(S)
  PROVE  /\ IsFiniteSet(Cells(f, S)) /\ Cardinality(Cells(f, S)) \in Nat
         /\ \A x : x \notin S /\ f[x].size \in 1..MaxSize =>
              Cardinality(Cells(f, S \cup {x})) = Cardinality(Cells(f, S)) + f[x].size
<1>1. MaxSize \in Nat /\ IsFiniteSet(1..MaxSize)
  BY StoreAssumption, FS_Interval
<1>2. IsFiniteSet(Cells(f, S)) /\ Cardinality(Cells(f, S)) \in Nat
  <2>1. IsFiniteSet(S \X (1..MaxSize))
    BY <1>1, FS_Product
  <2>2. Cells(f, S) \subseteq S \X (1..MaxSize)
    BY DEF Cells
  <2>3. QED
    BY <2>1, <2>2, FS_Subset, FS_CardinalityType
<1>3. ASSUME NEW x, x \notin S, NEW n \in 1..MaxSize, f[x].size = n
      PROVE  Cardinality(Cells(f, S \cup {x})) = Cardinality(Cells(f, S)) + n
  <2> DEFINE new == {x} \X (1..n)
  <2>1. n \in Nat
    BY <1>1
  <2>2. IsFiniteSet(new) /\ Cardinality(new) = n
    <3>1. IsFiniteSet({x}) /\ Cardinality({x}) = 1
      BY FS_Singleton
    <3>2. IsFiniteSet(1..n) /\ Cardinality(1..n) = n
      BY <2>1, FS_Interval
    <3>3. IsFiniteSet(new) /\ Cardinality(new) = Cardinality({x}) * Cardinality(1..n)
      BY <3>1, <3>2, FS_Product
    <3>4. QED
      BY <2>1, <3>1, <3>2, <3>3
  <2>3. Cells(f, S \cup {x}) = Cells(f, S) \cup new
    BY <1>1, <1>3 DEF Cells
  <2>4. Cells(f, S) \cap new = {}
    BY <1>3 DEF Cells
  <2> HIDE DEF new
  <2>5. Cardinality(Cells(f, S) \cup new)
          = Cardinality(Cells(f, S)) + Cardinality(new) - Cardinality(Cells(f, S) \cap new)
    BY <1>2, <2>2, FS_Union
  <2>6. Cardinality(Cells(f, S) \cap new) = 0
    BY <2>4, FS_EmptySet
  <2>7. Cardinality(Cells(f, S) \cup new) = Cardinality(Cells(f, S)) + n
    BY <1>2, <2>1, <2>2, <2>5, <2>6
  <2>8. QED
    BY <2>3, <2>7
<1>4. QED
  BY <1>2, <1>3

\* Sizes that agree on a set count the same on it.
LEMMA CellsSame ==
  ASSUME NEW f, NEW g, NEW S, \A x \in S : f[x] = g[x]
  PROVE  Cells(f, S) = Cells(g, S)
BY DEF Cells

-----------------------------------------------------------------------------
\* The bucket b as far as the keys ks go, and the processes at a stage s that work on
\* them when pc is c and job is j.
ObjectsIn(b, ks) == {o \in b : o.key \in ks}
Doing(c, j, s, ks) == {p \in Proc : c[p] = s /\ j[p].key \in ks}
SizesIn(j, ps) == Cardinality({c \in ps \X (1..MaxSize) : c[2] <= j[c[1]].rec.size})

\* What the memory is to say of the keys ks.
Net(b, c, j, ks) ==
  BytesOf(ObjectsIn(b, ks)) - SizesIn(j, Doing(c, j, "counting", ks)) + SizesIn(j, Doing(c, j, "uncounting", ks))
NetCount(b, c, j, ks) ==
  Cardinality(ObjectsIn(b, ks)) - Cardinality(Doing(c, j, "counting", ks)) + Cardinality(Doing(c, j, "uncounting", ks))

\* The processes are finitely many.
LEMMA FiniteProc == IsFiniteSet(Proc)
BY StoreAssumption, FS_AddElement DEF Proc

\* One more object adds its size and one to what a bucket holds of its key.
LEMMA OneMoreObject ==
  ASSUME NEW b, b \subseteq Object, IsFiniteSet(b), NEW o \in Object, o \notin b, NEW ks
  PROVE  /\ BytesOf(ObjectsIn(b, ks)) \in Nat /\ Cardinality(ObjectsIn(b, ks)) \in Nat
         /\ o.key \in ks =>
              /\ BytesOf(ObjectsIn(b \cup {o}, ks)) = BytesOf(ObjectsIn(b, ks)) + o.size
              /\ Cardinality(ObjectsIn(b \cup {o}, ks)) = Cardinality(ObjectsIn(b, ks)) + 1
         /\ o.key \notin ks => ObjectsIn(b \cup {o}, ks) = ObjectsIn(b, ks)
<1> DEFINE f == [x \in Object |-> x]
           S == ObjectsIn(b, ks)
<1>1. IsFiniteSet(S) /\ Cardinality(S) \in Nat /\ S \subseteq Object /\ o \notin S
  BY FS_Subset, FS_CardinalityType DEF ObjectsIn
<1>2. \A T \in SUBSET Object : BytesOf(T) = Cardinality(Cells(f, T))
  <2>1. ASSUME NEW T \in SUBSET Object
        PROVE  BytesOf(T) = Cardinality(Cells(f, T))
    <3>1. {c \in T \X (1..MaxSize) : c[2] <= c[1].size} = {c \in T \X (1..MaxSize) : c[2] <= f[c[1]].size}
      BY <2>1
    <3>2. QED
      BY <3>1 DEF BytesOf, Cells
  <2>2. QED
    BY <2>1
<1>3. f[o].size \in 1..MaxSize /\ f[o] = o
  BY DEF Object
<1>4. o.key \in ks => ObjectsIn(b \cup {o}, ks) = S \cup {o}
  BY DEF ObjectsIn
<1>5. o.key \notin ks => ObjectsIn(b \cup {o}, ks) = S
  BY DEF ObjectsIn
<1> HIDE DEF f, S
<1>6. Cardinality(Cells(f, S)) \in Nat /\ Cardinality(Cells(f, S \cup {o})) = Cardinality(Cells(f, S)) + f[o].size
  BY <1>1, <1>3, CellsAdd
<1>7. Cardinality(S \cup {o}) = Cardinality(S) + 1
  BY <1>1, FS_AddElement
<1>8. S \cup {o} \in SUBSET Object
  BY <1>1
<1>9. BytesOf(S) \in Nat /\ BytesOf(S \cup {o}) = BytesOf(S) + o.size
  BY <1>1, <1>2, <1>3, <1>6, <1>8
<1>10. QED
  BY <1>1, <1>4, <1>5, <1>7, <1>9 DEF S

\* Jobs, or stages, that differ for p at most.
ButFor(p, j, h) == \A q \in Proc \ {p} : h[q] = j[q]

\* One process more adds the size of its record to what is under way; a process
\* apart, what is under way does not change.
LEMMA OneMoreProcess ==
  ASSUME NEW ps, ps \subseteq Proc, NEW p \in Proc, p \notin ps, NEW j, NEW h, ButFor(p, j, h)
  PROVE  /\ SizesIn(j, ps) \in Nat /\ Cardinality(ps) \in Nat
         /\ SizesIn(h, ps) = SizesIn(j, ps)
         /\ h[p].rec.size \in 1..MaxSize => SizesIn(h, ps \cup {p}) = SizesIn(j, ps) + h[p].rec.size
         /\ j[p].rec.size \in 1..MaxSize => SizesIn(j, ps \cup {p}) = SizesIn(j, ps) + j[p].rec.size
         /\ Cardinality(ps \cup {p}) = Cardinality(ps) + 1
<1> DEFINE f == [q \in Proc |-> j[q].rec]
           g == [q \in Proc |-> h[q].rec]
<1>1. IsFiniteSet(ps) /\ Cardinality(ps) \in Nat
  BY FiniteProc, FS_Subset, FS_CardinalityType
<1>2. \A T \in SUBSET Proc : SizesIn(j, T) = Cardinality(Cells(f, T)) /\ SizesIn(h, T) = Cardinality(Cells(g, T))
  <2>1. ASSUME NEW T \in SUBSET Proc
        PROVE  /\ SizesIn(j, T) = Cardinality(Cells(f, T))
               /\ SizesIn(h, T) = Cardinality(Cells(g, T))
    <3>1. {c \in T \X (1..MaxSize) : c[2] <= j[c[1]].rec.size} = {c \in T \X (1..MaxSize) : c[2] <= f[c[1]].size}
      BY <2>1
    <3>2. {c \in T \X (1..MaxSize) : c[2] <= h[c[1]].rec.size} = {c \in T \X (1..MaxSize) : c[2] <= g[c[1]].size}
      BY <2>1
    <3>3. QED
      BY <3>1, <3>2 DEF SizesIn, Cells
  <2>2. QED
    BY <2>1
<1>3. \A q \in ps : f[q] = g[q]
  BY DEF ButFor
<1>4. g[p] = h[p].rec /\ f[p] = j[p].rec
  OBVIOUS
<1> HIDE DEF f, g
<1>5. Cells(f, ps) = Cells(g, ps)
  BY <1>3, CellsSame
<1>6. /\ Cardinality(Cells(g, ps)) \in Nat
      /\ g[p].size \in 1..MaxSize => Cardinality(Cells(g, ps \cup {p})) = Cardinality(Cells(g, ps)) + g[p].size
      /\ f[p].size \in 1..MaxSize => Cardinality(Cells(f, ps \cup {p})) = Cardinality(Cells(f, ps)) + f[p].size
  BY <1>1, CellsAdd
<1>7. Cardinality(ps \cup {p}) = Cardinality(ps) + 1
  BY <1>1, FS_AddElement
<1>8. ps \in SUBSET Proc /\ ps \cup {p} \in SUBSET Proc
  OBVIOUS
<1>9. QED
  BY <1>1, <1>2, <1>4, <1>5, <1>6, <1>7, <1>8

-----------------------------------------------------------------------------
\* The object that stands for an entry, and the objects a blob has at rest.
AsObject(k, r) == [key |-> k, exp |-> r.exp, size |-> r.size]
AtRest(k, r) == IF r = Absent THEN {} ELSE {AsObject(k, r)}

Typed == TypeOK /\ IsFiniteSet(bucket)

\* How far a process that changes a key is says what the index and the bucket hold of it.
Works(p, k) == job[p].key = k /\ pc[p] \in Changing
Progress(p, k) ==
  LET r == job[p].rec IN
  \/ pc[p] = "storing" /\ index[k] = Absent /\ Held(k) = {}
  \/ pc[p] = "counting" /\ index[k] = Absent /\ Held(k) = {AsObject(k, r)}
  \/ pc[p] = "deleting" /\ index[k] = r /\ Held(k) = {AsObject(k, r)}
  \/ pc[p] = "uncounting" /\ index[k] = r /\ Held(k) = {}

\* A key that is not raced is changed by one process at most.
KeyedAt(k) ==
  /\ \A p, q \in Proc : Works(p, k) /\ Works(q, k) => p = q
  /\ \A p \in Proc : Works(p, k) => Progress(p, k)
  /\ (\A p \in Proc : ~Works(p, k)) => Held(k) = AtRest(k, index[k])
Keyed == \A k \in Key \ raced : KeyedAt(k)

\* The counters, in total and of each owner.
Balanced ==
  /\ raced = {} => total = Net(bucket, pc, job, Key)
  /\ \A i \in Identity : KeysOf(i) \cap raced = {} =>
       /\ bytes[i] = Net(bucket, pc, job, KeysOf(i))
       /\ count[i] = NetCount(bucket, pc, job, KeysOf(i))

\* Only handlers put, and a key is raced only after something strayed.
Orderly ==
  /\ pc[Sweeper] \notin {"storing", "counting"}
  /\ raced # {} => strayed

\* An owner that stores something, or did when a deletion found it, has a usage entry; the
\* others are counted with nothing.
Owners ==
  /\ \A k \in Key : index[k] # Absent => k[1] \in known
  /\ \A p \in Proc : pc[p] \in {"deleting", "uncounting"} => job[p].key[1] \in known
  /\ \A i \in Identity \ known : bytes[i] = 0

IInv == Typed /\ Keyed /\ Balanced /\ Orderly /\ Owners /\ Overshoot

-----------------------------------------------------------------------------
\* No key is NoKey, and a record is not Absent.
LEMMA KeyFacts ==
  /\ NoKey \notin Key /\ Absent \notin Record
  /\ \A k \in Key : k[1] \in Identity /\ k = <<k[1], k[2]>>
BY DEF Key, NoKey, Absent, Record

\* The types of what is under way.
JobsTyped ==
  /\ pc \in [Proc -> Stage] /\ job \in [Proc -> Job]
  /\ \A p \in Proc : pc[p] = "idle" <=> job[p].key = NoKey
  /\ \A p \in Proc : pc[p] \in Changing \cup {"getting"} => job[p].rec # Absent

\* What a process that works on something works on.
LEMMA JobFacts ==
  ASSUME JobsTyped, NEW p \in Proc
  PROVE  /\ pc[p] # "idle" => job[p].key \in Key
         /\ job[p].rec \in Entry
         /\ pc[p] \in Changing \cup {"getting"} =>
              /\ job[p].key \in Key /\ job[p].rec \in Record
              /\ job[p].rec.size \in 1..MaxSize /\ job[p].rec.exp \in Nat
<1>1. job[p] \in Job
  BY DEF JobsTyped
<1>2. job[p].key \in Key \cup {NoKey} /\ job[p].rec \in Entry
  BY <1>1 DEF Job
<1>3. pc[p] # "idle" => job[p].key \in Key
  BY <1>2 DEF JobsTyped
<1>4. pc[p] \in Changing \cup {"getting"} => pc[p] # "idle" /\ job[p].rec \in Record
  BY <1>2 DEF JobsTyped, Changing, Entry
<1>5. \A r \in Record : r.size \in 1..MaxSize /\ r.exp \in Nat
  BY DEF Record
<1>6. QED
  BY <1>2, <1>3, <1>4, <1>5

\* A process that goes to another stage, with a job that suits it, keeps the types.
LEMMA GoTyped ==
  ASSUME JobsTyped, NEW p \in Proc, NEW st \in Stage, NEW k, NEW r \in Entry, Go(p, st, k, r),
         \/ st = "idle" /\ k = NoKey
         \/ st # "idle" /\ k \in Key,
         st \in Changing \cup {"getting"} => r # Absent
  PROVE  JobsTyped'
<1>1. pc' = [pc EXCEPT ![p] = st] /\ job' = [job EXCEPT ![p] = [key |-> k, rec |-> r]]
  BY DEF Go
<1>2. [key |-> k, rec |-> r] \in Job
  BY DEF Job
<1>3. pc' \in [Proc -> Stage] /\ job' \in [Proc -> Job]
  BY <1>1, <1>2 DEF JobsTyped
<1>4. \A q \in Proc : q # p => pc'[q] = pc[q] /\ job'[q] = job[q]
  BY <1>1 DEF JobsTyped
<1>5. pc'[p] = st /\ job'[p].key = k /\ job'[p].rec = r
  BY <1>1 DEF JobsTyped
<1>6. st = "idle" <=> k = NoKey
  BY KeyFacts
<1>7. QED
  BY <1>3, <1>4, <1>5, <1>6 DEF JobsTyped

\* So does one that goes to the next stage with the same job.
LEMMA StageTyped ==
  ASSUME JobsTyped, NEW p \in Proc, NEW st \in Changing, pc[p] \in Changing,
         pc' = [pc EXCEPT ![p] = st], job' = job
  PROVE  JobsTyped'
<1>1. st \in Stage /\ st # "idle" /\ pc[p] # "idle"
  BY DEF Changing, Stage
<1>2. pc' \in [Proc -> Stage]
  BY <1>1 DEF JobsTyped
<1>3. \A q \in Proc : pc'[q] = IF q = p THEN st ELSE pc[q]
  BY DEF JobsTyped
<1>4. job[p].rec # Absent /\ job[p].key # NoKey
  BY <1>1 DEF JobsTyped
<1>5. QED
  BY <1>1, <1>2, <1>3, <1>4 DEF JobsTyped

\* A process that is done keeps them as well.
LEMMA FinishTyped ==
  ASSUME JobsTyped, NEW p \in Proc, Finish(p)
  PROVE  JobsTyped'
<1>1. Go(p, "idle", NoKey, Absent) /\ Absent \in Entry /\ "idle" \in Stage
  BY DEF Finish, Entry, Stage
<1>2. "idle" \notin Changing \cup {"getting"}
  BY DEF Changing
<1>3. QED
  BY <1>1, <1>2, GoTyped

\* The bucket stays a finite set of objects when one is stored or deleted.
LEMMA BucketTyped ==
  ASSUME bucket \subseteq Object, IsFiniteSet(bucket), NEW k \in Key, NEW r
  PROVE  /\ Without(k, r.exp) \subseteq Object /\ IsFiniteSet(Without(k, r.exp))
         /\ r \in Record => /\ AsObject(k, r) \in Object
                            /\ With(k, r) = Without(k, r.exp) \cup {AsObject(k, r)}
                            /\ With(k, r) \subseteq Object /\ IsFiniteSet(With(k, r))
<1>1. Without(k, r.exp) \subseteq bucket
  BY DEF Without
<1>2. Without(k, r.exp) \subseteq Object /\ IsFiniteSet(Without(k, r.exp))
  BY <1>1, FS_Subset
<1>3. With(k, r) = Without(k, r.exp) \cup {AsObject(k, r)}
  BY DEF With, AsObject
<1>4. r \in Record => AsObject(k, r) \in Object
  BY DEF AsObject, Object, Record
<1>5. IsFiniteSet(Without(k, r.exp) \cup {AsObject(k, r)})
  BY <1>2, FS_AddElement
<1>6. QED
  BY <1>2, <1>3, <1>4, <1>5

\* The bytes of finitely many objects are a number.
LEMMA BytesType ==
  ASSUME NEW os, IsFiniteSet(os)
  PROVE  BytesOf(os) \in Nat
<1>1. IsFiniteSet(1..MaxSize)
  BY StoreAssumption, FS_Interval
<1>2. IsFiniteSet(os \X (1..MaxSize))
  BY <1>1, FS_Product
<1>3. {c \in os \X (1..MaxSize) : c[2] <= c[1].size} \subseteq os \X (1..MaxSize)
  OBVIOUS
<1>4. QED
  BY <1>2, <1>3, FS_Subset, FS_CardinalityType DEF BytesOf

-----------------------------------------------------------------------------
\* Every step keeps the types, and the bucket finite.
LEMMA TypedStep == Typed /\ [Next]_vars => Typed'
<1> SUFFICES ASSUME Typed, [Next]_vars
             PROVE  Typed'
  OBVIOUS
<1> USE DEF Typed
<1>0. JobsTyped
  BY DEF TypeOK, JobsTyped
<1>q. JobsTyped' => /\ (pc \in [Proc -> Stage] /\ job \in [Proc -> Job])'
                    /\ (\A p \in Proc : pc[p] = "idle" <=> job[p].key = NoKey)'
                    /\ (\A p \in Proc : pc[p] \in Changing \cup {"getting"} => job[p].rec # Absent)'
  BY DEF JobsTyped
<1>1. ASSUME NEW p \in Handler, NEW k \in Key, NEW size \in 1..MaxSize, NEW ttl \in TTL, PutCheck(p, k, size, ttl)
      PROVE  Typed'
  <2> DEFINE r == [size |-> size, exp |-> now + ttl]
  <2>1. r \in Entry /\ r # Absent
    BY StoreAssumption DEF TypeOK, Entry, Record, Absent
  <2>2. Go(p, "storing", k, r) /\ "storing" \in Stage /\ p \in Proc
    BY <1>1 DEF PutCheck, Stage, Proc
  <2> HIDE DEF r
  <2>3. JobsTyped'
    BY <1>0, <2>1, <2>2, GoTyped
  <2>4. QED
    BY <1>1, <1>q, <2>3, StoreAssumption DEF PutCheck, Begins, TypeOK, memory
<1>2. ASSUME NEW p \in Proc, PutStore(p)
      PROVE  Typed'
  <2>1. pc[p] \in Changing /\ "counting" \in Changing /\ pc' = [pc EXCEPT ![p] = "counting"] /\ job' = job
    BY <1>2 DEF PutStore, Changing
  <2>2. JobsTyped'
    BY <1>0, <2>1, StageTyped
  <2>3. job[p].key \in Key /\ job[p].rec \in Record
    BY <1>0, <2>1, JobFacts
  <2>4. With(job[p].key, job[p].rec) \subseteq Object /\ IsFiniteSet(With(job[p].key, job[p].rec))
    BY <2>3, BucketTyped DEF TypeOK
  <2>5. QED
    BY <1>2, <1>q, <2>2, <2>4 DEF PutStore, TypeOK, memory, history
<1>3. ASSUME NEW p \in Proc, PutFail(p)
      PROVE  Typed'
  <2>1. JobsTyped'
    BY <1>0, <1>3, FinishTyped DEF PutFail
  <2>2. job[p].key \in Key /\ job[p].rec \in Record
    BY <1>0, <1>3, JobFacts DEF PutFail, Changing
  <2>3. With(job[p].key, job[p].rec) \subseteq Object /\ IsFiniteSet(With(job[p].key, job[p].rec))
    BY <2>2, BucketTyped DEF TypeOK
  <2>4. bucket' \subseteq Object /\ IsFiniteSet(bucket') /\ raced' \subseteq Key /\ strayed' \in BOOLEAN
    BY <1>3, <2>2, <2>3 DEF PutFail, Strays, TypeOK, history
  <2>5. QED
    BY <1>3, <1>q, <2>1, <2>4, StoreAssumption DEF PutFail, TypeOK, memory
<1>4. ASSUME NEW p \in Proc, PutCount(p)
      PROVE  Typed'
  <2>1. JobsTyped'
    BY <1>0, <1>4, FinishTyped DEF PutCount
  <2>2. job[p].key \in Key /\ job[p].rec \in Entry /\ job[p].rec.size \in Int
    BY <1>0, <1>4, JobFacts, StoreAssumption DEF PutCount, Changing
  <2>3. job[p].key[1] \in Identity
    BY <2>2, KeyFacts
  <2>4. QED
    BY <1>4, <1>q, <2>1, <2>2, <2>3 DEF PutCount, TypeOK, history
<1>5. ASSUME NEW p \in Handler, NEW k \in Key, Lookup(p, k)
      PROVE  Typed'
  <2> DEFINE st == IF index[k].exp <= now THEN "finding" ELSE "getting"
  <2>1. Go(p, st, k, index[k]) /\ index[k] # Absent /\ p \in Proc
    BY <1>5 DEF Lookup, Proc
  <2>2. st \in Stage /\ st # "idle" /\ index[k] \in Entry
    BY DEF Stage, TypeOK
  <2> HIDE DEF st
  <2>3. JobsTyped'
    BY <1>0, <2>1, <2>2, GoTyped
  <2>4. QED
    BY <1>5, <1>q, <2>3 DEF Lookup, TypeOK, memory, history
<1>6. ASSUME NEW p \in Proc, GetObject(p)
      PROVE  Typed'
  <2>1. CASE Finish(p)
    <3>1. JobsTyped'
      BY <1>0, <2>1, FinishTyped
    <3>2. QED
      BY <1>6, <1>q, <3>1 DEF GetObject, TypeOK, memory, history
  <2>2. CASE Go(p, "finding", job[p].key, Absent)
    <3>1. job[p].key \in Key
      BY <1>0, <1>6, JobFacts DEF GetObject
    <3>2. "finding" \in Stage /\ Absent \in Entry /\ "finding" \notin Changing \cup {"getting"}
      BY DEF Stage, Entry, Changing
    <3>3. JobsTyped'
      BY <1>0, <2>2, <3>1, <3>2, GoTyped
    <3>4. QED
      BY <1>6, <1>q, <3>3 DEF GetObject, TypeOK, memory, history
  <2>3. QED
    BY <1>6, <2>1, <2>2 DEF GetObject
<1>7. ASSUME NEW p \in Handler, NEW k \in Key, DeleteStart(p, k)
      PROVE  Typed'
  <2>1. "finding" \in Stage /\ Absent \in Entry /\ "finding" \notin Changing \cup {"getting"} /\ p \in Proc
    BY DEF Stage, Entry, Changing, Proc
  <2>2. JobsTyped'
    BY <1>0, <1>7, <2>1, GoTyped DEF DeleteStart
  <2>3. QED
    BY <1>7, <1>q, <2>2 DEF DeleteStart, TypeOK, memory, history
<1>8. ASSUME NEW p \in Proc, Find(p)
      PROVE  Typed'
  <2>1. job[p].key \in Key
    BY <1>0, <1>8, JobFacts DEF Find
  <2>2. raced' \subseteq Key /\ strayed' \in BOOLEAN
    BY <1>8, <2>1 DEF Find, Begins, TypeOK, history
  <2>3. CASE Finish(p)
    <3>1. JobsTyped'
      BY <1>0, <2>3, FinishTyped
    <3>2. QED
      BY <1>8, <1>q, <2>2, <3>1 DEF Find, TypeOK, memory
  <2>4. CASE index[job[p].key] # Absent /\ Go(p, "deleting", job[p].key, index[job[p].key])
    <3>1. "deleting" \in Stage /\ index[job[p].key] \in Entry
      BY <2>1 DEF Stage, TypeOK
    <3>2. JobsTyped'
      BY <1>0, <2>1, <2>4, <3>1, GoTyped
    <3>3. QED
      BY <1>8, <1>q, <2>2, <3>2 DEF Find, TypeOK, memory
  <2>5. QED
    BY <1>8, <2>3, <2>4 DEF Find
<1>9. ASSUME NEW p \in Proc, DeleteObject(p)
      PROVE  Typed'
  <2>1. pc[p] \in Changing /\ "uncounting" \in Changing /\ pc' = [pc EXCEPT ![p] = "uncounting"] /\ job' = job
    BY <1>9 DEF DeleteObject, Changing
  <2>2. JobsTyped'
    BY <1>0, <2>1, StageTyped
  <2>3. job[p].key \in Key
    BY <1>0, <2>1, JobFacts
  <2>4. Without(job[p].key, job[p].rec.exp) \subseteq Object /\ IsFiniteSet(Without(job[p].key, job[p].rec.exp))
    BY <2>3, BucketTyped DEF TypeOK
  <2>5. QED
    BY <1>9, <1>q, <2>2, <2>4 DEF DeleteObject, TypeOK, memory, history
<1>10. ASSUME NEW p \in Proc, DeleteFail(p)
       PROVE  Typed'
  <2>1. JobsTyped'
    BY <1>0, <1>10, FinishTyped DEF DeleteFail
  <2>2. job[p].key \in Key
    BY <1>0, <1>10, JobFacts DEF DeleteFail, Changing
  <2>3. Without(job[p].key, job[p].rec.exp) \subseteq Object /\ IsFiniteSet(Without(job[p].key, job[p].rec.exp))
    BY <2>2, BucketTyped DEF TypeOK
  <2>4. bucket' \subseteq Object /\ IsFiniteSet(bucket') /\ raced' \subseteq Key /\ strayed' \in BOOLEAN
    BY <1>10, <2>2, <2>3 DEF DeleteFail, Strays, TypeOK, history
  <2>5. QED
    BY <1>10, <1>q, <2>1, <2>4, StoreAssumption DEF DeleteFail, TypeOK, memory
<1>11. ASSUME NEW p \in Proc, Uncount(p)
       PROVE  Typed'
  <2>1. JobsTyped'
    BY <1>0, <1>11, FinishTyped DEF Uncount
  <2>2. job[p].key \in Key /\ job[p].rec.size \in Int
    BY <1>0, <1>11, JobFacts, StoreAssumption DEF Uncount, Changing
  <2>3. job[p].key[1] \in Identity /\ Absent \in Entry
    BY <2>2, KeyFacts DEF Entry
  <2>4. QED
    BY <1>11, <1>q, <2>1, <2>2, <2>3 DEF Uncount, TypeOK, history
<1>12. CASE SweepStart
  BY <1>12 DEF SweepStart, TypeOK, memory, history
<1>13. CASE SweepNext
  <2>1. PICK k \in dead : dead' = dead \ {k} /\ Go(Sweeper, "finding", k, Absent)
    BY <1>13 DEF SweepNext
  <2>2. k \in Key /\ "finding" \in Stage /\ Absent \in Entry /\ "finding" \notin Changing \cup {"getting"} /\ Sweeper \in Proc
    BY DEF TypeOK, Stage, Entry, Changing, Proc
  <2>3. JobsTyped'
    BY <1>0, <2>1, <2>2, GoTyped
  <2>4. QED
    BY <1>13, <1>q, <2>1, <2>3 DEF SweepNext, TypeOK, memory, history
<1>14. CASE Tick
  BY <1>14, StoreAssumption DEF Tick, TypeOK, memory, history
<1>15. CASE Restart
  <2>1. BytesOf(bucket) \in Nat
    BY BytesType
  <2>2. ASSUME NEW i \in Identity
        PROVE  BytesOf(ObjectsOf(i)) \in Nat /\ Cardinality(ObjectsOf(i)) \in Nat
    <3>1. ObjectsOf(i) \subseteq bucket
      BY DEF ObjectsOf
    <3>2. IsFiniteSet(ObjectsOf(i))
      BY <3>1, FS_Subset
    <3>3. QED
      BY <3>2, BytesType, FS_CardinalityType
  <2>3. bytes' \in [Identity -> Int] /\ count' \in [Identity -> Int] /\ total' \in Int
    BY <1>15, <2>1, <2>2 DEF Restart
  <2>4. index' \in [Key -> Entry]
    <3>1. ASSUME NEW k \in Key, NEW newest, newest \subseteq bucket
          PROVE  (IF newest = {} THEN Absent
                  ELSE LET o == CHOOSE o \in newest : TRUE IN [size |-> o.size, exp |-> o.exp]) \in Entry
      <4>1. CASE newest = {}
        BY <4>1 DEF Entry
      <4>2. CASE newest # {}
        <5>1. (CHOOSE o \in newest : TRUE) \in Object
          BY <3>1, <4>2 DEF TypeOK
        <5>2. \A o \in Object : [size |-> o.size, exp |-> o.exp] \in Record
          BY DEF Object, Record
        <5>3. QED
          BY <4>2, <5>1, <5>2 DEF Entry
      <4>3. QED
        BY <4>1, <4>2
    <3>2. \A k \in Key : Newest(k) \subseteq bucket
      BY DEF Newest, Held
    <3>3. QED
      BY <1>15, <3>1, <3>2 DEF Restart, contents
  <2>5. known' \subseteq Identity
    BY <1>15, KeyFacts DEF Restart, TypeOK, Object
  <2>6. JobsTyped'
    <3>1. "idle" \in Stage /\ "idle" \notin Changing \cup {"getting"} /\ NoJob \in Job /\ NoJob.key = NoKey
      BY DEF Stage, Changing, NoJob, Job, Entry
    <3>2. QED
      BY <1>15, <3>1 DEF Restart, JobsTyped
  <2>7. QED
    BY <1>15, <1>q, <2>3, <2>4, <2>5, <2>6, StoreAssumption DEF Restart, TypeOK
<1>16. CASE UNCHANGED vars
  BY <1>16 DEF vars, TypeOK, memory, history
<1>17. QED
  BY <1>1, <1>2, <1>3, <1>4, <1>5, <1>6, <1>7, <1>8, <1>9, <1>10, <1>11, <1>12, <1>13, <1>14, <1>15, <1>16 DEF Next

\* The types hold at the start.
LEMMA InitTyped == Init => Typed
<1> SUFFICES ASSUME Init
             PROVE  Typed
  OBVIOUS
<1>1. "idle" \in Stage /\ "idle" \notin Changing \cup {"getting"} /\ NoJob \in Job /\ NoJob.key = NoKey
  BY DEF Stage, Changing, NoJob, Job, Entry
<1>2. JobsTyped
  BY <1>1 DEF Init, JobsTyped
<1>3. index \in [Key -> Entry] /\ IsFiniteSet(bucket)
  BY FS_EmptySet DEF Init, Entry
<1>4. bytes \in [Identity -> Int] /\ count \in [Identity -> Int] /\ total \in Int
  BY DEF Init
<1>5. now \in 0..MaxNow /\ puts \in 0..MaxPuts /\ faults \in 0..MaxFaults
  BY StoreAssumption DEF Init
<1>6. bucket \subseteq Object /\ known \subseteq Identity /\ dead \subseteq Key /\ raced \subseteq Key /\ strayed \in BOOLEAN
  BY DEF Init
<1>7. QED
  BY <1>2, <1>3, <1>4, <1>5, <1>6 DEF Typed, TypeOK, JobsTyped

-----------------------------------------------------------------------------
\* The sets A and B count the same, with the jobs j and h, but for what p counts.
SameButFor(p, A, B, j, h) ==
  /\ SizesIn(j, A) \in Nat /\ Cardinality(A) \in Nat
  /\ SizesIn(h, B) = SizesIn(j, A) - (IF p \in A THEN j[p].rec.size ELSE 0)
                                 + (IF p \in B THEN h[p].rec.size ELSE 0)
  /\ Cardinality(B) = Cardinality(A) - (IF p \in A THEN 1 ELSE 0) + (IF p \in B THEN 1 ELSE 0)

\* Two sets of processes that differ in p at most, and two jobs that do, count the same
\* but for what p counts.
LEMMA MoveSizes ==
  ASSUME NEW A, NEW B, A \subseteq Proc, B \subseteq Proc, NEW p \in Proc, A \ {p} = B \ {p},
         NEW j, NEW h, ButFor(p, j, h),
         p \in A => j[p].rec.size \in 1..MaxSize,
         p \in B => h[p].rec.size \in 1..MaxSize
  PROVE  SameButFor(p, A, B, j, h)
<1> DEFINE rest == A \ {p}
<1>1. rest \subseteq Proc /\ p \notin rest
  OBVIOUS
<1>2. /\ p \in A => A = rest \cup {p}
      /\ p \notin A => A = rest
      /\ p \in B => B = rest \cup {p}
      /\ p \notin B => B = rest
  OBVIOUS
<1> HIDE DEF rest
<1>3. /\ SizesIn(j, rest) \in Nat /\ Cardinality(rest) \in Nat
      /\ SizesIn(h, rest) = SizesIn(j, rest)
      /\ h[p].rec.size \in 1..MaxSize => SizesIn(h, rest \cup {p}) = SizesIn(j, rest) + h[p].rec.size
      /\ j[p].rec.size \in 1..MaxSize => SizesIn(j, rest \cup {p}) = SizesIn(j, rest) + j[p].rec.size
      /\ Cardinality(rest \cup {p}) = Cardinality(rest) + 1
  BY <1>1, OneMoreProcess
<1>4. /\ SizesIn(j, A) = IF p \in A THEN SizesIn(j, rest) + j[p].rec.size ELSE SizesIn(j, rest)
      /\ Cardinality(A) = IF p \in A THEN Cardinality(rest) + 1 ELSE Cardinality(rest)
  <2>1. CASE p \in A
    BY <1>2, <1>3, <2>1
  <2>2. CASE p \notin A
    BY <1>2, <2>2
  <2>3. QED
    BY <2>1, <2>2
<1>5. /\ SizesIn(h, B) = IF p \in B THEN SizesIn(j, rest) + h[p].rec.size ELSE SizesIn(j, rest)
      /\ Cardinality(B) = IF p \in B THEN Cardinality(rest) + 1 ELSE Cardinality(rest)
  <2>1. CASE p \in B
    BY <1>2, <1>3, <2>1
  <2>2. CASE p \notin B
    BY <1>2, <1>3, <2>2
  <2>3. QED
    BY <2>1, <2>2
<1>6. MaxSize \in Nat
  BY StoreAssumption
<1>7. QED
  BY <1>3, <1>4, <1>5, <1>6 DEF SameButFor

\* What a process that counts keeps from the memory for the keys ks, and one that
\* uncounts leaves in it.
Debit(c, j, p, ks) ==
  IF j[p].key \notin ks THEN 0
  ELSE IF c[p] = "counting" THEN j[p].rec.size
  ELSE IF c[p] = "uncounting" THEN -j[p].rec.size ELSE 0
DebitCount(c, j, p, ks) ==
  IF j[p].key \notin ks THEN 0
  ELSE IF c[p] = "counting" THEN 1
  ELSE IF c[p] = "uncounting" THEN -1 ELSE 0

\* What the memory is to say moves by what p debits.
MovesBy(b, b2, c, j, d, h, p, ks) ==
  /\ Net(b, c, j, ks) \in Int /\ NetCount(b, c, j, ks) \in Int
  /\ Net(b2, d, h, ks) = Net(b, c, j, ks) + Debit(c, j, p, ks) - Debit(d, h, p, ks)
  /\ NetCount(b2, d, h, ks) = NetCount(b, c, j, ks) + DebitCount(c, j, p, ks) - DebitCount(d, h, p, ks)

\* It does when p moves and nothing else does.
LEMMA NetMove ==
  ASSUME NEW b, NEW b2, NEW ks, ObjectsIn(b2, ks) = ObjectsIn(b, ks),
         BytesOf(ObjectsIn(b, ks)) \in Nat, Cardinality(ObjectsIn(b, ks)) \in Nat,
         NEW c, NEW j, NEW d, NEW h, NEW p \in Proc,
         ButFor(p, c, d), ButFor(p, j, h),
         c[p] \in {"counting", "uncounting"} => j[p].rec.size \in 1..MaxSize,
         d[p] \in {"counting", "uncounting"} => h[p].rec.size \in 1..MaxSize
  PROVE  MovesBy(b, b2, c, j, d, h, p, ks)
<1> DEFINE A == Doing(c, j, "counting", ks)
           B == Doing(d, h, "counting", ks)
           U == Doing(c, j, "uncounting", ks)
           V == Doing(d, h, "uncounting", ks)
<1>1. /\ A \subseteq Proc /\ B \subseteq Proc /\ A \ {p} = B \ {p}
      /\ U \subseteq Proc /\ V \subseteq Proc /\ U \ {p} = V \ {p}
  BY DEF Doing, ButFor
<1>2. /\ p \in A <=> c[p] = "counting" /\ j[p].key \in ks
      /\ p \in B <=> d[p] = "counting" /\ h[p].key \in ks
      /\ p \in U <=> c[p] = "uncounting" /\ j[p].key \in ks
      /\ p \in V <=> d[p] = "uncounting" /\ h[p].key \in ks
  BY DEF Doing
<1>3. /\ p \in A \/ p \in U => j[p].rec.size \in 1..MaxSize
      /\ p \in B \/ p \in V => h[p].rec.size \in 1..MaxSize
  BY <1>2
<1>4. /\ Net(b, c, j, ks) = BytesOf(ObjectsIn(b, ks)) - SizesIn(j, A) + SizesIn(j, U)
      /\ Net(b2, d, h, ks) = BytesOf(ObjectsIn(b, ks)) - SizesIn(h, B) + SizesIn(h, V)
      /\ NetCount(b, c, j, ks) = Cardinality(ObjectsIn(b, ks)) - Cardinality(A) + Cardinality(U)
      /\ NetCount(b2, d, h, ks) = Cardinality(ObjectsIn(b, ks)) - Cardinality(B) + Cardinality(V)
  BY DEF Net, NetCount
<1> HIDE DEF A, B, U, V
<1>5. /\ SizesIn(j, A) \in Nat /\ Cardinality(A) \in Nat
      /\ SizesIn(h, B) = SizesIn(j, A) - (IF p \in A THEN j[p].rec.size ELSE 0)
                                     + (IF p \in B THEN h[p].rec.size ELSE 0)
      /\ Cardinality(B) = Cardinality(A) - (IF p \in A THEN 1 ELSE 0) + (IF p \in B THEN 1 ELSE 0)
  BY <1>1, <1>3, MoveSizes DEF SameButFor
<1>6. /\ SizesIn(j, U) \in Nat /\ Cardinality(U) \in Nat
      /\ SizesIn(h, V) = SizesIn(j, U) - (IF p \in U THEN j[p].rec.size ELSE 0)
                                     + (IF p \in V THEN h[p].rec.size ELSE 0)
      /\ Cardinality(V) = Cardinality(U) - (IF p \in U THEN 1 ELSE 0) + (IF p \in V THEN 1 ELSE 0)
  BY <1>1, <1>3, MoveSizes DEF SameButFor
<1>7. MaxSize \in Nat
  BY StoreAssumption
<1>8. /\ Debit(c, j, p, ks) \in Int
      /\ Debit(c, j, p, ks) = (IF p \in A THEN j[p].rec.size ELSE 0) - (IF p \in U THEN j[p].rec.size ELSE 0)
      /\ DebitCount(c, j, p, ks) = (IF p \in A THEN 1 ELSE 0) - (IF p \in U THEN 1 ELSE 0)
  BY <1>2, <1>7 DEF Debit, DebitCount
<1>9. /\ Debit(d, h, p, ks) \in Int
      /\ Debit(d, h, p, ks) = (IF p \in B THEN h[p].rec.size ELSE 0) - (IF p \in V THEN h[p].rec.size ELSE 0)
      /\ DebitCount(d, h, p, ks) = (IF p \in B THEN 1 ELSE 0) - (IF p \in V THEN 1 ELSE 0)
  BY <1>2, <1>7 DEF Debit, DebitCount
<1>10. /\ Net(b, c, j, ks) \in Int /\ NetCount(b, c, j, ks) \in Int
      /\ Net(b2, d, h, ks) = Net(b, c, j, ks) + Debit(c, j, p, ks) - Debit(d, h, p, ks)
  BY <1>1, <1>2, <1>5, <1>6, <1>4, <1>7, <1>8, <1>9
<1>11. NetCount(b2, d, h, ks) = NetCount(b, c, j, ks) + DebitCount(c, j, p, ks) - DebitCount(d, h, p, ks)
  BY <1>5, <1>6, <1>4, <1>8, <1>9
<1>12. QED
  BY <1>10, <1>11 DEF MovesBy

\* An object more is that much more that the memory is to say.
LEMMA NetObject ==
  ASSUME NEW b, b \subseteq Object, IsFiniteSet(b), NEW o \in Object, o \notin b, NEW c, NEW j, NEW ks
  PROVE  /\ Net(b, c, j, ks) \in Int /\ NetCount(b, c, j, ks) \in Int
         /\ Net(b \cup {o}, c, j, ks) = Net(b, c, j, ks) + (IF o.key \in ks THEN o.size ELSE 0)
         /\ NetCount(b \cup {o}, c, j, ks) = NetCount(b, c, j, ks) + (IF o.key \in ks THEN 1 ELSE 0)
<1> DEFINE A == Doing(c, j, "counting", ks)
           U == Doing(c, j, "uncounting", ks)
<1>1. A \subseteq Proc /\ U \subseteq Proc
  BY DEF Doing
<1> HIDE DEF A, U
<1>2. ASSUME NEW ps, ps \subseteq Proc
      PROVE  SizesIn(j, ps) \in Nat /\ Cardinality(ps) \in Nat
  <2>1. IsFiniteSet(ps) /\ IsFiniteSet(1..MaxSize)
    BY <1>2, FiniteProc, FS_Subset, FS_Interval, StoreAssumption
  <2>2. IsFiniteSet(ps \X (1..MaxSize))
    BY <2>1, FS_Product
  <2>3. {x \in ps \X (1..MaxSize) : x[2] <= j[x[1]].rec.size} \subseteq ps \X (1..MaxSize)
    OBVIOUS
  <2>4. QED
    BY <2>1, <2>2, <2>3, FS_Subset, FS_CardinalityType DEF SizesIn
<1>3. SizesIn(j, A) \in Nat /\ SizesIn(j, U) \in Nat /\ Cardinality(A) \in Nat /\ Cardinality(U) \in Nat
  BY <1>1, <1>2
<1>4. /\ BytesOf(ObjectsIn(b, ks)) \in Nat /\ Cardinality(ObjectsIn(b, ks)) \in Nat
      /\ o.key \in ks =>
           /\ BytesOf(ObjectsIn(b \cup {o}, ks)) = BytesOf(ObjectsIn(b, ks)) + o.size
           /\ Cardinality(ObjectsIn(b \cup {o}, ks)) = Cardinality(ObjectsIn(b, ks)) + 1
      /\ o.key \notin ks => ObjectsIn(b \cup {o}, ks) = ObjectsIn(b, ks)
  BY OneMoreObject
<1>5. o.size \in Int
  BY StoreAssumption DEF Object
<1>6. \A e : /\ Net(e, c, j, ks) = BytesOf(ObjectsIn(e, ks)) - SizesIn(j, A) + SizesIn(j, U)
             /\ NetCount(e, c, j, ks) = Cardinality(ObjectsIn(e, ks)) - Cardinality(A) + Cardinality(U)
  BY DEF Net, NetCount, A, U
<1>7. QED
  BY <1>3, <1>4, <1>5, <1>6

-----------------------------------------------------------------------------
\* NetMove in a state of the store: process p moves, and the objects of the keys ks stay.
LEMMA NetStep ==
  ASSUME Typed, NEW p \in Proc, ButFor(p, pc, pc'), ButFor(p, job, job'),
         pc'[p] \in {"counting", "uncounting"} => job'[p].rec.size \in 1..MaxSize,
         NEW b, NEW ks, ObjectsIn(b, ks) = ObjectsIn(bucket, ks)
  PROVE  /\ Net(bucket, pc, job, ks) \in Int /\ NetCount(bucket, pc, job, ks) \in Int
         /\ Net(b, pc', job', ks)
              = Net(bucket, pc, job, ks) + Debit(pc, job, p, ks) - Debit(pc', job', p, ks)
         /\ NetCount(b, pc', job', ks)
              = NetCount(bucket, pc, job, ks) + DebitCount(pc, job, p, ks) - DebitCount(pc', job', p, ks)
<1>1. IsFiniteSet(ObjectsIn(bucket, ks))
  <2>1. ObjectsIn(bucket, ks) \subseteq bucket
    BY DEF ObjectsIn
  <2>2. QED
    BY <2>1, FS_Subset DEF Typed
<1>2. BytesOf(ObjectsIn(bucket, ks)) \in Nat /\ Cardinality(ObjectsIn(bucket, ks)) \in Nat
  BY <1>1, BytesType, FS_CardinalityType
<1>3. pc[p] \in {"counting", "uncounting"} => job[p].rec.size \in 1..MaxSize
  <2>1. JobsTyped
    BY DEF Typed, TypeOK, JobsTyped
  <2>2. QED
    BY <2>1, JobFacts DEF Changing
<1>4. MovesBy(bucket, b, pc, job, pc', job', p, ks)
  BY <1>2, <1>3, NetMove
<1>5. QED
  BY <1>4 DEF MovesBy

\* A step that adds n bytes and m records to the counters of the owner of k, and one that
\* adds them to what the memory is to say of k.
Adds(k, n, m) ==
  /\ total' = total + n
  /\ \A i \in Identity : /\ bytes'[i] = bytes[i] + (IF k[1] = i THEN n ELSE 0)
                        /\ count'[i] = count[i] + (IF k[1] = i THEN m ELSE 0)
Needs(k, n, m) ==
  \A ks \in SUBSET Key : ks \cap raced' = {} =>
    /\ Net(bucket', pc', job', ks) = Net(bucket, pc, job, ks) + (IF k \in ks THEN n ELSE 0)
    /\ NetCount(bucket', pc', job', ks) = NetCount(bucket, pc, job, ks) + (IF k \in ks THEN m ELSE 0)

\* The counters are right after a step that adds what it needs to add.
LEMMA BalancedBy ==
  ASSUME Typed, Balanced, raced \subseteq raced', NEW k \in Key, NEW n \in Int, NEW m \in Int,
         Needs(k, n, m), Adds(k, n, m)
  PROVE  Balanced'
<1>1. raced' = {} => total' = Net(bucket', pc', job', Key)
  <2>1. Key \in SUBSET Key
    OBVIOUS
  <2>2. raced' = {} => raced = {} /\ Key \cap raced' = {}
    OBVIOUS
  <2>3. QED
    BY <2>1, <2>2 DEF Balanced, Needs, Adds
<1>2. ASSUME NEW i \in Identity, KeysOf(i) \cap raced' = {}
      PROVE  /\ bytes'[i] = Net(bucket', pc', job', KeysOf(i))
             /\ count'[i] = NetCount(bucket', pc', job', KeysOf(i))
  <2>1. KeysOf(i) \in SUBSET Key
    BY DEF KeysOf, Key
  <2>2. k \in KeysOf(i) <=> k[1] = i
    BY DEF KeysOf, Key
  <2>3. KeysOf(i) \cap raced = {}
    BY <1>2
  <2>4. /\ bytes[i] = Net(bucket, pc, job, KeysOf(i))
        /\ count[i] = NetCount(bucket, pc, job, KeysOf(i))
    BY <2>3 DEF Balanced
  <2>5. /\ bytes'[i] = bytes[i] + (IF k[1] = i THEN n ELSE 0)
        /\ count'[i] = count[i] + (IF k[1] = i THEN m ELSE 0)
        /\ bytes[i] \in Int /\ count[i] \in Int
    BY DEF Adds, Typed, TypeOK
  <2>6. /\ Net(bucket', pc', job', KeysOf(i)) = Net(bucket, pc, job, KeysOf(i)) + (IF k \in KeysOf(i) THEN n ELSE 0)
        /\ NetCount(bucket', pc', job', KeysOf(i))
             = NetCount(bucket, pc, job, KeysOf(i)) + (IF k \in KeysOf(i) THEN m ELSE 0)
    BY <1>2, <2>1 DEF Needs
  <2>7. QED
    BY <2>2, <2>4, <2>5, <2>6
<1>3. QED
  BY <1>1, <1>2 DEF Balanced

\* They stay right when memory stays and the counting does not move.
LEMMA BalancedStill ==
  ASSUME Typed, Balanced, raced \subseteq raced', raced' \subseteq Key, UNCHANGED memory,
         \A ks \in SUBSET Key : ks \cap raced' = {} =>
           /\ Net(bucket', pc', job', ks) = Net(bucket, pc, job, ks)
           /\ NetCount(bucket', pc', job', ks) = NetCount(bucket, pc, job, ks)
  PROVE  Balanced'
<1>1. ASSUME raced' = {}
      PROVE  total' = Net(bucket', pc', job', Key)
  <2>1. Key \in SUBSET Key /\ raced = {} /\ Key \cap raced' = {}
    BY <1>1
  <2>2. QED
    BY <2>1 DEF Balanced, memory
<1>2. ASSUME NEW i \in Identity, KeysOf(i) \cap raced' = {}
      PROVE  /\ bytes'[i] = Net(bucket', pc', job', KeysOf(i))
             /\ count'[i] = NetCount(bucket', pc', job', KeysOf(i))
  <2>1. KeysOf(i) \in SUBSET Key /\ KeysOf(i) \cap raced = {}
    BY <1>2 DEF KeysOf, Key
  <2>2. QED
    BY <1>2, <2>1 DEF Balanced, memory
<1>3. QED
  BY <1>1, <1>2 DEF Balanced

\* A step of a process that neither counts nor uncounts, before or after.
LEMMA BalancedApart ==
  ASSUME Typed, Balanced, raced \subseteq raced', raced' \subseteq Key, UNCHANGED memory,
         NEW p \in Proc, ButFor(p, pc, pc'), ButFor(p, job, job'),
         pc[p] \notin {"counting", "uncounting"}, pc'[p] \notin {"counting", "uncounting"},
         \A ks \in SUBSET Key : ks \cap raced' = {} => ObjectsIn(bucket', ks) = ObjectsIn(bucket, ks)
  PROVE  Balanced'
<1>1. ASSUME NEW ks \in SUBSET Key, ks \cap raced' = {}
      PROVE  /\ Net(bucket', pc', job', ks) = Net(bucket, pc, job, ks)
             /\ NetCount(bucket', pc', job', ks) = NetCount(bucket, pc, job, ks)
  <2>1. /\ Debit(pc, job, p, ks) = 0 /\ Debit(pc', job', p, ks) = 0
        /\ DebitCount(pc, job, p, ks) = 0 /\ DebitCount(pc', job', p, ks) = 0
    BY DEF Debit, DebitCount
  <2>2. ObjectsIn(bucket', ks) = ObjectsIn(bucket, ks)
    BY <1>1
  <2>3. /\ Net(bucket, pc, job, ks) \in Int /\ NetCount(bucket, pc, job, ks) \in Int
        /\ Net(bucket', pc', job', ks)
             = Net(bucket, pc, job, ks) + Debit(pc, job, p, ks) - Debit(pc', job', p, ks)
        /\ NetCount(bucket', pc', job', ks)
             = NetCount(bucket, pc, job, ks) + DebitCount(pc, job, p, ks) - DebitCount(pc', job', p, ks)
    BY <2>2, NetStep
  <2>4. QED
    BY <2>1, <2>3
<1>2. QED
  BY <1>1, BalancedStill

\* The objects of other keys stay when an object is stored or deleted.
LEMMA Elsewhere ==
  ASSUME NEW k, NEW r, NEW ks, k \notin ks
  PROVE  /\ ObjectsIn(With(k, r), ks) = ObjectsIn(bucket, ks)
         /\ ObjectsIn(Without(k, r.exp), ks) = ObjectsIn(bucket, ks)
BY DEF ObjectsIn, With, Without

-----------------------------------------------------------------------------
\* What Go does to the process that goes, and that it does nothing to the others.
LEMMA MoveFacts ==
  ASSUME Typed, NEW p \in Proc, NEW st, NEW k, NEW r, Go(p, st, k, r)
  PROVE  /\ ButFor(p, pc, pc') /\ ButFor(p, job, job')
         /\ pc'[p] = st /\ job'[p] = [key |-> k, rec |-> r]
BY DEF Go, ButFor, Typed, TypeOK

\* The same of a step to the next stage.
LEMMA StageFacts ==
  ASSUME Typed, NEW p \in Proc, NEW st, pc' = [pc EXCEPT ![p] = st], job' = job
  PROVE  /\ ButFor(p, pc, pc') /\ ButFor(p, job, job')
         /\ pc'[p] = st /\ job'[p] = job[p]
BY DEF ButFor, Typed, TypeOK

\* A key that p does not change, before or after, stays as it is keyed.
LEMMA KeyedElsewhere ==
  ASSUME NEW p \in Proc, ButFor(p, pc, pc'), ButFor(p, job, job'), NEW k \in Key, KeyedAt(k),
         ~Works(p, k), ~Works(p, k)', index'[k] = index[k], Held(k)' = Held(k)
  PROVE  KeyedAt(k)'
<1>1. \A q \in Proc : q # p => pc'[q] = pc[q] /\ job'[q] = job[q]
  BY DEF ButFor
<1>2. \A q \in Proc : Works(q, k)' <=> Works(q, k)
  BY <1>1 DEF Works
<1>3. ASSUME NEW q \in Proc, Works(q, k)'
      PROVE  Progress(q, k)'
  <2>1. Works(q, k) /\ q # p
    BY <1>2, <1>3
  <2>2. Progress(q, k)
    BY <2>1 DEF KeyedAt
  <2>3. pc'[q] = pc[q] /\ job'[q] = job[q]
    BY <1>1, <2>1
  <2>4. QED
    BY <2>2, <2>3 DEF Progress
<1>4. (\A q \in Proc : ~Works(q, k)') => Held(k)' = AtRest(k, index'[k])
  BY <1>2 DEF KeyedAt
<1>5. \A q, o \in Proc : Works(q, k)' /\ Works(o, k)' => q = o
  BY <1>2 DEF KeyedAt
<1>6. QED
  BY <1>3, <1>4, <1>5 DEF KeyedAt

\* When p is the only one that may change a key, the key is keyed as p says.
LEMMA KeyedSole ==
  ASSUME NEW p \in Proc, NEW k, \A q \in Proc \ {p} : ~Works(q, k)',
         Works(p, k)' => Progress(p, k)',
         ~Works(p, k)' => Held(k)' = AtRest(k, index'[k])
  PROVE  KeyedAt(k)'
<1>1. \A q \in Proc : Works(q, k)' => q = p
  OBVIOUS
<1>2. QED
  BY <1>1 DEF KeyedAt

\* No other process changes a key that is not raced and that p changes, and none will
\* by a step of p.
LEMMA Alone ==
  ASSUME NEW p \in Proc, NEW k, KeyedAt(k), Works(p, k), ButFor(p, pc, pc'), ButFor(p, job, job')
  PROVE  Progress(p, k) /\ \A q \in Proc \ {p} : ~Works(q, k) /\ ~Works(q, k)'
<1>1. \A q \in Proc \ {p} : ~Works(q, k)
  BY DEF KeyedAt
<1>2. \A q \in Proc \ {p} : Works(q, k)' <=> Works(q, k)
  BY DEF ButFor, Works
<1>3. QED
  BY <1>1, <1>2 DEF KeyedAt

\* A step of p that changes one key at most, K.
LEMMA KeyedMove ==
  ASSUME Typed, Keyed, NEW p \in Proc, ButFor(p, pc, pc'), ButFor(p, job, job'), raced \subseteq raced', NEW K,
         \A k \in Key : k # K => /\ ~Works(p, k) /\ ~Works(p, k)'
                                /\ index'[k] = index[k] /\ Held(k)' = Held(k),
         K \in Key \ raced' => KeyedAt(K)'
  PROVE  Keyed'
<1>1. ASSUME NEW k \in Key \ raced', k # K
      PROVE  KeyedAt(k)'
  <2>1. KeyedAt(k)
    BY DEF Keyed
  <2>2. ~Works(p, k) /\ ~Works(p, k)' /\ index'[k] = index[k] /\ Held(k)' = Held(k)
    BY <1>1
  <2>3. QED
    BY <2>1, <2>2, KeyedElsewhere
<1>2. QED
  BY <1>1 DEF Keyed

\* A step of p that changes none.
LEMMA KeyedApart ==
  ASSUME Typed, Keyed, NEW p \in Proc, ButFor(p, pc, pc'), ButFor(p, job, job'), raced \subseteq raced',
         pc[p] \notin Changing, pc'[p] \notin Changing, index' = index, bucket' = bucket
  PROVE  Keyed'
<1>1. ASSUME NEW k \in Key \ raced'
      PROVE  KeyedAt(k)'
  <2>1. KeyedAt(k)
    BY DEF Keyed
  <2>2. ~Works(p, k) /\ ~Works(p, k)' /\ index'[k] = index[k] /\ Held(k)' = Held(k)
    BY DEF Works, Held
  <2>3. QED
    BY <2>1, <2>2, KeyedElsewhere
<1>2. QED
  BY <1>1 DEF Keyed

\* What storing and deleting an object of k does to the objects of k, and to those of
\* other keys.
LEMMA HeldFacts ==
  ASSUME NEW k, NEW r
  PROVE  /\ \A l : l # k => /\ {o \in With(k, r) : o.key = l} = Held(l)
                            /\ {o \in Without(k, r.exp) : o.key = l} = Held(l)
         /\ Held(k) = {} => /\ {o \in With(k, r) : o.key = k} = {AsObject(k, r)}
                            /\ With(k, r) = bucket \cup {AsObject(k, r)}
                            /\ AsObject(k, r) \notin bucket
         /\ Held(k) = {AsObject(k, r)} =>
              /\ {o \in Without(k, r.exp) : o.key = k} = {}
              /\ bucket = Without(k, r.exp) \cup {AsObject(k, r)}
              /\ AsObject(k, r) \notin Without(k, r.exp)
<1>1. AsObject(k, r).key = k /\ AsObject(k, r).exp = r.exp
  BY DEF AsObject
<1>2. With(k, r) = Without(k, r.exp) \cup {AsObject(k, r)}
  BY DEF With, AsObject
<1>3. \A o : o \in Without(k, r.exp) <=> o \in bucket /\ ~(o.key = k /\ o.exp = r.exp)
  BY DEF Without
<1>4. \A o, l : o \in Held(l) <=> o \in bucket /\ o.key = l
  BY DEF Held
<1>5. ASSUME NEW l, l # k
      PROVE  /\ {o \in With(k, r) : o.key = l} = Held(l)
             /\ {o \in Without(k, r.exp) : o.key = l} = Held(l)
  BY <1>1, <1>2, <1>3, <1>4, <1>5
<1>6. ASSUME Held(k) = {}
      PROVE  /\ {o \in With(k, r) : o.key = k} = {AsObject(k, r)}
             /\ With(k, r) = bucket \cup {AsObject(k, r)}
             /\ AsObject(k, r) \notin bucket
  <2>1. Without(k, r.exp) = bucket /\ AsObject(k, r) \notin bucket
    BY <1>1, <1>3, <1>4, <1>6
  <2>2. QED
    BY <1>1, <1>2, <1>4, <1>6, <2>1
<1>7. ASSUME Held(k) = {AsObject(k, r)}
      PROVE  /\ {o \in Without(k, r.exp) : o.key = k} = {}
             /\ bucket = Without(k, r.exp) \cup {AsObject(k, r)}
             /\ AsObject(k, r) \notin Without(k, r.exp)
  BY <1>1, <1>3, <1>4, <1>7
<1>8. QED
  BY <1>5, <1>6, <1>7

-----------------------------------------------------------------------------
\* Every step keeps the keys that are not raced as the processes at them say.  What
\* protects a key is the history: a second process that begins makes it raced, and so does
\* a request to the bucket that failed but had its effect.
LEMMA KeyedStep == Typed /\ Keyed /\ [Next]_vars => Keyed'
<1> SUFFICES ASSUME Typed, Keyed, [Next]_vars
             PROVE  Keyed'
  OBVIOUS
<1>0. JobsTyped /\ "idle" \notin Changing /\ "getting" \notin Changing /\ "finding" \notin Changing
  BY DEF Typed, TypeOK, JobsTyped, Changing
<1>h. \A k : Held(k)' = {o \in bucket' : o.key = k}
  BY DEF Held
<1>1. ASSUME NEW p \in Handler, NEW k \in Key, NEW size \in 1..MaxSize, NEW ttl \in TTL, PutCheck(p, k, size, ttl)
      PROVE  Keyed'
  <2> DEFINE r == [size |-> size, exp |-> now + ttl]
  <2>1. p \in Proc /\ pc[p] = "idle" /\ index[k] = Absent /\ Go(p, "storing", k, r) /\ Begins(p, k)
        /\ index' = index /\ bucket' = bucket
    BY <1>1 DEF PutCheck, Proc, memory
  <2> HIDE DEF r
  <2>2. ButFor(p, pc, pc') /\ ButFor(p, job, job') /\ pc'[p] = "storing" /\ job'[p] = [key |-> k, rec |-> r]
    BY <2>1, MoveFacts
  <2>3. raced \subseteq raced'
    BY <2>1 DEF Begins
  <2>4. ASSUME k \notin raced'
        PROVE  KeyedAt(k)'
    <3>1. KeyedAt(k)
      BY <2>3, <2>4 DEF Keyed
    <3>2. \A q \in Proc : ~Works(q, k)
      BY <1>0, <2>1, <2>4 DEF Begins, Works
    <3>3. Held(k) = {}
      BY <2>1, <3>1, <3>2 DEF KeyedAt, AtRest
    <3>4. \A q \in Proc \ {p} : ~Works(q, k)'
      BY <2>2, <3>2 DEF ButFor, Works
    <3>5. Progress(p, k)'
      BY <1>h, <2>1, <2>2, <3>3 DEF Progress, Held
    <3>6. Works(p, k)'
      BY <2>2 DEF Works, Changing
    <3>7. p \in Proc
      BY <2>1
    <3>8. QED
      BY <3>4, <3>5, <3>6, <3>7, KeyedSole
  <2>5. \A l \in Key : l # k => /\ ~Works(p, l) /\ ~Works(p, l)'
                                /\ index'[l] = index[l] /\ Held(l)' = Held(l)
    BY <1>0, <1>h, <2>1, <2>2 DEF Works, Held
  <2>6. p \in Proc
    BY <2>1
  <2>7. QED
    BY <2>2, <2>3, <2>4, <2>5, <2>6, KeyedMove
<1>2. ASSUME NEW p \in Proc, PutStore(p)
      PROVE  Keyed'
  <2>0. PICK k, r : job[p].key = k /\ job[p].rec = r
    OBVIOUS
  <2>1. pc[p] = "storing" /\ bucket' = With(k, r) /\ pc' = [pc EXCEPT ![p] = "counting"] /\ job' = job
        /\ index' = index /\ raced' = raced
    BY <2>0, <1>2 DEF PutStore, memory, history
  <2>2. ButFor(p, pc, pc') /\ ButFor(p, job, job') /\ pc'[p] = "counting" /\ job'[p] = job[p]
    BY <2>1, StageFacts
  <2>3. ASSUME k \in Key \ raced'
        PROVE  KeyedAt(k)'
    <3>1. KeyedAt(k) /\ Works(p, k)
      BY <2>0, <2>1, <2>3 DEF Keyed, Works, Changing
    <3>2. Progress(p, k) /\ \A q \in Proc \ {p} : ~Works(q, k)'
      BY <2>2, <3>1, Alone
    <3>3. index[k] = Absent /\ Held(k) = {}
      BY <2>0, <2>1, <3>2 DEF Progress
    <3>4. Held(k)' = {AsObject(k, r)}
      BY <1>h, <2>1, <3>3, HeldFacts
    <3>5. Progress(p, k)'
      BY <2>0, <2>1, <2>2, <3>3, <3>4 DEF Progress
    <3>6. Works(p, k)'
      BY <2>0, <2>2 DEF Works, Changing
    <3>7. QED
      BY <3>2, <3>5, <3>6, KeyedSole
  <2>4. \A l \in Key : l # k => /\ ~Works(p, l) /\ ~Works(p, l)'
                                /\ index'[l] = index[l] /\ Held(l)' = Held(l)
    <3>1. \A l : l # k => Held(l)' = Held(l)
      BY <2>1 DEF Held, With, Without
    <3>2. QED
      BY <2>0, <2>1, <2>2, <3>1 DEF Works
  <2>5. raced \subseteq raced'
    BY <2>1
  <2>6. QED
    BY <2>2, <2>3, <2>4, <2>5, KeyedMove
<1>3. ASSUME NEW p \in Proc, PutFail(p)
      PROVE  Keyed'
  <2>0. PICK k, r : job[p].key = k /\ job[p].rec = r
    OBVIOUS
  <2>1. pc[p] = "storing" /\ Go(p, "idle", NoKey, Absent) /\ index' = index
        /\ \/ bucket' = bucket /\ raced' = raced
           \/ bucket' = With(k, r) /\ raced' = raced \cup {k}
    BY <2>0, <1>3 DEF PutFail, Finish, Strays, memory, history
  <2>2. ButFor(p, pc, pc') /\ ButFor(p, job, job') /\ pc'[p] = "idle"
    BY <2>1, MoveFacts
  <2>3. ASSUME k \in Key \ raced'
        PROVE  KeyedAt(k)'
    <3>1. KeyedAt(k) /\ Works(p, k) /\ bucket' = bucket
      BY <2>0, <2>1, <2>3 DEF Keyed, Works, Changing
    <3>2. Progress(p, k) /\ \A q \in Proc \ {p} : ~Works(q, k)'
      BY <2>2, <3>1, Alone
    <3>3. index[k] = Absent /\ Held(k) = {}
      BY <2>0, <2>1, <3>2 DEF Progress
    <3>4. Held(k)' = AtRest(k, index'[k]) /\ ~Works(p, k)'
      BY <2>0, <1>0, <1>h, <2>1, <2>2, <3>1, <3>3 DEF AtRest, Held, Works
    <3>5. QED
      BY <3>2, <3>4, KeyedSole
  <2>4. \A l \in Key : l # k => /\ ~Works(p, l) /\ ~Works(p, l)'
                                /\ index'[l] = index[l] /\ Held(l)' = Held(l)
    <3>1. \A l : l # k => Held(l)' = Held(l)
      BY <2>0, <1>h, <2>1, HeldFacts DEF Held
    <3>2. QED
      BY <2>0, <1>0, <2>1, <2>2, <3>1 DEF Works
  <2>5. raced \subseteq raced'
    BY <2>1
  <2>6. QED
    BY <2>2, <2>3, <2>4, <2>5, KeyedMove
<1>4. ASSUME NEW p \in Proc, PutCount(p)
      PROVE  Keyed'
  <2>0. PICK k, r : job[p].key = k /\ job[p].rec = r
    OBVIOUS
  <2>1. pc[p] = "counting" /\ Go(p, "idle", NoKey, Absent) /\ index' = [index EXCEPT ![k] = r]
        /\ bucket' = bucket /\ raced' = raced
    BY <2>0, <1>4 DEF PutCount, Finish, history
  <2>2. ButFor(p, pc, pc') /\ ButFor(p, job, job') /\ pc'[p] = "idle"
    BY <2>1, MoveFacts
  <2>3. k \in Key /\ r # Absent /\ index'[k] = r /\ \A l \in Key : l # k => index'[l] = index[l]
    BY <2>0, <1>0, <2>1, JobFacts, KeyFacts DEF Typed, TypeOK, Changing
  <2>4. ASSUME k \in Key \ raced'
        PROVE  KeyedAt(k)'
    <3>1. KeyedAt(k) /\ Works(p, k)
      BY <2>0, <2>1, <2>4 DEF Keyed, Works, Changing
    <3>2. Progress(p, k) /\ \A q \in Proc \ {p} : ~Works(q, k)'
      BY <2>2, <3>1, Alone
    <3>3. Held(k) = {AsObject(k, r)}
      BY <2>0, <2>1, <3>2 DEF Progress
    <3>4. Held(k)' = AtRest(k, index'[k]) /\ ~Works(p, k)'
      BY <2>0, <1>0, <1>h, <2>1, <2>2, <2>3, <3>3 DEF AtRest, Held, Works
    <3>5. QED
      BY <3>2, <3>4, KeyedSole
  <2>5. \A l \in Key : l # k => /\ ~Works(p, l) /\ ~Works(p, l)'
                                /\ index'[l] = index[l] /\ Held(l)' = Held(l)
    BY <2>0, <1>0, <1>h, <2>1, <2>2, <2>3 DEF Works, Held
  <2>6. raced \subseteq raced'
    BY <2>1
  <2>7. QED
    BY <2>2, <2>4, <2>5, <2>6, KeyedMove
<1>5. ASSUME NEW p \in Handler, NEW k \in Key, Lookup(p, k)
      PROVE  Keyed'
  <2> DEFINE st == IF index[k].exp <= now THEN "finding" ELSE "getting"
  <2>1. p \in Proc /\ pc[p] = "idle" /\ Go(p, st, k, index[k]) /\ index' = index /\ bucket' = bucket /\ raced' = raced
    BY <1>5 DEF Lookup, Proc, memory, history
  <2>2. st \notin Changing
    BY <1>0
  <2> HIDE DEF st
  <2>3. ButFor(p, pc, pc') /\ ButFor(p, job, job') /\ pc'[p] = st
    BY <2>1, MoveFacts
  <2>4. raced \subseteq raced' /\ pc[p] \notin Changing /\ pc'[p] \notin Changing
    BY <1>0, <2>1, <2>2, <2>3
  <2>5. QED
    BY <2>1, <2>3, <2>4, KeyedApart
<1>6. ASSUME NEW p \in Proc, GetObject(p)
      PROVE  Keyed'
  <2>1. pc[p] = "getting" /\ index' = index /\ bucket' = bucket /\ raced' = raced
        /\ (Go(p, "idle", NoKey, Absent) \/ Go(p, "finding", job[p].key, Absent))
    BY <1>6 DEF GetObject, Finish, memory, history
  <2>2. ButFor(p, pc, pc') /\ ButFor(p, job, job') /\ pc'[p] \in {"idle", "finding"}
    BY <2>1, MoveFacts
  <2>3. raced \subseteq raced' /\ pc[p] \notin Changing /\ pc'[p] \notin Changing
    BY <1>0, <2>1, <2>2
  <2>4. QED
    BY <2>1, <2>2, <2>3, KeyedApart
<1>7. ASSUME NEW p \in Handler, NEW k \in Key, DeleteStart(p, k)
      PROVE  Keyed'
  <2>1. p \in Proc /\ pc[p] = "idle" /\ Go(p, "finding", k, Absent) /\ index' = index /\ bucket' = bucket /\ raced' = raced
    BY <1>7 DEF DeleteStart, Proc, memory, history
  <2>2. ButFor(p, pc, pc') /\ ButFor(p, job, job') /\ pc'[p] = "finding"
    BY <2>1, MoveFacts
  <2>3. raced \subseteq raced' /\ pc[p] \notin Changing /\ pc'[p] \notin Changing
    BY <1>0, <2>1, <2>2
  <2>4. QED
    BY <2>1, <2>2, <2>3, KeyedApart
<1>8. ASSUME NEW p \in Proc, Find(p)
      PROVE  Keyed'
  <2>0. PICK k : job[p].key = k
    OBVIOUS
  <2>1. pc[p] = "finding" /\ index' = index /\ bucket' = bucket
    BY <2>0, <1>8 DEF Find, memory
  <2>2. CASE Finish(p) /\ UNCHANGED history
    <3>1. ButFor(p, pc, pc') /\ ButFor(p, job, job') /\ pc'[p] = "idle"
      BY <2>0, <2>2, MoveFacts DEF Finish
    <3>2. raced \subseteq raced' /\ pc[p] \notin Changing /\ pc'[p] \notin Changing
      BY <2>0, <1>0, <2>1, <2>2, <3>1 DEF history
    <3>3. QED
      BY <2>1, <3>1, <3>2, KeyedApart
  <2>3. CASE index[k] # Absent /\ Go(p, "deleting", k, index[k]) /\ Begins(p, k)
    <3>1. /\ ButFor(p, pc, pc') /\ ButFor(p, job, job')
          /\ pc'[p] = "deleting" /\ job'[p] = [key |-> k, rec |-> index[k]]
      BY <2>3, MoveFacts
    <3>2. raced \subseteq raced'
      BY <2>0, <2>3 DEF Begins
    <3>3. ASSUME k \in Key \ raced'
          PROVE  KeyedAt(k)'
      <4>1. KeyedAt(k)
        BY <2>0, <3>2, <3>3 DEF Keyed
      <4>2. \A q \in Proc : ~Works(q, k)
        BY <2>0, <1>0, <2>1, <2>3, <3>3 DEF Begins, Works
      <4>3. Held(k) = {AsObject(k, index[k])}
        BY <2>0, <2>3, <4>1, <4>2 DEF KeyedAt, AtRest
      <4>4. \A q \in Proc \ {p} : ~Works(q, k)'
        BY <2>0, <3>1, <4>2 DEF ButFor, Works
      <4>5. Progress(p, k)'
        BY <2>0, <1>h, <2>1, <3>1, <4>3 DEF Progress, Held
      <4>6. Works(p, k)'
        BY <2>0, <3>1 DEF Works, Changing
      <4>7. QED
        BY <4>4, <4>5, <4>6, KeyedSole
    <3>4. \A l \in Key : l # k => /\ ~Works(p, l) /\ ~Works(p, l)'
                                  /\ index'[l] = index[l] /\ Held(l)' = Held(l)
      BY <2>0, <1>0, <1>h, <2>1, <3>1 DEF Works, Held
    <3>5. QED
      BY <3>1, <3>2, <3>3, <3>4, KeyedMove
  <2>4. QED
    BY <2>0, <1>8, <2>2, <2>3 DEF Find
<1>9. ASSUME NEW p \in Proc, DeleteObject(p)
      PROVE  Keyed'
  <2>0. PICK k, r : job[p].key = k /\ job[p].rec = r
    OBVIOUS
  <2>1. pc[p] = "deleting" /\ bucket' = Without(k, r.exp) /\ pc' = [pc EXCEPT ![p] = "uncounting"] /\ job' = job
        /\ index' = index /\ raced' = raced
    BY <2>0, <1>9 DEF DeleteObject, memory, history
  <2>2. ButFor(p, pc, pc') /\ ButFor(p, job, job') /\ pc'[p] = "uncounting" /\ job'[p] = job[p]
    BY <2>1, StageFacts
  <2>3. ASSUME k \in Key \ raced'
        PROVE  KeyedAt(k)'
    <3>1. KeyedAt(k) /\ Works(p, k)
      BY <2>0, <2>1, <2>3 DEF Keyed, Works, Changing
    <3>2. Progress(p, k) /\ \A q \in Proc \ {p} : ~Works(q, k)'
      BY <2>2, <3>1, Alone
    <3>3. index[k] = r /\ Held(k) = {AsObject(k, r)}
      BY <2>0, <2>1, <3>2 DEF Progress
    <3>4. Held(k)' = {}
      BY <1>h, <2>1, <3>3, HeldFacts
    <3>5. Progress(p, k)'
      BY <2>0, <2>1, <2>2, <3>3, <3>4 DEF Progress
    <3>6. Works(p, k)'
      BY <2>0, <2>2 DEF Works, Changing
    <3>7. QED
      BY <3>2, <3>5, <3>6, KeyedSole
  <2>4. \A l \in Key : l # k => /\ ~Works(p, l) /\ ~Works(p, l)'
                                /\ index'[l] = index[l] /\ Held(l)' = Held(l)
    <3>1. \A l : l # k => Held(l)' = Held(l)
      BY <2>1 DEF Held, Without
    <3>2. QED
      BY <2>0, <2>1, <2>2, <3>1 DEF Works
  <2>5. raced \subseteq raced'
    BY <2>1
  <2>6. QED
    BY <2>2, <2>3, <2>4, <2>5, KeyedMove
<1>10. ASSUME NEW p \in Proc, DeleteFail(p)
       PROVE  Keyed'
  <2>0. PICK k, r : job[p].key = k /\ job[p].rec = r
    OBVIOUS
  <2>1. pc[p] = "deleting" /\ Go(p, "idle", NoKey, Absent) /\ index' = index
        /\ \/ bucket' = bucket /\ raced' = raced
           \/ bucket' = Without(k, r.exp) /\ raced' = raced \cup {k}
    BY <2>0, <1>10 DEF DeleteFail, Finish, Strays, memory, history
  <2>2. ButFor(p, pc, pc') /\ ButFor(p, job, job') /\ pc'[p] = "idle"
    BY <2>1, MoveFacts
  <2>3. r # Absent
    BY <2>0, <1>0, <2>1 DEF JobsTyped, Changing
  <2>4. ASSUME k \in Key \ raced'
        PROVE  KeyedAt(k)'
    <3>1. KeyedAt(k) /\ Works(p, k) /\ bucket' = bucket
      BY <2>0, <2>1, <2>4 DEF Keyed, Works, Changing
    <3>2. Progress(p, k) /\ \A q \in Proc \ {p} : ~Works(q, k)'
      BY <2>2, <3>1, Alone
    <3>3. index[k] = r /\ Held(k) = {AsObject(k, r)}
      BY <2>0, <2>1, <3>2 DEF Progress
    <3>4. Held(k)' = AtRest(k, index'[k]) /\ ~Works(p, k)'
      BY <2>0, <1>0, <1>h, <2>1, <2>2, <2>3, <3>1, <3>3 DEF AtRest, Held, Works
    <3>5. QED
      BY <3>2, <3>4, KeyedSole
  <2>5. \A l \in Key : l # k => /\ ~Works(p, l) /\ ~Works(p, l)'
                                /\ index'[l] = index[l] /\ Held(l)' = Held(l)
    <3>1. \A l : l # k => Held(l)' = Held(l)
      <4>1. CASE bucket' = bucket
        BY <4>1 DEF Held
      <4>2. CASE bucket' = Without(k, r.exp)
        BY <4>2 DEF Held, Without
      <4>3. QED
        BY <2>1, <4>1, <4>2
    <3>2. QED
      BY <2>0, <1>0, <2>1, <2>2, <3>1 DEF Works
  <2>6. raced \subseteq raced'
    BY <2>1
  <2>7. QED
    BY <2>2, <2>4, <2>5, <2>6, KeyedMove
<1>11. ASSUME NEW p \in Proc, Uncount(p)
       PROVE  Keyed'
  <2>0. PICK k : job[p].key = k
    OBVIOUS
  <2>1. pc[p] = "uncounting" /\ Go(p, "idle", NoKey, Absent) /\ index' = [index EXCEPT ![k] = Absent]
        /\ bucket' = bucket /\ raced' = raced
    BY <2>0, <1>11 DEF Uncount, Finish, history
  <2>2. ButFor(p, pc, pc') /\ ButFor(p, job, job') /\ pc'[p] = "idle"
    BY <2>1, MoveFacts
  <2>3. k \in Key /\ index'[k] = Absent /\ \A l \in Key : l # k => index'[l] = index[l]
    BY <2>0, <1>0, <2>1, JobFacts DEF Typed, TypeOK, Changing
  <2>4. ASSUME k \in Key \ raced'
        PROVE  KeyedAt(k)'
    <3>1. KeyedAt(k) /\ Works(p, k)
      BY <2>0, <2>1, <2>4 DEF Keyed, Works, Changing
    <3>2. Progress(p, k) /\ \A q \in Proc \ {p} : ~Works(q, k)'
      BY <2>2, <3>1, Alone
    <3>3. Held(k) = {}
      BY <2>0, <2>1, <3>2 DEF Progress
    <3>4. Held(k)' = AtRest(k, index'[k]) /\ ~Works(p, k)'
      BY <2>0, <1>0, <1>h, <2>1, <2>2, <2>3, <3>3 DEF AtRest, Held, Works
    <3>5. QED
      BY <3>2, <3>4, KeyedSole
  <2>5. \A l \in Key : l # k => /\ ~Works(p, l) /\ ~Works(p, l)'
                                /\ index'[l] = index[l] /\ Held(l)' = Held(l)
    BY <2>0, <1>0, <1>h, <2>1, <2>2, <2>3 DEF Works, Held
  <2>6. raced \subseteq raced'
    BY <2>1
  <2>7. QED
    BY <2>2, <2>4, <2>5, <2>6, KeyedMove
<1>12. CASE SweepStart \/ Tick \/ UNCHANGED vars
  <2>1. index' = index /\ bucket' = bucket /\ pc' = pc /\ job' = job /\ raced' = raced
    BY <1>12 DEF SweepStart, Tick, vars, memory, history
  <2>2. QED
    BY <2>1 DEF Keyed, KeyedAt, Works, Progress, Held
<1>13. CASE SweepNext
  <2>1. PICK k \in dead : Go(Sweeper, "finding", k, Absent)
    BY <1>13 DEF SweepNext
  <2>2. Sweeper \in Proc /\ pc[Sweeper] = "idle" /\ index' = index /\ bucket' = bucket /\ raced' = raced
    BY <1>13 DEF SweepNext, Proc, memory, history
  <2>3. ButFor(Sweeper, pc, pc') /\ ButFor(Sweeper, job, job') /\ pc'[Sweeper] = "finding"
    BY <2>1, <2>2, MoveFacts
  <2>4. raced \subseteq raced' /\ pc[Sweeper] \notin Changing /\ pc'[Sweeper] \notin Changing
    BY <1>0, <2>2, <2>3
  <2>5. QED
    BY <2>2, <2>3, <2>4, KeyedApart
<1>14. CASE Restart
  <2>1. \A p \in Proc, k \in Key : ~Works(p, k)'
    BY <1>0, <1>14, KeyFacts DEF Restart, Works, NoJob
  <2>2. ASSUME NEW k \in Key, k \notin raced'
        PROVE  Held(k)' = AtRest(k, index'[k])
    <3>1. index'[k] = IF Newest(k) = {} THEN Absent
                      ELSE LET o == CHOOSE o \in Newest(k) : TRUE IN [size |-> o.size, exp |-> o.exp]
      BY <1>14 DEF Restart, contents
    <3>2. Held(k)' = Held(k) /\ ~(Cardinality(Held(k)) > 1)
      BY <1>14, <2>2 DEF Restart, Held
    <3>3. IsFiniteSet(Held(k)) /\ Held(k) \subseteq bucket
      BY FS_Subset DEF Held, Typed
    <3>4. \A o, o2 \in Held(k) : o = o2
      <4>1. SUFFICES ASSUME NEW o \in Held(k), NEW o2 \in Held(k), o # o2
                     PROVE  FALSE
        OBVIOUS
      <4>2. Cardinality({o}) = 1 /\ IsFiniteSet({o})
        BY FS_Singleton
      <4>3. Cardinality({o} \cup {o2}) = 2
        BY <4>1, <4>2, FS_AddElement
      <4>4. {o} \cup {o2} \subseteq Held(k)
        OBVIOUS
      <4>5. Cardinality({o} \cup {o2}) <= Cardinality(Held(k)) /\ Cardinality(Held(k)) \in Nat
        BY <3>3, <4>4, FS_Subset, FS_CardinalityType
      <4>6. QED
        BY <3>2, <4>3, <4>5
    <3>5. CASE Held(k) = {}
      <4>1. Newest(k) = {}
        BY <3>5 DEF Newest
      <4>2. QED
        BY <3>1, <3>2, <3>5, <4>1 DEF AtRest
    <3>6. CASE Held(k) # {}
      <4>1. PICK o \in Held(k) : TRUE
        BY <3>6
      <4>2. Held(k) = {o}
        BY <3>4, <4>1
      <4>3. o \in Object /\ o.key = k /\ o.exp \in Nat
        BY <3>3, <4>1 DEF Held, Typed, TypeOK, Object
      <4>4. Newest(k) = {o}
        BY <4>2, <4>3 DEF Newest
      <4>5. index'[k] = [size |-> o.size, exp |-> o.exp]
        BY <3>1, <4>4
      <4>6. index'[k] # Absent /\ AsObject(k, index'[k]) = o
        BY <4>3, <4>5, StoreAssumption DEF AsObject, Object, Absent
      <4>7. QED
        BY <3>2, <4>2, <4>6 DEF AtRest
    <3>7. QED
      BY <3>5, <3>6
  <2>3. QED
    BY <2>1, <2>2 DEF Keyed, KeyedAt
<1>15. QED
  BY <1>1, <1>2, <1>3, <1>4, <1>5, <1>6, <1>7, <1>8, <1>9, <1>10, <1>11, <1>12, <1>13, <1>14 DEF Next

-----------------------------------------------------------------------------
\* Every step keeps the counters of what is not raced: what a put has stored and not
\* counted, and a deletion has deleted and not taken off, is what they differ by.
LEMMA BalancedStep == Typed /\ Keyed /\ Balanced /\ [Next]_vars => Balanced'
<1> SUFFICES ASSUME Typed, Keyed, Balanced, [Next]_vars
             PROVE  Balanced'
  OBVIOUS
<1>0. JobsTyped /\ MaxSize \in Nat /\ raced \subseteq Key
  BY StoreAssumption DEF Typed, TypeOK, JobsTyped
<1>r. raced' \subseteq Key
  BY TypedStep DEF Typed, TypeOK
<1>1. ASSUME NEW p \in Handler, NEW k \in Key, NEW size \in 1..MaxSize, NEW ttl \in TTL, PutCheck(p, k, size, ttl)
      PROVE  Balanced'
  <2>1. /\ p \in Proc /\ pc[p] = "idle" /\ Go(p, "storing", k, [size |-> size, exp |-> now + ttl])
        /\ raced \subseteq raced' /\ bucket' = bucket /\ UNCHANGED memory
    BY <1>1 DEF PutCheck, Begins, Proc
  <2>2. ButFor(p, pc, pc') /\ ButFor(p, job, job') /\ pc'[p] = "storing"
    BY <2>1, MoveFacts
  <2>3. QED
    BY <1>r, <2>1, <2>2, BalancedApart
<1>2. ASSUME NEW p \in Proc, PutStore(p)
      PROVE  Balanced'
  <2>0. PICK k, r : job[p].key = k /\ job[p].rec = r
    OBVIOUS
  <2>1. /\ pc[p] = "storing" /\ bucket' = With(k, r) /\ pc' = [pc EXCEPT ![p] = "counting"] /\ job' = job
        /\ raced' = raced /\ UNCHANGED memory
    BY <1>2, <2>0 DEF PutStore, history
  <2>2. ButFor(p, pc, pc') /\ ButFor(p, job, job') /\ pc'[p] = "counting" /\ job'[p] = job[p]
    BY <2>1, StageFacts
  <2>3. k \in Key /\ r \in Record /\ r.size \in 1..MaxSize
    BY <1>0, <2>0, <2>1, JobFacts DEF Changing
  <2>4. ASSUME NEW ks \in SUBSET Key, ks \cap raced' = {}
        PROVE  /\ Net(bucket', pc', job', ks) = Net(bucket, pc, job, ks)
               /\ NetCount(bucket', pc', job', ks) = NetCount(bucket, pc, job, ks)
    <3>1. Debit(pc, job, p, ks) = 0 /\ DebitCount(pc, job, p, ks) = 0
      BY <2>1 DEF Debit, DebitCount
    <3>2. /\ Debit(pc', job', p, ks) = IF k \in ks THEN r.size ELSE 0
          /\ DebitCount(pc', job', p, ks) = IF k \in ks THEN 1 ELSE 0
      BY <2>0, <2>2 DEF Debit, DebitCount
    <3>3. CASE k \notin ks
      <4>1. ObjectsIn(bucket', ks) = ObjectsIn(bucket, ks)
        BY <2>1, <3>3, Elsewhere
      <4>2. /\ Net(bucket, pc, job, ks) \in Int /\ NetCount(bucket, pc, job, ks) \in Int
            /\ Net(bucket', pc', job', ks)
                 = Net(bucket, pc, job, ks) + Debit(pc, job, p, ks) - Debit(pc', job', p, ks)
            /\ NetCount(bucket', pc', job', ks)
                 = NetCount(bucket, pc, job, ks) + DebitCount(pc, job, p, ks) - DebitCount(pc', job', p, ks)
        BY <2>0, <2>2, <2>3, <4>1, NetStep
      <4>3. QED
        BY <3>1, <3>2, <3>3, <4>2
    <3>4. CASE k \in ks
      <4>1. KeyedAt(k) /\ Works(p, k)
        BY <2>0, <2>1, <2>3, <2>4, <3>4 DEF Keyed, Works, Changing
      <4>2. Held(k) = {}
        BY <2>0, <2>1, <4>1 DEF KeyedAt, Progress
      <4>3. bucket' = bucket \cup {AsObject(k, r)} /\ AsObject(k, r) \notin bucket
        BY <2>1, <4>2, HeldFacts
      <4>4. AsObject(k, r) \in Object /\ AsObject(k, r).key = k /\ AsObject(k, r).size = r.size
        BY <2>3 DEF AsObject, Object, Record
      <4>5. /\ Net(bucket, pc, job, ks) \in Int /\ NetCount(bucket, pc, job, ks) \in Int
            /\ Net(bucket, pc', job', ks)
                 = Net(bucket, pc, job, ks) + Debit(pc, job, p, ks) - Debit(pc', job', p, ks)
            /\ NetCount(bucket, pc', job', ks)
                 = NetCount(bucket, pc, job, ks) + DebitCount(pc, job, p, ks) - DebitCount(pc', job', p, ks)
        BY <2>0, <2>2, <2>3, NetStep
      <4>6. /\ Net(bucket', pc', job', ks) = Net(bucket, pc', job', ks) + r.size
            /\ NetCount(bucket', pc', job', ks) = NetCount(bucket, pc', job', ks) + 1
        BY <3>4, <4>3, <4>4, NetObject DEF Typed, TypeOK
      <4>7. QED
        BY <1>0, <2>3, <3>1, <3>2, <3>4, <4>5, <4>6
    <3>5. QED
      BY <3>3, <3>4
  <2>5. raced \subseteq raced'
    BY <2>1
  <2>6. QED
    BY <1>r, <2>1, <2>4, <2>5, BalancedStill
<1>3. ASSUME NEW p \in Proc, PutFail(p) \/ DeleteFail(p)
      PROVE  Balanced'
  <2>0. PICK k, r : job[p].key = k /\ job[p].rec = r
    OBVIOUS
  <2>1. /\ pc[p] \in {"storing", "deleting"} /\ Go(p, "idle", NoKey, Absent) /\ UNCHANGED memory
        /\ \/ bucket' = bucket /\ raced' = raced
           \/ bucket' \in {With(k, r), Without(k, r.exp)} /\ raced' = raced \cup {k}
    BY <1>3, <2>0 DEF PutFail, DeleteFail, Finish, Strays, history
  <2>2. ButFor(p, pc, pc') /\ ButFor(p, job, job') /\ pc'[p] = "idle"
    BY <2>1, MoveFacts
  <2>3. ASSUME NEW ks \in SUBSET Key, ks \cap raced' = {}
        PROVE  ObjectsIn(bucket', ks) = ObjectsIn(bucket, ks)
    <3>1. CASE bucket' = bucket
      BY <3>1
    <3>2. CASE bucket' \in {With(k, r), Without(k, r.exp)} /\ raced' = raced \cup {k}
      <4>1. k \notin ks
        BY <2>3, <3>2
      <4>2. QED
        BY <3>2, <4>1, Elsewhere
    <3>3. QED
      BY <2>1, <3>1, <3>2
  <2>4. raced \subseteq raced' /\ pc[p] \notin {"counting", "uncounting"} /\ pc'[p] \notin {"counting", "uncounting"}
    BY <2>1, <2>2
  <2>5. QED
    BY <1>r, <2>1, <2>2, <2>3, <2>4, BalancedApart
<1>4. ASSUME NEW p \in Proc, PutCount(p)
      PROVE  Balanced'
  <2>0. PICK k, r : job[p].key = k /\ job[p].rec = r
    OBVIOUS
  <2>1. /\ pc[p] = "counting" /\ Go(p, "idle", NoKey, Absent) /\ bucket' = bucket /\ raced' = raced
        /\ total' = total + r.size
        /\ bytes' = [bytes EXCEPT ![k[1]] = @ + r.size]
        /\ count' = [count EXCEPT ![k[1]] = @ + 1]
    BY <1>4, <2>0 DEF PutCount, Finish, history
  <2>2. ButFor(p, pc, pc') /\ ButFor(p, job, job') /\ pc'[p] = "idle"
    BY <2>1, MoveFacts
  <2>3. k \in Key /\ r.size \in Int
    BY <1>0, <2>0, <2>1, JobFacts DEF Changing
  <2>4. ASSUME NEW ks \in SUBSET Key
        PROVE  /\ Net(bucket', pc', job', ks) = Net(bucket, pc, job, ks) + (IF k \in ks THEN r.size ELSE 0)
               /\ NetCount(bucket', pc', job', ks) = NetCount(bucket, pc, job, ks) + (IF k \in ks THEN 1 ELSE 0)
    <3>1. /\ Debit(pc, job, p, ks) = IF k \in ks THEN r.size ELSE 0
          /\ DebitCount(pc, job, p, ks) = IF k \in ks THEN 1 ELSE 0
          /\ Debit(pc', job', p, ks) = 0 /\ DebitCount(pc', job', p, ks) = 0
      BY <2>0, <2>1, <2>2 DEF Debit, DebitCount
    <3>2. /\ Net(bucket, pc, job, ks) \in Int /\ NetCount(bucket, pc, job, ks) \in Int
          /\ Net(bucket, pc', job', ks)
               = Net(bucket, pc, job, ks) + Debit(pc, job, p, ks) - Debit(pc', job', p, ks)
          /\ NetCount(bucket, pc', job', ks)
               = NetCount(bucket, pc, job, ks) + DebitCount(pc, job, p, ks) - DebitCount(pc', job', p, ks)
      BY <2>2, NetStep
    <3>3. QED
      BY <2>1, <2>3, <3>1, <3>2
  <2>5. Needs(k, r.size, 1)
    BY <2>4 DEF Needs
  <2>6. Adds(k, r.size, 1)
    BY <2>1, <2>3 DEF Adds, Typed, TypeOK
  <2>7. raced \subseteq raced' /\ 1 \in Int
    BY <2>1
  <2>8. QED
    BY <2>3, <2>5, <2>6, <2>7, BalancedBy
<1>5. ASSUME NEW p \in Handler, NEW k \in Key, Lookup(p, k) \/ DeleteStart(p, k)
      PROVE  Balanced'
  <2>1. PICK st \in {"finding", "getting"}, e \in {index[k], Absent} : Go(p, st, k, e)
    BY <1>5 DEF Lookup, DeleteStart
  <2>2. p \in Proc /\ pc[p] = "idle" /\ bucket' = bucket /\ raced' = raced /\ UNCHANGED memory
    BY <1>5 DEF Lookup, DeleteStart, Proc, history
  <2>3. ButFor(p, pc, pc') /\ ButFor(p, job, job') /\ pc'[p] = st
    BY <2>1, <2>2, MoveFacts
  <2>4. raced \subseteq raced' /\ pc[p] \notin {"counting", "uncounting"} /\ pc'[p] \notin {"counting", "uncounting"}
    BY <2>2, <2>3
  <2>5. QED
    BY <1>r, <2>2, <2>3, <2>4, BalancedApart
<1>6. ASSUME NEW p \in Proc, GetObject(p) \/ Find(p)
      PROVE  Balanced'
  <2>1. PICK st, k, e : st \in {"idle", "finding", "deleting"} /\ Go(p, st, k, e)
    BY <1>6 DEF GetObject, Find, Finish
  <2>2. pc[p] \in {"getting", "finding"} /\ bucket' = bucket /\ raced \subseteq raced' /\ UNCHANGED memory
    BY <1>6 DEF GetObject, Find, Begins, history
  <2>3. ButFor(p, pc, pc') /\ ButFor(p, job, job') /\ pc'[p] = st
    BY <2>1, MoveFacts
  <2>4. pc[p] \notin {"counting", "uncounting"} /\ pc'[p] \notin {"counting", "uncounting"}
    BY <2>1, <2>2, <2>3
  <2>5. QED
    BY <1>r, <2>2, <2>3, <2>4, BalancedApart
<1>7. ASSUME NEW p \in Proc, DeleteObject(p)
      PROVE  Balanced'
  <2>0. PICK k, r : job[p].key = k /\ job[p].rec = r
    OBVIOUS
  <2>1. /\ pc[p] = "deleting" /\ bucket' = Without(k, r.exp) /\ pc' = [pc EXCEPT ![p] = "uncounting"] /\ job' = job
        /\ raced' = raced /\ UNCHANGED memory
    BY <1>7, <2>0 DEF DeleteObject, history
  <2>2. ButFor(p, pc, pc') /\ ButFor(p, job, job') /\ pc'[p] = "uncounting" /\ job'[p] = job[p]
    BY <2>1, StageFacts
  <2>3. k \in Key /\ r \in Record /\ r.size \in 1..MaxSize
    BY <1>0, <2>0, <2>1, JobFacts DEF Changing
  <2>4. ASSUME NEW ks \in SUBSET Key, ks \cap raced' = {}
        PROVE  /\ Net(bucket', pc', job', ks) = Net(bucket, pc, job, ks)
               /\ NetCount(bucket', pc', job', ks) = NetCount(bucket, pc, job, ks)
    <3>1. Debit(pc, job, p, ks) = 0 /\ DebitCount(pc, job, p, ks) = 0
      BY <2>1 DEF Debit, DebitCount
    <3>2. /\ Debit(pc', job', p, ks) = IF k \in ks THEN -r.size ELSE 0
          /\ DebitCount(pc', job', p, ks) = IF k \in ks THEN -1 ELSE 0
      BY <2>0, <2>2 DEF Debit, DebitCount
    <3>3. CASE k \notin ks
      <4>1. ObjectsIn(bucket', ks) = ObjectsIn(bucket, ks)
        BY <2>1, <3>3, Elsewhere
      <4>2. /\ Net(bucket, pc, job, ks) \in Int /\ NetCount(bucket, pc, job, ks) \in Int
            /\ Net(bucket', pc', job', ks)
                 = Net(bucket, pc, job, ks) + Debit(pc, job, p, ks) - Debit(pc', job', p, ks)
            /\ NetCount(bucket', pc', job', ks)
                 = NetCount(bucket, pc, job, ks) + DebitCount(pc, job, p, ks) - DebitCount(pc', job', p, ks)
        BY <2>0, <2>2, <2>3, <4>1, NetStep
      <4>3. QED
        BY <3>1, <3>2, <3>3, <4>2
    <3>4. CASE k \in ks
      <4>1. KeyedAt(k) /\ Works(p, k)
        BY <2>0, <2>1, <2>3, <2>4, <3>4 DEF Keyed, Works, Changing
      <4>2. Held(k) = {AsObject(k, r)}
        BY <2>0, <2>1, <4>1 DEF KeyedAt, Progress
      <4>3. bucket = bucket' \cup {AsObject(k, r)} /\ AsObject(k, r) \notin bucket'
        BY <2>1, <4>2, HeldFacts
      <4>4. AsObject(k, r) \in Object /\ AsObject(k, r).key = k /\ AsObject(k, r).size = r.size
        BY <2>3 DEF AsObject, Object, Record
      <4>5. /\ Net(bucket, pc, job, ks) \in Int /\ NetCount(bucket, pc, job, ks) \in Int
            /\ Net(bucket, pc', job', ks)
                 = Net(bucket, pc, job, ks) + Debit(pc, job, p, ks) - Debit(pc', job', p, ks)
            /\ NetCount(bucket, pc', job', ks)
                 = NetCount(bucket, pc, job, ks) + DebitCount(pc, job, p, ks) - DebitCount(pc', job', p, ks)
        BY <2>0, <2>2, <2>3, NetStep
      <4>6. bucket' \subseteq Object /\ IsFiniteSet(bucket')
        BY TypedStep DEF Typed, TypeOK
      <4>7. /\ Net(bucket', pc', job', ks) \in Int /\ NetCount(bucket', pc', job', ks) \in Int
            /\ Net(bucket, pc', job', ks) = Net(bucket', pc', job', ks) + r.size
            /\ NetCount(bucket, pc', job', ks) = NetCount(bucket', pc', job', ks) + 1
        BY <3>4, <4>3, <4>4, <4>6, NetObject
      <4>8. QED
        BY <1>0, <2>3, <3>1, <3>2, <3>4, <4>5, <4>7
    <3>5. QED
      BY <3>3, <3>4
  <2>5. raced \subseteq raced'
    BY <2>1
  <2>6. QED
    BY <1>r, <2>1, <2>4, <2>5, BalancedStill
<1>8. ASSUME NEW p \in Proc, Uncount(p)
      PROVE  Balanced'
  <2>0. PICK k, r : job[p].key = k /\ job[p].rec = r
    OBVIOUS
  <2>1. /\ pc[p] = "uncounting" /\ Go(p, "idle", NoKey, Absent) /\ bucket' = bucket /\ raced' = raced
        /\ total' = total - r.size
        /\ bytes' = [bytes EXCEPT ![k[1]] = @ - r.size]
        /\ count' = [count EXCEPT ![k[1]] = @ - 1]
    BY <1>8, <2>0 DEF Uncount, Finish, history
  <2>2. ButFor(p, pc, pc') /\ ButFor(p, job, job') /\ pc'[p] = "idle"
    BY <2>1, MoveFacts
  <2>3. k \in Key /\ r.size \in Int /\ k[1] \in Identity
    BY <1>0, <2>0, <2>1, JobFacts, KeyFacts DEF Changing
  <2>4. ASSUME NEW ks \in SUBSET Key
        PROVE  /\ Net(bucket', pc', job', ks) = Net(bucket, pc, job, ks) + (IF k \in ks THEN -r.size ELSE 0)
               /\ NetCount(bucket', pc', job', ks) = NetCount(bucket, pc, job, ks) + (IF k \in ks THEN -1 ELSE 0)
    <3>1. /\ Debit(pc, job, p, ks) = IF k \in ks THEN -r.size ELSE 0
          /\ DebitCount(pc, job, p, ks) = IF k \in ks THEN -1 ELSE 0
          /\ Debit(pc', job', p, ks) = 0 /\ DebitCount(pc', job', p, ks) = 0
      BY <2>0, <2>1, <2>2 DEF Debit, DebitCount
    <3>2. /\ Net(bucket, pc, job, ks) \in Int /\ NetCount(bucket, pc, job, ks) \in Int
          /\ Net(bucket, pc', job', ks)
               = Net(bucket, pc, job, ks) + Debit(pc, job, p, ks) - Debit(pc', job', p, ks)
          /\ NetCount(bucket, pc', job', ks)
               = NetCount(bucket, pc, job, ks) + DebitCount(pc, job, p, ks) - DebitCount(pc', job', p, ks)
      BY <2>2, NetStep
    <3>3. QED
      BY <2>1, <2>3, <3>1, <3>2
  <2>5. Needs(k, -r.size, -1)
    BY <2>4 DEF Needs
  <2>6. Adds(k, -r.size, -1)
    BY <2>1, <2>3 DEF Adds, Typed, TypeOK
  <2>7. raced \subseteq raced' /\ -1 \in Int /\ -r.size \in Int
    BY <2>1, <2>3
  <2>8. QED
    BY <2>3, <2>5, <2>6, <2>7, BalancedBy
<1>9. CASE SweepStart \/ Tick \/ UNCHANGED vars
  <2>1. bucket' = bucket /\ pc' = pc /\ job' = job /\ raced' = raced /\ UNCHANGED memory
    BY <1>9 DEF SweepStart, Tick, vars, history
  <2>2. QED
    BY <2>1 DEF Balanced, memory
<1>10. CASE SweepNext
  <2>1. PICK k \in dead : Go(Sweeper, "finding", k, Absent)
    BY <1>10 DEF SweepNext
  <2>2. Sweeper \in Proc /\ pc[Sweeper] = "idle" /\ bucket' = bucket /\ raced' = raced /\ UNCHANGED memory
    BY <1>10 DEF SweepNext, Proc, history
  <2>3. ButFor(Sweeper, pc, pc') /\ ButFor(Sweeper, job, job') /\ pc'[Sweeper] = "finding"
    BY <2>1, <2>2, MoveFacts
  <2>4. /\ raced \subseteq raced'
        /\ pc[Sweeper] \notin {"counting", "uncounting"} /\ pc'[Sweeper] \notin {"counting", "uncounting"}
    BY <2>2, <2>3
  <2>5. QED
    BY <1>r, <2>2, <2>3, <2>4, BalancedApart
<1>11. CASE Restart
  <2>1. \A s \in {"counting", "uncounting"} : \A ks : Doing(pc', job', s, ks) = {}
    BY <1>11 DEF Restart, Doing
  <2>2. SizesIn(job', {}) = 0 /\ Cardinality({}) = 0
    <3>1. {c \in {} \X (1..MaxSize) : c[2] <= job'[c[1]].rec.size} = {}
      OBVIOUS
    <3>2. QED
      BY <3>1, FS_EmptySet DEF SizesIn
  <2>3. ASSUME NEW ks
        PROVE  /\ Net(bucket', pc', job', ks) = BytesOf(ObjectsIn(bucket, ks))
               /\ NetCount(bucket', pc', job', ks) = Cardinality(ObjectsIn(bucket, ks))
    <3>1. IsFiniteSet(ObjectsIn(bucket, ks))
      <4>1. ObjectsIn(bucket, ks) \subseteq bucket
        BY DEF ObjectsIn
      <4>2. QED
        BY <4>1, FS_Subset DEF Typed
    <3>2. BytesOf(ObjectsIn(bucket, ks)) \in Nat /\ Cardinality(ObjectsIn(bucket, ks)) \in Nat
      BY <3>1, BytesType, FS_CardinalityType
    <3>3. bucket' = bucket
      BY <1>11 DEF Restart
    <3>4. QED
      BY <2>1, <2>2, <3>2, <3>3 DEF Net, NetCount
  <2>4. ObjectsIn(bucket, Key) = bucket /\ \A i \in Identity : ObjectsIn(bucket, KeysOf(i)) = ObjectsOf(i)
    BY DEF ObjectsIn, ObjectsOf, KeysOf, Key, Object, Typed, TypeOK
  <2>5. total' = BytesOf(bucket)
        /\ \A i \in Identity : bytes'[i] = BytesOf(ObjectsOf(i)) /\ count'[i] = Cardinality(ObjectsOf(i))
    BY <1>11 DEF Restart
  <2>6. QED
    BY <2>3, <2>4, <2>5 DEF Balanced
<1>12. QED
  BY <1>1, <1>2, <1>3, <1>4, <1>5, <1>6, <1>7, <1>8, <1>9, <1>10, <1>11 DEF Next

-----------------------------------------------------------------------------
\* Only handlers put; a key is raced only once something strayed, since a key that is not
\* raced has one object at most when the bucket is listed.
LEMMA OrderlyStep == Typed /\ Keyed /\ Orderly /\ [Next]_vars => Orderly'
<1> SUFFICES ASSUME Typed, Keyed, Orderly, [Next]_vars
             PROVE  Orderly'
  OBVIOUS
<1>0. Sweeper \in Proc /\ Sweeper \notin Handler
  BY StoreAssumption DEF Proc
<1>1. ASSUME NEW p \in Handler, NEW k \in Key, NEW size \in 1..MaxSize, NEW ttl \in TTL, PutCheck(p, k, size, ttl)
      PROVE  Orderly'
  <2>1. Begins(p, k) /\ pc' = [pc EXCEPT ![p] = "storing"]
    BY <1>1 DEF PutCheck, Go
  <2>2. pc'[Sweeper] = pc[Sweeper]
    BY <1>0, <2>1 DEF Typed, TypeOK
  <2>3. QED
    BY <2>1, <2>2 DEF Orderly, Begins
<1>2. ASSUME NEW p \in Proc, PutStore(p) \/ DeleteObject(p)
      PROVE  Orderly'
  <2>1. PICK st \in {"counting", "uncounting"} :
          pc' = [pc EXCEPT ![p] = st] /\ (st = "counting" => pc[p] = "storing")
    BY <1>2 DEF PutStore, DeleteObject
  <2>2. pc'[Sweeper] \notin {"storing", "counting"}
    BY <1>0, <2>1 DEF Typed, TypeOK, Orderly
  <2>3. raced' = raced /\ strayed' = strayed
    BY <1>2 DEF PutStore, DeleteObject, history
  <2>4. QED
    BY <2>2, <2>3 DEF Orderly
<1>3. ASSUME NEW p \in Proc,
             \/ PutFail(p) \/ PutCount(p) \/ GetObject(p)
             \/ Find(p) \/ DeleteFail(p) \/ Uncount(p)
      PROVE  Orderly'
  <2>1. PICK st \in {"idle", "finding", "deleting"} : pc' = [pc EXCEPT ![p] = st]
    BY <1>3 DEF PutFail, PutCount, GetObject, Find, DeleteFail, Uncount, Finish, Go
  <2>2. pc'[Sweeper] \notin {"storing", "counting"}
    BY <1>0, <2>1 DEF Typed, TypeOK, Orderly
  <2>3. \/ raced' = raced /\ strayed' = strayed
        \/ strayed' = TRUE
        \/ Begins(p, job[p].key)
    BY <1>3 DEF PutFail, PutCount, GetObject, Find, DeleteFail, Uncount, Strays, history
  <2>4. raced' # {} => strayed'
    BY <2>3 DEF Orderly, Begins
  <2>5. QED
    BY <2>2, <2>4 DEF Orderly
<1>4. ASSUME NEW p \in Handler, NEW k \in Key, Lookup(p, k) \/ DeleteStart(p, k)
      PROVE  Orderly'
  <2>1. PICK st \in {"finding", "getting"} : pc' = [pc EXCEPT ![p] = st]
    BY <1>4 DEF Lookup, DeleteStart, Go
  <2>2. pc'[Sweeper] \notin {"storing", "counting"}
    BY <1>0, <2>1 DEF Typed, TypeOK, Orderly
  <2>3. raced' = raced /\ strayed' = strayed
    BY <1>4 DEF Lookup, DeleteStart, history
  <2>4. QED
    BY <2>2, <2>3 DEF Orderly
<1>5. CASE SweepNext
  <2>1. pc' = [pc EXCEPT ![Sweeper] = "finding"]
    BY <1>5 DEF SweepNext, Go
  <2>2. pc'[Sweeper] \notin {"storing", "counting"}
    BY <1>0, <2>1 DEF Typed, TypeOK
  <2>3. raced' = raced /\ strayed' = strayed
    BY <1>5 DEF SweepNext, history
  <2>4. QED
    BY <2>2, <2>3 DEF Orderly
<1>6. CASE SweepStart \/ Tick \/ UNCHANGED vars
  <2>1. pc' = pc /\ raced' = raced /\ strayed' = strayed
    BY <1>6 DEF SweepStart, Tick, vars, history
  <2>2. QED
    BY <2>1 DEF Orderly
<1>7. CASE Restart
  <2>1. pc'[Sweeper] = "idle"
    BY <1>0, <1>7 DEF Restart
  <2>2. ASSUME ~strayed
        PROVE  raced' = {}
    <3>1. SUFFICES ASSUME NEW k \in Key
                   PROVE  ~(Cardinality(Held(k)) > 1)
      BY <1>7 DEF Restart, Held
    <3>2. KeyedAt(k)
      BY <2>2 DEF Orderly, Keyed
    <3>3. Held(k) = {} \/ \E o : Held(k) = {o}
      BY <3>2 DEF KeyedAt, Progress, AtRest
    <3>4. Cardinality(Held(k)) = 0 \/ Cardinality(Held(k)) = 1
      BY <3>3, FS_EmptySet, FS_Singleton
    <3>5. QED
      BY <3>4
  <2>3. strayed' = strayed
    BY <1>7 DEF Restart
  <2>4. QED
    BY <2>1, <2>2, <2>3 DEF Orderly
<1>8. QED
  BY <1>1, <1>2, <1>3, <1>4, <1>5, <1>6, <1>7 DEF Next

-----------------------------------------------------------------------------
\* The handlers whose records are on their way to the keys ks when pc is c and job is j,
\* and a counter of ks that has room for them.
Busy(c, j, ks) == {p \in Handler : c[p] \in {"storing", "counting"} /\ j[p].key \in ks}
Room(n, c, j, ks, cap) == n + SizesIn(j, Busy(c, j, ks)) <= cap + Slack
Within ==
  ~strayed => /\ Room(total, pc, job, Key, TotalCap)
              /\ \A i \in Identity : Room(bytes[i], pc, job, KeysOf(i), OwnerCap)

\* Overshoot in these words.
LEMMA WithinOvershoot == Within <=> Overshoot
BY DEF Within, Room, Overshoot, OnTheWay, Busy, SizesIn, SizesOf

\* The slack of a handler that starts bounds what the others carry.
LEMMA SlackFacts ==
  /\ Slack \in Nat
  /\ \A j, ps : \A p \in Handler : ps \subseteq Handler \ {p} => SizesIn(j, ps) \in Nat /\ SizesIn(j, ps) <= Slack
<1>1. ASSUME NEW p \in Handler
      PROVE  /\ IsFiniteSet((Handler \ {p}) \X (1..MaxSize))
             /\ Cardinality((Handler \ {p}) \X (1..MaxSize)) = Slack
             /\ Slack \in Nat
  <2>1. IsFiniteSet(Handler) /\ MaxSize \in Nat
    BY StoreAssumption
  <2>2. IsFiniteSet(1..MaxSize) /\ Cardinality(1..MaxSize) = MaxSize
    BY <2>1, FS_Interval
  <2>3. IsFiniteSet(Handler \ {p}) /\ Cardinality(Handler \ {p}) = Cardinality(Handler) - 1
    BY <2>1, FS_RemoveElement
  <2>4. /\ IsFiniteSet((Handler \ {p}) \X (1..MaxSize))
        /\ Cardinality((Handler \ {p}) \X (1..MaxSize)) = Cardinality(Handler \ {p}) * Cardinality(1..MaxSize)
    BY <2>2, <2>3, FS_Product
  <2>5. Cardinality((Handler \ {p}) \X (1..MaxSize)) = Slack
    BY <2>2, <2>3, <2>4 DEF Slack
  <2>6. Cardinality((Handler \ {p}) \X (1..MaxSize)) \in Nat
    BY <2>4, FS_CardinalityType
  <2>7. QED
    BY <2>4, <2>5, <2>6
<1>2. Slack \in Nat
  BY <1>1, StoreAssumption
<1>3. ASSUME NEW j, NEW ps, NEW p \in Handler, ps \subseteq Handler \ {p}
      PROVE  SizesIn(j, ps) \in Nat /\ SizesIn(j, ps) <= Slack
  <2> DEFINE cells == {c \in ps \X (1..MaxSize) : c[2] <= j[c[1]].rec.size}
  <2>1. cells \subseteq (Handler \ {p}) \X (1..MaxSize)
    BY <1>3
  <2> HIDE DEF cells
  <2>2. IsFiniteSet(cells) /\ Cardinality(cells) <= Cardinality((Handler \ {p}) \X (1..MaxSize))
    BY <1>1, <2>1, FS_Subset
  <2>3. Cardinality(cells) \in Nat /\ Cardinality(cells) <= Slack
    BY <1>1, <2>2, FS_CardinalityType
  <2>4. QED
    BY <2>3 DEF SizesIn, cells
<1>4. QED
  BY <1>2, <1>3

\* The caps and the slack are numbers, and the cap of an owner is its quota, or a record.
LEMMA CapFacts ==
  /\ MaxSize \in Nat /\ TotalCap \in Nat /\ Slack \in Nat
  /\ OwnerCap \in Nat /\ IdentityCap <= OwnerCap /\ MaxSize <= OwnerCap
BY StoreAssumption, SlackFacts DEF OwnerCap

\* What is on its way changes by what the process that moves carries.
LEMMA BusyMove ==
  ASSUME Typed, NEW ks, NEW p \in Proc, ButFor(p, pc, pc'), ButFor(p, job, job'),
         p \in Busy(pc', job', ks) => job'[p].rec.size \in 1..MaxSize
  PROVE  /\ SizesIn(job, Busy(pc, job, ks)) \in Nat
         /\ SizesIn(job', Busy(pc', job', ks))
              = SizesIn(job, Busy(pc, job, ks)) - (IF p \in Busy(pc, job, ks) THEN job[p].rec.size ELSE 0)
                                                + (IF p \in Busy(pc', job', ks) THEN job'[p].rec.size ELSE 0)
<1> DEFINE A == Busy(pc, job, ks)
           B == Busy(pc', job', ks)
<1>1. A \subseteq Proc /\ B \subseteq Proc /\ A \ {p} = B \ {p}
  BY DEF Busy, ButFor, Proc
<1>2. p \in A => job[p].rec.size \in 1..MaxSize
  <2>1. JobsTyped
    BY DEF Typed, TypeOK, JobsTyped
  <2>2. QED
    BY <2>1, JobFacts DEF Busy, Changing
<1>3. p \in B => job'[p].rec.size \in 1..MaxSize
  OBVIOUS
<1> HIDE DEF A, B
<1>4. SameButFor(p, A, B, job, job')
  BY <1>1, <1>2, <1>3, MoveSizes
<1>5. QED
  BY <1>4 DEF A, B, SameButFor

\* What the bucket holds of the keys ks was counted or is on its way.
LEMMA NetBound ==
  ASSUME Typed, Orderly, NEW ks, NEW n \in Int, NEW cap \in Nat,
         n = Net(bucket, pc, job, ks), Room(n, pc, job, ks, cap)
  PROVE  BytesOf(ObjectsIn(bucket, ks)) \in Nat /\ BytesOf(ObjectsIn(bucket, ks)) <= cap + Slack
<1> DEFINE A == Doing(pc, job, "counting", ks)
           U == Doing(pc, job, "uncounting", ks)
           B == Busy(pc, job, ks)
<1>0. JobsTyped /\ MaxSize \in Nat /\ Slack \in Nat
  BY CapFacts DEF Typed, TypeOK, JobsTyped
<1>1. A \subseteq B /\ B \subseteq Proc /\ U \subseteq Proc
  BY DEF Doing, Busy, Proc, Orderly
<1>2. n = BytesOf(ObjectsIn(bucket, ks)) - SizesIn(job, A) + SizesIn(job, U)
  BY DEF Net
<1>3. n + SizesIn(job, B) <= cap + Slack
  BY DEF Room
<1> HIDE DEF A, U, B
<1>4. ASSUME NEW ps, ps \subseteq Proc
      PROVE  /\ SizesIn(job, ps) \in Nat
             /\ \A qs \in SUBSET ps : SizesIn(job, qs) <= SizesIn(job, ps)
  <2> DEFINE cells(qs) == {c \in qs \X (1..MaxSize) : c[2] <= job[c[1]].rec.size}
  <2>1. IsFiniteSet(ps) /\ IsFiniteSet(1..MaxSize)
    <3>1. IsFiniteSet(ps)
      BY <1>4, FiniteProc, FS_Subset
    <3>2. IsFiniteSet(1..MaxSize)
      BY <1>0, FS_Interval
    <3>3. QED
      BY <3>1, <3>2
  <2>2. IsFiniteSet(ps \X (1..MaxSize)) /\ cells(ps) \subseteq ps \X (1..MaxSize)
    BY <2>1, FS_Product
  <2>3. IsFiniteSet(cells(ps)) /\ Cardinality(cells(ps)) \in Nat
    BY <2>2, FS_Subset, FS_CardinalityType
  <2>4. ASSUME NEW qs \in SUBSET ps
        PROVE  Cardinality(cells(qs)) <= Cardinality(cells(ps))
    <3>1. cells(qs) \subseteq cells(ps)
      OBVIOUS
    <3>2. QED
      BY <2>3, <3>1, FS_Subset
  <2>5. QED
    BY <2>3, <2>4 DEF SizesIn
<1>5. /\ SizesIn(job, A) \in Nat /\ SizesIn(job, U) \in Nat /\ SizesIn(job, B) \in Nat
      /\ SizesIn(job, A) <= SizesIn(job, B)
  <2>1. A \subseteq Proc /\ A \in SUBSET B
    BY <1>1
  <2>2. QED
    BY <1>1, <1>4, <2>1
<1>6. BytesOf(ObjectsIn(bucket, ks)) \in Nat
  <2>1. IsFiniteSet(ObjectsIn(bucket, ks))
    BY FS_Subset DEF Typed, ObjectsIn
  <2>2. QED
    BY <2>1, BytesType
<1>7. QED
  BY <1>0, <1>2, <1>3, <1>5, <1>6

\* A counter of the keys ks, which a step takes from n to m.
Counts(ks, n, m) ==
  /\ UNCHANGED memory => m = n
  /\ \A p \in Proc : PutCount(p) => m = n + (IF job[p].key \in ks THEN job[p].rec.size ELSE 0)
  /\ \A p \in Proc : Uncount(p) => m = n - (IF job[p].key \in ks THEN job[p].rec.size ELSE 0)
  /\ Restart => /\ ~strayed => n = Net(bucket, pc, job, ks)
                /\ m = BytesOf(ObjectsIn(bucket, ks))
\* A put of a record with a key in ks starts only if the counter has room for it.
Guards(ks, n, cap) ==
  \A p \in Handler, k \in Key, size \in 1..MaxSize, ttl \in TTL :
    PutCheck(p, k, size, ttl) /\ k \in ks => n + size <= cap

\* A put adds its record when the counter leaves room for it, whatever the others carry;
\* counting it moves it from the way to the counter; and a restart finds in the bucket no
\* more than what was counted or on its way.
LEMMA RoomStep ==
  ASSUME Typed, Orderly, [Next]_vars, ~strayed', NEW ks, NEW n \in Int, NEW m, NEW cap \in Nat,
         ~strayed => Room(n, pc, job, ks, cap), Counts(ks, n, m), Guards(ks, n, cap)
  PROVE  Room(m, pc', job', ks, cap)
<1> DEFINE W == SizesIn(job, Busy(pc, job, ks))
           W2 == SizesIn(job', Busy(pc', job', ks))
<1>q. SUFFICES m + W2 <= cap + Slack
  BY DEF Room
<1>r. ~strayed => n + W <= cap + Slack
  BY DEF Room
<1>0. /\ JobsTyped /\ MaxSize \in Nat /\ Slack \in Nat
  BY CapFacts DEF Typed, TypeOK, JobsTyped
<1>1. ASSUME NEW p \in Handler, NEW k \in Key, NEW size \in 1..MaxSize, NEW ttl \in TTL, PutCheck(p, k, size, ttl)
      PROVE  m + W2 <= cap + Slack
  <2> DEFINE r == [size |-> size, exp |-> now + ttl]
  <2>1. p \in Proc /\ pc[p] = "idle" /\ Go(p, "storing", k, r) /\ m = n
    BY <1>1 DEF PutCheck, Proc, Counts
  <2>2. r.size = size
    OBVIOUS
  <2> HIDE DEF r
  <2>3. ButFor(p, pc, pc') /\ ButFor(p, job, job') /\ pc'[p] = "storing" /\ job'[p].key = k /\ job'[p].rec.size = size
    <3>1. ButFor(p, pc, pc') /\ ButFor(p, job, job') /\ pc'[p] = "storing" /\ job'[p] = [key |-> k, rec |-> r]
      BY <2>1, MoveFacts
    <3>2. QED
      BY <2>2, <3>1
  <2>4. p \notin Busy(pc, job, ks) /\ (p \in Busy(pc', job', ks) <=> k \in ks)
    BY <2>1, <2>3 DEF Busy
  <2>5. W2 = W + (IF k \in ks THEN size ELSE 0) /\ W \in Nat
    <3>1. /\ W \in Nat
          /\ W2 = W - (IF p \in Busy(pc, job, ks) THEN job[p].rec.size ELSE 0)
                    + (IF p \in Busy(pc', job', ks) THEN job'[p].rec.size ELSE 0)
      BY <2>1, <2>3, BusyMove
    <3>2. QED
      BY <2>3, <2>4, <3>1
  <2>6. Busy(pc, job, ks) \subseteq Handler \ {p}
    BY <2>4 DEF Busy
  <2>7. W <= Slack
    BY <2>6, SlackFacts
  <2>8. k \in ks => n + size <= cap
    BY <1>1 DEF Guards
  <2>9. k \notin ks => ~strayed
    BY <1>1 DEF PutCheck, Begins
  <2> HIDE DEF W, W2
  <2>10. QED
    BY <1>0, <1>r, <2>1, <2>5, <2>7, <2>8, <2>9
<1>2. ASSUME NEW p \in Proc, PutStore(p) \/ DeleteObject(p)
      PROVE  m + W2 <= cap + Slack
  <2>1. job' = job /\ m = n /\ strayed' = strayed
        /\ \/ pc[p] = "storing" /\ pc' = [pc EXCEPT ![p] = "counting"]
           \/ pc[p] = "deleting" /\ pc' = [pc EXCEPT ![p] = "uncounting"]
    BY <1>2 DEF PutStore, DeleteObject, history, Counts
  <2>2. Busy(pc', job', ks) = Busy(pc, job, ks)
    BY <2>1 DEF Busy, Proc, Typed, TypeOK
  <2>3. QED
    BY <1>r, <2>1, <2>2
<1>3. ASSUME NEW p \in Proc, PutFail(p) \/ DeleteFail(p) \/ GetObject(p) \/ Find(p) \/ PutCount(p) \/ Uncount(p)
      PROVE  m + W2 <= cap + Slack
  <2>1. PICK st, k, e : st \in {"idle", "finding", "deleting"} /\ Go(p, st, k, e)
    BY <1>3 DEF PutFail, DeleteFail, GetObject, Find, PutCount, Uncount, Finish
  <2>2. ButFor(p, pc, pc') /\ ButFor(p, job, job') /\ pc'[p] = st
    BY <2>1, MoveFacts
  <2>3. p \notin Busy(pc', job', ks)
    BY <2>1, <2>2 DEF Busy
  <2>4. /\ W \in Nat
        /\ W2 = W - (IF p \in Busy(pc, job, ks) THEN job[p].rec.size ELSE 0)
    <3>1. p \in Busy(pc', job', ks) => job'[p].rec.size \in 1..MaxSize
      BY <2>3
    <3>2. /\ W \in Nat
          /\ W2 = W - (IF p \in Busy(pc, job, ks) THEN job[p].rec.size ELSE 0)
                    + (IF p \in Busy(pc', job', ks) THEN job'[p].rec.size ELSE 0)
      BY <2>2, <3>1, BusyMove
    <3>3. p \in Busy(pc, job, ks) => job[p].rec.size \in Int
      BY <1>0, JobFacts DEF Busy, Changing
    <3>4. QED
      BY <2>3, <3>2, <3>3
  <2>5. ~strayed
    BY <1>3 DEF PutFail, DeleteFail, GetObject, Find, PutCount, Uncount, Begins, Strays, history
  <2>6. n + W <= cap + Slack
    BY <1>r, <2>5
  <2>7. p \in Busy(pc, job, ks) => job[p].rec.size \in 1..MaxSize
    BY <1>0, JobFacts DEF Busy, Changing
  <2> HIDE DEF W, W2
  <2>8. CASE PutCount(p)
    <3>1. p \in Busy(pc, job, ks) <=> job[p].key \in ks
      BY <2>8, <1>0 DEF PutCount, Busy, Proc, Orderly
    <3>2. m = n + (IF job[p].key \in ks THEN job[p].rec.size ELSE 0)
      BY <2>8 DEF Counts
    <3>3. QED
      BY <1>0, <2>4, <2>6, <2>7, <3>1, <3>2
  <2>9. CASE Uncount(p)
    <3>1. p \notin Busy(pc, job, ks)
      BY <2>9 DEF Uncount, Busy
    <3>2. m = n - (IF job[p].key \in ks THEN job[p].rec.size ELSE 0)
      BY <2>9 DEF Counts
    <3>3. job[p].rec.size \in 1..MaxSize
      BY <1>0, <2>9, JobFacts DEF Uncount, Changing
    <3>4. QED
      BY <1>0, <2>4, <2>6, <3>1, <3>2, <3>3
  <2>10. CASE PutFail(p) \/ DeleteFail(p) \/ GetObject(p) \/ Find(p)
    <3>1. m = n
      BY <2>10 DEF PutFail, DeleteFail, GetObject, Find, Counts
    <3>2. QED
      BY <1>0, <2>4, <2>6, <2>7, <3>1
  <2>11. QED
    BY <1>3, <2>8, <2>9, <2>10
<1>4. ASSUME NEW p \in Proc, NEW k, NEW e, NEW st \in {"finding", "getting"}, pc[p] = "idle", Go(p, st, k, e),
             m = n, strayed' = strayed
      PROVE  m + W2 <= cap + Slack
  <2>1. ButFor(p, pc, pc') /\ ButFor(p, job, job') /\ pc'[p] = st
    BY <1>4, MoveFacts
  <2>2. p \notin Busy(pc, job, ks) /\ p \notin Busy(pc', job', ks)
    BY <1>4, <2>1 DEF Busy
  <2>3. W2 = W /\ W \in Nat
    BY <2>1, <2>2, BusyMove
  <2>4. QED
    BY <1>4, <1>r, <2>3
<1>5. ASSUME NEW p \in Handler, NEW k \in Key, Lookup(p, k) \/ DeleteStart(p, k)
      PROVE  m + W2 <= cap + Slack
  <2>1. PICK st \in {"finding", "getting"}, e \in {index[k], Absent} : Go(p, st, k, e)
    BY <1>5 DEF Lookup, DeleteStart
  <2>2. p \in Proc /\ pc[p] = "idle" /\ m = n /\ strayed' = strayed
    BY <1>5 DEF Lookup, DeleteStart, Proc, history, Counts
  <2>3. QED
    BY <1>4, <2>1, <2>2
<1>6. CASE SweepNext
  <2>1. PICK k \in dead : Go(Sweeper, "finding", k, Absent)
    BY <1>6 DEF SweepNext
  <2>2. Sweeper \in Proc /\ pc[Sweeper] = "idle" /\ m = n /\ strayed' = strayed
    BY <1>6 DEF SweepNext, Proc, history, Counts
  <2>3. QED
    BY <1>4, <2>1, <2>2
<1>7. CASE SweepStart \/ Tick \/ UNCHANGED vars
  <2>1. pc' = pc /\ job' = job /\ m = n /\ strayed' = strayed
    BY <1>7 DEF SweepStart, Tick, vars, history, Counts
  <2>2. QED
    BY <1>r, <2>1
<1>8. CASE Restart
  <2>1. ~strayed
    BY <1>8 DEF Restart
  <2>2. n = Net(bucket, pc, job, ks) /\ m = BytesOf(ObjectsIn(bucket, ks))
    BY <1>8, <2>1 DEF Counts
  <2>8. W2 = 0
    <3>1. Busy(pc', job', ks) = {}
      BY <1>8 DEF Restart, Busy, Proc
    <3>2. {c \in {} \X (1..MaxSize) : c[2] <= job'[c[1]].rec.size} = {}
      OBVIOUS
    <3>3. QED
      BY <3>1, <3>2, FS_EmptySet DEF SizesIn
  <2>9. Room(n, pc, job, ks, cap)
    BY <2>1
  <2>10. BytesOf(ObjectsIn(bucket, ks)) \in Nat /\ BytesOf(ObjectsIn(bucket, ks)) <= cap + Slack
    BY <2>2, <2>9, NetBound
  <2> HIDE DEF W, W2
  <2>11. QED
    BY <1>0, <2>2, <2>8, <2>10
<1>9. QED
  BY <1>1, <1>2, <1>3, <1>5, <1>6, <1>7, <1>8 DEF Next

-----------------------------------------------------------------------------
\* Every step keeps the owners that are known.  A deletion finds an entry, and only a put
\* that is counted, or a start of the relay, makes one.
LEMMA OwnersStep == Typed /\ Owners /\ [Next]_vars => Owners'
<1> SUFFICES ASSUME Typed, Owners, [Next]_vars
             PROVE  Owners'
  OBVIOUS
<1>0. /\ JobsTyped
      /\ index \in [Key -> Entry] /\ bytes \in [Identity -> Int]
      /\ pc \in [Proc -> Stage] /\ job \in [Proc -> Job] /\ bucket \subseteq Object
  BY DEF Typed, TypeOK, JobsTyped
<1>1. ASSUME UNCHANGED <<index, known, bytes>>,
             \A p \in Proc : pc'[p] \in {"deleting", "uncounting"} =>
               \/ pc[p] \in {"deleting", "uncounting"} /\ job'[p].key = job[p].key
               \/ job'[p].key \in Key /\ index[job'[p].key] # Absent
      PROVE  Owners'
  BY <1>1 DEF Owners
<1>2. ASSUME NEW p \in Proc, NEW st, NEW k, NEW e, Go(p, st, k, e), UNCHANGED <<index, known, bytes>>,
             st = "deleting" => k \in Key /\ index[k] # Absent, st # "uncounting"
      PROVE  Owners'
  <2>1. ButFor(p, pc, pc') /\ ButFor(p, job, job') /\ pc'[p] = st /\ job'[p] = [key |-> k, rec |-> e]
    BY <1>2, MoveFacts
  <2>2. job'[p].key = k
    BY <2>1
  <2>3. QED
    BY <1>1, <1>2, <2>1, <2>2 DEF ButFor
<1>3. ASSUME NEW p \in Handler, NEW k \in Key,
             \/ Lookup(p, k) \/ DeleteStart(p, k)
             \/ \E size \in 1..MaxSize, ttl \in TTL : PutCheck(p, k, size, ttl)
      PROVE  Owners'
  <2>1. p \in Proc /\ UNCHANGED <<index, known, bytes>>
    BY <1>3 DEF Lookup, DeleteStart, PutCheck, memory, Proc
  <2>2. PICK st, e : Go(p, st, k, e) /\ st \in {"finding", "getting", "storing"}
    <3>1. CASE Lookup(p, k)
      BY <3>1 DEF Lookup
    <3>2. CASE DeleteStart(p, k)
      BY <3>2 DEF DeleteStart
    <3>3. CASE \E size \in 1..MaxSize, ttl \in TTL : PutCheck(p, k, size, ttl)
      BY <3>3 DEF PutCheck
    <3>4. QED
      BY <1>3, <3>1, <3>2, <3>3
  <2>3. QED
    BY <1>2, <2>1, <2>2
<1>4. ASSUME NEW p \in Proc, PutFail(p) \/ DeleteFail(p)
      PROVE  Owners'
  <2>1. Go(p, "idle", NoKey, Absent) /\ UNCHANGED <<index, known, bytes>>
    BY <1>4 DEF PutFail, DeleteFail, Finish, memory
  <2>2. QED
    BY <1>2, <2>1
<1>5. ASSUME NEW p \in Proc, GetObject(p)
      PROVE  Owners'
  <2>1. UNCHANGED <<index, known, bytes>> /\ \E st, k, e : Go(p, st, k, e) /\ st \in {"idle", "finding"}
    BY <1>5 DEF GetObject, Finish, memory
  <2>2. QED
    BY <1>2, <2>1
<1>6. ASSUME NEW p \in Proc, Find(p)
      PROVE  Owners'
  <2>1. UNCHANGED <<index, known, bytes>> /\ job[p].key \in Key
    BY <1>0, <1>6, JobFacts DEF Find, memory
  <2>2. CASE Go(p, "idle", NoKey, Absent)
    BY <1>2, <2>1, <2>2
  <2>3. CASE index[job[p].key] # Absent /\ Go(p, "deleting", job[p].key, index[job[p].key])
    BY <1>2, <2>1, <2>3
  <2>4. QED
    BY <1>6, <2>2, <2>3 DEF Find, Finish
<1>7. ASSUME NEW p \in Proc, PutStore(p) \/ DeleteObject(p)
      PROVE  Owners'
  <2>1. /\ UNCHANGED <<index, known, bytes>> /\ job' = job
        /\ \/ pc[p] = "storing" /\ pc' = [pc EXCEPT ![p] = "counting"]
           \/ pc[p] = "deleting" /\ pc' = [pc EXCEPT ![p] = "uncounting"]
    BY <1>7 DEF PutStore, DeleteObject, memory
  <2>2. \A q \in Proc : pc'[q] \in {"deleting", "uncounting"} => pc[q] \in {"deleting", "uncounting"}
    BY <1>0, <2>1
  <2>3. QED
    BY <1>1, <2>1, <2>2
<1>8. ASSUME NEW p \in Proc, PutCount(p) \/ Uncount(p)
      PROVE  Owners'
  <2> DEFINE k == job[p].key
  <2>1. k \in Key /\ k[1] \in Identity
    BY <1>0, <1>8, JobFacts, KeyFacts DEF PutCount, Uncount, Changing
  <2>2. Go(p, "idle", NoKey, Absent)
    BY <1>8 DEF PutCount, Uncount, Finish
  <2>3. ButFor(p, pc, pc') /\ ButFor(p, job, job') /\ pc'[p] = "idle"
    BY <2>2, MoveFacts
  <2>4. known \subseteq known' /\ k[1] \in known'
    <3>1. CASE PutCount(p)
      BY <3>1 DEF PutCount
    <3>2. CASE Uncount(p)
      BY <3>2 DEF Uncount, Owners
    <3>3. QED
      BY <1>8, <3>1, <3>2
  <2>5. \A x \in Key \ {k} : index'[x] = index[x]
    BY <1>0, <1>8 DEF PutCount, Uncount
  <2>6. \A i \in Identity \ {k[1]} : bytes'[i] = bytes[i]
    BY <1>0, <1>8 DEF PutCount, Uncount
  <2> HIDE DEF k
  <2>7. \A x \in Key : index'[x] # Absent => x[1] \in known'
    BY <2>1, <2>4, <2>5 DEF Owners
  <2>8. \A q \in Proc : pc'[q] \in {"deleting", "uncounting"} => job'[q].key[1] \in known'
    BY <2>3, <2>4 DEF Owners, ButFor
  <2>9. \A i \in Identity \ known' : bytes'[i] = 0
    BY <2>4, <2>6 DEF Owners
  <2>10. QED
    BY <2>7, <2>8, <2>9 DEF Owners
<1>9. CASE SweepNext
  <2>1. \E k : Go(Sweeper, "finding", k, Absent)
    BY <1>9 DEF SweepNext
  <2>2. UNCHANGED <<index, known, bytes>> /\ Sweeper \in Proc
    BY <1>9 DEF SweepNext, memory, Proc
  <2>3. QED
    BY <1>2, <2>1, <2>2
<1>10. CASE SweepStart \/ Tick \/ UNCHANGED vars
  <2>1. UNCHANGED <<index, known, bytes>> /\ pc' = pc /\ job' = job
    BY <1>10 DEF SweepStart, Tick, vars, memory
  <2>2. QED
    BY <1>1, <2>1
<1>11. CASE Restart
  <2>1. known' = {o.key[1] : o \in bucket} /\ pc' = [p \in Proc |-> "idle"]
        /\ bytes' = [i \in Identity |-> BytesOf(ObjectsOf(i))]
    BY <1>11 DEF Restart
  <2>2. ASSUME NEW k \in Key, index'[k] # Absent
        PROVE  k[1] \in known'
    <3>1. \E o \in bucket : o.key = k
      BY <1>11, <2>2 DEF Restart, contents, Newest, Held
    <3>2. QED
      BY <2>1, <3>1
  <2>3. ASSUME NEW i \in Identity \ known'
        PROVE  bytes'[i] = 0
    <3>1. ObjectsOf(i) = {}
      BY <2>1 DEF ObjectsOf
    <3>2. {c \in {} \X (1..MaxSize) : c[2] <= c[1].size} = {}
      OBVIOUS
    <3>3. BytesOf(ObjectsOf(i)) = 0
      BY <3>1, <3>2, FS_EmptySet DEF BytesOf
    <3>4. QED
      BY <2>1, <3>3
  <2>4. QED
    BY <2>1, <2>2, <2>3 DEF Owners
<1>12. QED
  BY <1>3, <1>4, <1>5, <1>6, <1>7, <1>8, <1>9, <1>10, <1>11 DEF Next

\* The keys of an owner among the keys.
LEMMA OwnerKeys == \A i \in Identity : \A k \in Key : k \in KeysOf(i) <=> k[1] = i
BY DEF KeysOf, Key

\* Every step keeps the room that the capacity and the quotas leave.
LEMMA WithinStep == IInv /\ [Next]_vars => Within'
<1> SUFFICES ASSUME IInv, [Next]_vars, ~strayed'
             PROVE  /\ Room(total', pc', job', Key, TotalCap)
                    /\ \A i \in Identity : Room(bytes'[i], pc', job', KeysOf(i), OwnerCap)
  BY DEF Within
<1>0. /\ Typed /\ Balanced /\ Orderly /\ Owners /\ Within /\ JobsTyped
      /\ bucket \subseteq Object /\ total \in Int /\ bytes \in [Identity -> Int]
  BY WithinOvershoot DEF IInv, Typed, TypeOK, JobsTyped
<1>1. ASSUME NEW p \in Proc, PutCount(p) \/ Uncount(p)
      PROVE  job[p].key \in Key /\ job[p].key[1] \in Identity
  BY <1>0, <1>1, JobFacts, KeyFacts DEF PutCount, Uncount, Changing
<1>2. ASSUME Restart, ~strayed
      PROVE  raced = {}
  BY <1>0, <1>2 DEF Orderly
<1>3. Room(total', pc', job', Key, TotalCap)
  <2>1. ObjectsIn(bucket, Key) = bucket
    BY <1>0 DEF ObjectsIn, Object
  <2>2. Counts(Key, total, total')
    <3>1. Restart => /\ ~strayed => total = Net(bucket, pc, job, Key)
                     /\ total' = BytesOf(ObjectsIn(bucket, Key))
      BY <1>0, <1>2, <2>1 DEF Restart, Balanced
    <3>2. \A p \in Proc : PutCount(p) => total' = total + job[p].rec.size
      BY DEF PutCount
    <3>3. \A p \in Proc : Uncount(p) => total' = total - job[p].rec.size
      BY DEF Uncount
    <3>4. UNCHANGED memory => total' = total
      BY DEF memory
    <3>5. QED
      BY <1>1, <3>1, <3>2, <3>3, <3>4 DEF Counts
  <2>3. Guards(Key, total, TotalCap)
    BY DEF Guards, PutCheck, Fits
  <2>4. ~strayed => Room(total, pc, job, Key, TotalCap)
    BY <1>0 DEF Within
  <2>5. QED
    BY <1>0, <2>2, <2>3, <2>4, CapFacts, RoomStep
<1>4. ASSUME NEW i \in Identity
      PROVE  Room(bytes'[i], pc', job', KeysOf(i), OwnerCap)
  <2>1. ObjectsIn(bucket, KeysOf(i)) = ObjectsOf(i)
    BY <1>0, OwnerKeys DEF ObjectsIn, ObjectsOf, Object
  <2>2. Counts(KeysOf(i), bytes[i], bytes'[i])
    <3>1. Restart => /\ ~strayed => bytes[i] = Net(bucket, pc, job, KeysOf(i))
                     /\ bytes'[i] = BytesOf(ObjectsIn(bucket, KeysOf(i)))
      BY <1>0, <1>2, <2>1 DEF Restart, Balanced
    <3>2. ASSUME NEW p \in Proc, PutCount(p)
          PROVE  bytes'[i] = bytes[i] + (IF job[p].key \in KeysOf(i) THEN job[p].rec.size ELSE 0)
      <4>1. bytes' = [bytes EXCEPT ![job[p].key[1]] = @ + job[p].rec.size]
        BY <3>2 DEF PutCount
      <4>2. job[p].key \in KeysOf(i) <=> job[p].key[1] = i
        BY <1>1, <3>2, OwnerKeys
      <4>3. QED
        BY <1>0, <1>1, <3>2, <4>1, <4>2
    <3>3. ASSUME NEW p \in Proc, Uncount(p)
          PROVE  bytes'[i] = bytes[i] - (IF job[p].key \in KeysOf(i) THEN job[p].rec.size ELSE 0)
      <4>1. bytes' = [bytes EXCEPT ![job[p].key[1]] = @ - job[p].rec.size]
        BY <3>3 DEF Uncount
      <4>2. job[p].key \in KeysOf(i) <=> job[p].key[1] = i
        BY <1>1, <3>3, OwnerKeys
      <4>3. QED
        BY <1>0, <1>1, <3>3, <4>1, <4>2
    <3>4. UNCHANGED memory => bytes'[i] = bytes[i]
      BY DEF memory
    <3>5. QED
      BY <3>1, <3>2, <3>3, <3>4 DEF Counts
  <2>3. Guards(KeysOf(i), bytes[i], OwnerCap)
    <3>1. ASSUME NEW p \in Handler, NEW k \in Key, NEW size \in 1..MaxSize, NEW ttl \in TTL,
                 PutCheck(p, k, size, ttl), k \in KeysOf(i)
          PROVE  bytes[i] + size <= OwnerCap
      <4>1. k[1] = i
        BY <3>1, OwnerKeys
      <4>2. i \in known => bytes[i] + size <= IdentityCap
        BY <3>1, <4>1 DEF PutCheck, Fits
      <4>3. i \notin known => bytes[i] = 0
        BY <1>0 DEF Owners
      <4>4. IdentityCap \in Nat
        BY StoreAssumption
      <4>5. QED
        BY <1>0, <4>2, <4>3, <4>4, CapFacts
    <3>2. QED
      BY <3>1 DEF Guards
  <2>4. ~strayed => Room(bytes[i], pc, job, KeysOf(i), OwnerCap)
    BY <1>0 DEF Within
  <2>5. bytes[i] \in Int
    BY <1>0
  <2>6. QED
    BY <1>0, <2>2, <2>3, <2>4, <2>5, CapFacts, RoomStep
<1>5. QED
  BY <1>3, <1>4

-----------------------------------------------------------------------------
\* The inductive invariant holds in the initial state.
LEMMA Start == Init => IInv
<1> SUFFICES ASSUME Init
             PROVE  IInv
  OBVIOUS
<1>1. Typed
  <2>1. Init => Typed
    BY InitTyped
  <2>2. QED
    BY <2>1
<1>2. Keyed
  BY KeyFacts DEF Init, Keyed, KeyedAt, Works, Held, AtRest, Changing
<1>3. Orderly
  BY DEF Init, Orderly, Proc
<1>4. Cardinality({}) = 0 /\ IsFiniteSet({})
  BY FS_EmptySet
<1>5. SizesIn(job, {}) = 0 /\ BytesOf({}) = 0
  <2>1. {c \in {} \X (1..MaxSize) : c[2] <= job[c[1]].rec.size} = {} /\ {c \in {} \X (1..MaxSize) : c[2] <= c[1].size} = {}
    OBVIOUS
  <2>2. QED
    BY <1>4, <2>1 DEF SizesIn, BytesOf
<1>6. ASSUME NEW ks
      PROVE  Net(bucket, pc, job, ks) = 0 /\ NetCount(bucket, pc, job, ks) = 0
  <2>1. ObjectsIn(bucket, ks) = {} /\ Doing(pc, job, "counting", ks) = {} /\ Doing(pc, job, "uncounting", ks) = {}
    BY DEF Init, ObjectsIn, Doing
  <2>2. QED
    BY <1>4, <1>5, <2>1 DEF Net, NetCount
<1>7. Balanced
  BY <1>6 DEF Init, Balanced
<1>8. Within
  <2>1. \A ks : SizesIn(job, Busy(pc, job, ks)) = 0
    <3>1. \A ks : Busy(pc, job, ks) = {}
      BY DEF Init, Busy, Proc
    <3>2. QED
      BY <1>5, <3>1
  <2>2. QED
    BY <2>1, CapFacts DEF Init, Within, Room
<1>9. Owners
  BY DEF Init, Owners
<1>10. QED
  BY <1>1, <1>2, <1>3, <1>7, <1>8, <1>9, WithinOvershoot DEF IInv

\* Every step keeps it.
LEMMA Step == IInv /\ [Next]_vars => IInv'
<1> SUFFICES ASSUME IInv, [Next]_vars
             PROVE  IInv'
  OBVIOUS
<1>1. Typed /\ Keyed /\ Balanced /\ Orderly /\ Owners
  BY DEF IInv
<1>2. Typed' /\ Keyed' /\ Balanced' /\ Orderly' /\ Owners' /\ Within'
  BY <1>1, TypedStep, KeyedStep, BalancedStep, OrderlyStep, OwnersStep, WithinStep
<1>3. Within' <=> Overshoot'
  BY DEF Within, Room, Overshoot, OnTheWay, Busy, SizesIn, SizesOf
<1>4. QED
  BY <1>2, <1>3 DEF IInv

-----------------------------------------------------------------------------
\* What the invariant says is what Mirrors says.
LEMMA KeyedMirrors == IInv => Mirrors
<1> SUFFICES ASSUME IInv
             PROVE  Mirrors
  OBVIOUS
<1>0. Typed /\ Keyed /\ Balanced
  BY DEF IInv
<1>1. ASSUME NEW i \in Identity, KeysOf(i) \cap raced = {}
      PROVE  /\ bytes[i] = BytesOf(ObjectsOf(i)) - SizesOf(At("counting", i)) + SizesOf(At("uncounting", i))
             /\ count[i] = Cardinality(ObjectsOf(i)) - Cardinality(At("counting", i)) + Cardinality(At("uncounting", i))
  <2>1. ObjectsIn(bucket, KeysOf(i)) = ObjectsOf(i)
    BY <1>0 DEF ObjectsIn, ObjectsOf, KeysOf, Key, Object, Typed, TypeOK
  <2>2. ASSUME NEW s \in {"counting", "uncounting"}
        PROVE  Doing(pc, job, s, KeysOf(i)) = At(s, i)
    <3>1. JobsTyped
      BY <1>0 DEF Typed, TypeOK, JobsTyped
    <3>2. \A p \in Proc : pc[p] = s => job[p].key \in Key
      BY <3>1, JobFacts DEF Changing
    <3>3. \A k \in Key : k \in KeysOf(i) <=> k[1] = i
      BY DEF KeysOf, Key
    <3>4. QED
      BY <3>2, <3>3 DEF Doing, At
  <2>3. \A ps : SizesIn(job, ps) = SizesOf(ps)
    BY DEF SizesIn, SizesOf
  <2>4. /\ bytes[i] = Net(bucket, pc, job, KeysOf(i))
        /\ count[i] = NetCount(bucket, pc, job, KeysOf(i))
    BY <1>0, <1>1 DEF Balanced
  <2>5. QED
    BY <2>1, <2>2, <2>3, <2>4 DEF Net, NetCount
<1>2. ASSUME NEW k \in Key \ raced, \A p \in Proc : job[p].key = k => pc[p] \notin Changing
      PROVE  {[size |-> o.size, exp |-> o.exp] : o \in {o \in bucket : o.key = k}} = {index[k]} \ {Absent}
  <2>1. Held(k) = AtRest(k, index[k])
    BY <1>0, <1>2 DEF Keyed, KeyedAt, Works
  <2>2. {o \in bucket : o.key = k} = Held(k)
    BY DEF Held
  <2>3. CASE index[k] = Absent
    BY <2>1, <2>2, <2>3 DEF AtRest
  <2>4. CASE index[k] # Absent
    <3>1. index[k] \in Record
      BY <1>0, <2>4 DEF Typed, TypeOK, Entry
    <3>2. index[k] = [size |-> AsObject(k, index[k]).size, exp |-> AsObject(k, index[k]).exp]
      BY <3>1 DEF Record, AsObject
    <3>3. Held(k) = {AsObject(k, index[k])}
      BY <2>1, <2>4 DEF AtRest
    <3>4. {[size |-> o.size, exp |-> o.exp] : o \in Held(k)} = {index[k]}
      BY <3>2, <3>3
    <3>5. QED
      BY <2>2, <2>4, <3>4
  <2>5. QED
    BY <2>3, <2>4
<1>3. QED
  BY <1>1, <1>2 DEF Mirrors

-----------------------------------------------------------------------------
\* The bucket as what the storage contract speaks of.

\* As long as nothing strayed, a blob has one object at most, and that is its contents.
LEMMA HeldOne ==
  ASSUME IInv, ~strayed, NEW k \in Key
  PROVE  \/ Held(k) = {} /\ contents[k] = Absent
         \/ \E r \in Record : Held(k) = {AsObject(k, r)} /\ contents[k] = r
<1>1. KeyedAt(k) /\ JobsTyped /\ index[k] \in Entry
  BY DEF IInv, Orderly, Keyed, Typed, TypeOK, JobsTyped
<1>2. Held(k) = {} => contents[k] = Absent
  BY DEF contents, Newest
<1>3. ASSUME NEW r \in Record, Held(k) = {AsObject(k, r)}
      PROVE  contents[k] = r
  <2>0. Newest(k) = {AsObject(k, r)}
    <3>1. AsObject(k, r).exp \in Nat
      BY DEF AsObject, Record
    <3>2. QED
      BY <1>3, <3>1 DEF Newest
  <2>1. contents[k] = LET o == CHOOSE o \in {AsObject(k, r)} : TRUE IN [size |-> o.size, exp |-> o.exp]
    BY <2>0 DEF contents
  <2>2. (CHOOSE o \in {AsObject(k, r)} : TRUE) = AsObject(k, r)
    OBVIOUS
  <2>3. contents[k] = [size |-> AsObject(k, r).size, exp |-> AsObject(k, r).exp]
    BY <2>1, <2>2
  <2>4. QED
    BY <2>3 DEF AsObject, Record
<1>4. Held(k) = {} \/ \E r \in Record : Held(k) = {AsObject(k, r)}
  <2>1. CASE \E p \in Proc : Works(p, k)
    <3>1. PICK p \in Proc : Works(p, k)
      BY <2>1
    <3>2. Progress(p, k) /\ job[p].rec \in Record
      BY <1>1, <3>1, JobFacts DEF KeyedAt, Works
    <3>3. QED
      BY <3>2 DEF Progress
  <2>2. CASE \A p \in Proc : ~Works(p, k)
    <3>1. Held(k) = AtRest(k, index[k])
      BY <1>1, <2>2 DEF KeyedAt
    <3>2. QED
      BY <1>1, <3>1 DEF AtRest, Entry
  <2>3. QED
    BY <2>1, <2>2
<1>5. QED
  BY <1>2, <1>3, <1>4

\* The contract counts no more bytes than the objects have.
LEMMA ContentsBytes ==
  ASSUME IInv, ~strayed, NEW ks \in SUBSET Key
  PROVE  /\ Cardinality(Cells(contents, ks)) \in Nat
         /\ Cardinality(Cells(contents, ks)) <= BytesOf(ObjectsIn(bucket, ks))
<1> DEFINE S == {c \in ObjectsIn(bucket, ks) \X (1..MaxSize) : c[2] <= c[1].size}
           T == Cells(contents, ks)
           f == [c \in S |-> <<c[1].key, c[2]>>]
<1>1. IsFiniteSet(S)
  <2>1. IsFiniteSet(ObjectsIn(bucket, ks)) /\ IsFiniteSet(1..MaxSize)
    BY CapFacts, FS_Subset, FS_Interval DEF IInv, Typed, ObjectsIn
  <2>2. IsFiniteSet(ObjectsIn(bucket, ks) \X (1..MaxSize))
    BY <2>1, FS_Product
  <2>3. QED
    BY <2>2, FS_Subset
<1>2. ASSUME NEW c \in S
      PROVE  f[c] \in T
  <2> DEFINE o == c[1]
  <2>1. o \in bucket /\ o.key \in ks /\ c[2] \in 1..MaxSize /\ c[2] <= o.size
    BY DEF ObjectsIn
  <2>2. o \in Held(o.key) /\ o.key \in Key
    BY <2>1 DEF Held
  <2>3. PICK r \in Record : Held(o.key) = {AsObject(o.key, r)} /\ contents[o.key] = r
    BY <2>2, HeldOne
  <2>4. o.size = r.size
    BY <2>2, <2>3 DEF AsObject
  <2>5. f[c] = <<o.key, c[2]>>
    OBVIOUS
  <2> HIDE DEF o, f
  <2>6. QED
    BY <2>1, <2>3, <2>4, <2>5 DEF Cells
<1>3. ASSUME NEW t \in T
      PROVE  \E c \in S : f[c] = t
  <2>1. t[1] \in ks /\ t[2] \in 1..MaxSize /\ t = <<t[1], t[2]>> /\ t[2] <= contents[t[1]].size
    BY DEF Cells
  <2>2. contents[t[1]] # Absent
    <3>1. t[2] >= 1 /\ t[2] \in Int
      BY <2>1, CapFacts
    <3>2. Absent.size = 0
      BY DEF Absent
    <3>3. QED
      BY <2>1, <3>1, <3>2
  <2>3. PICK r \in Record : Held(t[1]) = {AsObject(t[1], r)} /\ contents[t[1]] = r
    BY <2>1, <2>2, HeldOne
  <2> DEFINE o == AsObject(t[1], r)
  <2>4. o \in bucket /\ o.key = t[1] /\ o.size = r.size
    BY <2>3 DEF Held, AsObject
  <2> HIDE DEF o
  <2>5. <<o, t[2]>> \in S
    BY <2>1, <2>3, <2>4 DEF ObjectsIn
  <2>6. f[<<o, t[2]>>] = t
    BY <2>1, <2>4, <2>5
  <2>7. QED
    BY <2>5, <2>6
<1>4. f \in [S -> T]
  <2>1. \A c \in S : f[c] \in T
    BY <1>2
  <2> HIDE DEF T
  <2>2. QED
    BY <2>1
<1>5. f \in Surjection(S, T)
  <2> HIDE DEF S, T, f
  <2>1. QED
    BY <1>3, <1>4 DEF Surjection
<1> HIDE DEF f
<1>6. IsFiniteSet(T) /\ Cardinality(T) <= Cardinality(S)
  BY <1>1, <1>5, FS_Surjection
<1>7. BytesOf(ObjectsIn(bucket, ks)) = Cardinality(S)
  BY DEF BytesOf
<1>8. QED
  BY <1>6, <1>7, FS_CardinalityType DEF T

\* Within the caps and the slack, and one object to a blob.
Kept ==
  ~strayed => /\ \A k \in Key : Held(k) = {} \/ \E r \in Record : Held(k) = {AsObject(k, r)} /\ contents[k] = r
              /\ AllBytes(contents) <= TotalCap + Slack
              /\ \A i \in Identity : Bytes(contents, i) <= OwnerCap + Slack
LEMMA ContentsKept == IInv => Kept
<1> SUFFICES ASSUME IInv, ~strayed
             PROVE  /\ \A k \in Key : Held(k) = {} \/ \E r \in Record : Held(k) = {AsObject(k, r)} /\ contents[k] = r
                    /\ AllBytes(contents) <= TotalCap + Slack
                    /\ \A i \in Identity : Bytes(contents, i) <= OwnerCap + Slack
  BY DEF Kept
<1>1. Typed /\ Balanced /\ Orderly /\ Within /\ raced = {} /\ total \in Int /\ bytes \in [Identity -> Int]
  BY WithinOvershoot DEF IInv, Typed, TypeOK, Orderly
<1>2. ASSUME NEW ks \in SUBSET Key, NEW n \in Int, NEW cap \in Nat, n = Net(bucket, pc, job, ks), Room(n, pc, job, ks, cap)
      PROVE  Cardinality(Cells(contents, ks)) <= cap + Slack
  <2>1. BytesOf(ObjectsIn(bucket, ks)) \in Nat /\ BytesOf(ObjectsIn(bucket, ks)) <= cap + Slack
    BY <1>1, <1>2, NetBound
  <2>2. /\ Cardinality(Cells(contents, ks)) \in Nat
        /\ Cardinality(Cells(contents, ks)) <= BytesOf(ObjectsIn(bucket, ks))
    BY ContentsBytes
  <2>3. QED
    BY <2>1, <2>2, CapFacts
<1>3. AllBytes(contents) <= TotalCap + Slack
  <2>1. total = Net(bucket, pc, job, Key) /\ Room(total, pc, job, Key, TotalCap)
    BY <1>1 DEF Balanced, Within
  <2>2. QED
    BY <1>1, <1>2, <2>1, CapFacts DEF AllBytes
<1>4. ASSUME NEW i \in Identity
      PROVE  Bytes(contents, i) <= OwnerCap + Slack
  <2>1. bytes[i] = Net(bucket, pc, job, KeysOf(i)) /\ Room(bytes[i], pc, job, KeysOf(i), OwnerCap)
    BY <1>1 DEF Balanced, Within
  <2>2. KeysOf(i) \in SUBSET Key /\ bytes[i] \in Int
    BY <1>1 DEF KeysOf, Key
  <2>3. QED
    BY <1>2, <2>1, <2>2, CapFacts DEF Bytes
<1>5. QED
  BY <1>3, <1>4, HeldOne

\* What a bucket that holds the same of a blob shows of it.
LEMMA SameContents ==
  ASSUME NEW k \in Key, NEW r, \A l \in Key \ {k} : Held(l)' = Held(l),
         contents'[k] = r
  PROVE  contents' = [contents EXCEPT ![k] = r]
<1>1. \A l \in Key \ {k} : contents'[l] = contents[l]
  BY DEF contents, Newest
<1>2. contents = [l \in Key |-> contents[l]] /\ contents' = [l \in Key |-> contents'[l]]
  BY DEF contents
<1>3. QED
  BY <1>1, <1>2

\* Only requests to the bucket change it; a restart does not.
LEMMA BucketSteps ==
  ASSUME [Next]_vars
  PROVE  bucket' = bucket \/ \E p \in Proc : PutStore(p) \/ PutFail(p) \/ DeleteObject(p) \/ DeleteFail(p)
<1>1. ASSUME NEW p \in Proc, PutCount(p) \/ GetObject(p) \/ Find(p) \/ Uncount(p)
      PROVE  bucket' = bucket
  BY <1>1 DEF PutCount, GetObject, Find, Uncount
<1>2. ASSUME NEW p \in Handler, NEW k \in Key,
             \/ Lookup(p, k) \/ DeleteStart(p, k)
             \/ \E size \in 1..MaxSize, ttl \in TTL : PutCheck(p, k, size, ttl)
      PROVE  bucket' = bucket
  BY <1>2 DEF Lookup, DeleteStart, PutCheck
<1>3. Tick \/ Restart \/ SweepStart \/ SweepNext \/ UNCHANGED vars => bucket' = bucket
  BY DEF Tick, Restart, SweepStart, SweepNext, vars
<1>4. QED
  BY <1>1, <1>2, <1>3 DEF Next

\* A request that stores an object is a put of the contract, one that deletes an object a
\* removal, and nothing else changes what is stored.
LEMMA ContractStep ==
  ASSUME IInv, Kept, Kept', [Next]_vars, ~strayed'
  PROVE  [Abs!Next]_contents
<1>h. \A k : Held(k)' = {o \in bucket' : o.key = k}
  BY DEF Held
<1>1. ASSUME NEW p \in Proc, PutStore(p) \/ DeleteObject(p)
      PROVE  /\ ~strayed /\ job[p].key \in Key /\ job[p].rec \in Record
             /\ Progress(p, job[p].key)
  <2>1. ~strayed /\ JobsTyped /\ pc[p] \in {"storing", "deleting"}
    BY <1>1 DEF PutStore, DeleteObject, history, IInv, Typed, TypeOK, JobsTyped
  <2>2. job[p].key \in Key /\ job[p].rec \in Record
    BY <2>1, JobFacts DEF Changing
  <2>3. KeyedAt(job[p].key)
    BY <2>1, <2>2 DEF IInv, Orderly, Keyed
  <2>4. QED
    BY <2>1, <2>2, <2>3 DEF KeyedAt, Works, Changing
<1>2. ASSUME NEW p \in Proc, PutStore(p)
      PROVE  Abs!Next
  <2>0. PICK k, r : job[p].key = k /\ job[p].rec = r
    OBVIOUS
  <2>1. ~strayed /\ k \in Key /\ r \in Record /\ Held(k) = {} /\ bucket' = With(k, r)
    BY <2>0, <1>1, <1>2 DEF Progress, PutStore
  <2>2. Held(k)' = {AsObject(k, r)} /\ \A l \in Key \ {k} : Held(l)' = Held(l)
    <3>1. Held(k)' = {AsObject(k, r)}
      BY <1>h, <2>1, HeldFacts
    <3>2. \A l \in Key \ {k} : Held(l)' = Held(l)
      BY <2>1 DEF Held, With, Without
    <3>3. QED
      BY <3>1, <3>2
  <2>3. PICK e \in Record : Held(k)' = {AsObject(k, e)} /\ contents'[k] = e
    BY <2>1, <2>2 DEF Kept
  <2>4. contents[k] = Absent
    BY <2>1 DEF contents, Newest
  <2>5. contents' = [contents EXCEPT ![k] = contents'[k]]
    BY <2>1, <2>2, SameContents
  <2>6. k[1] \in Identity
    BY <2>1, KeyFacts
  <2>7. AllBytes(contents') <= TotalCap + Slack /\ Bytes(contents', k[1]) <= OwnerCap + Slack
    BY <2>6 DEF Kept
  <2>8. Abs!Put(k)
    BY <2>3, <2>4, <2>5, <2>7 DEF Abs!Put
  <2>9. QED
    BY <2>1, <2>8 DEF Abs!Next
<1>3. ASSUME NEW p \in Proc, DeleteObject(p)
      PROVE  Abs!Next
  <2>0. PICK k, r : job[p].key = k /\ job[p].rec = r
    OBVIOUS
  <2>1. ~strayed /\ k \in Key /\ r \in Record /\ Held(k) = {AsObject(k, r)} /\ bucket' = Without(k, r.exp)
    BY <2>0, <1>1, <1>3 DEF Progress, DeleteObject
  <2>2. Held(k)' = {} /\ \A l \in Key \ {k} : Held(l)' = Held(l)
    <3>1. Held(k)' = {}
      BY <1>h, <2>1, HeldFacts
    <3>2. \A l \in Key \ {k} : Held(l)' = Held(l)
      BY <2>1 DEF Held, With, Without
    <3>3. QED
      BY <3>1, <3>2
  <2>3. contents'[k] = Absent
    BY <2>1, <2>2 DEF contents, Newest
  <2>4. contents[k] # Absent
    BY <2>1, KeyFacts DEF Kept
  <2>5. contents' = [contents EXCEPT ![k] = Absent]
    BY <2>1, <2>2, <2>3, SameContents
  <2>6. Abs!Remove(k)
    BY <2>4, <2>5 DEF Abs!Remove
  <2>7. QED
    BY <2>1, <2>6 DEF Abs!Next
<1>4. bucket' = bucket => UNCHANGED contents
  BY DEF contents, Newest, Held
<1>5. ASSUME NEW p \in Proc, PutFail(p) \/ DeleteFail(p)
      PROVE  bucket' = bucket
  BY <1>5 DEF PutFail, DeleteFail, Strays
<1>6. QED
  BY <1>2, <1>3, <1>4, <1>5, BucketSteps

-----------------------------------------------------------------------------
\* What a request may do to the object of a blob: store it when there is none, in the bucket
\* and in the index, or take away the one that is indexed.
Changes(k) ==
  \E p \in Proc :
    /\ job[p].key = k
    /\ \/ pc[p] = "storing" /\ index[k] = Absent /\ Held(k) = {} /\ Held(k)' = {AsObject(k, job[p].rec)}
       \/ pc[p] = "deleting" /\ index[k] = job[p].rec /\ Held(k) = {AsObject(k, job[p].rec)} /\ Held(k)' = {}

\* A blob that is not raced is changed by a request that is alone at it.
LEMMA OnceStep ==
  ASSUME Typed, Keyed, [Next]_vars, NEW k \in Key \ (raced \cup raced'), Held(k)' # Held(k)
  PROVE  Changes(k)
<1>h. \A l : Held(l)' = {o \in bucket' : o.key = l}
  BY DEF Held
<1>1. KeyedAt(k)
  BY DEF Keyed
<1>2. bucket' # bucket
  BY DEF Held
<1>3. ASSUME NEW p \in Proc, PutStore(p) \/ (PutFail(p) /\ bucket' = With(job[p].key, job[p].rec))
      PROVE  Changes(k)
  <2>0. PICK l, r : job[p].key = l /\ job[p].rec = r
    OBVIOUS
  <2>1. pc[p] = "storing" /\ bucket' = With(l, r)
    BY <1>3, <2>0 DEF PutStore, PutFail
  <2>2. l = k
    <3>1. l # k => {o \in With(l, r) : o.key = k} = Held(k)
      BY HeldFacts
    <3>2. Held(k)' = {o \in bucket' : o.key = k}
      BY DEF Held
    <3>3. QED BY <2>1, <3>1, <3>2
  <2>3. Progress(p, k)
    BY <1>1, <2>0, <2>1, <2>2 DEF KeyedAt, Works, Changing
  <2>4. index[k] = Absent /\ Held(k) = {}
    BY <2>1, <2>3 DEF Progress
  <2>5. Held(k)' = {AsObject(k, r)}
    BY <1>h, <2>1, <2>2, <2>4, HeldFacts
  <2>6. QED BY <2>0, <2>1, <2>2, <2>4, <2>5 DEF Changes
<1>4. ASSUME NEW p \in Proc, DeleteObject(p) \/ (DeleteFail(p) /\ bucket' = Without(job[p].key, job[p].rec.exp))
      PROVE  Changes(k)
  <2>0. PICK l, r : job[p].key = l /\ job[p].rec = r
    OBVIOUS
  <2>1. pc[p] = "deleting" /\ bucket' = Without(l, r.exp)
    BY <1>4, <2>0 DEF DeleteObject, DeleteFail
  <2>2. l = k
    <3>1. l # k => {o \in Without(l, r.exp) : o.key = k} = Held(k)
      BY DEF Held, Without
    <3>2. Held(k)' = {o \in bucket' : o.key = k}
      BY DEF Held
    <3>3. QED BY <2>1, <3>1, <3>2
  <2>3. Progress(p, k)
    BY <1>1, <2>0, <2>1, <2>2 DEF KeyedAt, Works, Changing
  <2>4. index[k] = r /\ Held(k) = {AsObject(k, r)}
    BY <2>0, <2>1, <2>3 DEF Progress
  <2>5. Held(k)' = {}
    BY <1>h, <2>1, <2>2, <2>4, HeldFacts
  <2>6. QED BY <2>0, <2>1, <2>2, <2>4, <2>5 DEF Changes
<1>5. ASSUME NEW p \in Proc, PutFail(p)
      PROVE  bucket' = bucket \/ bucket' = With(job[p].key, job[p].rec)
  BY <1>5 DEF PutFail
<1>6. ASSUME NEW p \in Proc, DeleteFail(p)
      PROVE  bucket' = bucket \/ bucket' = Without(job[p].key, job[p].rec.exp)
  BY <1>6 DEF DeleteFail
<1>7. QED
  BY <1>2, <1>3, <1>4, <1>5, <1>6, BucketSteps

-----------------------------------------------------------------------------
\* The invariant holds in every state.
LEMMA Invariant == Spec => []IInv
BY Start, Step, PTL DEF Spec

-----------------------------------------------------------------------------
\* The bucket, the index, the counters and the requests under way have their types.
THEOREM TypeCorrect == Spec => []TypeOK
<1>1. Typed => TypeOK
  BY DEF Typed
<1>2. QED
  BY <1>1, InitTyped, TypedStep, PTL DEF Spec

\* The usage that memory keeps of an owner is what the bucket holds for it, up to what a put
\* has yet to count and a deletion to take off, and a blob at rest is indexed as its one
\* object says; except for the blobs that two requests changed at a time, or that a request
\* changed although it failed, until the relay is started again.
THEOREM MemoryMirrorsBucket == Spec => []Mirrors
BY Invariant, KeyedMirrors, PTL

\* However many puts overlap, what is stored and on its way exceeds the capacity, and what an
\* owner has its quota, by no more than one record for each handler but one.
THEOREM OvershootBounded == Spec => []Overshoot
<1>1. IInv => Overshoot
  BY DEF IInv
<1>2. QED
  BY <1>1, Invariant, PTL

\* As long as no two requests changed a blob at a time and no failed request had its effect,
\* the bucket keeps the contract of the file store: a put stores a blob that was not there,
\* nothing changes one in place, only a deletion removes one and a restart none; and the
\* capacity and the quotas are exceeded by the slack at most, however many puts overlap.
THEOREM BucketKeepsContract == Spec => KeepsContract
<1>1. Init => Abs!Init
  BY DEF Init, Abs!Init, contents, Newest, Held
<1>2. IInv /\ Kept /\ Kept' /\ [Next]_vars => (~strayed' => [Abs!Next]_contents)
  BY ContractStep
<1>3. QED
  BY <1>1, <1>2, Invariant, ContentsKept, PTL DEF Spec, KeepsContract

\* "Immutable objects" (s3.go), for each blob by itself: until it is raced, and again after a
\* restart that finds one object of it, it is stored only when neither bucket nor index has it,
\* and only the object that is indexed is taken away, by a deletion - whatever happened to
\* other blobs, and however requests fail.
THEOREM BlobsWrittenOnce ==
  Spec => [][\A k \in Key \ (raced \cup raced') : Held(k)' # Held(k) => Changes(k)]_vars
<1>1. IInv /\ [Next]_vars
      => [\A k \in Key \ (raced \cup raced') : Held(k)' # Held(k) => Changes(k)]_vars
  BY OnceStep DEF IInv
<1>2. QED
  BY <1>1, Invariant, PTL DEF Spec

=============================================================================
