----------------------------- MODULE RelayStoreS3 -----------------------------
(***************************************************************************)
(* The relay's other store, relay/internal/store/s3.go: blobs are objects  *)
(* of an S3 bucket whose keys carry the expiry, so that listing the bucket *)
(* at startup rebuilds the index.  The index and the counters are kept     *)
(* under one RWMutex, but no request to the bucket is made under it: the   *)
(* caps are checked, or the entry is read, in one section, the object is   *)
(* stored or deleted without the lock, and counted in a second section.    *)
(*                                                                         *)
(* A section under the lock is one step, a request to the bucket another.  *)
(***************************************************************************)
EXTENDS ByteCells

CONSTANTS
  IdentityCap,  \* bytes one owner may store
  TotalCap,     \* bytes stored for all owners
  Handler,      \* request handlers that run concurrently
  Sweeper,      \* the goroutine of Sweeper
  TTL,          \* retentions of records
  MaxNow,       \* bound: the clock stops here
  MaxPuts,      \* bound: puts that pass the checks
  MaxFaults     \* bound: failed requests to the bucket and restarts

Proc == Handler \cup {Sweeper}

ASSUME StoreAssumption ==
  /\ IsFiniteSet(Identity) /\ IsFiniteSet(Bid) /\ IsFiniteSet(Handler)
  /\ Handler # {} /\ Sweeper \notin Handler
  /\ MaxSize \in Nat \ {0} /\ IdentityCap \in Nat /\ TotalCap \in Nat
  /\ TTL \subseteq Nat \ {0}
  /\ MaxNow \in Nat /\ MaxPuts \in Nat /\ MaxFaults \in Nat

VARIABLES
  bucket,    \* the objects; a name is a key with an expiry
  index,     \* S3.index
  known,     \* owners that have an entry in S3.usage
  bytes,     \* S3.usage[id].Bytes
  count,     \* S3.usage[id].Count
  total,     \* S3.totalBytes
  pc,        \* where each process is
  job,       \* the key and the entry that it works on
  dead,      \* the sweeper's list of expired blobs
  now,       \* unix time
  puts, faults,
  \* History, which no action looks at:
  raced,     \* keys two processes changed at a time, or whose request failed after all
  strayed    \* that has ever happened

memory == <<index, known, bytes, count, total>>
history == <<raced, strayed>>
vars == <<bucket, memory, pc, job, dead, now, puts, faults, history>>

Entry == Record \cup {Absent}
Object == [key : Key, exp : Nat, size : 1..MaxSize]
NoKey == <<>>
Job == [key : Key \cup {NoKey}, rec : Entry]
NoJob == [key |-> NoKey, rec |-> Absent]
Stage == {"idle", "storing", "counting", "getting", "finding", "deleting", "uncounting"}
Changing == {"storing", "counting", "deleting", "uncounting"}

\* PutObject replaces an object of the same name; deleting one that is not there succeeds.
Without(k, exp) == {o \in bucket : ~(o.key = k /\ o.exp = exp)}
With(k, r) == Without(k, r.exp) \cup {[key |-> k, exp |-> r.exp, size |-> r.size]}
Stored(k, exp) == \E o \in bucket : o.key = k /\ o.exp = exp

BytesOf(os) == Cardinality({c \in os \X (1..MaxSize) : c[2] <= c[1].size})
ObjectsOf(i) == {o \in bucket : o.key[1] = i}

Init ==
  /\ bucket = {}
  /\ index = [k \in Key |-> Absent] /\ known = {}
  /\ bytes = [i \in Identity |-> 0] /\ count = [i \in Identity |-> 0] /\ total = 0
  /\ pc = [p \in Proc |-> "idle"] /\ job = [p \in Proc |-> NoJob]
  /\ dead = {} /\ now = 0 /\ puts = 0 /\ faults = 0
  /\ raced = {} /\ strayed = FALSE

-----------------------------------------------------------------------------
Go(p, stage, k, r) ==
  /\ pc' = [pc EXCEPT ![p] = stage]
  /\ job' = [job EXCEPT ![p] = [key |-> k, rec |-> r]]
Finish(p) == Go(p, "idle", NoKey, Absent)

\* History of a step after which p begins to change k.
Begins(p, k) ==
  LET race == \E q \in Proc \ {p} : job[q].key = k /\ pc[q] \in Changing IN
  /\ raced' = IF race THEN raced \cup {k} ELSE raced
  /\ strayed' = (strayed \/ race)

\* History of a request to the bucket that had an effect although it failed.
Strays(k) == raced' = raced \cup {k} /\ strayed' = TRUE

\* Mutation of Fits: an owner is not held against its cap.
Fits_TotalOnly(k, size) == total + size <= TotalCap

\* The caps as PutWithin checks them: an owner without a usage entry is not held
\* against the identity cap.
Fits(k, size) ==
  /\ k[1] \in known => bytes[k[1]] + size <= IdentityCap
  /\ total + size <= TotalCap

\* PutWithin, first section.  A put that is refused changes nothing.
PutCheck(p, k, size, ttl) ==
  /\ pc[p] = "idle" /\ puts < MaxPuts
  /\ index[k] = Absent /\ Fits(k, size)
  /\ puts' = puts + 1
  /\ Go(p, "storing", k, [size |-> size, exp |-> now + ttl])
  /\ Begins(p, k)
  /\ UNCHANGED <<bucket, memory, dead, now, faults>>

PutStore(p) ==
  /\ pc[p] = "storing"
  /\ bucket' = With(job[p].key, job[p].rec)
  /\ pc' = [pc EXCEPT ![p] = "counting"]
  /\ UNCHANGED <<memory, job, dead, now, puts, faults, history>>

\* The request fails, before or after the bucket took the object.
PutFail(p) ==
  /\ pc[p] = "storing" /\ faults < MaxFaults
  /\ faults' = faults + 1
  /\ \/ UNCHANGED <<bucket, history>>
     \/ bucket' = With(job[p].key, job[p].rec) /\ Strays(job[p].key)
  /\ Finish(p)
  /\ UNCHANGED <<memory, dead, now, puts>>

\* indexAdd: the entry, the usage of its owner (created when missing), the total.
PutCount(p) ==
  /\ pc[p] = "counting"
  /\ LET k == job[p].key
         r == job[p].rec IN
       /\ index' = [index EXCEPT ![k] = r]
       /\ known' = known \cup {k[1]}
       /\ bytes' = [bytes EXCEPT ![k[1]] = @ + r.size]
       /\ count' = [count EXCEPT ![k[1]] = @ + 1]
       /\ total' = total + r.size
  /\ Finish(p)
  /\ UNCHANGED <<bucket, dead, now, puts, faults, history>>

-----------------------------------------------------------------------------
\* Get and GetRange: lookup reaps an entry that is expired ...
Lookup(p, k) ==
  /\ pc[p] = "idle" /\ p # Sweeper
  /\ index[k] # Absent
  /\ Go(p, IF index[k].exp <= now THEN "finding" ELSE "getting", k, index[k])
  /\ UNCHANGED <<bucket, memory, dead, now, puts, faults, history>>

\* Mutation of GetObject: the entry is not looked up again.
GetObject_Deletes(p) ==
  /\ pc[p] = "getting"
  /\ \/ Finish(p)
     \/ /\ ~Stored(job[p].key, job[p].rec.exp)
        /\ Go(p, "deleting", job[p].key, Absent)
  /\ UNCHANGED <<bucket, memory, dead, now, puts, faults, history>>

\* ... and Get one whose object is not there; GetRange does not.
GetObject(p) ==
  /\ pc[p] = "getting"
  /\ \/ Finish(p)
     \/ /\ ~Stored(job[p].key, job[p].rec.exp)
        /\ Go(p, "finding", job[p].key, Absent)
  /\ UNCHANGED <<bucket, memory, dead, now, puts, faults, history>>

-----------------------------------------------------------------------------
\* Delete, for the owner of the blob.
DeleteStart(p, k) ==
  /\ pc[p] = "idle" /\ p # Sweeper
  /\ Go(p, "finding", k, Absent)
  /\ UNCHANGED <<bucket, memory, dead, now, puts, faults, history>>

\* deleteKey reads the entry ...
Find(p) ==
  /\ pc[p] = "finding"
  /\ LET k == job[p].key IN
       \/ index[k] = Absent /\ Finish(p) /\ UNCHANGED history
       \/ index[k] # Absent /\ Go(p, "deleting", k, index[k]) /\ Begins(p, k)
  /\ UNCHANGED <<bucket, memory, dead, now, puts, faults>>

\* ... deletes the object ...
DeleteObject(p) ==
  /\ pc[p] = "deleting"
  /\ bucket' = Without(job[p].key, job[p].rec.exp)
  /\ pc' = [pc EXCEPT ![p] = "uncounting"]
  /\ UNCHANGED <<memory, job, dead, now, puts, faults, history>>

\* Mutation of DeleteFail: the error is ignored.
DeleteFail_Ignored(p) ==
  /\ pc[p] = "deleting" /\ faults < MaxFaults
  /\ faults' = faults + 1
  /\ \/ UNCHANGED <<bucket, history>>
     \/ bucket' = Without(job[p].key, job[p].rec.exp) /\ Strays(job[p].key)
  /\ pc' = [pc EXCEPT ![p] = "uncounting"]
  /\ UNCHANGED <<memory, job, dead, now, puts>>

\* ... or fails to, before or after the bucket did it ...
DeleteFail(p) ==
  /\ pc[p] = "deleting" /\ faults < MaxFaults
  /\ faults' = faults + 1
  /\ \/ UNCHANGED <<bucket, history>>
     \/ bucket' = Without(job[p].key, job[p].rec.exp) /\ Strays(job[p].key)
  /\ Finish(p)
  /\ UNCHANGED <<memory, dead, now, puts>>

\* ... and drops whatever entry there is, with the size of the one it read.
Uncount(p) ==
  /\ pc[p] = "uncounting"
  /\ LET k == job[p].key
         r == job[p].rec IN
       /\ index' = [index EXCEPT ![k] = Absent]
       /\ bytes' = [bytes EXCEPT ![k[1]] = @ - r.size]
       /\ count' = [count EXCEPT ![k[1]] = @ - 1]
       /\ total' = total - r.size
  /\ Finish(p)
  /\ UNCHANGED <<bucket, known, dead, now, puts, faults, history>>

-----------------------------------------------------------------------------
\* Sweep: the expired entries are listed under one lock, then deleted one by one.
SweepStart ==
  /\ pc[Sweeper] = "idle" /\ dead = {}
  /\ dead' = {k \in Key : index[k] # Absent /\ index[k].exp <= now}
  /\ dead' # {}
  /\ UNCHANGED <<bucket, memory, pc, job, now, puts, faults, history>>

SweepNext ==
  /\ pc[Sweeper] = "idle"
  /\ \E k \in dead : dead' = dead \ {k} /\ Go(Sweeper, "finding", k, Absent)
  /\ UNCHANGED <<bucket, memory, now, puts, faults, history>>

Tick == now < MaxNow /\ now' = now + 1 /\ UNCHANGED <<bucket, memory, pc, job, dead, puts, faults, history>>

\* What listing the bucket shows of each blob: the last of its objects.
Held(k) == {o \in bucket : o.key = k}
Newest(k) == {o \in Held(k) : \A o2 \in Held(k) : o2.exp <= o.exp}
contents ==
  [k \in Key |-> IF Newest(k) = {} THEN Absent
                ELSE LET o == CHOOSE o \in Newest(k) : TRUE IN [size |-> o.size, exp |-> o.exp]]

\* The relay stops, wherever its processes are, and starts again: load lists the bucket
\* in the order of names, counts every object and indexes the last one of a blob.
Restart ==
  /\ faults < MaxFaults
  /\ faults' = faults + 1
  /\ index' = contents /\ known' = {o.key[1] : o \in bucket}
  /\ bytes' = [i \in Identity |-> BytesOf(ObjectsOf(i))]
  /\ count' = [i \in Identity |-> Cardinality(ObjectsOf(i))]
  /\ total' = BytesOf(bucket)
  /\ raced' = {k \in Key : Cardinality(Held(k)) > 1}
  /\ pc' = [p \in Proc |-> "idle"] /\ job' = [p \in Proc |-> NoJob] /\ dead' = {}
  /\ UNCHANGED <<bucket, now, puts, strayed>>

Next ==
  \/ Tick \/ Restart \/ SweepStart \/ SweepNext
  \/ \E p \in Handler, k \in Key :
       \/ Lookup(p, k) \/ DeleteStart(p, k)
       \/ \E size \in 1..MaxSize, ttl \in TTL : PutCheck(p, k, size, ttl)
  \/ \E p \in Proc :
       \/ PutStore(p) \/ PutFail(p) \/ PutCount(p) \/ GetObject(p)
       \/ Find(p) \/ DeleteObject(p) \/ DeleteFail(p) \/ Uncount(p)

Spec == Init /\ [][Next]_vars

-----------------------------------------------------------------------------
\* The bucket, the index, the counters and the requests under way.
TypeOK ==
  /\ bucket \subseteq Object
  /\ index \in [Key -> Entry] /\ known \subseteq Identity
  /\ bytes \in [Identity -> Int] /\ count \in [Identity -> Int] /\ total \in Int
  /\ pc \in [Proc -> Stage] /\ job \in [Proc -> Job]
  /\ \A p \in Proc : pc[p] = "idle" <=> job[p].key = NoKey
  /\ \A p \in Proc : pc[p] \in Changing \cup {"getting"} => job[p].rec # Absent
  /\ dead \subseteq Key
  /\ now \in 0..MaxNow /\ puts \in 0..MaxPuts /\ faults \in 0..MaxFaults
  /\ raced \subseteq Key /\ strayed \in BOOLEAN

\* The processes at a stage that work for the owner i.
At(stage, i) == {p \in Proc : pc[p] = stage /\ job[p].key[1] = i}
SizesOf(ps) == Cardinality({c \in ps \X (1..MaxSize) : c[2] <= job[c[1]].rec.size})

\* Memory mirrors the bucket.  The usage of an owner is what the bucket holds for it, up
\* to what a put has yet to add and a deletion to take off; and a blob is indexed with
\* the expiry and the size of its one object unless a request is changing it.  This
\* excepts blobs that two requests changed at a time, or that a request to the bucket
\* changed although it failed - until the relay is started again.
Mirrors ==
  /\ \A i \in Identity : KeysOf(i) \cap raced = {} =>
       /\ bytes[i] = BytesOf(ObjectsOf(i)) - SizesOf(At("counting", i)) + SizesOf(At("uncounting", i))
       /\ count[i] = Cardinality(ObjectsOf(i)) - Cardinality(At("counting", i)) + Cardinality(At("uncounting", i))
  /\ \A k \in Key \ raced : (\A p \in Proc : job[p].key = k => pc[p] \notin Changing) =>
       {[size |-> o.size, exp |-> o.exp] : o \in {o \in bucket : o.key = k}} = {index[k]} \ {Absent}

\* How far concurrent puts may exceed a cap: by one record for each other handler.  An
\* owner without a usage entry may start with a record beyond its cap.
Slack == (Cardinality(Handler) - 1) * MaxSize
OwnerCap == IF IdentityCap < MaxSize THEN MaxSize ELSE IdentityCap
OnTheWay(ks) == {p \in Handler : pc[p] \in {"storing", "counting"} /\ job[p].key \in ks}

\* "stores a record only if it fits the per-identity and global caps" (s3.go:146) holds
\* for one put at a time; concurrent ones may exceed the capacity, and the quota of
\* their owner, but by no more than the slack, counting the ones still on their way.
Overshoot ==
  ~strayed => /\ total + SizesOf(OnTheWay(Key)) <= TotalCap + Slack
              /\ \A i \in Identity : bytes[i] + SizesOf(OnTheWay(KeysOf(i))) <= OwnerCap + Slack

-----------------------------------------------------------------------------
\* The store contract, with caps that leave the slack.
Abs == INSTANCE BlobStore WITH blobs <- contents, IdentityCap <- OwnerCap + Slack, TotalCap <- TotalCap + Slack

\* Up to the slack, the bucket keeps the contract of the file store: a put stores a blob
\* that was not there and fits, nothing changes a blob in place, and only a deletion
\* removes one - no restart, and no failed request.  This holds as long as no two requests
\* changed a blob at a time and every request that failed had no effect.
KeepsContract == Abs!Init /\ [][~strayed' => [Abs!Next]_contents]_vars
=============================================================================
