---------------------------- MODULE RelayStoreFS ----------------------------
(***************************************************************************)
(* The relay's filesystem store, relay/internal/store/fs.go, used by       *)
(* concurrent request handlers and by the sweeper.  Blobs are files that   *)
(* appear by an atomic rename; an index, the usage counters and the total  *)
(* are kept in memory under one RWMutex and rebuilt from the files at      *)
(* startup.                                                                *)
(*                                                                         *)
(* A section under the write lock is several steps here (file first, index *)
(* second), because a crash can fall between them and because Get opens    *)
(* files without the lock.  A section under the read lock only reads, and  *)
(* is one step that the write lock excludes.                               *)
(***************************************************************************)
EXTENDS ByteCells

CONSTANTS
  IdentityCap,  \* bytes one owner may store
  TotalCap,     \* bytes stored for all owners
  Handler,      \* request handlers that run concurrently
  Sweeper,      \* the goroutine of Sweeper
  Free,         \* nobody holds the write lock
  TTL,          \* what is left of a record's retention, in ticks, when its put gets
                \* the lock: some of it, as MinTTL is far longer than any wait
  MaxNow,       \* bound: the clock stops here
  MaxCrashes    \* bound: crashes of the relay process

Proc == Handler \cup {Sweeper}

ASSUME StoreAssumption ==
  /\ IsFiniteSet(Identity) /\ IsFiniteSet(Bid)
  /\ MaxSize \in Nat \ {0} /\ IdentityCap \in Nat /\ TotalCap \in Nat
  /\ Free \notin Proc /\ Sweeper \notin Handler
  /\ TTL \subseteq Nat \ {0}
  /\ MaxNow \in Nat /\ MaxCrashes \in Nat

VARIABLES
  disk,      \* the .blob files
  temps,     \* handlers whose .tmp file is in the data directory
  index,     \* FS.index
  known,     \* owners that have an entry in FS.usage
  bytes,     \* FS.usage[id].Bytes
  count,     \* FS.usage[id].Count
  total,     \* FS.totalBytes
  lock,      \* holder of FS.mu for writing, or Free
  pc,        \* where each process is
  job,       \* what it works on: the key, a record, the time it started, why
  dead,      \* the sweeper's list of expired blobs
  now,       \* unix time
  crashes    \* crashes so far; the relay is down while pc[Sweeper] = "down"

memory == <<index, known, bytes, count, total>>
vars == <<disk, temps, memory, lock, pc, job, dead, now, crashes>>

\* The contract that the files are to satisfy.
Abs == INSTANCE BlobStore WITH blobs <- disk

Entry == Record \cup {Absent}
\* Why a process works on a key: to store a record, to answer a request, or to
\* delete it - for its owner, or because it looked expired.
Why == {"put", "get", "owner", "expired"}
NoKey == <<>>
Job == [key : Key \cup {NoKey}, rec : Entry, at : Nat, why : Why]
NoJob == [key |-> NoKey, rec |-> Absent, at |-> 0, why |-> "get"]
Stage == {"idle", "renaming", "indexing", "opening", "served", "reaping", "unindexing", "down"}

Up == pc[Sweeper] # "down"
Expired(r) == r.exp <= now

\* The process is done with its request.
Finish(p) ==
  /\ pc' = [pc EXCEPT ![p] = "idle"]
  /\ job' = [job EXCEPT ![p] = NoJob]

NoMemory ==
  /\ index = [k \in Key |-> Absent]
  /\ known = {}
  /\ bytes = [i \in Identity |-> 0]
  /\ count = [i \in Identity |-> 0]
  /\ total = 0

Init ==
  /\ disk = [k \in Key |-> Absent]
  /\ temps = {}
  /\ NoMemory
  /\ lock = Free
  /\ pc = [p \in Proc |-> "idle"]
  /\ job = [p \in Proc |-> NoJob]
  /\ dead = {}
  /\ now = 0
  /\ crashes = 0

-----------------------------------------------------------------------------
\* PutWithin and putLocked.

\* The caps as PutWithin checks them: an owner without a usage entry is not
\* held against the identity cap.
Fits(k, size) ==
  /\ k[1] \in known => bytes[k[1]] + size <= IdentityCap
  /\ total + size <= TotalCap

\* Takes the lock and starts the temp file of a record that passes `admit`.
BeginPut(p, k, size, ttl, admit) ==
  /\ pc[p] = "idle" /\ lock = Free
  /\ admit
  /\ lock' = p
  /\ temps' = temps \cup {p}
  /\ pc' = [pc EXCEPT ![p] = "renaming"]
  /\ job' = [job EXCEPT ![p] = [key |-> k, rec |-> [size |-> size, exp |-> now + ttl],
                                at |-> now, why |-> "put"]]
  /\ UNCHANGED <<disk, memory, dead, now, crashes>>

\* Mutations of PutStart: the quota is checked against what is stored already, without
\* the new record; the retention asked for is used without the clamp of handlePut.
PutStart_QuotaBefore(p, k, size, ttl) ==
  BeginPut(p, k, size, ttl, /\ index[k] = Absent
                            /\ k[1] \in known => bytes[k[1]] <= IdentityCap
                            /\ total + size <= TotalCap)

PutStart_Unclamped(p, k, size, ttl) ==
  BeginPut(p, k, size, ttl - 2, index[k] = Absent /\ Fits(k, size))

\* A put that is refused (ErrExists, ErrQuotaExceeded, ErrStorageFull) changes nothing.
PutStart(p, k, size, ttl) == BeginPut(p, k, size, ttl, index[k] = Absent /\ Fits(k, size))

\* The record is written and synced to the temp file, then renamed.
PutRename(p) ==
  /\ pc[p] = "renaming"
  /\ disk' = [disk EXCEPT ![job[p].key] = job[p].rec]
  /\ temps' = temps \ {p}
  /\ pc' = [pc EXCEPT ![p] = "indexing"]
  /\ UNCHANGED <<memory, lock, job, dead, now, crashes>>

\* Mutation of PutFail: the temp file is not removed.
PutFail_KeepsTemp(p) ==
  /\ pc[p] = "renaming"
  /\ lock' = Free
  /\ Finish(p)
  /\ UNCHANGED <<disk, temps, memory, dead, now, crashes>>

\* Creating, writing, syncing or renaming fails: the deferred remove runs.
PutFail(p) ==
  /\ pc[p] = "renaming"
  /\ temps' = temps \ {p}
  /\ lock' = Free
  /\ Finish(p)
  /\ UNCHANGED <<disk, memory, dead, now, crashes>>

\* Mutation of indexAdd: an owner's new usage entry does not count the record.
indexAdd_NewOwner(k, r) ==
  LET n == IF k[1] \in known THEN 1 ELSE 0
  IN /\ index' = [index EXCEPT ![k] = r]
     /\ known' = known \cup {k[1]}
     /\ bytes' = [bytes EXCEPT ![k[1]] = @ + n * r.size]
     /\ count' = [count EXCEPT ![k[1]] = @ + n]
     /\ total' = total + r.size

\* indexAdd: the entry, the usage of its owner (created when missing), the total.
indexAdd(k, r) ==
  /\ index' = [index EXCEPT ![k] = r]
  /\ known' = known \cup {k[1]}
  /\ bytes' = [bytes EXCEPT ![k[1]] = @ + r.size]
  /\ count' = [count EXCEPT ![k[1]] = @ + 1]
  /\ total' = total + r.size

PutIndex(p) ==
  /\ pc[p] = "indexing"
  /\ indexAdd(job[p].key, job[p].rec)
  /\ lock' = Free
  /\ Finish(p)
  /\ UNCHANGED <<disk, temps, dead, now, crashes>>

-----------------------------------------------------------------------------
\* Get and GetRange.

\* Mutation of Lookup: the expiry is not looked at.
Lookup_AnyAge(p, k) ==
  /\ pc[p] = "idle" /\ lock = Free
  /\ index[k] # Absent
  /\ pc' = [pc EXCEPT ![p] = "opening"]
  /\ job' = [job EXCEPT ![p] = [key |-> k, rec |-> Absent, at |-> now, why |-> "get"]]
  /\ UNCHANGED <<disk, temps, memory, lock, dead, now, crashes>>

\* Reads the index under the read lock.  An expired entry is reaped, a live one
\* opened, both after the lock is given back; an absent one changes nothing.
Lookup(p, k) ==
  /\ pc[p] = "idle" /\ lock = Free
  /\ index[k] # Absent
  /\ \/ /\ Expired(index[k])
        /\ pc' = [pc EXCEPT ![p] = "reaping"]
        /\ job' = [job EXCEPT ![p] = [key |-> k, rec |-> Absent, at |-> 0, why |-> "expired"]]
     \/ /\ ~Expired(index[k])
        /\ pc' = [pc EXCEPT ![p] = "opening"]
        /\ job' = [job EXCEPT ![p] = [key |-> k, rec |-> Absent, at |-> now, why |-> "get"]]
  /\ UNCHANGED <<disk, temps, memory, lock, dead, now, crashes>>

\* Opens the file without any lock and answers with what is in it; a file that is
\* gone by now answers not found.
Open(p) ==
  LET r == disk[job[p].key]
  IN /\ pc[p] = "opening"
     /\ \/ /\ r = Absent
           /\ Finish(p)
        \/ /\ r # Absent
           /\ job' = [job EXCEPT ![p].rec = r]
           /\ pc' = [pc EXCEPT ![p] = "served"]
     /\ UNCHANGED <<disk, temps, memory, lock, dead, now, crashes>>

\* The response has been written.
Answered(p) ==
  /\ pc[p] = "served"
  /\ Finish(p)
  /\ UNCHANGED <<disk, temps, memory, lock, dead, now, crashes>>

-----------------------------------------------------------------------------
\* Delete, Sweep and deleteFile.

Delete(p, k) ==
  /\ pc[p] = "idle"
  /\ pc' = [pc EXCEPT ![p] = "reaping"]
  /\ job' = [job EXCEPT ![p] = [key |-> k, rec |-> Absent, at |-> 0, why |-> "owner"]]
  /\ UNCHANGED <<disk, temps, memory, lock, dead, now, crashes>>

\* Sweep collects under the read lock ...
SweepCollect ==
  /\ pc[Sweeper] = "idle" /\ dead = {} /\ lock = Free
  /\ dead' = {k \in Key : index[k] # Absent /\ Expired(index[k])}
  /\ UNCHANGED <<disk, temps, memory, lock, pc, job, now, crashes>>

\* ... and deletes one after the other, without looking at the expiry again.
SweepNext(k) ==
  /\ pc[Sweeper] = "idle" /\ k \in dead
  /\ dead' = dead \ {k}
  /\ pc' = [pc EXCEPT ![Sweeper] = "reaping"]
  /\ job' = [job EXCEPT ![Sweeper] = [key |-> k, rec |-> Absent, at |-> 0, why |-> "expired"]]
  /\ UNCHANGED <<disk, temps, memory, lock, now, crashes>>

\* deleteFile: takes the lock; an id without entry is not found.
ReapNothing(p) ==
  /\ pc[p] = "reaping" /\ lock = Free
  /\ index[job[p].key] = Absent
  /\ Finish(p)
  /\ UNCHANGED <<disk, temps, memory, lock, dead, now, crashes>>

\* The file is removed first ...
ReapFile(p) ==
  /\ pc[p] = "reaping" /\ lock = Free
  /\ index[job[p].key] # Absent
  /\ disk' = [disk EXCEPT ![job[p].key] = Absent]
  /\ lock' = p
  /\ pc' = [pc EXCEPT ![p] = "unindexing"]
  /\ UNCHANGED <<temps, memory, job, dead, now, crashes>>

\* ... unless os.Remove fails, which leaves everything as it was ...
ReapFail(p) ==
  /\ pc[p] = "reaping" /\ lock = Free
  /\ index[job[p].key] # Absent
  /\ Finish(p)
  /\ UNCHANGED <<disk, temps, memory, lock, dead, now, crashes>>

\* ... then the entry, and what it counted for.
ReapIndex(p) ==
  LET k == job[p].key
      e == index[k]
  IN /\ pc[p] = "unindexing"
     /\ index' = [index EXCEPT ![k] = Absent]
     /\ bytes' = [bytes EXCEPT ![k[1]] = @ - e.size]
     /\ count' = [count EXCEPT ![k[1]] = @ - 1]
     /\ total' = total - e.size
     /\ lock' = Free
     /\ Finish(p)
     /\ UNCHANGED <<disk, temps, known, dead, now, crashes>>

-----------------------------------------------------------------------------
Tick ==
  /\ now < MaxNow
  /\ now' = now + 1
  /\ UNCHANGED <<disk, temps, memory, lock, pc, job, dead, crashes>>

\* The process dies: files and leftover temp files stay, memory is gone.
Crash ==
  /\ Up /\ crashes < MaxCrashes
  /\ crashes' = crashes + 1
  /\ pc' = [p \in Proc |-> "down"]
  /\ lock' = Free
  /\ dead' = {}
  /\ index' = [k \in Key |-> Absent]
  /\ known' = {}
  /\ bytes' = [i \in Identity |-> 0]
  /\ count' = [i \in Identity |-> 0]
  /\ total' = 0
  /\ job' = [p \in Proc |-> NoJob]
  /\ UNCHANGED <<disk, temps, now>>

\* The memory that knows these records and no others.
Remember(files) ==
  /\ index' = files
  /\ known' = {i \in Identity : Count(files, i) > 0}
  /\ bytes' = [i \in Identity |-> Bytes(files, i)]
  /\ count' = [i \in Identity |-> Count(files, i)]
  /\ total' = AllBytes(files)

\* Mutation of Load: what has expired is not indexed.
Load_Live(files) ==
  Remember([k \in Key |-> IF Expired(files[k]) THEN Absent ELSE files[k]])

\* OpenFS and load: every .blob file is indexed, everything else is dropped.
Load(files) == Remember(files)

Restart ==
  /\ ~Up
  /\ Load(disk)
  /\ temps' = {}
  /\ pc' = [p \in Proc |-> "idle"]
  /\ UNCHANGED <<disk, lock, job, dead, now, crashes>>

Request(p) ==
  \E k \in Key :
    \/ \E size \in 1..MaxSize, ttl \in TTL : PutStart(p, k, size, ttl)
    \/ Lookup(p, k)
    \/ Delete(p, k)

deleteFile(p) == ReapNothing(p) \/ ReapFile(p) \/ ReapFail(p) \/ ReapIndex(p)

Next ==
  \/ \E p \in Handler : \/ Request(p)
                        \/ PutRename(p) \/ PutFail(p) \/ PutIndex(p)
                        \/ Open(p) \/ Answered(p)
  \/ \E p \in Proc : deleteFile(p)
  \/ SweepCollect
  \/ \E k \in Key : SweepNext(k)
  \/ Tick
  \/ Crash
  \/ Restart

Spec == Init /\ [][Next]_vars

\* The sweeper's ticker keeps firing, Go's scheduler runs every goroutine and its
\* RWMutex admits every waiting writer in the end; the process is restarted when
\* it died, and os.Remove does not fail for ever.  Requests need not come.
Fairness ==
  /\ WF_vars(Restart)
  /\ \A p \in Handler : WF_vars(PutRename(p)) /\ WF_vars(PutIndex(p))
  /\ \A p \in Proc : WF_vars(ReapIndex(p))
  /\ SF_vars(SweepCollect) /\ WF_vars(\E k \in Key : SweepNext(k))
  /\ SF_vars(ReapNothing(Sweeper))
  /\ \A k \in Key : SF_vars(ReapFile(Sweeper) /\ job[Sweeper].key = k)

FairSpec == Spec /\ Fairness

-----------------------------------------------------------------------------
\* The store's state.
TypeOK ==
  /\ disk \in [Key -> Entry]
  /\ temps \subseteq Handler
  /\ index \in [Key -> Entry]
  /\ known \subseteq Identity
  /\ bytes \in [Identity -> Int]
  /\ count \in [Identity -> Int]
  /\ total \in Int
  /\ lock \in Proc \cup {Free}
  /\ pc \in [Proc -> Stage]
  /\ job \in [Proc -> Job]
  /\ dead \subseteq Key
  /\ now \in Nat
  /\ crashes \in Nat

\* Whenever the lock is free, what Usage and TotalBytes report and what the quota
\* is checked against is exactly what is on disk, after any number of crashes.
Accounted ==
  (Up /\ lock = Free) =>
    /\ index = disk
    /\ total = AllBytes(disk)
    /\ \A i \in Identity : bytes[i] = Bytes(disk, i) /\ count[i] = Count(disk, i)

\* "concurrent puts cannot oversubscribe" (fs.go, PutWithin): never are more bytes
\* on disk than the relay may store ...
WithinTotal == Abs!WithinTotal

\* ... and an owner beyond the quota has stored a single record.
WithinQuota == Abs!WithinQuota

\* Both caps, under any number of concurrent puts, deletes and crashes.  They follow from
\* ImplementsStore (RelayStoreFSProofs, CapsHold).
WithinCaps == WithinTotal /\ WithinQuota

\* "Get returns a live record" (fs.go): what is served had not expired when the
\* request looked it up, although the file is opened without the lock and may
\* have been removed and written again in between.
ServesLive == \A p \in Handler : pc[p] = "served" => job[p].rec.exp > job[p].at

\* "a crash can only leave a .tmp file" (fs.go), and a running relay has no temp
\* file but that of the put that holds the lock: leftovers are dropped at startup.
TempsOwned == Up => \A p \in temps : lock = p /\ pc[p] = "renaming"

\* "Sweep removes expired blobs" (backend.go), "Expired records are ... removed
\* lazily" (fs.go): who deletes a blob because it expired deletes an expired one.
OnlyExpiredReaped ==
  [][\A p \in Proc :
       (pc[p] = "reaping" /\ pc'[p] = "unindexing" /\ job[p].why = "expired")
         => Expired(disk[job[p].key])]_vars

\* Every expired blob is reclaimed, requests, crashes and failing removes or not.
Reclaimed ==
  \A k \in Key : (disk[k] # Absent /\ Expired(disk[k])) ~> (disk[k] = Absent \/ ~Expired(disk[k]))

\* The files are a store as the contract promises it: written once, within the
\* caps, unharmed by restarts.
ImplementsStore == Abs!Spec
=============================================================================
