----------------------------- MODULE SyncEngine -----------------------------
(***************************************************************************)
(* Tactile Sync: syncNow in packages/core/src/api/sync.ts, run by every    *)
(* paired device against the blob namespace they share on the relay, with  *)
(* the client of relay.ts.  The relay holds one manifest blob and a blob   *)
(* per file version, addressed by path and content; each device keeps its  *)
(* files and sync-state.json, the hashes as of its last complete sync.     *)
(*                                                                         *)
(* Nothing in the code keeps two devices from syncing at the same time,    *)
(* nor a user from editing during a sync; Overlap and EditsWhileSyncing    *)
(* say whether an instance includes that.                                  *)
(***************************************************************************)
EXTENDS Integers, FiniteSets

CONSTANTS
  Device,             \* the paired devices
  Name,               \* the files users write
  Content,            \* file contents, identified with their hashes
  None,               \* no content: the file, entry or hash is absent
  Overlap,            \* may a sync start while another device is syncing?
  EditsWhileSyncing,  \* may a user write during a sync of the same device?
  PruneAge,           \* TOMBSTONE_PRUNE_MS
  MaxEdits,           \* bound: writes and deletes by users
  MaxFaults,          \* bound: failed calls, unreadable files, closed apps
  MaxExpired,         \* bound: blobs that reach the end of their retention
  MaxCopies           \* bound: conflict copies

ASSUME SyncAssumption ==
  /\ None \notin Content
  /\ Overlap \in BOOLEAN /\ EditsWhileSyncing \in BOOLEAN
  /\ PruneAge \in Nat /\ MaxEdits \in Nat /\ MaxFaults \in Nat
  /\ MaxExpired \in Nat /\ MaxCopies \in Nat

\* <<n, 0>> is the file n, <<n, i>> the conflict copy of it with the i-th time
\* stamp: conflictPath names it after the second of the sync, and conflicts on
\* one file are taken to be at least a second apart.  The last stamp stands for all
\* later ones: while the winner's blob is missing, every sync makes another copy.
Path == Name \X (0..MaxCopies)
Hash == Content \cup {None}

File == [h : Hash, m : Nat]                \* a local file: hash and mtime
NoFile == [h |-> None, m |-> 0]
Entry == [h : Hash, m : Nat, d : BOOLEAN]  \* RemoteFileEntry: hash, mtime, tombstone
NoEntry == [h |-> None, m |-> 0, d |-> FALSE]
Live(e) == e.h # None /\ ~e.d

Blob == Path \X Content                    \* fileBlobId
NoFiles == [p \in Path |-> NoFile]
NoEntries == [p \in Path |-> NoEntry]
NoHashes == [p \in Path |-> None]
NoManifest == <<>>
NoPath == <<>>

VARIABLES
  files,      \* files[d][p]: what is on the device
  state,      \* state[d][p]: the hash in sync-state.json, or None
  manifest,   \* the manifest blob on the relay, or NoManifest
  blobs,      \* the file blobs on the relay
  pc,         \* where the sync of each device is
  job,        \* the local variables of its syncNow
  now,        \* the clock: it ticks when a user writes
  copies,     \* conflict copies made so far
  faults,     \* faults so far
  expired     \* file blobs that the relay dropped at the end of their retention

\* History, read by properties only.
VARIABLES
  landed,     \* versions that some published manifest listed as live
  dirty,      \* <<d, p>>: the user wrote p on d and no sync has looked at it since
  newest      \* newest[n]: what the last write of n left there, if it is new to n: neither
              \* shared before nor on another device

relay == <<manifest, blobs>>
history == <<landed, dirty, newest>>
vars == <<files, state, relay, pc, job, now, copies, faults, expired, history>>

Job == [remote : [Path -> Entry], locals : [Path -> File], st : [Path -> Hash], at : Nat,
        todo : SUBSET Path, cur : Path \cup {NoPath}, nextFiles : [Path -> Entry],
        nextState : [Path -> Hash], stale : SUBSET Blob]
NoJob == [remote |-> NoEntries, locals |-> NoFiles, st |-> NoHashes, at |-> 0,
          todo |-> {}, cur |-> NoPath, nextFiles |-> NoEntries, nextState |-> NoHashes,
          stale |-> {}]

\* Where a sync is: comparing paths, between the conflict copy and the download,
\* between removing and putting the manifest, dropping file blobs.
Stage == {"idle", "paths", "copied", "publishing", "dropping"}

Init ==
  /\ files = [d \in Device |-> NoFiles]
  /\ state = [d \in Device |-> NoHashes]
  /\ manifest = NoManifest
  /\ blobs = {}
  /\ pc = [d \in Device |-> "idle"]
  /\ job = [d \in Device |-> NoJob]
  /\ now = 0 /\ copies = 0 /\ faults = 0 /\ expired = {}
  /\ landed = {} /\ dirty = {}
  /\ newest = [n \in Name |-> None]

-----------------------------------------------------------------------------
\* The user.

\* No manifest listed it, and no device has it.
New(n, c) == <<<<n, 0>>, c>> \notin landed /\ \A d \in Device : files[d][<<n, 0>>].h # c

Write(d, n, f) ==
  /\ now < MaxEdits
  /\ EditsWhileSyncing \/ pc[d] = "idle"
  /\ files' = [files EXCEPT ![d][<<n, 0>>] = f]
  /\ now' = now + 1
  /\ newest' = [newest EXCEPT ![n] = IF New(n, f.h) THEN f.h ELSE None]
  /\ UNCHANGED <<state, relay, pc, job, copies, faults, expired, landed>>

Edit(d, n, c) ==
  /\ files[d][<<n, 0>>].h # c
  /\ Write(d, n, [h |-> c, m |-> now + 1])
  /\ dirty' = dirty \cup {<<d, <<n, 0>>>>}

Delete(d, n) ==
  /\ files[d][<<n, 0>>].h # None
  /\ Write(d, n, NoFile)
  /\ dirty' = dirty \ {<<d, <<n, 0>>>>}

-----------------------------------------------------------------------------
\* The sync of a device.

\* Mutation of Ids: paths without an entry contribute an id as well.
Ids_Undefined(es) == {<<p, es[p].h>> : p \in Path}

\* The blobs that manifest entries refer to, tombstones included.
Ids(es) == {b \in Blob : es[b[1]].h = b[2]}

\* No manifest counts as an empty one.
fetchManifest == IF manifest = NoManifest THEN NoEntries ELSE manifest

\* What cannot be read and what is too large is left out.
walkCollection(d, unread) == [p \in Path |-> IF p \in unread THEN NoFile ELSE files[d][p]]

\* A state that cannot be read counts as an empty one.
loadLocalState(d) == {state[d], NoHashes}

\* syncNow up to its loop.
Begin(d, unread, st) ==
  /\ pc[d] = "idle"
  /\ Overlap \/ \A e \in Device : pc[e] = "idle"
  /\ \/ unread = {} /\ st = state[d] /\ UNCHANGED faults
     \/ faults < MaxFaults /\ faults' = faults + 1
  /\ LET remote == fetchManifest
         locals == walkCollection(d, unread)
     IN job' = [job EXCEPT ![d] =
          [remote |-> remote, locals |-> locals, st |-> st, at |-> now,
           todo |-> {p \in Path : locals[p].h # None \/ remote[p].h # None},
           cur |-> NoPath, nextFiles |-> remote, nextState |-> NoHashes,
           stale |-> Ids(remote) \cup {b \in Blob : st[b[1]] = b[2]}]]
  /\ pc' = [pc EXCEPT ![d] = "paths"]
  /\ UNCHANGED <<files, state, relay, now, copies, expired, history>>

\* What the loop body compares: the file, the manifest entry, the last state.
l(d, p) == job[d].locals[p]
r(d, p) == job[d].remote[p]
s(d, p) == job[d].st[p]

localChanged(d, p) == s(d, p) # l(d, p).h
remoteChanged(d, p) == s(d, p) # r(d, p).h
Here(d, p) == l(d, p).h # None
There(d, p) == Live(r(d, p))
Differ(d, p) == Here(d, p) /\ There(d, p) /\ l(d, p).h # r(d, p).h
Conflict(d, p) == Differ(d, p) /\ localChanged(d, p) /\ remoteChanged(d, p)

\* Mutation of RemoteWins: the comparison is the wrong way round.
RemoteWins_Older(d, p) == r(d, p).m < l(d, p).m
RemoteWins(d, p) == r(d, p).m > l(d, p).m

At(d, p) == pc[d] = "paths" /\ p \in job[d].todo

\* Mutation of Done: the manifest keeps the entry it had.
Done_OldEntry(d, p, entry, hash) ==
  /\ job' = [job EXCEPT ![d].todo = @ \ {p}, ![d].nextState[p] = hash]
  /\ pc' = [pc EXCEPT ![d] = "paths"]
  /\ dirty' = dirty \ {<<d, p>>}
  /\ UNCHANGED <<state, manifest, now, expired, landed, newest>>

\* The loop is done with the path p: its next entry, its next state.
Done(d, p, entry, hash) ==
  /\ job' = [job EXCEPT ![d] = [@ EXCEPT !.todo = job[d].todo \ {p}, !.nextFiles[p] = entry,
                                        !.nextState[p] = hash]]
  /\ pc' = [pc EXCEPT ![d] = "paths"]
  /\ dirty' = dirty \ {<<d, p>>}
  /\ UNCHANGED <<state, manifest, now, expired, landed, newest>>

Same(d, p) ==
  /\ At(d, p)
  /\ Here(d, p) /\ There(d, p) /\ ~Differ(d, p)
  /\ Done(d, p, r(d, p), r(d, p).h)
  /\ UNCHANGED <<files, blobs, copies, faults>>

\* Mutation of MustUpload: a tombstone counts as no entry.
MustUpload_Tombstone(d, p) ==
  \/ Differ(d, p) /\ localChanged(d, p) /\ (remoteChanged(d, p) => ~RemoteWins(d, p))
  \/ Here(d, p) /\ ~There(d, p)

\* Uploaded is a file changed here only, one that wins a conflict, a new one and
\* one whose deletion elsewhere does not apply, because it changed here.
MustUpload(d, p) ==
  \/ Differ(d, p) /\ localChanged(d, p) /\ (remoteChanged(d, p) => ~RemoteWins(d, p))
  \/ Here(d, p) /\ ~There(d, p) /\ ~(r(d, p).d /\ ~localChanged(d, p))

\* Putting a blob that is there already answers 409, which put takes for success.
Upload(d, p) ==
  /\ At(d, p) /\ MustUpload(d, p)
  /\ blobs' = blobs \cup {<<p, l(d, p).h>>}
  /\ Done(d, p, [h |-> l(d, p).h, m |-> l(d, p).m, d |-> FALSE], l(d, p).h)
  /\ UNCHANGED <<files, copies, faults>>

\* Mutation of MustDownload: it wins over every local change.
MustDownload_Always(d, p) ==
  \/ Differ(d, p) /\ remoteChanged(d, p)
  \/ ~Here(d, p) /\ There(d, p) /\ remoteChanged(d, p)

\* Downloaded is what changed on the relay only, also where it was deleted here.
MustDownload(d, p) ==
  \/ Differ(d, p) /\ remoteChanged(d, p) /\ ~localChanged(d, p)
  \/ ~Here(d, p) /\ There(d, p) /\ remoteChanged(d, p)

\* Writes the blob of the entry over whatever is on the device by now.
Fetch(d, p) ==
  /\ <<p, r(d, p).h>> \in blobs
  /\ files' = [files EXCEPT ![d][p] = [h |-> r(d, p).h, m |-> now]]
  /\ Done(d, p, r(d, p), r(d, p).h)
  /\ UNCHANGED <<blobs, copies, faults>>

Download(d, p) == At(d, p) /\ MustDownload(d, p) /\ Fetch(d, p)

\* "Remote wins; keep the local edits as a conflict copy."
CopyAside(d, p) ==
  LET stamp == IF copies < MaxCopies THEN copies + 1 ELSE copies
  IN /\ At(d, p) /\ Conflict(d, p) /\ RemoteWins(d, p)
     /\ copies' = stamp
     /\ files' = [files EXCEPT ![d][<<p[1], stamp>>] = [h |-> l(d, p).h, m |-> now]]
     /\ pc' = [pc EXCEPT ![d] = "copied"]
     /\ job' = [job EXCEPT ![d].cur = p]
     /\ UNCHANGED <<state, relay, now, faults, expired, history>>

Copied(d, p) == pc[d] = "copied" /\ p = job[d].cur

DownloadWinner(d, p) == Copied(d, p) /\ Fetch(d, p)

\* "Remote tombstone, untouched locally: apply the delete."
RemoveLocal(d, p) ==
  /\ At(d, p)
  /\ Here(d, p) /\ r(d, p).d /\ ~localChanged(d, p)
  /\ files' = [files EXCEPT ![d][p] = NoFile]
  /\ Done(d, p, r(d, p), None)
  /\ UNCHANGED <<blobs, copies, faults>>

\* "Deleted locally, unchanged remotely: tombstone it."  The entry keeps its blob.
Tombstone(d, p) ==
  /\ At(d, p)
  /\ ~Here(d, p) /\ There(d, p) /\ ~remoteChanged(d, p)
  /\ Done(d, p, [r(d, p) EXCEPT !.d = TRUE, !.m = job[d].at], None)
  /\ UNCHANGED <<files, blobs, copies, faults>>

\* A tombstone of a file that is not here either stays until it is old.
KeepTombstone(d, p) ==
  LET old == job[d].at - r(d, p).m > PruneAge
  IN /\ At(d, p)
     /\ ~Here(d, p) /\ r(d, p).d
     /\ Done(d, p, IF old THEN NoEntry ELSE r(d, p), None)
     /\ UNCHANGED <<files, blobs, copies, faults>>

\* A call for the path fails, or times out after it took effect: the manifest keeps
\* the entry it had, sync-state.json will have none.
PathFails(d, p) ==
  /\ At(d, p) \/ Copied(d, p)
  /\ faults < MaxFaults
  /\ faults' = faults + 1
  /\ \/ UNCHANGED blobs
     \/ /\ At(d, p) /\ MustUpload(d, p)
        /\ blobs' = blobs \cup {<<p, l(d, p).h>>}
  /\ Done(d, p, r(d, p), None)
  /\ UNCHANGED <<files, copies>>

\* "remote blob missing": the download throws, which ends as a failed call does.
BlobMissing(d, p) ==
  /\ \/ At(d, p) /\ MustDownload(d, p)
     \/ Copied(d, p)
  /\ <<p, r(d, p).h>> \notin blobs
  /\ Done(d, p, r(d, p), None)
  /\ UNCHANGED <<files, blobs, copies, faults>>

-----------------------------------------------------------------------------
\* writeManifest, the removal of what nothing references, saveLocalState.

\* Mutation of RemoveManifest: the file blobs go before the manifest is replaced.
RemoveManifest_DropFirst(d) ==
  /\ pc[d] = "paths" /\ job[d].todo = {}
  /\ manifest' = NoManifest
  /\ blobs' = blobs \ job[d].stale
  /\ pc' = [pc EXCEPT ![d] = "publishing"]
  /\ UNCHANGED <<files, state, job, now, copies, faults, expired, history>>

RemoveManifest(d) ==
  /\ pc[d] = "paths" /\ job[d].todo = {}
  /\ manifest' = NoManifest
  /\ pc' = [pc EXCEPT ![d] = "publishing"]
  /\ UNCHANGED <<files, state, blobs, job, now, copies, faults, expired, history>>

\* Mutation of Orphans: what the new manifest refers to is not spared.
Orphans_All(d) == job[d].stale

\* The blobs that the loop over staleBlobIds removes.
Orphans(d) == job[d].stale \ Ids(job[d].nextFiles)

\* The relay refuses a second manifest with 409, which put takes for success.
PutManifest(d) ==
  /\ pc[d] = "publishing"
  /\ IF manifest = NoManifest
     THEN /\ manifest' = job[d].nextFiles
          /\ landed' = landed \cup {b \in Blob : /\ Live(job[d].nextFiles[b[1]])
                                                 /\ job[d].nextFiles[b[1]].h = b[2]}
     ELSE UNCHANGED <<manifest, landed>>
  /\ job' = [job EXCEPT ![d].stale = Orphans(d)]
  /\ pc' = [pc EXCEPT ![d] = "dropping"]
  /\ UNCHANGED <<files, state, blobs, now, copies, faults, expired, dirty, newest>>

\* A removal that fails is not looked at again.
DropBlob(d, b) ==
  /\ pc[d] = "dropping" /\ b \in job[d].stale
  /\ \/ blobs' = blobs \ {b} /\ UNCHANGED faults
     \/ faults < MaxFaults /\ faults' = faults + 1 /\ UNCHANGED blobs
  /\ job' = [job EXCEPT ![d].stale = @ \ {b}]
  /\ UNCHANGED <<files, state, manifest, pc, now, copies, expired, history>>

Save(d) ==
  /\ pc[d] = "dropping" /\ job[d].stale = {}
  /\ state' = [state EXCEPT ![d] = job[d].nextState]
  /\ pc' = [pc EXCEPT ![d] = "idle"]
  /\ job' = [job EXCEPT ![d] = NoJob]
  /\ UNCHANGED <<files, relay, now, copies, faults, expired, history>>

\* The app is closed, or a call outside of the loop fails, be it before or after
\* it took effect.
Abort(d) ==
  /\ pc[d] # "idle"
  /\ faults < MaxFaults
  /\ faults' = faults + 1
  /\ pc' = [pc EXCEPT ![d] = "idle"]
  /\ job' = [job EXCEPT ![d] = NoJob]
  /\ UNCHANGED <<files, state, relay, now, copies, expired, history>>

\* The relay drops a blob whose retention ends: a file blob counts from its upload,
\* however often the manifest that lists it is renewed.
Expire(b) ==
  /\ b \in blobs
  /\ Cardinality(expired) < MaxExpired
  /\ blobs' = blobs \ {b}
  /\ expired' = expired \cup {b}
  /\ UNCHANGED <<files, state, manifest, pc, job, now, copies, faults, history>>

ExpireManifest ==
  /\ manifest # NoManifest
  /\ faults < MaxFaults
  /\ manifest' = NoManifest
  /\ faults' = faults + 1
  /\ UNCHANGED <<files, state, blobs, pc, job, now, copies, expired, history>>

User(d) == \E n \in Name : Delete(d, n) \/ \E c \in Content : Edit(d, n, c)

Compare(d, p) ==
  \/ Same(d, p) \/ Upload(d, p) \/ Download(d, p) \/ CopyAside(d, p) \/ DownloadWinner(d, p)
  \/ RemoveLocal(d, p) \/ Tombstone(d, p) \/ KeepTombstone(d, p) \/ BlobMissing(d, p)

Step(d) ==
  \/ \E p \in Path : Compare(d, p)
  \/ RemoveManifest(d)
  \/ PutManifest(d)
  \/ \E b \in Blob : DropBlob(d, b)
  \/ Save(d)

Next ==
  \/ \E d \in Device :
       \/ User(d)
       \/ \E unread \in SUBSET {p \in Path : files[d][p].h # None}, st \in loadLocalState(d) :
            Begin(d, unread, st)
       \/ Step(d)
       \/ \E p \in Path : PathFails(d, p)
       \/ Abort(d)
  \/ \E b \in Blob : Expire(b)
  \/ ExpireManifest

Spec == Init /\ [][Next]_vars

\* applySyncSettings starts a sync on every device again and again, and a sync
\* that no fault ends runs to its end.
Fairness ==
  \A d \in Device : WF_vars(Step(d)) /\ SF_vars(Begin(d, {}, state[d]))

FairSpec == Spec /\ Fairness

-----------------------------------------------------------------------------
TypeOK ==
  /\ files \in [Device -> [Path -> File]]
  /\ state \in [Device -> [Path -> Hash]]
  /\ manifest \in [Path -> Entry] \cup {NoManifest}
  /\ blobs \subseteq Blob
  /\ pc \in [Device -> Stage]
  /\ job \in [Device -> Job]
  /\ now \in 0..MaxEdits /\ copies \in 0..MaxCopies /\ faults \in 0..MaxFaults
  /\ expired \subseteq Blob /\ landed \subseteq Blob /\ dirty \subseteq Device \X Path
  /\ newest \in [Name -> Hash]

\* "Orphaned file blobs are deleted after the new manifest lands" (sync.ts): every
\* file that the manifest lists can be downloaded, however syncs fail, unless the
\* retention of its blob is over.
ManifestBacked ==
  manifest # NoManifest =>
    \A p \in Path : Live(manifest[p]) => <<p, manifest[p].h>> \in blobs \cup expired

\* "drop file blobs nothing references" (sync.ts): what a sync removes from the
\* relay is not listed by the manifest there.
DropsOnlyOrphans ==
  [][\A b \in blobs \ (blobs' \cup expired') :
       manifest # NoManifest => ~(Live(manifest[b[1]]) /\ manifest[b[1]].h = b[2])]_vars

\* "no silent data loss" (sync.ts): when a sync replaces or removes a file as the
\* sync had read it, that version had been published before or is kept as a copy.
KeepsEdits ==
  [][\A d \in Device, p \in Path :
       (/\ pc[d] # "idle" /\ files[d][p].h # None /\ files'[d][p].h # files[d][p].h
        /\ job[d].locals[p] = files[d][p])
         => \/ <<p, files[d][p].h>> \in landed
            \/ \E i \in 1..MaxCopies : files'[d][<<p[1], i>>].h = files[d][p].h]_vars

\* "Deletions propagate through tombstone entries" and "New file, or locally changed
\* after a remote delete" (sync.ts): a deleted file comes back only when a user
\* wrote it since - as long as no sync fails, nothing expires and tombstones outlive
\* the absence of a device.
DeletionsPropagate ==
  [][\A d \in Device, p \in Path :
       (faults' = 0 /\ expired = {} /\ Upload(d, p) /\ ~There(d, p) /\ p[2] = 0)
         => <<d, p>> \in dirty]_vars

\* Of several offline edits the last one wins: while no sync fails and nothing
\* expires, what a user wrote last is on some device, be it as a copy, until it is
\* written or deleted again.  (Only of content that is new: a device that finds the
\* same content on the relay keeps the entry, and with it the time of the older write,
\* which may then lose to a third device.)
NewestSurvives ==
  (faults = 0 /\ expired = {}) =>
    \A n \in Name : newest[n] # None =>
      \E d \in Device, i \in 0..MaxCopies : files[d][<<n, i>>].h = newest[n]

\* "Deleted locally" (sync.ts): who declares a file deleted does not have it.
TombstonesAreDeletions ==
  [][\A d \in Device, p \in Path : Tombstone(d, p) => files[d][p].h = None]_vars

\* All devices and the relay have the same files.
Agreed ==
  /\ manifest # NoManifest
  /\ \A d \in Device, p \in Path :
       files[d][p].h = IF Live(manifest[p]) THEN manifest[p].h ELSE None

\* Once users stop writing and calls stop failing, the devices agree and stay so
\* but for the moment in which the manifest is replaced.
Converges ==
  /\ []<>(manifest # NoManifest)
  /\ <>[](manifest # NoManifest => Agreed)
=============================================================================
