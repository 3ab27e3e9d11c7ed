# Tactile: specifications and proofs

TLA+ models of the parts of Tactile whose correctness depends on order, failure
and concurrency, the TLC configurations that check them on small instances, and
proofs, checked by TLAPS, of their main properties for every value of the
constants. `PROJECT.json` lists the same things for tools: components, runs, the
mutations every checked property is tried against, the source lines each
definition stands for, findings, hazards and theorems.

## 1. The system

Tactile is a local-first note editor for the web and the desktop. Notes are
files in a collection, kept by a storage backend. Paired devices synchronise
them, encrypted, through a relay; a publish node serves static sites.

| Component | State | Operations | Interacts with | Hard behaviour | What makes it correct |
|---|---|---|---|---|---|
| **Sync engine** `packages/core/src/api/sync.ts` | the device's files, `sync-state.json`; the manifest and file blobs on the relay | `syncNow`, started by a timer or the user | relay client, storage; other devices through the relay only | crash or failed call between any two steps, edits meanwhile, expiry, two devices at once | what the manifest lists can be downloaded; no edit is lost; deletions reach everybody; devices agree in the end |
| **Relay client** `api/relay.ts` | none | `put`, `get`, `remove`, `list`, `info` | the relay over HTTP | 409 and 404 are taken for success | - |
| **Relay FS store** `relay/internal/store/fs.go` | `.blob` files; index, usage and total in memory | `PutWithin`, `Get`, `GetRange`, `List`, `Delete`, `Sweep`, `load` | handlers and a sweeper goroutine | file and index change in separate steps, files are opened without the lock, crash at any step | counters match the disk, caps hold, a write is never replaced, expired blobs go and live ones stay |
| **Relay S3 store** `store/s3.go` | objects; the same index | the same | an object store | check and write are separate sections | the same contract |
| **Relay hub, live connections** `hub/hub.go`, `server/ws.go` | subscriptions, bounded queues, connections | authenticate, subscribe, publish, route, close | two goroutines per connection, REST handlers | close races with authentication; slow consumers; shutdown | no subscription outlives its connection; nobody blocks the hub |
| **Relay REST, admission** `server/rest.go`, `server/server.go`, `ratelimit` | counters, token buckets | blob endpoints, ranges, limits, shutdown | store, hub | limits, boundaries of ranges | ranges deliver the bytes asked for; limits hold and their memory is bounded |
| **Keyed mutex** `packages/storage/src/mutex.ts` | a map from path to the tail promise | `runExclusive(keys, fn)` | every storage backend | interleaving of promise callbacks, several keys | mutual exclusion, order of calls, no deadlock, no leak |
| **Storage backends** `opfs.ts`, `idbfs.ts`, `tauri.ts` | files and directories | read, write, rename, remove | mutex, Web Locks, IndexedDB | several tabs, awaits between check and write | the tree stays a tree; writes are atomic |
| **Versioned storage** `versioned.ts` | snapshots per file, time of the last one | write, restore | a backend | snapshot interval, pruning | a restore loses nothing |
| **Storage events** `broadcast.ts`, `events.ts` | listeners | emit, watch | tabs | order, echo | every change is seen once |
| **Web storage start-up** `apps/web/src/lib/storage` | legacy database | migrate, seed | a backend | failure half-way | nothing is dropped before it is copied |
| **Notes, editor** `api/notes.ts`, `state/editor.svelte.ts` | open note, dirty path, save generation, timer | open, save, rename, close | storage | switching notes while reading or saving | a save writes a note's own text to its own path |
| **Trash** `api/trash.ts` | trash directory and its manifest | move, restore, delete | storage | read-modify-write across awaits, crash | what is in the trash is listed |
| **Publish node** `publish/internal` | sites, deploys, deduplicated objects, domains, manifest cache | deploy, rollback, delete, domain claims, orphan sweep, serve | stores, handlers, sweeper, peer nodes | sweep races with deploys, caches, ownership checked before locking | a live deploy's objects exist; quotas hold; a domain has one owner |
| Envelope, protocol, identity, configuration, bundles, utilities, UI, desktop commands | little or none | parsing, encoding, rendering | - | sequential | covered by unit tests and vectors |

The hazards found while reading the code, each at its line and with the
property that covers it or the reason why none does yet, are in `PROJECT.json`.

## 2. Modules

| Module | Models | Kind |
|---|---|---|
| `ExclusiveAccess` | what callers expect of the keyed mutex: a lock over sets of keys | abstract |
| `KeyedMutex` | `KeyedMutex.runExclusive` in `mutex.ts`, as the microtasks it consists of | detailed |
| `KeyedMutexProofs` | theorems about `KeyedMutex` | proofs |
| `ByteCells` | keys and records of the relay's stores, and the counting of stored bytes | data |
| `BlobStore` | the contract of `store/backend.go`: write-once blobs within the caps | abstract |
| `RelayStoreFS` | `store/fs.go` with concurrent handlers, sweeper, clock, crashes | detailed |
| `MCRelayStoreFS` | symmetry for TLC | instance |
| `RelayStoreFSProofs` | theorems about `RelayStoreFS` | proofs |
| `SyncEngine` | `syncNow` on several devices with the blobs they share on the relay | detailed |
| `MCSyncEngine` | symmetry for TLC | instance |
| `SyncEngineProofs` | theorems about `SyncEngine` | proofs |
| `SiteRegistry` | what `publish/internal/store` promises of sites and deploys: one owner, immutable deploys, a pointer that flips | abstract |
| `PublishNode` | sites, deploys, shared objects, the cache of current deploys and the orphan sweep of the publish node | detailed |
| `PublishDomains` | the domains of the publish node, composed with `PublishNode` | detailed |
| `MCPublishNode` | bundles, symmetry and a constraint for TLC | instance |
| `PublishNodeProofs` | theorems about `PublishNode` | proofs |
| `PublishDomainsProofs` | theorems about `PublishDomains` | proofs |
| `RelayHub` | live connections: pumps, authentication, fan-out, close, shutdown | detailed |
| `MCRelayHub` | symmetry and a constraint for TLC | instance |
| `RelayHubProofs` | theorems about `RelayHub` | proofs |
| `RelayStoreS3` | `store/s3.go` with concurrent handlers, sweeper, clock, failing requests | detailed |
| `MCRelayStoreS3` | symmetry and a constraint for TLC | instance |
| `RelayStoreS3Proofs` | theorems about `RelayStoreS3` | proofs |
| `NoteVault` | notes, the editor's saves, versions and the trash in one window | detailed |
| `MCNoteVault` | symmetry and a constraint for TLC | instance |
| `NoteVaultProofs` | theorems about `NoteVault` | proofs |

Operators whose names end in `_Something` right before a definition are
*mutations* of it: plausible mistakes in the code. Each property of a passing
run is violated when the mutation that `PROJECT.json` names for it takes the
definition's place.

### KeyedMutex

`chains` is the map of tails. A call goes through `unborn`, `waiting` (its
result promise waits for the tails it collected, `prior`), `running` (its
function runs), `settled` (result and tail have settled) and `released` (the
callback that clears the map has run). `Call` is everything `runExclusive` does
synchronously. `Start`, `Settle` and `Release` are promise callbacks, each a
step of its own, in any order the event loop allows. A tail settles together
with its result: nothing observes the microtask in between. `ticket` and
`calls` are history variables that number the calls.

Every call is made at most once, which bounds the instance without a counter:
a path can still be locked by any number of calls, as many as `Op` has.

### RelayStoreFS

`disk` is the `.blob` files, `temps` the temp files, `index`, `known`, `bytes`,
`count` and `total` are the memory of `FS`. A section under the write lock is
split where it matters - file, then index - because a crash can fall between,
and because `Get` and `GetRange` open the file without the lock. A section under
the read lock only reads and is a single step while nobody holds the lock for
writing. `GetRange` makes the same steps as `Get` and differs in the bytes it
returns. `Put` is `PutWithin` without caps. `List`, `Usage` and `TotalBytes`
read what `Accounted` compares with the disk.

Failures: creating, writing, syncing, closing or renaming the temp file
(`PutFail`), removing a file (`ReapFail`), the process at any step (`Crash`).
After a crash, `Restart` runs `load`, which drops temp files and rebuilds the
memory from the headers; corrupt headers cannot come from a crash and are left
out. A clock ticks at any time, so that a record may expire between any two steps.
`handlePut` clamps the retention to at least the relay's minimum (`rest.go`,
an hour by default), longer than a put waits for the lock: `TTL` is positive.

Sizes are numbers of cells (`ByteCells`), so that adding up the bytes of disjoint
records is adding cardinalities, which the prover can reason about.

### SyncEngine

`files[d]` and `state[d]` are what device `d` keeps, `manifest` and `blobs` what
the relay has, `job[d]` the local variables of its `syncNow`, `pc[d]` how far it
is. A content stands for its hash.

| Action | Code |
|---|---|
| `Begin` | `fetchManifest`, `loadLocalState`, `walkCollection` and the set-up of the loop |
| `Same` ... `KeepTombstone` | one branch of the loop each, relay call and local write included |
| `CopyAside`, `DownloadWinner` | the conflict branch: conflict copy first, then the download |
| `PathFails`, `BlobMissing` | the `catch` of the loop |
| `RemoveManifest`, `PutManifest` | `writeManifest` |
| `DropBlob` | one turn of the loop over `staleBlobIds` |
| `Save` | `saveLocalState` |
| `Abort` | the outer `catch`, or the end of the app |
| `Expire`, `ExpireManifest` | the relay's sweep of blobs whose 90 days are over |
| `Edit`, `Delete` | the user (external) |

Simplifications:

- `Begin` is one step: manifest, state and files are read one after the other
  without a write by this device in between. The order against *other* devices is
  kept, since only the manifest is shared.
- A path's relay call and its local write are one step; the conflict branch, which
  makes two writes, is two. A put that took effect although its answer was lost is
  in `PathFails`, one whose effect is delayed past the end of the sync is not modelled.
- Conflict copies carry distinct stamps (the code's have seconds); from
  `MaxCopies` on they share one.
- The loop takes the paths in any order.
- The branch "neither side changed" (`sync.ts:374`) needs `s.h` to equal two
  different hashes and cannot be reached.
- A manifest that cannot be decrypted or parsed, and the fallback `mtime || now`,
  are left out: every file has a time stamp, from the one clock. The devices' clocks
  are taken to agree.
- History variables: `landed` (versions some manifest listed), `dirty` (writes no
  sync has looked at), `newest` (what the last write of a file left, if it is new: no
  manifest listed it and no other device has it).

### PublishNode

`site` is the record files, `manifests` and `content` the manifest files, `stored`
the object files; `indexed`, `marked`, `cache` and `lock` are the memory that a crash
takes away. A handler goes through the stages of its request, `job[p]` holds what it
has read. `Claim`, `Commit`, `Rollback` and `DeleteRecord` begin with taking the lock
of the slug (`Enter`); `PutSite` or `ClearCache` gives it back.

| Action | Code |
|---|---|
| `Claim` | `handlePutSite` up to its write |
| `DeployStart`, `StoreKnown`, `StoreFile`, `StoreIndex`, `DeployFail` | `handleDeploy` before the lock: the owner, then object by object |
| `Commit`, `PutDeploy`, `Prune`, `PutSite`, `WriteFail`, `ClearCache` | `handleDeploy` under the lock, in the order of its writes |
| `Rollback` | `handleRollback`, then `PutSite` |
| `DeleteStart`, `DeleteRecord`, `DeleteManifests`, `DeleteFail` | `handleDeleteSite`, whose check of the owner precedes the lock |
| `ServeSite`, `ServeDeploy`, `ServeCache`, `Expire` | `currentDeploy` |
| `SweepStart` ... `SweepEnd` | one pass of `sweepOrphans`; from `SweepMark` on it holds `Server.mu` |
| `Crash`, `Restart` | the process, and `FS.load` |

An object is one unit of storage, so that the quota counts objects. The pass reads the
records and then the manifests they listed one by one, next to writers. A refused
request changes nothing and is no step. History variables tell deploys apart by
whether a pass of the sweeper overlapped them (`overlapped`, `clean`, `unmarked`), objects
by whether a pass has listed them (`young`), and cache entries by whether the reader
that wrote them had been outrun by a writer (`outrun`, `uncleared`).

Any write of a record or a manifest may fail (`WriteFail`), so may storing an object (`DeployFail`) and
the removal of a site's manifests (`DeleteFail`); the code sees these failures and ends the request. Others
it ignores and goes on (`Ignored`): the removal of a record in `DeleteSite`, of a pruned manifest, of
an object, and a file that the sweeper cannot read. The first of these is a defect: where `os.Remove`
fails (`fs.go:172`), `DeleteSite` removes the manifests and drops the routes all the same, and the
request is answered as done (`api.go:310`). The record stays, lists deploys without a manifest, and
keeps its verified domains, which a second site may now verify as well. `RetainedReadable` and
`OneSite` are violated by it and therefore except it, by the history variables `lost` (deploys whose
manifests went while a record lists them) and `stranded` (domains whose route went while a record
has them verified).

`ImplementsRegistry` relates the node to `SiteRegistry`. A record file is a site of the
registry. A deploy id is out (`Spent`) once it was issued and no handler is any more on its
way to a record with it (`Pending`): it is in a record, it was in one, or its write failed. What an
id shows (`Shown`) is what its manifest lists, so that the registry forgets neither pruned nor
removed deploys. `PutSite` is then `Publish`, `Rollback` or `Claim`, by the request, or nothing, when
an owner renews a claim; `DeleteRecord` is `Remove`, or nothing when the removal failed; `WriteFail` and `Crash` are `Waste`;
whatever else a handler, the cache or the sweeper does is a stutter. The registry has no cap on
sites: `handlePutSite` counts an owner's sites under the lock of one slug, so two claims at a
time may exceed it.

### PublishDomains

A site's record lists its domains (`attached`: pending or verified); a verified domain has a
file (`domainFile`) and an entry in the map by which hosts are resolved (`domains`). The
module extends `PublishNode`: a step is one of the node's (`NodeStep`, which says what
deleting a site does to its domains), one of a domain handler (`DomainStep`), of `Refresh`, or
a crash or a restart.

| Action | Code |
|---|---|
| `AddDomain`, `Attach` | `handleAddDomain`: cap and check, then `PutSite` |
| `VerifyDomain`, `FileDomain`, `MapDomain`, `FlagDomain` | `handleVerifyDomain` over `SetDomain`: check, file, map, record |
| `DeleteDomain`, `UnmapDomain`, `UnfileDomain`, `Detach` | `handleDeleteDomain` over `FS.DeleteDomain`: map, file, record |
| `DomainFail` | any of these writes fails; what was written before stays |
| `RefreshRead`, `RefreshSwap` | `FS.Refresh`: the files are read, later the map is replaced |
| `NodeRestart` | `FS.load`; a file that cannot be read is passed over, there as in `Refresh` |

`siteLock` is what domain handlers hold of `Server.siteLocks`, `lock` what the handlers of
`PublishNode` hold; a handler takes a lock only if both are free. The lock is that of the site: two
sites that want one domain, and `Refresh`, are not kept apart. The properties except what
this lets happen, by name: `raced` (domains that two handlers, or a handler and an outdated
map, were at together), `cut` (a request was cut off between its writes), `stranded` (see
`PublishNode`) and `left` (the site was deleted, and its file stayed: `handleDeleteSite` "removes the site, its deploy history and
domain mappings", `api.go:275`, but `DeleteSite` removes the mappings from memory only, so that
the next restart or refresh routes the domain to whoever claims the slug then). The TXT
record that proves a domain is found or not found at any time; the cap on domains is counted
under the lock of one site, so two requests on different sites may exceed it.

### RelayHub

A connection `c` has a read pump (`reader[c]`), a write pump (`writer[c]`), a bounded
queue and the one close of its `sync.Once` (`once[c]`), which the read pump, a goroutine of
`sendJSON` or `Server.Close` may run. The close is three steps - `CloseStart` leaves
`Server.wss` and reads the identity, `CloseUnsubscribe` leaves the hub, `CloseTell` tells
the peers - and the handling of a good auth message is three: `Auth`, `Subscribe`,
`Announce`. `conn.id` and `conn.authed` are written by the read pump and read by the close
without a lock: until `Subscribe` has taken the hub's lock, the close may find the old
identity, the new one, or bytes of both, which is nobody's (`Found`).

Messages are units of a queue. Which subscribers want an event (`conn.events`) is any subset.
`told` records which peers a connection was last offered the coming of; an offer that
finds the queue full counts as made, as the hub drops it by design.

### RelayStoreS3

The same contract as the file store, with its steps apart: `PutCheck` under the lock,
`PutStore` without it, `PutCount` under it again; `Find`, `DeleteObject`, `Uncount`
likewise. `PutFail` and `DeleteFail` are requests that failed, with or without having had
their effect in the bucket. A name in the bucket is a key with an expiry, so that a blob
may have two objects at a time; `Restart` lists the bucket and indexes the last of them.

`raced` and `strayed` remember that two requests changed one blob at a time, or that a
failed request had an effect: the properties hold up to that. What happens then shows when
the exception is dropped: a deletion that meets a put of the same blob removes the new entry,
so that the record is stored, counted and not reachable until a restart, and two deletions
subtract twice. `Overshoot` bounds what overlapping puts may exceed the capacity and the quota
of an owner by (`Slack`); an owner without a usage entry may start with a record beyond its
quota (`OwnerCap`). The comments "The check and the index write happen under the same lock"
(`s3.go:147`) and "must serialize the quota check with the write" (`backend.go:36`) are not so:
the lock is released in between (`s3.go:163`), and this is what the slack is for. Up to that the
store implements `BlobStore` as the file store does (`KeepsContract`), `contents` being what
listing the bucket shows of each blob. The signature that is to be "fetched lazily"
(`s3.go:123`) stays empty in the index after a restart.

### NoteVault

`disk`, `versions` and `trash` with `manifest` (`trash.json`) are the files; `active`,
`text`, `dirty` and `timer` the window; `task[t]` the async calls that are under way, each with
what it has read. A step is what JavaScript does between two awaits that wait for storage. A
text is the note it was made from and the number of its last edit, so that a property can
say whose text is where and whether it is the newest.

| Action | Code |
|---|---|
| `Edit`, `TimerFires`, `TimerIdle`, `SaveNow` | the editor's `onUpdate`, its timer, the shortcut |
| `OpenNote`, `Load`, `Swap`, `CloseNote` | `openNote`, which saves unsaved edits first; `closeNote` |
| `Probe`, `ReadOld`, `KeepOld`, `Write` | `VersionedBackend.writeTextFile` below `saveNote` |
| `CreateNote`; `DuplicateNote`, `FreeName` | `createNote`; `duplicateNote`; both write the new note, then open it |
| `RestoreVersion`, `Elapse` | `restoreNoteVersion` of any note, shown or not; the snapshot interval |
| `Rename`, `DoRename`, `Renamed` | `renameNote` of the note that is shown, `moveNote` of any, around the backend's rename |
| `Trash`, `Bin`, `List`, `Note` | `deleteNote` by `moveToTrash` |
| `Remove`, `DoRemove`, `DropVersions` | `deleteNote` with `trash_dir = 'delete'`, or `'system'` where there is a hook |
| `Restore`, `Unbin`, `Unlist`, `Purge`, `Empty`, `Clear` | the other calls of `trash.ts` |
| `Crash` | the window is closed |

A move opens the note at its new path, whichever note was shown before; a restore opens the note
again only if it is still the active one (`notes.ts:335`).

The properties name what they except, in history variables:

- `crossed`, once notes may be mixed up: a call that moves, deletes, takes from the trash or makes a
  note overlaps another at its path; a move overlaps an opening, a restore or another move; two calls at
  one path have texts of different notes; a version that another note left at the path is restored while a
  call is at it or what the editor shows is not saved; a call begins while the editor shows a path that its
  note has just left. `NoForeignText` and `EditsKept` say nothing more from then on.
- `excused`, the notes of which `EditsKept` says nothing more: with unsaved edits when the note or the app was
  closed, or when any note was deleted; typed into while a note was being opened, or shown and unsaved
  when one was opened with none active; removed, purged or emptied from the trash by the user, or left with
  versions at a path whose note was removed; replaced by a restored version within the snapshot interval;
  whose newest edit was the oldest version of a full history; at a path, or in the hands, of two calls
  at one path that overlapped (all notes, when two moves to the trash did); in the hands of a call when the app
  was closed.
- `rushed`, for calls on the trash that overlapped or were cut off.

Each exception was needed. The code behind them, which a reader of `notes.ts` should know of:

- A rename that overlaps `openNote` leaves the editor with one note's text under another's
  path (`notes.ts:167-172`); after `moveNote`, until its `openNote` is through, the save shortcut
  writes the note to its old path again.
- `closeNote` within the debounce: `saveNote` finds no active note and saves nothing
  (`notes.ts:179`).
- `deleteNote` leaves no note active, whichever it deleted (`notes.ts:118`): when another note is shown and
  has unsaved edits, the pending save does nothing for the same reason, and they are lost.
- A save that takes a snapshot first may land after a later one that does not
  (`versioned.ts:176`).
- A restore while there are unsaved edits is overwritten when `openNote` saves them
  (`notes.ts:336`); one within the snapshot interval of the last save keeps no
  version of the contents it replaces, against "restoring never loses data" (`versioned.ts:160`).
- Two calls of `createNote` that overlap take the same name, and the second overwrites the note
  of the first (`notes.ts:35`).
- History belongs to a path: a note that comes to a path inherits the versions of the one
  before it, may be restored to them, and takes them along when it is removed
  (`versioned.ts:40`).
- Two notes of one name that are deleted at a time take the same name in the trash, and on the
  desktop the second replaces the first, against "never overwritten" (`trash.ts:39`).

## 3. Runs

| Run | Instance | Expected | What it shows |
|---|---|---|---|
| `KeyedMutex` | 3 calls, each with any subset of 3 paths | pass | exclusion, order, no leak, no deadlock, the abstract lock is implemented |
| `RelayStoreFS` | 2 owners x 2 ids, records of 1 or 2, quota 2, capacity 3, 2 handlers, 1 crash | pass | counters, caps, no expired record served, temp files, the contract is implemented |
| `RelayStoreFSLive` | 1 owner, 2 ids, 1 handler, 1 crash, fairness | pass | expired blobs are reclaimed |
| `RelayStoreFSReap` | 1 id, 2 handlers | violation | a reaping decided on earlier knowledge removes a live blob |
| `SyncEngine` | 2 devices, 1 file with its copies, 3 contents, 3 writes, 1 fault, 1 expiry | pass | nothing listed is missing, nothing is lost, deletions propagate, only orphans are dropped |
| `SyncEngineLive` | 2 devices, 2 contents, 3 writes also during syncs, 1 fault, tombstones pruned at once, fairness | pass | the devices agree in the end |
| `SyncEngineOverlap` | 2 devices that may sync at the same time, no fault | violation | a sync drops a blob that the other's manifest lists |
| `SyncEngineUnread` | 2 devices, 1 unreadable or oversized file | violation | a file that is there is published as deleted |
| `PublishNode` | 2 slugs, 2 owners, 2 objects, 1 domain, 2 handlers, 2 retained deploys, 3 deploys, 5 requests, 4 about domains, 1 crash or fault | pass | retained deploys are readable but for the one being pruned and those a half-done deletion lost; what no pass overlapped is never swept; two passes before a deletion; a claim sticks but for deletions by an outrun former owner; the cache is current unless a reader was outrun; a domain leads to the site that has it verified, and to one only unless it was raced for, cut off or stranded |
| `RelayHub` | 2 connections, 2 identities, queues of 1, 2 auths each | pass | slots, hub, peers' knowledge and shutdown agree with the connections; nobody waits for ever |
| `NoteVault` | 3 paths, 2 notes and a new one, 2 calls at a time, 4 calls and 1 edit or 3 and 2, 1 restart | pass | a note's text stays under its path, edits survive, the trash lists its files, but for what `crossed`, `excused` and `rushed` name |
| `RelayStoreS3` | 2 owners x 3 ids, records of 1, quota 1, capacity 2, 2 handlers and the sweeper, 3 puts, or 2 and 1 failure or restart | pass | memory mirrors the bucket; concurrent puts exceed the capacity and the quotas by one record each at most; up to that the contract is implemented |

Bounds. Three calls are the least for which somebody queues behind a call that
queues behind another, with different keys; three keys let each pair share one
that the third does not. The relay's instance has room for one large or two
small records per owner and for three units in all, so that each cap is met
exactly and exceeded by one; two handlers and the sweeper give every pair of
put, read, deletion and sweep, and one crash falls between any two of their steps. Two
devices and three writes are what a conflict followed by a deletion, and an
edit that crosses a deletion, need. One file with its copies suffices as the loop
treats paths alike and independently. Symmetry is declared only in runs
that check no liveness property. `CHECK_DEADLOCK FALSE` is used in `KeyedMutex`,
which stops when all its calls are done, in `NoteVault` and `RelayStoreS3`, which
stop when their calls, puts and ticks are used up, and in `RelayHub`, where connections do
not come back; the other systems never stop.

In `PublishNode`, deploys are explored on one slug, as sites share nothing but objects and the
lock `Server.mu`, and domains on two, on a node without deploys (`OneKind`): the two share the
lock of a site only, which is free or held. Four requests about domains let two sites attach and
verify the same one. `Fewer` takes one request from the runs with a fault or a crash,
and one from those with a sweep or a domain. The two owners contend for the slug of the deploys, and three deploys are what fills its
history of two and prunes the third. `OneAtATime` keeps the cache and the sweeper from being
in use in the same state: they touch disjoint state next to the writers, and `MuFree`
orders them. `ReauthOne` lets one connection of `RelayHub` authenticate twice, the other
once: what a second auth changes is told to the other connection only. `Bounded` takes
one call from the runs of `NoteVault` with a restart or a second edit, one call and one edit from
those that make a note, and stops at states in which a race has left nothing to check; four calls let a third one start between
any two steps of a pair. `Overwrites` is TRUE, the desktop's rename, the one that can
destroy a file. The quota of one in `RelayStoreS3` is met by the first record of an owner and exceeded by
the second; records of two sizes pass as well and take longer than a run should. Three
ids of one owner hold more than its quota with the slack, which is less than the capacity
with its own; `Bounded` leaves the runs with a fault two of the three puts. Three puts of one unit
cannot exceed the capacity of two with its slack of one: of `Overshoot`, this run exercises the bound on an
owner, and the one on the capacity rests on `OvershootBounded`.

`NoteVault` has 1.2 million states, `PublishNode` half a million. The calls and the two first notes of `NoteVault` are interchangeable.

`NewestSurvives` and `DeletionsPropagate` hold until the first fault and the first
expiry only, and say so. After a failed path the device forgets the path's last
state, takes both sides for changed and may let an older version win, as it
was downloaded later; and a tombstone that was lost with its manifest is
forgotten. `ManifestBacked`, `DropsOnlyOrphans`, `KeepsEdits` and `Converges` hold
with faults. `NewestSurvives` speaks of content that is new. Where a second device writes what
the relay already lists, the loop keeps the entry with its older time (`sync.ts:346`), and an
edit that a third device made in between then wins over the later write; two devices
do not show this, three do.

### Fairness

- `KeyedMutex`: weak fairness of every promise callback - the event loop runs
  every queued microtask - and of the end of the guarded functions, which are file
  operations that never call the mutex themselves.
- `RelayStoreFS`: the sweeper's ticker keeps firing; Go's scheduler runs every
  goroutine; `sync.RWMutex` admits a waiting writer in the end although readers and
  writers come and go (strong fairness of what needs the lock); the process is
  restarted after a crash; `os.Remove` does not fail for ever on a file. No request
  needs to come.
- `SyncEngine`: `applySyncSettings` starts a sync on every device again and again,
  and with syncs that do not overlap each device gets its turn (strong fairness of
  `Begin` that reads everything); a sync that no fault ends runs to its end (weak
  fairness of `Step`). Edits, faults and expiry need never happen, and are bounded.
- `RelayHub` states what liveness rests on as an invariant (`NeverStuck`): in every
  reachable state whoever has not finished can take a step, or somebody it waits for can,
  so that the Go scheduler's fairness is all that is needed, and nothing is listed, subscribed
  or to be closed whose read pump is gone. "Can" is a guard that the actions themselves
  use (`CloseDue`, `CanReturn`, `CanDrain`) and not `ENABLED`, so that the invariant can be proved:
  what follows the guard in each of these actions only assigns.

### Findings

1. `RelayStoreFSReap`: `deleteFile` does not look at the expiry again under the lock
   (`fs.go:283`). A request and the sweep find the same expired record; one of them
   reaps it, the id is stored again, and the other removes the new, live record.
2. `SyncEngineOverlap`: a device that reads the relay while another one is between
   removing and putting the manifest takes the collection for an empty one. Its own
   put is refused, which counts as success, and it drops blobs that the manifest
   on the relay lists (`sync.ts:428`).
3. `SyncEngineUnread`: `walkCollection` leaves out what cannot be read and what is too
   large (`sync.ts:149`), and the loop takes it for deleted.

## 4. Theorems

All are proved without bounds on the constants, from the assumptions named
`NoneIsNoOp`, `StoreAssumption`, `SyncAssumption`, `NodeAssumption`, `HubAssumption` and
`VaultAssumption`, which TLC evaluates too.

**KeyedMutexProofs** - `TypeCorrect`, `Exclusive`, `InOrder` (together `Serial`), `TailsReleased`,
`Refines`. Exclusion is not inductive: that two calls with a common key never run
together depends on what each found registered when it was made. The inductive
invariant `IInv` adds that tickets number the calls (`Numbered`), that under each
key of a pending call a tail is registered that is its own or a later one
(`Registered`), and that whoever comes later on a key waits for a pending call of
that key (`Queued`). A call that shares a key with a running one therefore has
somebody pending to wait for. `Refines` maps waiting, running and finished calls to
the abstract lock.

**RelayStoreFSProofs** - `TypeCorrect`, `NoTempLeft`, `CountersExact`,
`FilesImplementStore`, `CapsHold`, `LiveServed`. `Accounted` speaks of moments at
which the lock is free; `IInv` says what holds within a write section: who is in it
(`Locked`), in which key files and index differ and that a put's caps still hold at
the rename (`InStep`), and that the counters are those of the index (`Counted`).
The lemmas `AddCounts` and `RemoveCounts` reduce a change of the counters to the
cardinality of a union of disjoint cells. Each rename is then a `Put` of `BlobStore`,
each removal of a file a `Remove`, everything else a stutter, and the caps, proved for
the abstract store, hold for the files. `LiveServed` needs `Fresh`: what may appear
under a key while a reader is about to open it expires after the reader's look.

**SyncEngineProofs** - `TypeCorrect`; `Downloadable` and `OrphansOnly` under
`Overlap = FALSE`, for any number of devices, files, edits, faults, conflicts and
expired blobs (without the assumption `OrphansOnly` is false: finding 2). The
inductive invariant `SInv` says that one device at most is syncing (`Alone`),
and follows a backed manifest through a sync: what was fetched and what is being
built are backed while paths are compared, the manifest is away while it is
replaced, and what is about to be dropped is disjoint from what the new one lists
(`AllBacked`).

`NoSilentLoss`, `DeletedStaysDeleted` and `NewestKept` prove `KeepsEdits`,
`DeletionsPropagate` and `NewestSurvives` for any devices, files, contents and bounds, on three
conditions: syncs do not overlap, nobody writes on a device while it syncs
(`EditsWhileSyncing = FALSE`, as in the run), and `NewStamp`, a condition on the steps: when a
conflict copy is made, the bound on copies is not reached, so that its name is new, as the code's
are while conflicts on a file are a second apart. The run lets the last name be used again; that the
properties survive it is model-checked only. `DeletedStaysDeleted` also needs
that no tombstone gets old enough to be pruned (`MaxEdits <= PruneAge`): a device that stays
away for longer does bring a deleted file back.

- `KInv`: what was fetched, what a device remembers and what a draft lists was published before,
  or is the file of the device (`Known`, `Drafts`); at the conflict's second write the copy is
  there (`CopiesAside`); no name of a copy is in use before its turn (`Spare`). Every step of the
  loop is one of seven decisions on the file, the entry and the remembered hash of a path
  (`Decides`, `CompareIs`), and `NoSilentLoss` follows from what they replace.
- `CalmInv`: while nothing fails, a sync compares what is on the device with what it remembers.
  The steps of a sync are then as good as comparisons that take effect at once on `Top`, the
  entry that the next sync is to find, and `Base`, the hash that the next comparison is to find:
  `View` reduces every step to one of five shapes, one of them without any effect (`Unseen`),
  and the proofs below speak of these shapes only.
- `DeletedInv`: what a device remembers has an entry or a tombstone, and a file that nobody wrote
  since the last comparison is what the device remembers.
- `CopiesInv`: a conflict copy is the same wherever there is one, and has no tombstone, so that
  no comparison replaces one.
- `NewestInv`: the last write of a file is on one device only and newer than whatever the others
  have to share (`OnlyOn`), or on the relay and on a device, and newer than whatever is to be
  shared (`Shared`), or in a conflict copy (`InCopy`). `NewestSurvives` says only that it is
  somewhere, which the next download may end.

**PublishNodeProofs** - `TypeCorrect`, `TwoPasses`, `Readable`, `CacheTrue`,
`ClaimsKept`, `DeploysIntact`, `NodeImplementsRegistry`, `DeploysListedOnce`,
`DeploysImmutable`, for any number of slugs, owners, handlers, objects, requests, crashes and
failed writes. They are proved with five inductive invariants, each resting on the ones before:

- `AgeInv`: what a pass is about to delete was marked when it listed the objects, and
  what is marked is indexed. `TwoPasses` follows.
- `RecordInv`: whoever is between taking and giving back the lock of a site holds it
  (`Locked`); the draft it is about to save continues the record that is there by one
  deploy, whose manifest is written before (`Drafted`); a history lists every deploy once
  and has its manifests, but for the first one of a full history and the deploys of `lost` (`Kept`),
  to which a deletion adds what it takes from a record that is still there (`LosingIds`). `RetainedReadable`
  alone is not inductive: whether it survives the write of a record depends on what the
  handler drafted many steps before.
- `KnownInv`: what a handler read before it had the lock, and what the cache holds, is
  still so, or somebody is between writing the record and clearing the cache, or the
  handler is one of `outrun`. `CacheTrue` and `ClaimsKept` follow, with the deletion by an `outrun` former owner as exception.
- `IntactInv`: a pass overlaps every upload in flight (`Overlaps`), what an upload that no
  pass overlapped has stored is on disk and indexed (`Uploaded`), and the objects of a
  deploy that no pass overlapped are neither about to be deleted nor, as long as every
  manifest could be read, marked (`Safe`); a pass that is still reading has the deploy's
  site or manifest before it, or its objects behind it (`Covered`).
- `BackTo`: a rollback under way has a deploy to go back to.

`CleanIntact` says what one unread file does: a pass that fails to read a manifest marks
the objects of a live deploy, and one more pass with the same fault would delete them.
Hence `unmarked` and the bound of one fault in it. The invariant is checked by TLC as well.

For `NodeImplementsRegistry`, a step that neither gives a deploy its id nor writes a manifest
issues nothing (`NoneIssued`), so that, unless it writes a record, it is a `Waste` or a stutter
(`Wasting`). `Commit` and `PutDeploy` are stutters: the new id is pending, and the
manifest is that of a pending one (`Preparing`). The two steps that write a record (`Writers`)
need `RecordInv`: that the record which is saved, drafted some steps ago, is the one that is there
with one deploy more (`Publishing`) or another current one (`Replacing`) is what `Drafted` says; a
deletion removes the record or, if that fails, changes nothing the registry knows of (`Removing`). That the deploy is a new one needs `PendingIds`: nobody else
is on the way with its id. What the registry's own steps keep - each deploy is listed once
(`ListedStep`), and what it shows does not change - then holds for the node. TLC finds no
violation of `ImplementsRegistry` on the instance of `PublishNode.cfg`, when it is added to its
properties.

**PublishDomainsProofs** - `NodeGoesOn` (every behaviour with domains is one of `PublishNode`),
hence `NodeKeepsPromises`, the registry among them; `NodeTypes`, `RoutesLeadHome`, `DomainsUnique`. `HomeInv` says that
a busy handler holds the lock of a site that stays claimed (`Asking`), that unclaimed sites
have no domains (`Tidy`), what the record says at each stage (`Known`), and that the file of a
domain, whatever the map says, is of a site that has it verified or is about to (`Filed`), and
gone before the record forgets it (`Gone`). `SiteInv`, for domains that are not among `raced`, `cut` or
`stranded`: one
handler at a time is at work on one (`OneAsk`), file and map lead to the site that has it
verified until that site takes them away (`Verified`), and nobody has it verified while a site
takes it (`Taking`). `OneSite` alone is not inductive: the check looks at the map, the property at
the records.

**RelayHubProofs** - `TypeCorrect`, `SlotsExact`, `OneSubscription`, `NoGhosts`,
`AllClosed`, `NobodyStuck`, for any connections, identities, lengths of queues and numbers of auths.
`SlotsExact` needs that the slots taken are the cardinality of the connections whose read
pump holds one (`Holding`). `HubInv` says that a close that has started knows the identity
under which the connection is subscribed, or the connection is one of `raced` (`FoundRight`,
`LateRaced`). `ToldInv` adds who will hear of a close: a peer that was told of a connection is
subscribed where the close announces itself (`WillHear`). `StopInv` says where `Server.Close`
finds a connection: in `wss` from its registration to its close (`Listed`), and if it registers
later, among `late` (`Known`). `WaitInv` says that a read pump returns after the one close is over
or without ever having had a connection (`Returned`), and that no goroutine is left that wants
to close what is closed (`NoneLeft`).

**RelayStoreS3Proofs** - `TypeCorrect`, `MemoryMirrorsBucket`, `OvershootBounded`, `BucketKeepsContract`,
`BlobsWrittenOnce`, for any owners, ids, sizes, caps, puts, failures and restarts, and any handlers, of which there is at least
one. `Mirrors` is not inductive: that a deletion takes off the size that a put had counted depends
on what it read two steps before. `IInv` says of every key that is not raced that one process at
most changes it and that its stage tells what index and bucket hold (`Keyed`), so that each
request to the bucket adds or removes exactly one object (`NetObject`, `NetMove` carry this to the
cardinalities); that the counters are what the bucket holds up to what is under way
(`Balanced`); that nothing is raced unless something strayed (`Orderly`); and that an owner
without a usage entry is counted with nothing (`Owners`), which is why its first put needs no
check. A put passes its check with any number of records on their way, one per other handler:
`SlackFacts` bounds them all by a product. `RoomStep` is the argument for any counter that puts
respect, applied to the total and to each owner. A restart finds what was counted or on its way,
no more (`NetBound`). The refinement rests on the same invariant: until something strayed a blob
has one object at most (`HeldOne`), so that the contract counts no more bytes than the objects
have (`ContentsBytes`, a surjection), these are what was counted or is on its way, and there is
room for that. A request that stores an object is then a `Put`, one that deletes an object a
`Remove`, and every other step, a restart too, a stutter (`ContractStep`). `KeepsContract` says
nothing more once anything strayed; `BlobsWrittenOnce` says of each blob by itself what is left
then. Until it is raced, and again after a restart that finds one object of it, it is stored only
when neither bucket nor index has it, and only its indexed object is taken away (`Changes`). It
follows from `Keyed`, which never speaks of two keys at a time (`OnceStep`); no run states it.

**NoteVaultProofs** - `TypeCorrect`, `TrashAccounted`, `NoForeign`, `EditsSurvive`, for any paths,
first notes, number of calls at a time, retention and bounds, and for backends whose rename replaces a
file as well as for those whose rename fails. None of the three properties is inductive; they
are proved with five invariants that hold together (`VaultInv`), after `Typed`, which says
what a call carries at each stage (`Shape`).

- `Tidy`: the one call on the trash is either before its first change, when files and items agree,
  or between its two, when they differ in its name (`BinStep`); `Numbered` keeps the names that
  are given out apart. `TrashAccounted` follows.
- `NoteInv`, for notes that no race has crossed: a call that takes a note away or makes one is
  alone at its paths (`Pair`); a path that a call is to fill is free and not shown (`OwnClaim`);
  what is saved or shown belongs to its path (`OwnSaves`, `Shown`); while the note that is shown
  moves, no other becomes active or unsaved, and the path it is at has what the editor shows (`OwnMove`) -
  one that moves without being shown (`Shows`) leaves the editor to the note that is. `NoForeign` is one conjunct of it (`Agree`), which alone says
  nothing of a save that was called before the note left and writes after it.
- `BornInv`: every text has the number of an edit that was made, so that a new edit is newer
  than whatever a file, a version or a call has.
- `HandInv`: a save that may clear the dirty flag has what the editor shows; while a note is opened
  or restored nothing counts that is unsaved; unsaved edits are the last of their note (`Newest`); a name in
  the trash is free when it is taken.
- `GuardInv`, for notes that no race has crossed: two calls at the same path put its note at
  risk (`Alone`), and for a note that is not at risk, whoever is to replace or remove the last
  edit in a file has it too (`Backed`, `Carries`), kept it as a version (`Stores`) or was allowed
  to (`Removing`), and the editor shows it (`Current`). `EditsSurvive` follows: `EditsKept` alone
  does not say why a write may replace the file that has the last edit.

Only model-checked: liveness (`EveryCallSettles`, `Reclaimed`, `Converges`), since
fairness is beyond the prover.

## 5. Not modelled

- Encryption, signatures, proof of work, encodings and the envelope: sequential, with
  test vectors in the repository.
- The publish node's S3 store; the serving of files; peers that share a store. Its quota is part of `Commit`, but the
  objects of a deploy are indexed before it is checked, so that no claim about it is made.
- The storage backends below one tab's calls: web locks, several tabs, IndexedDB transactions.
  `rename` is one step of `NoteVault`, which the desktop and IndexedDB provide; on OPFS the rename
  of a file always rejects (`opfs.ts:249` returns a promise from a `try` without awaiting it).
- A move to the root of a collection that is itself the root of the file system, where `moveNote` opens
  a path that begins with two slashes (`notes.ts:232`).
- Calls on folders: `renameFolder`, `moveFolder` and `deleteFolder` leave `activeFile` and
  `dirtyPath` as they are, so that unsaved edits of a note inside are still saved to the old path.
- In `NoteVault`, a backend that fails for other reasons than a missing or existing file, and file
  systems that ignore case, where `getNextUntitledName` may find a name free that is not.
- In `RelayStoreS3`, a put that is still on its way in the bucket while the relay restarts; in
  `RelayHub`, the contents of messages, limits per message and liveness beyond `NeverStuck`.
- Corrupt `.blob` headers, a manifest that does not parse, two entries with the same
  hash under one path.
- Range parsing, rate limits, user interface, themes, telemetry, build and packaging.

## 6. Plan

1. The OPFS and IndexedDB backends in two tabs, above `KeyedMutex` (with the keys of each tab
   apart) and Web Locks: the parent that `writeRecord` checks in one transaction and relies on in
   another, `mkdir`, which takes no lock at all, and the rename of OPFS, whose lock is
   not the one of a write to the same path in another tab.
2. `RelayStoreS3`: a put that is still on its way in the bucket while the relay restarts.
3. `RelayRange`: range parsing and serving compared with a reference definition
   over small lengths; the rate limiter.
4. Proofs of the sync engine's promises for conflict copies that share a name, and of what is left
   of them after a fault.
