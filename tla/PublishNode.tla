---------------------------- MODULE PublishNode ----------------------------
(***************************************************************************)
(* The publish node: sites, their deploys, the content-addressed objects   *)
(* the deploys share, the cache of current deploys and the sweeper of      *)
(* unreferenced objects (publish/internal/server over store/fs.go).        *)
(*                                                                         *)
(* A site is a record file that is replaced atomically; a deploy is an     *)
(* immutable manifest file that lists objects.  Record, manifests, objects *)
(* and the cache are written in separate steps, by handlers that hold the  *)
(* lock of their site, next to readers and the sweeper, which do not.  An  *)
(* object counts as one unit of storage.                                   *)
(***************************************************************************)
EXTENDS Integers, Sequences, FiniteSets

CONSTANTS
  Slug, Owner, Object,
  Nobody,        \* the owner of a slug that nobody claimed
  Handler,       \* request handlers that run concurrently
  Free,          \* nobody holds the lock of a site
  Bundle,        \* the sets of objects a deploy may upload
  KeepDeploys,   \* deploys retained per site
  MaxSites,      \* sites per owner
  SiteQuota,     \* objects per owner
  MaxStorage,    \* objects on the node
  MaxRequests,   \* bound: requests that are not refused at once, in all
  MaxDeploys,    \* bound: deploys accepted in all
  MaxFaults,     \* bound: failures to read or remove a file that nobody notices
  MaxCrashes     \* bound: crashes of the node

ASSUME NodeAssumption ==
  /\ Nobody \notin Owner /\ Free \notin Handler
  /\ Bundle \subseteq SUBSET Object
  /\ KeepDeploys \in Nat \ {0}
  /\ MaxSites \in Nat /\ SiteQuota \in Nat /\ MaxStorage \in Nat
  /\ MaxRequests \in Nat /\ MaxDeploys \in Nat
  /\ MaxFaults \in Nat /\ MaxCrashes \in Nat

VARIABLES
  site,        \* the record files: owner, retained deploys (oldest first), current one
  manifests,   \* the manifest files, by slug and deploy id
  content,     \* what the manifest of a deploy id lists
  issued,      \* deploy ids given out
  stored,      \* the object files
  indexed,     \* FS.objIndex
  marked,      \* Server.marked
  cache,       \* Server.mcache: the deploy cached for a slug, or 0
  lock,        \* Server.siteLocks
  pc, job,     \* where each handler is, and what it works on
  sweep,       \* the pass of the sweeper
  up, requests, faults, crashes,
  \* History, which no action looks at:
  overlapped,  \* handlers whose deploy was in flight during some pass
  clean,       \* deploys that were in flight during none
  unmarked,    \* those of them of whose objects none was marked in the end
  lost,        \* deploys whose manifests a deletion removed, and the record that lists them stayed
  young,       \* objects indexed since the last pass listed the objects
  outrun,      \* handlers that read a site without its lock before a write of it ended
  uncleared    \* slugs whose cached deploy was put there by such a handler

disk == <<site, manifests, content, issued, stored>>
memory == <<indexed, marked, cache, lock>>
history == <<overlapped, clean, unmarked, lost, young, outrun, uncleared>>
vars == <<disk, memory, pc, job, sweep, up, requests, faults, crashes, history>>

Id == 1..MaxDeploys
NoSite == [owner |-> Nobody, deploys |-> <<>>, current |-> 0]
Site == [owner : Owner \cup {Nobody}, deploys : Seq(Id), current : Id \cup {0}]

Op == {"none", "claim", "deploy", "rollback", "delete", "serve"}
Stage == {"idle", "storing", "indexing", "manifest", "saving", "clearing",
          "deleting", "removing", "reading", "loaded"}
\* A request: who asks for what on which slug; the objects of its bundle, those
\* still to be stored and the one in hand; the record to save, the deploy it is about.
Job == [op : Op, owner : Owner \cup {Nobody}, slug : Slug \cup {Nobody},
        files : SUBSET Object, todo : SUBSET Object, putting : SUBSET Object,
        rec : Site, id : Id \cup {0}]
NoJob == [op |-> "none", owner |-> Nobody, slug |-> Nobody,
          files |-> {}, todo |-> {}, putting |-> {}, rec |-> NoSite, id |-> 0]
NewJob(op, o, s) == [NoJob EXCEPT !.op = op, !.owner = o, !.slug = s]

\* A pass: site records and manifests still to be read, the objects found to be
\* referenced, the objects to delete, the marks for the next pass.
Pass == [stage : {"idle", "reading", "deleting", "removing"},
         sites : SUBSET Slug, ids : SUBSET (Slug \X Id), refs : SUBSET Object,
         dead : SUBSET Object, gone : SUBSET Object, fresh : SUBSET Object]
NoPass == [stage |-> "idle", sites |-> {}, ids |-> {}, refs |-> {},
           dead |-> {}, gone |-> {}, fresh |-> {}]

Claimed(s) == site[s].owner # Nobody
Retained(s) == {site[s].deploys[i] : i \in DOMAIN site[s].deploys}
\* Server.mu is held while the sweeper deletes; the cache and the table of site
\* locks are out of reach meanwhile.
MuFree == sweep.stage \notin {"deleting", "removing"}
InFlight(p) == job[p].op = "deploy" /\ pc[p] \in {"storing", "indexing", "manifest", "saving"}

\* A file operation fails and the caller goes on.
Ignored == faults < MaxFaults /\ faults' = faults + 1

Finish(p) ==
  /\ pc' = [pc EXCEPT ![p] = "idle"]
  /\ job' = [job EXCEPT ![p] = NoJob]

GoTo(p, stage) == pc' = [pc EXCEPT ![p] = stage] /\ UNCHANGED job

Init ==
  /\ site = [s \in Slug |-> NoSite]
  /\ manifests = {}
  /\ content = [i \in Id |-> {}]
  /\ issued = 0
  /\ stored = {} /\ indexed = {} /\ marked = {}
  /\ cache = [s \in Slug |-> 0]
  /\ lock = [s \in Slug |-> Free]
  /\ pc = [p \in Handler |-> "idle"]
  /\ job = [p \in Handler |-> NoJob]
  /\ sweep = NoPass
  /\ up = TRUE /\ requests = 0 /\ faults = 0 /\ crashes = 0
  /\ overlapped = {} /\ clean = {} /\ unmarked = {} /\ lost = {} /\ young = {} /\ outrun = {} /\ uncleared = {}

-----------------------------------------------------------------------------
\* identityUsage: the sites of an owner, and the objects of their deploys,
\* counted once.  A manifest that cannot be read counts for nothing.
SitesOf(o) == {s \in Slug : site[s].owner = o}
UsageOf(o) ==
  UNION {content[m[2]] : m \in {n \in manifests : n[1] \in SitesOf(o) /\ n[2] \in Retained(n[1])}}

\* Takes the lock of the slug and goes on to `stage` with the job.
Enter(p, s, stage, j) ==
  /\ MuFree /\ lock[s] = Free
  /\ lock' = [lock EXCEPT ![s] = p]
  /\ pc' = [pc EXCEPT ![p] = stage]
  /\ job' = [job EXCEPT ![p] = j]

Leave(p) ==
  /\ lock' = [lock EXCEPT ![job[p].slug] = Free]
  /\ Finish(p)

\* Mutation of Claim: the record is read and decided on without the lock.
Claim_Unlocked(p, s, o) ==
  /\ \/ site[s].owner = o
     \/ ~Claimed(s) /\ Cardinality(SitesOf(o)) < MaxSites
  /\ pc' = [pc EXCEPT ![p] = "saving"]
  /\ job' = [job EXCEPT ![p] = [NewJob("claim", o, s) EXCEPT
               !.rec = IF Claimed(s) THEN site[s] ELSE [NoSite EXCEPT !.owner = o]]]
  /\ UNCHANGED <<disk, memory, sweep, up, faults, crashes, history>>

\* handlePutSite: the owner updates a record (its title and dates are not
\* modelled), anybody below the site cap creates one.  A refused claim, here and
\* below, changes nothing.
Claim(p, s, o) ==
  /\ \/ site[s].owner = o
     \/ ~Claimed(s) /\ Cardinality(SitesOf(o)) < MaxSites
  /\ Enter(p, s, "saving", [NewJob("claim", o, s) EXCEPT
             !.rec = IF Claimed(s) THEN site[s] ELSE [NoSite EXCEPT !.owner = o]])
  /\ UNCHANGED <<disk, indexed, marked, cache, sweep, up, faults, crashes, history>>

\* handleDeploy, before the lock: the owner and the storage are looked at first.
DeployStart(p, s, o, files) ==
  /\ site[s].owner = o
  /\ Cardinality(indexed) < MaxStorage
  /\ pc' = [pc EXCEPT ![p] = "storing"]
  /\ job' = [job EXCEPT ![p] = [NewJob("deploy", o, s) EXCEPT !.files = files, !.todo = files]]
  /\ overlapped' = IF sweep.stage = "idle" THEN overlapped ELSE overlapped \cup {p}
  /\ UNCHANGED <<disk, memory, sweep, up, faults, crashes, clean, unmarked, lost, young, outrun, uncleared>>

\* PutObject: an object that is indexed and in place is not written again ...
StoreKnown(p, x) ==
  /\ pc[p] = "storing" /\ x \in job[p].todo
  /\ x \in indexed /\ x \in stored
  /\ job' = [job EXCEPT ![p].todo = @ \ {x}]
  /\ UNCHANGED <<disk, memory, pc, sweep, up, faults, crashes, history>>

\* ... any other is renamed into place, and then indexed.
StoreFile(p, x) ==
  /\ pc[p] = "storing" /\ x \in job[p].todo
  /\ ~(x \in indexed /\ x \in stored)
  /\ stored' = stored \cup {x}
  /\ job' = [job EXCEPT ![p].todo = @ \ {x}, ![p].putting = {x}]
  /\ pc' = [pc EXCEPT ![p] = "indexing"]
  /\ UNCHANGED <<site, manifests, content, issued, memory, sweep, up, faults, crashes, history>>

StoreIndex(p) ==
  /\ pc[p] = "indexing"
  /\ indexed' = indexed \cup job[p].putting
  /\ young' = young \cup (job[p].putting \ indexed)
  /\ job' = [job EXCEPT ![p].putting = {}]
  /\ pc' = [pc EXCEPT ![p] = "storing"]
  /\ UNCHANGED <<disk, marked, cache, lock, sweep, up, faults, crashes,
                 overlapped, clean, unmarked, lost, outrun, uncleared>>

\* A broken bundle, a failing write, or a refusal under the lock: the handler
\* answers with an error, and what it stored stays where it is.
DeployFail(p) ==
  /\ pc[p] = "storing"
  /\ Finish(p)
  /\ overlapped' = overlapped \ {p}
  /\ UNCHANGED <<disk, memory, sweep, up, faults, crashes, clean, unmarked, lost, young, outrun, uncleared>>

\* Mutation of Commit: ids are counted from zero.
Commit_IdZero(p) ==
  LET s == job[p].slug
      new == job[p].files \ indexed
      id == issued
  IN /\ pc[p] = "storing" /\ job[p].todo = {}
     /\ site[s].owner = job[p].owner
     /\ Cardinality(UsageOf(job[p].owner)) + Cardinality(new) <= SiteQuota
     /\ Cardinality(indexed) + Cardinality(new) <= MaxStorage
     /\ issued < MaxDeploys
     /\ issued' = issued + 1
     /\ Enter(p, s, "manifest", [job[p] EXCEPT
          !.id = id, !.rec = [site[s] EXCEPT !.deploys = Append(@, id), !.current = id]])
     /\ UNCHANGED <<site, manifests, content, stored, indexed, marked, cache, sweep,
                    up, faults, crashes, history>>

\* handleDeploy, under the lock: the record is read again; the quota is checked
\* against what the owner uses and the objects that are not stored yet.
Commit(p) ==
  LET s == job[p].slug
      new == job[p].files \ indexed
      id == issued + 1
  IN /\ pc[p] = "storing" /\ job[p].todo = {}
     /\ site[s].owner = job[p].owner
     /\ Cardinality(UsageOf(job[p].owner)) + Cardinality(new) <= SiteQuota
     /\ Cardinality(indexed) + Cardinality(new) <= MaxStorage
     /\ issued < MaxDeploys
     /\ issued' = id
     /\ Enter(p, s, "manifest", [job[p] EXCEPT
          !.id = id, !.rec = [site[s] EXCEPT !.deploys = Append(@, id), !.current = id]])
     /\ UNCHANGED <<site, manifests, content, stored, indexed, marked, cache, sweep,
                    up, faults, crashes, history>>

PutDeploy(p) ==
  /\ pc[p] = "manifest"
  /\ manifests' = manifests \cup {<<job[p].slug, job[p].id>>}
  /\ content' = [content EXCEPT ![job[p].id] = job[p].files]
  /\ GoTo(p, "saving")
  /\ UNCHANGED <<site, issued, stored, memory, sweep, up, faults, crashes, history>>

\* The oldest manifests go, one by one, before the record does not list them any
\* more; a removal that fails is ignored.
Prune(p) ==
  /\ pc[p] = "saving" /\ Len(job[p].rec.deploys) > KeepDeploys
  /\ \/ /\ manifests' = manifests \ {<<job[p].slug, Head(job[p].rec.deploys)>>}
        /\ UNCHANGED faults
     \/ Ignored /\ UNCHANGED manifests
  /\ job' = [job EXCEPT ![p].rec.deploys = Tail(@)]
  /\ UNCHANGED <<site, content, issued, stored, memory, pc, sweep, up, crashes, history>>

\* Mutation of Rollback: any deploy id will do.
Rollback_Unchecked(p, s, o, id) ==
  /\ site[s].owner = o
  /\ Enter(p, s, "saving", [NewJob("rollback", o, s) EXCEPT
             !.id = id, !.rec = [site[s] EXCEPT !.current = id]])
  /\ UNCHANGED <<disk, indexed, marked, cache, sweep, up, faults, crashes, history>>

\* handleRollback: the record with another of its deploys as the current one.
Rollback(p, s, o, id) ==
  /\ site[s].owner = o /\ id \in Retained(s)
  /\ Enter(p, s, "saving", [NewJob("rollback", o, s) EXCEPT
             !.id = id, !.rec = [site[s] EXCEPT !.current = id]])
  /\ UNCHANGED <<disk, indexed, marked, cache, sweep, up, faults, crashes, history>>

\* Mutation of PutSite: a rollback leaves the cached deploy alone.
PutSite_Cached(p) ==
  /\ pc[p] = "saving" /\ Len(job[p].rec.deploys) <= KeepDeploys
  /\ site' = [site EXCEPT ![job[p].slug] = job[p].rec]
  /\ \/ job[p].op \in {"claim", "rollback"} /\ Leave(p)
     \/ job[p].op \notin {"claim", "rollback"} /\ GoTo(p, "clearing") /\ UNCHANGED lock
  /\ clean' = IF job[p].op = "deploy" /\ p \notin overlapped THEN clean \cup {job[p].id} ELSE clean
  /\ unmarked' = IF job[p].files \cap marked = {} THEN unmarked \cup (clean' \ clean) ELSE unmarked
  /\ overlapped' = overlapped \ {p}
  /\ UNCHANGED <<manifests, content, issued, stored, indexed, marked, cache, sweep,
                 up, faults, crashes, lost, young, outrun, uncleared>>

\* PutSite: a temp file and a rename.
PutSite(p) ==
  /\ pc[p] = "saving" /\ Len(job[p].rec.deploys) <= KeepDeploys
  /\ site' = [site EXCEPT ![job[p].slug] = job[p].rec]
  /\ \/ job[p].op = "claim" /\ Leave(p)
     \/ job[p].op # "claim" /\ GoTo(p, "clearing") /\ UNCHANGED lock
  /\ clean' = IF job[p].op = "deploy" /\ p \notin overlapped THEN clean \cup {job[p].id} ELSE clean
  /\ unmarked' = IF job[p].files \cap marked = {} THEN unmarked \cup (clean' \ clean) ELSE unmarked
  /\ overlapped' = overlapped \ {p}
  /\ UNCHANGED <<manifests, content, issued, stored, indexed, marked, cache, sweep,
                 up, faults, crashes, lost, young, outrun, uncleared>>

\* Writing the manifest or the record fails.
WriteFail(p) ==
  /\ \/ pc[p] = "manifest"
     \/ pc[p] = "saving" /\ Len(job[p].rec.deploys) <= KeepDeploys
  /\ Leave(p)
  /\ overlapped' = overlapped \ {p}
  /\ UNCHANGED <<disk, indexed, marked, cache, sweep, up, faults, crashes,
                 clean, unmarked, lost, young, outrun, uncleared>>

\* Who has read the record or the owner of a site without its lock.
Readers(s) == {p \in Handler : job[p].slug = s /\ pc[p] \in {"reading", "loaded", "deleting"}}

\* The cached deploy is dropped under Server.mu, the lock given back.
ClearCache(p) ==
  LET s == job[p].slug
  IN /\ pc[p] = "clearing" /\ MuFree
     /\ cache' = [cache EXCEPT ![s] = 0]
     /\ Leave(p)
     /\ outrun' = outrun \cup Readers(s)
     /\ uncleared' = uncleared \ {s}
     /\ UNCHANGED <<disk, indexed, marked, sweep, up, faults, crashes, overlapped, clean, unmarked, lost, young>>

-----------------------------------------------------------------------------
\* handleDeleteSite: the owner is checked first, without the lock ...
DeleteStart(p, s, o) ==
  /\ site[s].owner = o
  /\ pc' = [pc EXCEPT ![p] = "deleting"]
  /\ job' = [job EXCEPT ![p] = NewJob("delete", o, s)]
  /\ UNCHANGED <<disk, memory, sweep, up, faults, crashes, history>>

\* ... and not again under it.  The record goes first, but a removal that fails is
\* ignored ...
DeleteRecord(p) ==
  LET s == job[p].slug
  IN /\ pc[p] = "deleting"
     /\ Enter(p, s, "removing", job[p])
     /\ \/ site' = [site EXCEPT ![s] = NoSite] /\ UNCHANGED faults
        \/ Ignored /\ UNCHANGED site
     /\ outrun' = outrun \ {p}
     /\ UNCHANGED <<manifests, content, issued, stored, indexed, marked, cache, sweep,
                    up, crashes, overlapped, clean, unmarked, lost, young, uncleared>>

\* History of a removal of manifests: the deploys that the site lists all the same.
Losing(s) == lost' = lost \cup {id \in Retained(s) : <<s, id>> \in manifests \ manifests'}

\* ... then its manifests.
DeleteManifests(p) ==
  LET s == job[p].slug
  IN /\ pc[p] = "removing"
     /\ manifests' = {m \in manifests : m[1] # s}
     /\ Losing(s)
     /\ GoTo(p, "clearing")
     /\ UNCHANGED <<site, content, issued, stored, memory, sweep, up, faults, crashes,
                    overlapped, clean, unmarked, young, outrun, uncleared>>

\* Removing them fails half-way: the handler returns without clearing the cache.
DeleteFail(p) ==
  LET s == job[p].slug
  IN /\ pc[p] = "removing"
     /\ \E left \in SUBSET {m \in manifests : m[1] = s} :
          manifests' = {m \in manifests : m[1] # s} \cup left
     /\ Losing(s)
     /\ Leave(p)
     /\ outrun' = outrun \cup Readers(s)
     /\ uncleared' = uncleared \cup {s}
     /\ UNCHANGED <<site, content, issued, stored, indexed, marked, cache, sweep,
                    up, faults, crashes, overlapped, clean, unmarked, young>>

-----------------------------------------------------------------------------
\* currentDeploy: a cached deploy is served as it is, which changes nothing;
\* otherwise the record is read ...
ServeSite(p, s) ==
  /\ MuFree
  /\ cache[s] = 0 /\ site[s].current # 0
  /\ pc' = [pc EXCEPT ![p] = "reading"]
  /\ job' = [job EXCEPT ![p] = [NewJob("serve", Nobody, s) EXCEPT !.id = site[s].current]]
  /\ UNCHANGED <<disk, memory, sweep, up, faults, crashes, history>>

\* ... then the manifest: without one, there is no such site ...
ServeDeploy(p) ==
  /\ pc[p] = "reading"
  /\ \/ <<job[p].slug, job[p].id>> \in manifests /\ GoTo(p, "loaded") /\ UNCHANGED outrun
     \/ <<job[p].slug, job[p].id>> \notin manifests /\ Finish(p) /\ outrun' = outrun \ {p}
  /\ UNCHANGED <<disk, memory, sweep, up, faults, crashes, overlapped, clean, unmarked, lost, young, uncleared>>

\* ... and what was read goes into the cache, whatever happened since.
ServeCache(p) ==
  LET s == job[p].slug
  IN /\ pc[p] = "loaded" /\ MuFree
     /\ cache' = [cache EXCEPT ![s] = job[p].id]
     /\ Finish(p)
     /\ outrun' = outrun \ {p}
     /\ uncleared' = IF p \in outrun THEN uncleared \cup {s} ELSE uncleared \ {s}
     /\ UNCHANGED <<disk, indexed, marked, lock, sweep, up, faults, crashes,
                    overlapped, clean, unmarked, lost, young>>

\* ManifestTTL is over.
Expire(s) ==
  /\ cache[s] # 0
  /\ cache' = [cache EXCEPT ![s] = 0]
  /\ uncleared' = uncleared \ {s}
  /\ UNCHANGED <<disk, indexed, marked, lock, pc, job, sweep, up, faults, crashes,
                 overlapped, clean, unmarked, lost, young, outrun>>

-----------------------------------------------------------------------------
\* sweepOrphans.  The directory of the records is listed ...
SweepStart ==
  /\ up /\ sweep.stage = "idle"
  /\ sweep' = [NoPass EXCEPT !.stage = "reading", !.sites = {s \in Slug : Claimed(s)}]
  /\ overlapped' = overlapped \cup {p \in Handler : InFlight(p)}
  /\ UNCHANGED <<disk, memory, pc, job, up, faults, crashes, clean, unmarked, lost, young, outrun, uncleared>>

\* ... every record is read ...
SweepSite(s) ==
  /\ sweep.stage = "reading" /\ s \in sweep.sites
  /\ sweep' = [sweep EXCEPT !.sites = @ \ {s}, !.ids = @ \cup ({s} \X Retained(s))]
  /\ UNCHANGED <<disk, memory, pc, job, up, faults, crashes, history>>

\* ... then every manifest the records list, if it is there ...
SweepManifest(m) ==
  /\ sweep.stage = "reading" /\ sweep.sites = {} /\ m \in sweep.ids
  /\ sweep' = [sweep EXCEPT !.ids = @ \ {m},
                            !.refs = IF m \in manifests THEN @ \cup content[m[2]] ELSE @]
  /\ UNCHANGED <<disk, memory, pc, job, up, faults, crashes, history>>

\* ... and one that cannot be read is passed over.
SweepUnread ==
  /\ sweep.stage = "reading" /\ Ignored
  /\ \/ \E s \in sweep.sites : sweep' = [sweep EXCEPT !.sites = @ \ {s}]
     \/ sweep.sites = {} /\ \E m \in sweep.ids : sweep' = [sweep EXCEPT !.ids = @ \ {m}]
  /\ UNCHANGED <<disk, memory, pc, job, up, crashes, history>>

\* The rest of the pass holds Server.mu.  An object that is indexed and not
\* referenced is marked; one that the last pass marked as well is to be deleted.
MarkWith(dead) ==
  /\ sweep.stage = "reading" /\ sweep.sites = {} /\ sweep.ids = {}
  /\ sweep' = [sweep EXCEPT !.stage = "deleting", !.dead = dead, !.fresh = indexed \ sweep.refs]
  /\ young' = {}
  /\ UNCHANGED <<disk, memory, pc, job, up, faults, crashes, overlapped, clean, unmarked, lost, outrun, uncleared>>

\* Mutations of SweepMark: objects are deleted at first sight; references found
\* by this pass do not count for objects the last one marked.
SweepMark_Once == MarkWith(indexed \ sweep.refs)
SweepMark_Marked == MarkWith(marked)

SweepMark == MarkWith(marked \ sweep.refs)

\* Mutation of SweepUnindex: a deleted object keeps its mark.
SweepUnindex_KeepsMark(x) ==
  /\ sweep.stage = "deleting" /\ x \in sweep.dead
  /\ indexed' = indexed \ {x}
  /\ sweep' = [sweep EXCEPT !.stage = "removing", !.dead = @ \ {x}, !.gone = {x}]
  /\ UNCHANGED <<disk, marked, cache, lock, pc, job, up, faults, crashes, history>>

\* DeleteObject: out of the index under FS.mu ...
SweepUnindex(x) ==
  /\ sweep.stage = "deleting" /\ x \in sweep.dead
  /\ indexed' = indexed \ {x}
  /\ sweep' = [sweep EXCEPT !.stage = "removing", !.dead = @ \ {x}, !.gone = {x}, !.fresh = @ \ {x}]
  /\ UNCHANGED <<disk, marked, cache, lock, pc, job, up, faults, crashes, history>>

\* ... and then off the disk without it; a removal that fails is ignored.
SweepRemove ==
  /\ sweep.stage = "removing"
  /\ \/ stored' = stored \ sweep.gone /\ UNCHANGED faults
     \/ Ignored /\ UNCHANGED stored
  /\ sweep' = [sweep EXCEPT !.stage = "deleting", !.gone = {}]
  /\ UNCHANGED <<site, manifests, content, issued, memory, pc, job, up, crashes, history>>

SweepEnd ==
  /\ sweep.stage = "deleting" /\ sweep.dead = {}
  /\ marked' = sweep.fresh
  /\ sweep' = NoPass
  /\ UNCHANGED <<disk, indexed, cache, lock, pc, job, up, faults, crashes, history>>

-----------------------------------------------------------------------------
\* The process dies: the files stay, everything else is gone.
Crash ==
  /\ up /\ crashes < MaxCrashes
  /\ up' = FALSE /\ crashes' = crashes + 1
  /\ pc' = [p \in Handler |-> "idle"]
  /\ job' = [p \in Handler |-> NoJob]
  /\ lock' = [s \in Slug |-> Free]
  /\ cache' = [s \in Slug |-> 0]
  /\ indexed' = {} /\ marked' = {} /\ sweep' = NoPass
  /\ overlapped' = {} /\ young' = {} /\ outrun' = {} /\ uncleared' = {}
  /\ UNCHANGED <<disk, faults, clean, unmarked, lost>>

\* OpenFS and load: the index is rebuilt from the object files.
Restart ==
  /\ ~up /\ up' = TRUE
  /\ indexed' = stored /\ young' = stored
  /\ UNCHANGED <<disk, marked, cache, lock, pc, job, sweep, faults, crashes,
                 overlapped, clean, unmarked, lost, outrun, uncleared>>

Request(p) ==
  /\ up /\ pc[p] = "idle"
  /\ requests < MaxRequests /\ requests' = requests + 1
  /\ \E s \in Slug :
       \/ ServeSite(p, s)
       \/ \E o \in Owner : \/ Claim(p, s, o) \/ DeleteStart(p, s, o)
                           \/ \E files \in Bundle : DeployStart(p, s, o, files)
                           \/ \E id \in Id : Rollback(p, s, o, id)

Step(p) ==
  \/ \E x \in Object : StoreKnown(p, x) \/ StoreFile(p, x)
  \/ StoreIndex(p) \/ DeployFail(p) \/ Commit(p) \/ PutDeploy(p) \/ Prune(p)
  \/ PutSite(p) \/ WriteFail(p) \/ ClearCache(p)
  \/ DeleteRecord(p) \/ DeleteManifests(p) \/ DeleteFail(p)
  \/ ServeDeploy(p) \/ ServeCache(p)

Sweep ==
  \/ SweepStart \/ SweepUnread \/ SweepMark \/ SweepRemove \/ SweepEnd
  \/ \E s \in Slug : SweepSite(s)
  \/ \E m \in Slug \X Id : SweepManifest(m)
  \/ \E x \in Object : SweepUnindex(x)

Next ==
  \/ \E p \in Handler : Request(p)
  \/ UNCHANGED requests /\ (\/ \E p \in Handler : Step(p)
                            \/ \E s \in Slug : Expire(s)
                            \/ Sweep
                            \/ Crash
                            \/ Restart)

Spec == Init /\ [][Next]_vars

-----------------------------------------------------------------------------
\* The node's state.
TypeOK ==
  /\ site \in [Slug -> Site]
  /\ manifests \subseteq Slug \X Id
  /\ content \in [Id -> SUBSET Object]
  /\ issued \in 0..MaxDeploys
  /\ stored \subseteq Object /\ indexed \subseteq Object /\ marked \subseteq Object
  /\ cache \in [Slug -> Id \cup {0}]
  /\ lock \in [Slug -> Handler \cup {Free}]
  /\ pc \in [Handler -> Stage]
  /\ job \in [Handler -> Job]
  /\ sweep \in Pass
  /\ up \in BOOLEAN /\ requests \in Nat /\ faults \in Nat /\ crashes \in Nat
  /\ overlapped \subseteq Handler /\ outrun \subseteq Handler
  /\ clean \subseteq Id /\ unmarked \subseteq clean /\ lost \subseteq Id
  /\ young \subseteq Object /\ uncleared \subseteq Slug

\* "Refetch under the lock" (api.go), "the site's current pointer flips
\* atomically" (store.go): the current deploy is a retained one, and every
\* retained deploy has its manifest at any moment - except the oldest one of a
\* full history, which is pruned before the record that still lists it, and
\* possibly still points to it, is replaced; and those that a deletion of the site removed
\* after it had failed to remove the record, which nobody notices (fs.go:172).
RetainedReadable ==
  \A s \in Slug :
    LET ds == site[s].deploys
    IN /\ Len(ds) <= KeepDeploys
       /\ site[s].current \in Retained(s) \cup {0}
       /\ \A i \in DOMAIN ds : <<s, ds[i]>> \notin manifests =>
            ds[i] \in lost \/ (i = 1 /\ Len(ds) = KeepDeploys)

\* "so an in-flight deploy on this or a peer node is never swept mid-write"
\* (server.go), as far as it is so: a deploy that no pass overlapped has all its
\* objects on disk for as long as the site retains it.  If none of them was marked
\* when it was saved, that stands a file which the sweeper cannot read once.
CleanIntact ==
  \A s \in Slug : \A id \in Retained(s) \cap clean :
    (<<s, id>> \in manifests /\ (faults = 0 \/ (faults = 1 /\ id \in unmarked))) => content[id] \subseteq stored

\* "Orphans need two consecutive passes unreferenced before deletion" (server.go):
\* what a pass deletes was there already when the last pass listed the objects.
GracePeriod == [][up' => (indexed \ indexed') \cap young = {}]_vars

\* "TTL cache that bounds staleness" (serve.go): once a write of a site has
\* returned, the cached deploy is the site's current one, unless a reader that
\* had read the record before put it there since.
CacheCurrent ==
  \A s \in Slug :
    (lock[s] = Free /\ cache[s] # 0 /\ s \notin uncleared) => cache[s] = site[s].current

\* "serializes deploy/meta writes per site" (server.go), "slug already claimed"
\* (api.go): a claimed slug stays with its owner until the owner deletes it - or
\* somebody does who owned it when asking for the deletion.
ClaimsStick ==
  [][\A s \in Slug :
       (Claimed(s) /\ site'[s].owner # site[s].owner) =>
         /\ site'[s] = NoSite
         /\ \E p \in Handler : /\ pc[p] = "deleting" /\ pc'[p] = "removing" /\ job[p].slug = s
                               /\ job[p].owner = site[s].owner \/ p \in outrun]_vars

\* What the node promises of sites and deploys (SiteRegistry): an id that is on its way
\* into a record is not given out yet.
Pending(p) == pc[p] \in {"manifest", "saving"} /\ job[p].op = "deploy"
Spent == {i \in 1..issued : \A p \in Handler : Pending(p) => job[p].id # i}
Shown == [i \in Id |-> IF i \in Spent THEN content[i] ELSE {}]
Registry == INSTANCE SiteRegistry WITH
  Deploy <- Id, None <- 0, Content <- SUBSET Object, Nothing <- {}, spent <- Spent, shown <- Shown

\* "each deploy is an immutable manifest", "the site's current pointer flips atomically"
\* (store.go): every write of a record continues the record that is there as the
\* registry allows, however handlers, failed writes and crashes interleave.
ImplementsRegistry == Registry!Spec
=============================================================================
