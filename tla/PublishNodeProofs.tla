-------------------------- MODULE PublishNodeProofs --------------------------
(***************************************************************************)
(* Proofs about PublishNode, for any slugs, owners, objects, handlers,     *)
(* quotas and lengths of history, and any number of requests and crashes.  *)
(***************************************************************************)
EXTENDS PublishNode, TLAPS

-----------------------------------------------------------------------------
\* Every step is one of a request, of a handler, of the sweeper or of the process.
LEMMA Steps ==
  ASSUME Next
  PROVE  \/ \E p \in Handler : Request(p) \/ Step(p)
         \/ \E s \in Slug : Expire(s)
         \/ Sweep \/ Crash \/ Restart
  BY DEF Next

\* A history with one more deploy, and one without its oldest.
LEMMA Histories ==
  ASSUME NEW ds \in Seq(Id), NEW id \in Id
  PROVE  /\ Append(ds, id) \in Seq(Id) /\ Len(Append(ds, id)) = Len(ds) + 1
         /\ \A i \in 1..Len(ds) : Append(ds, id)[i] = ds[i]
         /\ Append(ds, id)[Len(ds) + 1] = id
         /\ ds # <<>> => /\ Tail(ds) \in Seq(Id) /\ Len(Tail(ds)) = Len(ds) - 1
                         /\ \A i \in 1..(Len(ds) - 1) : Tail(ds)[i] = ds[i + 1]
                         /\ Head(ds) = ds[1] /\ ds[1] \in Id
  OBVIOUS

\* What a request under way has decided on, by its stage.
JobOK ==
  \A p \in Handler :
    /\ pc[p] # "idle" => job[p].slug \in Slug
    /\ pc[p] \in {"storing", "indexing", "manifest"} => job[p].op = "deploy"
    /\ pc[p] \in {"manifest", "saving"} /\ job[p].op = "deploy" => job[p].id \in Id
    /\ pc[p] \in {"reading", "loaded"} => job[p].id \in Id

Typed == TypeOK /\ JobOK

\* The types hold initially.
LEMMA InitTyped == Init => Typed
<1> SUFFICES ASSUME Init PROVE Typed
  OBVIOUS
<1>1. NoSite \in Site
  BY DEF NoSite, Site
<1>2. NoJob \in Job
  BY <1>1 DEF NoJob, Job, Op
<1>3. NoPass \in Pass
  BY DEF NoPass, Pass
<1>4. TypeOK
  BY <1>1, <1>2, <1>3, NodeAssumption DEF Init, TypeOK, Stage
<1>5. JobOK
  BY DEF Init, JobOK
<1>6. QED
  BY <1>4, <1>5 DEF Typed

\* A new job has the types of a job.
LEMMA NewJobs ==
  ASSUME NEW op \in Op, NEW o \in Owner \cup {Nobody}, NEW s \in Slug
  PROVE  /\ NewJob(op, o, s) \in Job /\ NoJob \in Job /\ NoSite \in Site
         /\ NewJob(op, o, s).op = op /\ NewJob(op, o, s).slug = s
         /\ NewJob(op, o, s).owner = o
<1>1. NoSite \in Site
  BY DEF NoSite, Site
<1>2. NoJob \in Job
  BY <1>1 DEF NoJob, Job, Op
<1>3. QED
  BY <1>1, <1>2 DEF NewJob, Job

\* Requests that begin keep the types.
LEMMA RequestTyped ==
  ASSUME Typed, NEW p \in Handler, Request(p)
  PROVE  Typed'
<1> USE NodeAssumption DEF Typed, TypeOK, disk, memory, history
<1>1. PICK s \in Slug : \/ ServeSite(p, s)
                        \/ \E o \in Owner : \/ Claim(p, s, o) \/ DeleteStart(p, s, o)
                                            \/ \E files \in Bundle : DeployStart(p, s, o, files)
                                            \/ \E id \in Id : Rollback(p, s, o, id)
  BY DEF Request
<1>2. requests' \in Nat /\ site[s] \in Site
  BY DEF Request
<1>3. CASE ServeSite(p, s)
  <2>1. /\ NewJob("serve", Nobody, s) \in Job /\ NewJob("serve", Nobody, s).slug = s
    BY NewJobs DEF Op
  <2>2. site[s].current \in Id
    BY <1>2, <1>3 DEF ServeSite, Site
  <2>3. job'[p] \in Job /\ job'[p].slug = s /\ job'[p].id \in Id /\ pc'[p] = "reading"
    BY <1>3, <2>1, <2>2 DEF ServeSite, Job
  <2>4. QED BY <1>2, <1>3, <2>3 DEF ServeSite, JobOK, Stage
<1>4. ASSUME NEW o \in Owner, Claim(p, s, o) PROVE Typed'
  <2>1. job'[p] \in Job /\ pc'[p] = "saving" /\ job'[p].slug = s /\ job'[p].op = "claim"
    <3>1. NewJob("claim", o, s) \in Job /\ NewJob("claim", o, s).slug = s /\ NewJob("claim", o, s).op = "claim"
      BY NewJobs DEF Op
    <3>2. [NoSite EXCEPT !.owner = o] \in Site
      <4>1. NoSite \in Site
        BY NewJobs DEF Op
      <4>2. QED BY <4>1 DEF Site
    <3>3. QED BY <1>2, <1>4, <3>1, <3>2 DEF Claim, Enter, Job
  <2>2. QED BY <1>2, <1>4, <2>1 DEF Claim, Enter, JobOK, Stage
<1>5. ASSUME NEW o \in Owner, DeleteStart(p, s, o) PROVE Typed'
  <2>1. job'[p] \in Job /\ pc'[p] = "deleting" /\ job'[p].slug = s
    BY <1>2, <1>5, NewJobs DEF DeleteStart, Op
  <2>2. QED BY <1>2, <1>5, <2>1 DEF DeleteStart, JobOK, Stage
<1>6. ASSUME NEW o \in Owner, NEW files \in Bundle, DeployStart(p, s, o, files) PROVE Typed'
  <2>1. job'[p] \in Job /\ pc'[p] = "storing" /\ job'[p].slug = s /\ job'[p].op = "deploy"
    <3>1. NewJob("deploy", o, s) \in Job /\ NewJob("deploy", o, s).slug = s /\ NewJob("deploy", o, s).op = "deploy"
      BY NewJobs DEF Op
    <3>2. files \in SUBSET Object
      OBVIOUS
    <3>3. QED BY <1>6, <3>1, <3>2 DEF DeployStart, Job
  <2>2. QED BY <1>2, <1>6, <2>1 DEF DeployStart, JobOK, Stage
<1>7. ASSUME NEW o \in Owner, NEW id \in Id, Rollback(p, s, o, id) PROVE Typed'
  <2>1. job'[p] \in Job /\ pc'[p] = "saving" /\ job'[p].slug = s /\ job'[p].op = "rollback"
    <3>1. /\ NewJob("rollback", o, s) \in Job /\ NewJob("rollback", o, s).slug = s
          /\ NewJob("rollback", o, s).op = "rollback"
      BY NewJobs DEF Op
    <3>2. [site[s] EXCEPT !.current = id] \in Site
      BY <1>2 DEF Site
    <3>3. QED BY <1>7, <3>1, <3>2 DEF Rollback, Enter, Job
  <2>2. QED BY <1>2, <1>7, <2>1 DEF Rollback, Enter, JobOK, Stage
<1>8. QED
  BY <1>1, <1>3, <1>4, <1>5, <1>6, <1>7

\* What a deletion loses are deploys.
LEMMA LosingIds ==
  ASSUME TypeOK, NEW s \in Slug, Losing(s)
  PROVE  lost' \subseteq Id
<1>1. site[s] \in Site /\ lost \subseteq Id
  BY DEF TypeOK
<1>2. site[s].deploys \in Seq(Id)
  BY <1>1 DEF Site
<1>3. Retained(s) \subseteq Id
  BY <1>2 DEF Retained
<1>4. QED
  BY <1>1, <1>3 DEF Losing

\* So do the steps of a handler.
LEMMA StepTyped ==
  ASSUME Typed, NEW p \in Handler, Step(p), UNCHANGED requests
  PROVE  Typed'
<1> USE NodeAssumption DEF Typed, TypeOK, JobOK, disk, memory, history, Stage
<1>0. NoJob \in Job /\ NoSite \in Site
  BY DEF NoJob, Job, Op, NoSite, Site
<1>1. ASSUME NEW x \in Object, StoreKnown(p, x) \/ StoreFile(p, x) PROVE Typed'
  <2>1. /\ job' = [job EXCEPT ![p] = job'[p]]
        /\ job'[p].slug = job[p].slug /\ job'[p].id = job[p].id /\ job'[p].op = job[p].op
    BY <1>1 DEF StoreKnown, StoreFile, Job
  <2>2. job'[p] \in Job
    BY <1>1 DEF StoreKnown, StoreFile, Job
  <2>3. CASE StoreKnown(p, x)
    BY <2>1, <2>2, <2>3 DEF StoreKnown
  <2>4. CASE StoreFile(p, x)
    BY <2>1, <2>2, <2>4 DEF StoreFile
  <2>5. QED BY <1>1, <2>3, <2>4
<1>2. CASE StoreIndex(p)
  BY <1>2 DEF StoreIndex, Job
<1>3. CASE DeployFail(p)
  BY <1>0, <1>3 DEF DeployFail, Finish
<1>4. CASE Commit(p)
  <2>1. issued + 1 \in Id /\ job[p].slug \in Slug /\ site[job[p].slug].deploys \in Seq(Id)
    BY <1>4 DEF Commit, Id, Site
  <2>2. Append(site[job[p].slug].deploys, issued + 1) \in Seq(Id)
    BY <2>1
  <2>3. job'[p] \in Job /\ job'[p].slug = job[p].slug /\ job'[p].id \in Id
        /\ job'[p].op = job[p].op /\ pc'[p] = "manifest" /\ job[p].op = "deploy"
    <3> DEFINE rec == [site[job[p].slug] EXCEPT !.deploys = Append(@, issued + 1), !.current = issued + 1]
    <3>1. rec \in Site
      <4>1. site[job[p].slug] \in Site
        BY <2>1
      <4> DEFINE ds == Append(site[job[p].slug].deploys, issued + 1)
      <4>2. rec = [site[job[p].slug] EXCEPT !.deploys = ds, !.current = issued + 1] /\ ds \in Seq(Id)
        BY <2>2
      <4> HIDE DEF ds, rec
      <4>3. QED BY <2>1, <4>1, <4>2 DEF Site
    <3>2. job'[p] = [job[p] EXCEPT !.id = issued + 1, !.rec = rec] /\ pc'[p] = "manifest"
      BY <1>4 DEF Commit, Enter
    <3>3. job[p] \in Job /\ job[p].op = "deploy"
      BY <1>4 DEF Commit
    <3> HIDE DEF rec
    <3>4. QED BY <2>1, <3>1, <3>2, <3>3 DEF Job
  <2>4. issued' \in 0..MaxDeploys
    BY <1>4 DEF Commit
  <2>5. QED
    BY <1>4, <2>1, <2>3, <2>4 DEF Commit, Enter
<1>5. CASE PutDeploy(p)
  BY <1>5 DEF PutDeploy, GoTo, Job
<1>6. CASE Prune(p)
  <2>1. job[p].rec.deploys \in Seq(Id) /\ job[p].rec.deploys # <<>>
    BY <1>6 DEF Prune, Job, Site
  <2>2. Tail(job[p].rec.deploys) \in Seq(Id)
    BY <2>1
  <2>3. job'[p] \in Job /\ job'[p].slug = job[p].slug /\ job'[p].id = job[p].id /\ job'[p].op = job[p].op
    <3> DEFINE rec == [job[p].rec EXCEPT !.deploys = Tail(@)]
    <3>1. job[p] \in Job /\ job[p].rec \in Site
      BY DEF Job
    <3>2. rec \in Site
      BY <2>2, <3>1 DEF Site
    <3>3. job'[p] = [job[p] EXCEPT !.rec = rec]
      BY <1>6 DEF Prune
    <3> HIDE DEF rec
    <3>4. QED BY <3>1, <3>2, <3>3 DEF Job
  <2>4. QED
    BY <1>6, <2>3 DEF Prune, Ignored
<1>7. CASE PutSite(p)
  <2>1. job[p].rec \in Site /\ (job[p].op = "deploy" => job[p].id \in Id)
    BY <1>7 DEF PutSite, Job
  <2>2. clean' \subseteq Id /\ unmarked' \subseteq clean'
    BY <1>7, <2>1 DEF PutSite
  <2>3. QED
    BY <1>0, <1>7, <2>1, <2>2 DEF PutSite, Leave, Finish, GoTo
<1>8. CASE WriteFail(p)
  BY <1>0, <1>8 DEF WriteFail, Leave, Finish
<1>9. CASE ClearCache(p)
  BY <1>0, <1>9 DEF ClearCache, Leave, Finish, Readers
<1>10. CASE DeleteRecord(p)
  BY <1>0, <1>10 DEF DeleteRecord, Enter, Ignored
<1>11. CASE DeleteManifests(p)
  <2>1. job[p].slug \in Slug /\ lost' \subseteq Id
    BY <1>11, LosingIds DEF DeleteManifests
  <2>2. QED BY <1>11, <2>1 DEF DeleteManifests, GoTo
<1>12. CASE DeleteFail(p)
  <2>1. job[p].slug \in Slug /\ lost' \subseteq Id
    BY <1>12, LosingIds DEF DeleteFail
  <2>2. QED BY <1>0, <1>12, <2>1 DEF DeleteFail, Leave, Finish, Readers
<1>13. CASE ServeDeploy(p)
  BY <1>0, <1>13 DEF ServeDeploy, GoTo, Finish
<1>14. CASE ServeCache(p)
  BY <1>0, <1>14 DEF ServeCache, Finish
<1>15. QED
  BY <1>1, <1>2, <1>3, <1>4, <1>5, <1>6, <1>7, <1>8, <1>9, <1>10, <1>11, <1>12, <1>13, <1>14
  DEF Step

\* So do the steps of the sweeper.
LEMMA SweepTyped ==
  ASSUME Typed, Sweep, UNCHANGED requests
  PROVE  Typed'
<1> USE NodeAssumption DEF Typed, TypeOK, JobOK, disk, memory, history
<1>1. CASE SweepStart
  <2>1. sweep' \in Pass
    BY <1>1 DEF SweepStart, NoPass, Pass
  <2>2. QED BY <1>1, <2>1 DEF SweepStart
<1>2. CASE SweepUnread
  <2>1. sweep' \in Pass
    BY <1>2 DEF SweepUnread, Pass
  <2>2. QED BY <1>2, <2>1 DEF SweepUnread, Ignored
<1>3. CASE SweepMark
  <2>1. sweep' \in Pass
    BY <1>3 DEF SweepMark, MarkWith, Pass
  <2>2. QED BY <1>3, <2>1 DEF SweepMark, MarkWith
<1>4. CASE SweepRemove
  <2>1. sweep' \in Pass
    BY <1>4 DEF SweepRemove, Pass
  <2>2. stored' \subseteq Object /\ faults' \in Nat
    BY <1>4 DEF SweepRemove, Ignored
  <2>3. QED BY <1>4, <2>1, <2>2 DEF SweepRemove
<1>5. CASE SweepEnd
  <2>1. sweep' \in Pass /\ marked' \subseteq Object
    BY <1>5 DEF SweepEnd, NoPass, Pass
  <2>2. QED BY <1>5, <2>1 DEF SweepEnd
<1>6. ASSUME NEW s \in Slug, SweepSite(s) PROVE Typed'
  <2>1. {s} \X Retained(s) \subseteq Slug \X Id
    BY DEF Retained, Site
  <2>2. sweep' \in Pass
    BY <1>6, <2>1 DEF SweepSite, Pass
  <2>3. QED BY <1>6, <2>2 DEF SweepSite
<1>7. ASSUME NEW m \in Slug \X Id, SweepManifest(m) PROVE Typed'
  <2>1. content[m[2]] \in SUBSET Object
    OBVIOUS
  <2>2. sweep' \in Pass
    BY <1>7, <2>1 DEF SweepManifest, Pass
  <2>3. QED BY <1>7, <2>2 DEF SweepManifest
<1>8. ASSUME NEW x \in Object, SweepUnindex(x) PROVE Typed'
  <2>1. sweep' \in Pass
    BY <1>8 DEF SweepUnindex, Pass
  <2>2. QED BY <1>8, <2>1 DEF SweepUnindex
<1>9. QED
  BY <1>1, <1>2, <1>3, <1>4, <1>5, <1>6, <1>7, <1>8 DEF Sweep

\* Every step keeps the types.
LEMMA NextTyped == Typed /\ [Next]_vars => Typed'
<1> SUFFICES ASSUME Typed, [Next]_vars PROVE Typed'
  OBVIOUS
<1> USE DEF disk, memory, history
<1>1. CASE UNCHANGED vars
  BY <1>1 DEF vars, Typed, TypeOK, JobOK
<1>2. ASSUME NEW p \in Handler, Request(p) PROVE Typed'
  BY <1>2, RequestTyped
<1>3. CASE UNCHANGED requests
  <2>1. ASSUME NEW p \in Handler, Step(p) PROVE Typed'
    BY <1>3, <2>1, StepTyped
  <2>2. ASSUME NEW s \in Slug, Expire(s) PROVE Typed'
    BY <1>3, <2>2 DEF Expire, Typed, TypeOK, JobOK
  <2>3. CASE Sweep
    BY <1>3, <2>3, SweepTyped
  <2>4. CASE Crash
    <3>1. NoJob \in Job /\ NoPass \in Pass
      BY DEF NoJob, Job, Op, NoSite, Site, NoPass, Pass
    <3>2. /\ (job \in [Handler -> Job])' /\ (pc \in [Handler -> Stage])' /\ (lock \in [Slug -> Handler \cup {Free}])'
          /\ (cache \in [Slug -> Id \cup {0}])' /\ (sweep \in Pass)' /\ (crashes \in Nat)'
      BY <2>4, <3>1 DEF Crash, Typed, TypeOK, Stage
    <3>3. /\ UNCHANGED <<site, manifests, content, issued, stored, faults, requests, clean, unmarked, lost>>
          /\ indexed' = {} /\ marked' = {} /\ (up \in BOOLEAN)' /\ overlapped' = {} /\ young' \subseteq Object
          /\ outrun' = {} /\ uncleared' = {}
      BY <1>3, <2>4 DEF Crash, Typed, TypeOK
    <3>4. TypeOK'
      BY <3>2, <3>3 DEF Typed, TypeOK
    <3>5. JobOK'
      BY <2>4 DEF Crash, JobOK
    <3>6. QED BY <3>4, <3>5 DEF Typed
  <2>5. CASE Restart
    BY <1>3, <2>5 DEF Restart, Typed, TypeOK, JobOK
  <2>6. CASE \E p \in Handler : Request(p)
    BY <1>2, <2>6
  <2>7. QED
    BY <1>1, <2>1, <2>2, <2>3, <2>4, <2>5, <2>6, Steps
<1>4. QED
  BY <1>1, <1>2, <1>3 DEF Next

\* Types and stages of requests are always as they should be.
LEMMA AlwaysTyped == Spec => []Typed
  BY InitTyped, NextTyped, PTL DEF Spec

\* The node keeps its types.
THEOREM TypeCorrect == Spec => []TypeOK
<1>1. Typed => TypeOK
  BY DEF Typed
<1>2. QED
  BY <1>1, AlwaysTyped, PTL

-----------------------------------------------------------------------------
\* A node that is down has no request, no pass and no memory of its objects.
Down ==
  ~up => /\ indexed = {} /\ marked = {} /\ sweep = NoPass
         /\ \A p \in Handler : pc[p] = "idle"

\* What is marked, or about to be deleted, is an indexed object; what is about to
\* be deleted was so when the pass had listed the objects.
Aged ==
  /\ sweep.stage \in {"idle", "reading"} => marked \subseteq indexed
  /\ sweep.stage \in {"deleting", "removing"} =>
       sweep.dead \subseteq indexed /\ sweep.fresh \subseteq indexed /\ sweep.dead \cap young = {}

AgeInv == Down /\ Aged

\* The steps of requests leave marks and passes alone, and only add to the index.
LEMMA HandlersAdd ==
  ASSUME Typed, NEW p \in Handler, Request(p) \/ Step(p)
  PROVE  /\ UNCHANGED <<marked, sweep, up>> /\ (pc[p] # "idle" \/ up)
         /\ \A q \in Handler \ {p} : pc'[q] = pc[q] /\ job'[q] = job[q]
         /\ \/ UNCHANGED <<indexed, young>>
            \/ \E xs \in SUBSET Object : indexed' = indexed \cup xs /\ young' = young \cup (xs \ indexed)
<1> USE DEF disk, memory, history, Typed, TypeOK
<1>1. CASE Request(p)
  <2>1. up
    BY <1>1 DEF Request
  <2>2. PICK s \in Slug : \/ ServeSite(p, s)
                          \/ \E o \in Owner : \/ Claim(p, s, o) \/ DeleteStart(p, s, o)
                                              \/ \E files \in Bundle : DeployStart(p, s, o, files)
                                              \/ \E id \in Id : Rollback(p, s, o, id)
    BY <1>1 DEF Request
  <2> DEFINE Keeps == /\ UNCHANGED <<marked, sweep, up, indexed, young>>
                     /\ \A q \in Handler \ {p} : pc'[q] = pc[q] /\ job'[q] = job[q]
  <2>3. Keeps
    <3>1. CASE ServeSite(p, s)
      BY <3>1 DEF ServeSite
    <3>2. ASSUME NEW o \in Owner, Claim(p, s, o) \/ DeleteStart(p, s, o) PROVE Keeps
      BY <3>2 DEF Claim, DeleteStart, Enter
    <3>3. ASSUME NEW o \in Owner, NEW files \in Bundle, DeployStart(p, s, o, files) PROVE Keeps
      BY <3>3 DEF DeployStart
    <3>4. ASSUME NEW o \in Owner, NEW id \in Id, Rollback(p, s, o, id) PROVE Keeps
      BY <3>4 DEF Rollback, Enter
    <3> HIDE DEF Keeps
    <3>5. QED BY <2>2, <3>1, <3>2, <3>3, <3>4
  <2>4. QED BY <2>1, <2>3
<1>2. CASE StoreIndex(p)
  <2>1. job[p].putting \in SUBSET Object
    BY DEF Job
  <2>2. QED BY <1>2, <2>1 DEF StoreIndex
<1>3. CASE Step(p) /\ ~StoreIndex(p)
  BY <1>3 DEF Step, StoreKnown, StoreFile, DeployFail, Commit, PutDeploy, Prune, PutSite, WriteFail,
              ClearCache, DeleteRecord, DeleteManifests, DeleteFail, ServeDeploy, ServeCache,
              Enter, Leave, Finish, GoTo
<1>4. QED
  BY <1>1, <1>2, <1>3

\* Marks and passes concern objects that were there, after every step as before it.
LEMMA AgeStep == Typed /\ AgeInv /\ [Next]_vars => AgeInv'
<1> SUFFICES ASSUME Typed, AgeInv, [Next]_vars PROVE AgeInv'
  OBVIOUS
<1> USE DEF AgeInv, Down, Aged, disk, memory, history
<1>1. CASE UNCHANGED vars
  BY <1>1 DEF vars
<1>2. ASSUME NEW p \in Handler, Request(p) \/ Step(p) PROVE AgeInv'
  <2>1. up
    BY <1>2, HandlersAdd DEF Typed, TypeOK
  <2>2. Aged'
    BY <1>2, HandlersAdd
  <2>3. QED BY <1>2, <2>1, <2>2, HandlersAdd
<1>3. ASSUME NEW s \in Slug, Expire(s) PROVE AgeInv'
  BY <1>3 DEF Expire
<1>4. CASE Sweep
  <2> USE DEF Typed, TypeOK
  <2>1. CASE SweepStart
    BY <2>1 DEF SweepStart, NoPass, Pass
  <2>2. CASE SweepMark
    BY <2>2 DEF SweepMark, MarkWith, Pass, NoPass
  <2>3. CASE SweepEnd
    BY <2>3 DEF SweepEnd, NoPass, Pass
  <2>4. ASSUME NEW x \in Object, SweepUnindex(x) PROVE AgeInv'
    BY <2>4 DEF SweepUnindex, NoPass, Pass
  <2>5. CASE SweepRemove
    BY <2>5 DEF SweepRemove, NoPass, Pass
  <2>6. ASSUME SweepUnread \/ (\E s \in Slug : SweepSite(s)) \/ (\E m \in Slug \X Id : SweepManifest(m))
        PROVE  AgeInv'
    <3>1. /\ sweep.stage = "reading" /\ sweep'.stage = "reading"
          /\ UNCHANGED <<indexed, marked, young, up, pc>>
      BY <2>6 DEF SweepUnread, SweepSite, SweepManifest, Pass
    <3>2. QED BY <3>1 DEF NoPass
  <2>7. QED
    BY <1>4, <2>1, <2>2, <2>3, <2>4, <2>5, <2>6 DEF Sweep
<1>5. CASE Crash
  BY <1>5 DEF Crash, NoPass, Typed, TypeOK
<1>6. CASE Restart
  BY <1>6 DEF Restart, NoPass, Typed, TypeOK
<1>7. QED
  BY <1>1, <1>2, <1>3, <1>4, <1>5, <1>6, Steps

\* A node that is down forgets, and only what was there is marked or deleted.
LEMMA AlwaysAged == Spec => []AgeInv
<1>1. Init => AgeInv
  BY DEF Init, AgeInv, Down, Aged, NoPass
<1>2. QED
  BY <1>1, AgeStep, AlwaysTyped, PTL DEF Spec

\* "Orphans need two consecutive passes unreferenced before deletion" (server.go).
THEOREM TwoPasses == Spec => GracePeriod
<1>1. Typed /\ AgeInv /\ [Next]_vars => [up' => (indexed \ indexed') \cap young = {}]_vars
  <2> SUFFICES ASSUME Typed, AgeInv, [Next]_vars, up' PROVE (indexed \ indexed') \cap young = {}
    OBVIOUS
  <2> USE DEF AgeInv, Down, Aged, disk, memory, history
  <2>1. CASE UNCHANGED vars
    BY <2>1 DEF vars
  <2>2. CASE \E p \in Handler : Request(p) \/ Step(p)
    BY <2>2, HandlersAdd
  <2>3. CASE Sweep
    <3>1. ASSUME NEW x \in Object, SweepUnindex(x) PROVE (indexed \ indexed') \cap young = {}
      BY <3>1 DEF SweepUnindex
    <3>2. CASE ~\E x \in Object : SweepUnindex(x)
      BY <2>3, <3>2 DEF Sweep, SweepStart, SweepUnread, SweepMark, MarkWith, SweepRemove, SweepEnd,
                        SweepSite, SweepManifest
    <3>3. QED BY <3>1, <3>2
  <2>4. CASE (\E s \in Slug : Expire(s)) \/ Crash \/ Restart
    BY <2>4 DEF Expire, Crash, Restart
  <2>5. QED
    BY <2>1, <2>2, <2>3, <2>4, Steps
<1>2. QED
  BY <1>1, AlwaysTyped, AlwaysAged, PTL DEF Spec, GracePeriod

-----------------------------------------------------------------------------
\* A handler at these stages holds the lock of its site.
Holds(p) == pc[p] \in {"manifest", "saving", "clearing", "removing"}
Locked == \A p \in Handler : Holds(p) => lock[job[p].slug] = p

\* Deployers and deleters have a name.
Named == \A p \in Handler : pc[p] \in {"storing", "indexing", "deleting"} => job[p].owner \in Owner

\* A history lists a deploy.
Lists(ds, id) == \E i \in 1..Len(ds) : ds[i] = id

\* A history: as many deploys as are kept, each once and each with its manifest but
\* for the oldest of a full history and for what a deletion lost.
Complete(s, ds, ms, last) ==
  /\ Len(ds) <= KeepDeploys
  /\ \A i \in 1..Len(ds) : ds[i] <= last /\ (<<s, ds[i]>> \in ms \/ ds[i] \in lost \/ (i = 1 /\ Len(ds) = KeepDeploys))
  /\ \A i, j \in 1..Len(ds) : ds[i] = ds[j] => i = j

\* The history of a site, its current deploy among it.
Kept(s) ==
  /\ Complete(s, site[s].deploys, manifests, issued)
  /\ site[s].current = 0 \/ Lists(site[s].deploys, site[s].current)
  /\ site[s].deploys # <<>> => site[s].owner # Nobody

\* A history with one deploy more, before and after its oldest one is cut off.
Longer(ds, new, id) ==
  /\ ~Lists(ds, id)
  /\ \/ new = Append(ds, id)
     \/ Len(ds) = KeepDeploys /\ new = Tail(Append(ds, id))

\* As much of that as tells what it lists.
Grown(ds, new, id) == new = Append(ds, id) \/ (ds # <<>> /\ new = Tail(Append(ds, id)))

\* The record a handler is about to save continues the one that is there.
Drafted(p) ==
  LET s == job[p].slug
      r == job[p].rec
  IN /\ pc[p] \in {"manifest", "saving"} =>
          /\ r.owner \in Owner
          /\ site[s].owner # Nobody => r.owner = site[s].owner
          /\ job[p].op \in {"claim", "rollback", "deploy"}
          /\ job[p].op # "claim" => site[s].owner # Nobody
          /\ job[p].op = "deploy" => /\ Longer(site[s].deploys, r.deploys, job[p].id)
                                     /\ job[p].id <= issued /\ r.current = job[p].id
     /\ pc[p] = "manifest" => r.deploys = Append(site[s].deploys, job[p].id)
     /\ pc[p] = "saving" /\ job[p].op = "deploy" => <<s, job[p].id>> \in manifests
     /\ pc[p] = "saving" /\ job[p].op # "deploy" =>
          r.deploys = site[s].deploys /\ (r.current = 0 \/ Lists(r.deploys, r.current))
     /\ pc[p] = "saving" /\ job[p].op = "claim" => r.current = site[s].current

RecordInv ==
  /\ Locked /\ Named
  /\ \A s \in Slug : Kept(s)
  /\ \A p \in Handler : Drafted(p)

\* A full history is not empty.
LEMMA LongerGrown ==
  ASSUME NEW ds \in Seq(Id), NEW new, NEW id, Longer(ds, new, id)
  PROVE  Grown(ds, new, id)
<1>1. Len(ds) = KeepDeploys => ds # <<>>
  BY NodeAssumption
<1>2. QED
  BY <1>1 DEF Longer, Grown

\* A history that got one deploy more, and that may have lost its oldest one.
LEMMA NewHistory ==
  ASSUME NEW ds \in Seq(Id), NEW id \in Id, NEW new, Grown(ds, new, id)
  PROVE  /\ new \in Seq(Id) /\ Len(new) \in {Len(ds), Len(ds) + 1} /\ Len(new) >= 1
         /\ new[Len(new)] = id
         /\ \A i \in 1..(Len(new) - 1) : new[i] = ds[i + (Len(ds) + 1 - Len(new))]
<1> DEFINE app == Append(ds, id)
<1>1. /\ app \in Seq(Id) /\ Len(app) = Len(ds) + 1 /\ app[Len(ds) + 1] = id
      /\ \A i \in 1..Len(ds) : app[i] = ds[i]
  BY Histories
<1>2. app # <<>> => /\ Tail(app) \in Seq(Id) /\ Len(Tail(app)) = Len(app) - 1
                    /\ \A i \in 1..(Len(app) - 1) : Tail(app)[i] = app[i + 1]
  BY <1>1, Histories
<1> HIDE DEF app
<1>3. CASE new = app
  BY <1>1, <1>3
<1>4. CASE ds # <<>> /\ new = Tail(app)
  <2>1. Len(ds) \in Nat /\ Len(ds) >= 1 /\ app # <<>>
    BY <1>1, <1>4
  <2>2. QED BY <1>1, <1>2, <1>4, <2>1
<1>5. QED
  BY <1>3, <1>4 DEF Grown, app

\* Deploy ids are numbers.
LEMMA IdsAreNumbers ==
  ASSUME NEW ds \in Seq(Id)
  PROVE  \A i \in 1..Len(ds) : ds[i] \in Nat
<1>1. \A i \in 1..Len(ds) : ds[i] \in Id
  OBVIOUS
<1>2. Id \subseteq Nat
  BY NodeAssumption DEF Id
<1>3. QED
  BY <1>1, <1>2

\* A site retains what its history lists.
LEMMA RetainedListed ==
  ASSUME NEW s \in Slug, site[s] \in Site, NEW id
  PROVE  id \in Retained(s) <=> Lists(site[s].deploys, id)
<1>1. site[s].deploys \in Seq(Id)
  BY DEF Site
<1>2. DOMAIN site[s].deploys = 1..Len(site[s].deploys)
  BY <1>1
<1>3. QED
  BY <1>2 DEF Retained, Lists

\* One handler at a time holds a site.
LEMMA Alone ==
  ASSUME RecordInv, NEW p \in Handler, NEW q \in Handler, Holds(p), Holds(q), job[p].slug = job[q].slug
  PROVE  p = q
  BY DEF RecordInv, Locked

\* The record, its manifests and the locks are left alone, and no handler takes a lock.
LEMMA Quiet ==
  ASSUME Typed, RecordInv, UNCHANGED <<site, manifests, issued, lost, lock>>,
         \A q \in Handler :
           \/ /\ pc'[q] = pc[q] /\ job'[q].op = job[q].op /\ job'[q].owner = job[q].owner
              /\ job'[q].slug = job[q].slug /\ job'[q].rec = job[q].rec /\ job'[q].id = job[q].id
           \/ /\ pc'[q] \notin {"manifest", "saving", "clearing", "removing"}
              /\ pc'[q] \in {"storing", "indexing", "deleting"} => job'[q].owner \in Owner
  PROVE  RecordInv'
<1>1. Locked' /\ Named'
  BY DEF RecordInv, Locked, Named, Holds
<1>2. ASSUME NEW s \in Slug PROVE Kept(s)'
  BY <1>2 DEF RecordInv, Kept, Complete
<1>3. ASSUME NEW q \in Handler PROVE Drafted(q)'
  BY <1>3 DEF RecordInv, Drafted
<1>4. QED
  BY <1>1, <1>2, <1>3 DEF RecordInv

\* A request that begins takes the lock of a free site or none.
LEMMA RequestRecord ==
  ASSUME Typed, RecordInv, NEW p \in Handler, Request(p)
  PROVE  RecordInv'
<1> USE NodeAssumption DEF Typed, TypeOK, disk, memory, history
<1>1. PICK s \in Slug : \/ ServeSite(p, s)
                        \/ \E o \in Owner : \/ Claim(p, s, o) \/ DeleteStart(p, s, o)
                                            \/ \E files \in Bundle : DeployStart(p, s, o, files)
                                            \/ \E id \in Id : Rollback(p, s, o, id)
  BY DEF Request
<1>2. site[s] \in Site
  OBVIOUS
<1>3. CASE ServeSite(p, s)
  BY <1>3, Quiet DEF ServeSite
<1>4. ASSUME NEW o \in Owner, DeleteStart(p, s, o) PROVE RecordInv'
  <2>1. NewJob("delete", o, s).owner = o
    BY NewJobs DEF Op
  <2>2. QED BY <1>4, <2>1, Quiet DEF DeleteStart
<1>5. ASSUME NEW o \in Owner, NEW files \in Bundle, DeployStart(p, s, o, files) PROVE RecordInv'
  <2>1. NewJob("deploy", o, s).owner = o /\ NewJob("deploy", o, s) \in Job
    BY NewJobs DEF Op
  <2>2. job'[p].owner = o
    BY <1>5, <2>1 DEF DeployStart, Job
  <2>3. QED BY <1>5, <2>2, Quiet DEF DeployStart
<1>6. ASSUME NEW o \in Owner, NEW j \in Job, Enter(p, s, "saving", j), UNCHANGED <<disk, lost>>,
             j.slug = s, j.op \in {"claim", "rollback"}, j.op = "rollback" => Claimed(s),
             j.rec.owner \in Owner, Claimed(s) => j.rec.owner = site[s].owner,
             j.rec.deploys = site[s].deploys, j.rec.current = 0 \/ Lists(j.rec.deploys, j.rec.current),
             j.op = "claim" => j.rec.current = site[s].current
      PROVE  RecordInv'
  <2>1. /\ job'[p] = j /\ pc'[p] = "saving" /\ lock' = [lock EXCEPT ![s] = p] /\ lock[s] = Free
        /\ \A q \in Handler \ {p} : pc'[q] = pc[q] /\ job'[q] = job[q]
    BY <1>6 DEF Enter
  <2>2. Locked' /\ Named'
    BY <1>6, <2>1 DEF RecordInv, Locked, Named, Holds
  <2>3. ASSUME NEW z \in Slug PROVE Kept(z)'
    BY <1>6, <2>3 DEF RecordInv, Kept, Complete
  <2>4. ASSUME NEW q \in Handler PROVE Drafted(q)'
    <3>1. CASE q = p
      BY <1>6, <2>1, <3>1 DEF Drafted, Claimed
    <3>2. CASE q # p
      <4>1. Drafted(q) /\ pc'[q] = pc[q] /\ job'[q] = job[q] /\ UNCHANGED <<site, manifests, issued>>
        BY <1>6, <2>1, <3>2 DEF RecordInv
      <4>2. QED BY <4>1 DEF Drafted
    <3>3. QED BY <3>1, <3>2
  <2>5. QED BY <2>2, <2>3, <2>4 DEF RecordInv
<1>7. ASSUME NEW o \in Owner, Claim(p, s, o) PROVE RecordInv'
  <2> DEFINE rec == IF Claimed(s) THEN site[s] ELSE [NoSite EXCEPT !.owner = o]
             j == [NewJob("claim", o, s) EXCEPT !.rec = rec]
  <2>1. NewJob("claim", o, s) \in Job /\ NewJob("claim", o, s).slug = s /\ NewJob("claim", o, s).op = "claim"
    BY NewJobs DEF Op
  <2>2. NoSite \in Site /\ NoSite.deploys = <<>> /\ NoSite.current = 0
    BY NewJobs DEF Op, NoSite
  <2>3. /\ rec \in Site /\ rec.owner \in Owner /\ (Claimed(s) => rec = site[s])
        /\ ~Claimed(s) => rec.deploys = <<>> /\ rec.current = 0
    <3>1. CASE Claimed(s)
      BY <1>2, <3>1 DEF Claimed, Site
    <3>2. CASE ~Claimed(s)
      BY <2>2, <3>2 DEF Site
    <3>3. QED BY <3>1, <3>2
  <2>4. Kept(s)
    BY DEF RecordInv
  <2>5. ~Claimed(s) => site[s].deploys = <<>> /\ site[s].current = 0
    BY <1>2, <2>4 DEF Kept, Complete, Lists, Claimed, Site
  <2>6. /\ rec.deploys = site[s].deploys /\ rec.current = site[s].current
        /\ rec.current = 0 \/ Lists(rec.deploys, rec.current)
    BY <2>3, <2>4, <2>5 DEF Kept, Complete
  <2>7. Enter(p, s, "saving", j) /\ UNCHANGED <<disk, lost>>
    BY <1>7 DEF Claim
  <2> HIDE DEF rec
  <2>8. j \in Job /\ j.slug = s /\ j.op = "claim" /\ j.rec = rec
    BY <2>1, <2>3 DEF Job
  <2> HIDE DEF j
  <2>9. QED BY <1>6, <2>3, <2>6, <2>7, <2>8
<1>8. ASSUME NEW o \in Owner, NEW id \in Id, Rollback(p, s, o, id) PROVE RecordInv'
  <2> DEFINE rec == [site[s] EXCEPT !.current = id]
             j == [NewJob("rollback", o, s) EXCEPT !.id = id, !.rec = rec]
  <2>1. /\ NewJob("rollback", o, s) \in Job /\ NewJob("rollback", o, s).slug = s
        /\ NewJob("rollback", o, s).op = "rollback"
    BY NewJobs DEF Op
  <2>2. Enter(p, s, "saving", j) /\ UNCHANGED <<disk, lost>> /\ site[s].owner = o /\ id \in Retained(s)
    BY <1>8 DEF Rollback
  <2>3. /\ rec \in Site /\ rec.owner = o /\ rec.current = id /\ rec.deploys = site[s].deploys /\ Claimed(s)
        /\ Lists(site[s].deploys, id)
    <3>1. Lists(site[s].deploys, id)
      BY <1>2, <2>2, RetainedListed
    <3>2. site[s].owner = o /\ o # Nobody
      BY <2>2
    <3>3. QED BY <1>2, <3>1, <3>2 DEF Site, Claimed
  <2> HIDE DEF rec
  <2>4. j \in Job /\ j.slug = s /\ j.op = "rollback" /\ j.rec = rec
    BY <2>1, <2>3 DEF Job
  <2> HIDE DEF j
  <2>5. QED BY <1>6, <2>2, <2>3, <2>4
<1>9. QED
  BY <1>1, <1>3, <1>4, <1>5, <1>7, <1>8

\* A handler gives its lock back, or goes on to the end of what it does with it.
LEMMA Released ==
  ASSUME Typed, RecordInv, NEW p \in Handler, NEW s \in Slug, s = job[p].slug, Holds(p), Leave(p), UNCHANGED <<site, issued>>,
         lost \subseteq lost',
         \A z \in Slug \ {s}, id \in Id : <<z, id>> \in manifests => <<z, id>> \in manifests',
         Kept(s)'
  PROVE  RecordInv'
<1> USE DEF Typed, TypeOK
<1>1. /\ pc'[p] = "idle" /\ lock' = [lock EXCEPT ![job[p].slug] = Free] /\ job[p].slug \in Slug
      /\ \A q \in Handler \ {p} : pc'[q] = pc[q] /\ job'[q] = job[q]
  BY DEF Leave, Finish, JobOK, Holds
<1>2. Locked'
  BY <1>1, Alone DEF RecordInv, Locked, Holds
<1>3. Named'
  BY <1>1 DEF RecordInv, Named
<1>4. ASSUME NEW z \in Slug PROVE Kept(z)'
  <2>1. CASE z = s
    BY <2>1
  <2>2. CASE z # s
    <3>1. Kept(z) /\ site[z] \in Site /\ \A i \in 1..Len(site[z].deploys) : site[z].deploys[i] \in Id
      BY DEF RecordInv, Site
    <3>2. QED BY <2>2, <3>1 DEF Kept, Complete
  <2>3. QED BY <2>1, <2>2
<1>5. ASSUME NEW q \in Handler PROVE Drafted(q)'
  <2>1. CASE q = p
    BY <1>1, <2>1 DEF Drafted
  <2>2. CASE q # p
    <3>1. Drafted(q) /\ pc'[q] = pc[q] /\ job'[q] = job[q] /\ UNCHANGED <<site, issued>>
      BY <1>1, <2>2 DEF RecordInv
    <3>2. Holds(q) => job[q].slug # job[p].slug /\ job[q].slug \in Slug
      BY <2>2, Alone DEF JobOK, Holds
    <3>3. pc[q] = "saving" /\ job[q].op = "deploy" => job[q].id \in Id
      BY DEF JobOK
    <3>4. pc[q] = "saving" /\ job[q].op = "deploy" => <<job[q].slug, job[q].id>> \in manifests'
      BY <3>1, <3>2, <3>3 DEF Drafted, Holds
    <3>5. QED BY <3>1, <3>4 DEF Drafted
  <2>3. QED BY <2>1, <2>2
<1>6. QED
  BY <1>2, <1>3, <1>4, <1>5 DEF RecordInv

\* A handler that holds a site goes on to another step under its lock; the other
\* sites and their manifests are left alone.
LEMMA GoesOn ==
  ASSUME Typed, RecordInv, NEW p \in Handler, NEW s \in Slug, s = job[p].slug, Holds(p), Holds(p)', UNCHANGED <<issued, lock>>,
         lost \subseteq lost',
         job'[p].slug = job[p].slug,
         \A q \in Handler \ {p} : pc'[q] = pc[q] /\ job'[q] = job[q],
         \A z \in Slug \ {s} : site'[z] = site[z],
         \A z \in Slug \ {s}, id \in Id : <<z, id>> \in manifests => <<z, id>> \in manifests',
         Kept(s)', Drafted(p)'
  PROVE  RecordInv'
<1> USE DEF Typed, TypeOK
<1>1. Locked' /\ Named'
  BY DEF RecordInv, Locked, Named, Holds
<1>2. ASSUME NEW z \in Slug PROVE Kept(z)'
  <2>1. CASE z = s
    BY <2>1
  <2>2. CASE z # s
    <3>1. Kept(z) /\ site[z] \in Site /\ \A i \in 1..Len(site[z].deploys) : site[z].deploys[i] \in Id
      BY DEF RecordInv, Site
    <3>2. QED BY <2>2, <3>1 DEF Kept, Complete
  <2>3. QED BY <2>1, <2>2
<1>3. ASSUME NEW q \in Handler PROVE Drafted(q)'
  <2>1. CASE q = p
    BY <2>1
  <2>2. CASE q # p
    <3>1. Drafted(q) /\ pc'[q] = pc[q] /\ job'[q] = job[q] /\ UNCHANGED issued
      BY <2>2 DEF RecordInv
    <3>2. Holds(q) => job[q].slug # job[p].slug /\ job[q].slug \in Slug /\ site'[job[q].slug] = site[job[q].slug]
      BY <2>2, Alone DEF JobOK, Holds
    <3>3. pc[q] = "saving" /\ job[q].op = "deploy" => job[q].id \in Id
      BY DEF JobOK
    <3>4. pc[q] = "saving" /\ job[q].op = "deploy" => <<job[q].slug, job[q].id>> \in manifests'
      BY <3>1, <3>2, <3>3 DEF Drafted, Holds
    <3>5. QED BY <3>1, <3>2, <3>4 DEF Drafted, Holds
  <2>3. QED BY <2>1, <2>2
<1>4. QED
  BY <1>1, <1>2, <1>3 DEF RecordInv

\* A history with one deploy more that is not too long: each deploy once, each with
\* its manifest.
LEMMA LongerKept ==
  ASSUME NEW ds \in Seq(Id), NEW id \in Id, NEW new, NEW s, NEW ms, NEW last \in Nat,
         Complete(s, ds, ms, last), Longer(ds, new, id), Len(new) <= KeepDeploys,
         id <= last, <<s, id>> \in ms
  PROVE  Complete(s, new, ms, last) /\ Lists(new, id)
<1> DEFINE cut == Len(ds) + 1 - Len(new)
<1>1. Len(ds) \in Nat /\ KeepDeploys \in Nat /\ KeepDeploys >= 1
  BY NodeAssumption
<1>2. Grown(ds, new, id)
  BY LongerGrown
<1>3. /\ new \in Seq(Id) /\ Len(new) \in {Len(ds), Len(ds) + 1} /\ Len(new) >= 1
      /\ new[Len(new)] = id
      /\ \A i \in 1..(Len(new) - 1) : new[i] = ds[i + cut]
  BY <1>2, NewHistory
<1>4. Len(new) \in Nat /\ cut \in {0, 1}
  BY <1>1, <1>3
<1>5. \A i \in 1..Len(ds) : ds[i] # id
  BY DEF Longer, Lists
<1>6. \A i \in 1..(Len(new) - 1) : i + cut \in 1..Len(ds) /\ ~(i + cut = 1 /\ Len(ds) = KeepDeploys)
  BY <1>1, <1>3, <1>4 DEF Complete
<1> HIDE DEF cut
<1>7. \A i \in 1..(Len(new) - 1) : new[i] # id /\ new[i] <= last /\ (<<s, new[i]>> \in ms \/ new[i] \in lost)
  BY <1>3, <1>5, <1>6 DEF Complete
<1>8. \A i, j \in 1..(Len(new) - 1) : new[i] = new[j] => i = j
  BY <1>3, <1>4, <1>6 DEF Complete
<1>9. \A i \in 1..Len(new) : i = Len(new) \/ i \in 1..(Len(new) - 1)
  BY <1>4
<1>10. Lists(new, id)
  BY <1>3, <1>4 DEF Lists
<1>11. QED
  BY <1>3, <1>7, <1>8, <1>9, <1>10 DEF Complete

\* The saved record continues the history of the site.
LEMMA SavedHistory ==
  ASSUME Typed, RecordInv, NEW p \in Handler, NEW s \in Slug, s = job[p].slug,
         pc[p] = "saving", Len(job[p].rec.deploys) <= KeepDeploys,
         site' = [site EXCEPT ![s] = job[p].rec], UNCHANGED <<manifests, issued, lost>>
  PROVE  Kept(s)'
<1>1. /\ job[p].rec \in Site /\ site[s].deploys \in Seq(Id) /\ site'[s] = job[p].rec /\ issued \in Nat
  BY DEF Typed, TypeOK, Job, Site
<1>2. Kept(s) /\ Drafted(p)
  BY DEF RecordInv
<1>3. job[p].rec.owner # Nobody
  BY <1>2, NodeAssumption DEF Drafted
<1>4. CASE job[p].op # "deploy"
  <2>1. LET r == job[p].rec IN r.deploys = site[s].deploys /\ (r.current = 0 \/ Lists(r.deploys, r.current))
    BY <1>2, <1>4 DEF Drafted
  <2>2. QED BY <1>1, <1>2, <1>3, <2>1 DEF Kept, Complete
<1>5. CASE job[p].op = "deploy"
  <2>1. LET id == job[p].id
        IN /\ Longer(site[s].deploys, job[p].rec.deploys, id) /\ id <= issued /\ job[p].rec.current = id
           /\ id \in Id /\ <<s, id>> \in manifests
    BY <1>2, <1>5 DEF Drafted, Typed, JobOK
  <2>2. Complete(s, site[s].deploys, manifests, issued)
    BY <1>2 DEF Kept
  <2>3. Complete(s, job[p].rec.deploys, manifests, issued) /\ Lists(job[p].rec.deploys, job[p].id)
    BY <1>1, <2>1, <2>2, LongerKept
  <2>4. QED
    BY <1>1, <1>3, <2>1, <2>3 DEF Kept, Complete
<1>6. QED
  BY <1>4, <1>5

\* What the oldest deploy of a full history loses is its manifest.
LEMMA PrunedHistory ==
  ASSUME Typed, RecordInv, NEW p \in Handler, Prune(p)
  PROVE  RecordInv'
<1>0. job[p].slug \in Slug
  BY DEF Prune, Typed, JobOK
<1> PICK s \in Slug : s = job[p].slug
  BY <1>0
<1> DEFINE ds == site[s].deploys
           id == job[p].id
           long == job[p].rec.deploys
<1>1. /\ s \in Slug /\ ds \in Seq(Id) /\ long \in Seq(Id) /\ pc[p] = "saving" /\ Len(long) > KeepDeploys
      /\ KeepDeploys \in Nat /\ KeepDeploys >= 1 /\ Holds(p)
  BY NodeAssumption DEF Prune, Typed, TypeOK, JobOK, Job, Site, Holds
<1>2. Kept(s) /\ Drafted(p)
  BY <1>1 DEF RecordInv
<1>3. job[p].op = "deploy"
  BY <1>1, <1>2 DEF Drafted, Kept, Complete
<1>4. /\ Longer(ds, long, id) /\ id <= issued /\ id \in Id /\ job[p].rec.current = id
      /\ <<s, id>> \in manifests /\ Len(ds) <= KeepDeploys
  BY <1>1, <1>2, <1>3 DEF Drafted, Kept, Complete, Typed, JobOK
<1>5. long = Append(ds, id) /\ Len(ds) = KeepDeploys /\ ds # <<>>
  <2> HIDE DEF ds, id, long
  <2>1. CASE long = Append(ds, id)
    BY <1>1, <1>4, <2>1, Histories
  <2>2. CASE Len(ds) = KeepDeploys /\ long = Tail(Append(ds, id))
    <3>1. ds # <<>>
      BY <1>1, <2>2
    <3>2. Len(Append(ds, id)) = Len(ds) + 1 /\ Append(ds, id) \in Seq(Id) /\ Append(ds, id) # <<>>
      BY <1>1, <1>4, Histories
    <3>3. Len(long) = Len(ds)
      BY <1>1, <2>2, <3>2, Histories
    <3>4. QED BY <1>1, <2>2, <3>3
  <2>3. QED BY <1>4, <2>1, <2>2 DEF Longer
<1>6. Head(long) = ds[1]
  <2> HIDE DEF ds, id, long
  <2>1. QED BY <1>1, <1>4, <1>5, Histories
<1>7. /\ manifests' = manifests \ {<<s, ds[1]>>} \/ manifests' = manifests
      /\ job'[p].op = job[p].op /\ job'[p].slug = s /\ job'[p].id = id /\ job'[p].rec.deploys = Tail(long)
      /\ job'[p].rec.owner = job[p].rec.owner /\ job'[p].rec.current = job[p].rec.current
      /\ UNCHANGED <<pc, site, issued, lost, lock>> /\ \A q \in Handler \ {p} : job'[q] = job[q]
  BY <1>6 DEF Prune, Typed, TypeOK, Job, Site, disk, memory, history
<1>8. Kept(s)'
  <2>1. \A i \in 1..Len(ds) : i # 1 => ds[i] # ds[1]
    BY <1>1, <1>2, <1>5 DEF Kept, Complete
  <2>2. \A i \in 1..Len(ds) : <<s, ds[i]>> \in manifests' \/ ds[i] \in lost \/ (i = 1 /\ Len(ds) = KeepDeploys)
    BY <1>1, <1>2, <1>5, <1>7, <2>1 DEF Kept, Complete
  <2>3. UNCHANGED <<site, issued, lost>>
    BY <1>7
  <2>4. QED BY <1>2, <2>2, <2>3 DEF Kept, Complete
<1>9. Drafted(p)'
  <2>1. id # ds[1]
    BY <1>1, <1>4, <1>5 DEF Longer, Lists
  <2>2. Longer(ds, Tail(long), id)
    BY <1>4, <1>5 DEF Longer
  <2>3. QED BY <1>1, <1>2, <1>3, <1>4, <1>7, <2>1, <2>2 DEF Drafted
<1>10. \A z \in Slug \ {s}, i \in Id : <<z, i>> \in manifests => <<z, i>> \in manifests'
  BY <1>7
<1>11. QED
  BY <1>1, <1>7, <1>8, <1>9, <1>10, GoesOn DEF Holds

\* So do the steps of a handler.
LEMMA StepRecord ==
  ASSUME Typed, RecordInv, NEW p \in Handler, Step(p)
  PROVE  RecordInv'
<1> USE DEF Typed, TypeOK, disk, memory, history
<1>1. ASSUME NEW x \in Object, StoreKnown(p, x) \/ StoreFile(p, x) PROVE RecordInv'
  <2>1. /\ pc[p] = "storing" /\ job[p].owner \in Owner
    BY <1>1 DEF StoreKnown, StoreFile, RecordInv, Named
  <2>2. /\ UNCHANGED <<site, manifests, issued, lost, lock>> /\ pc'[p] \in {"storing", "indexing"}
        /\ job'[p].owner = job[p].owner /\ \A q \in Handler \ {p} : pc'[q] = pc[q] /\ job'[q] = job[q]
    <3>1. CASE StoreKnown(p, x)
      BY <3>1 DEF StoreKnown, Job
    <3>2. CASE StoreFile(p, x)
      BY <3>2 DEF StoreFile, Job
    <3>3. QED BY <1>1, <3>1, <3>2
  <2>3. QED BY <2>1, <2>2, Quiet
<1>2. CASE StoreIndex(p)
  <2>1. /\ job[p].owner \in Owner /\ job'[p].owner = job[p].owner
    BY <1>2 DEF StoreIndex, RecordInv, Named, Job
  <2>2. QED BY <1>2, <2>1, Quiet DEF StoreIndex
<1>3. CASE DeployFail(p)
  BY <1>3, Quiet DEF DeployFail, Finish
<1>4. CASE ServeDeploy(p)
  BY <1>4, Quiet DEF ServeDeploy, GoTo, Finish
<1>5. CASE ServeCache(p)
  BY <1>5, Quiet DEF ServeCache, Finish
<1>6. CASE Prune(p)
  BY <1>6, PrunedHistory
<1> PICK s : s = job[p].slug
  OBVIOUS
<1>7. CASE Commit(p)
  <2> DEFINE id == issued + 1
             rec == [site[s] EXCEPT !.deploys = Append(@, id), !.current = id]
  <2>1. /\ s \in Slug /\ job[p].op = "deploy" /\ job[p].owner \in Owner /\ site[s].owner = job[p].owner
        /\ pc[p] = "storing" /\ issued' = id /\ lock[s] = Free
    BY <1>7 DEF Commit, Enter, JobOK, RecordInv, Named
  <2>2. /\ pc' = [pc EXCEPT ![p] = "manifest"] /\ lock' = [lock EXCEPT ![s] = p]
        /\ UNCHANGED <<site, manifests, lost>> /\ job' = [job EXCEPT ![p] = [job[p] EXCEPT !.id = id, !.rec = rec]]
    BY <1>7 DEF Commit, Enter
  <2>3. Kept(s) /\ site[s] \in Site /\ site[s].deploys \in Seq(Id) /\ issued \in Nat
    BY <2>1 DEF RecordInv, Site
  <2>4. rec.deploys = Append(site[s].deploys, id) /\ rec.current = id /\ rec.owner = site[s].owner
    BY <2>3 DEF Site
  <2>5. ~Lists(site[s].deploys, id)
    <3>1. \A i \in 1..Len(site[s].deploys) : site[s].deploys[i] \in Nat /\ site[s].deploys[i] <= issued
      BY <2>3, IdsAreNumbers DEF Kept, Complete
    <3>2. QED BY <2>3, <3>1 DEF Lists
  <2> HIDE DEF rec
  <2>6. /\ job'[p].slug = s /\ job'[p].op = "deploy" /\ job'[p].id = id /\ job'[p].rec = rec
        /\ pc'[p] = "manifest" /\ \A q \in Handler \ {p} : pc'[q] = pc[q] /\ job'[q] = job[q]
    BY <2>1, <2>2 DEF Job
  <2>7. Locked' /\ Named'
    BY <2>1, <2>2, <2>6, NodeAssumption DEF RecordInv, Locked, Named, Holds
  <2>8. ASSUME NEW z \in Slug PROVE Kept(z)'
    <3>1. Kept(z) /\ \A i \in 1..Len(site[z].deploys) : site[z].deploys[i] \in Nat
      <4>1. site[z].deploys \in Seq(Id)
        BY DEF Site
      <4>2. QED BY <4>1, IdsAreNumbers DEF RecordInv
    <3>2. QED BY <2>1, <2>2, <2>3, <3>1 DEF Kept, Complete
  <2>9. ASSUME NEW q \in Handler PROVE Drafted(q)'
    <3>1. CASE q = p
      <4>1. Longer(site[s].deploys, rec.deploys, id)
        BY <2>4, <2>5 DEF Longer
      <4>2. id <= issued'
        BY <2>1, <2>3
      <4> HIDE DEF id
      <4>3. rec.owner \in Owner /\ site' = site /\ job[p].owner # Nobody
        BY <2>1, <2>2, <2>4, NodeAssumption
      <4>4. QED BY <2>1, <2>4, <2>6, <3>1, <4>1, <4>2, <4>3 DEF Drafted
    <3>2. CASE q # p
      <4>1. Drafted(q) /\ pc'[q] = pc[q] /\ job'[q] = job[q] /\ UNCHANGED <<site, manifests>>
        BY <2>2, <2>6, <3>2 DEF RecordInv
      <4>2. job[q].id \in Nat
        BY DEF Job, Id
      <4>3. QED BY <2>1, <2>3, <4>1, <4>2 DEF Drafted
    <3>3. QED BY <3>1, <3>2
  <2>10. QED
    BY <2>7, <2>8, <2>9 DEF RecordInv
<1>8. CASE PutDeploy(p)
  <2>1. /\ s \in Slug /\ job[p].op = "deploy" /\ Holds(p) /\ Holds(p)' /\ Kept(s) /\ Drafted(p)
    BY <1>8 DEF PutDeploy, GoTo, JobOK, Holds, RecordInv
  <2>2. /\ pc[p] = "manifest" /\ pc'[p] = "saving" /\ UNCHANGED <<site, issued, lost, lock, job>>
        /\ manifests' = manifests \cup {<<s, job[p].id>>}
        /\ \A q \in Handler \ {p} : pc'[q] = pc[q]
    BY <1>8 DEF PutDeploy, GoTo
  <2>3. Kept(s)'
    BY <2>1, <2>2 DEF Kept, Complete
  <2>4. Drafted(p)'
    BY <2>1, <2>2 DEF Drafted
  <2>5. QED
    BY <2>1, <2>2, <2>3, <2>4, GoesOn
<1>9. CASE PutSite(p)
  <2>1. /\ s \in Slug /\ pc[p] = "saving" /\ Holds(p) /\ site' = [site EXCEPT ![s] = job[p].rec]
        /\ Len(job[p].rec.deploys) <= KeepDeploys /\ UNCHANGED <<manifests, issued, lost>>
    BY <1>9 DEF PutSite, JobOK, Holds
  <2>2. Kept(s)'
    BY <2>1, SavedHistory
  <2>3. CASE pc' = [pc EXCEPT ![p] = "clearing"] /\ UNCHANGED <<lock, job>>
    <3>1. Drafted(p)' /\ Holds(p)'
      BY <2>1, <2>3 DEF Drafted, Holds
    <3>2. QED BY <2>1, <2>2, <2>3, <3>1, GoesOn
  <2>4. CASE Leave(p)
    <3>1. /\ pc' = [pc EXCEPT ![p] = "idle"] /\ lock' = [lock EXCEPT ![s] = Free]
          /\ \A q \in Handler \ {p} : pc'[q] = pc[q] /\ job'[q] = job[q]
      BY <2>4 DEF Leave, Finish
    <3>2. Locked'
      BY <2>1, <3>1, Alone DEF RecordInv, Locked, Holds
    <3>3. Named'
      BY <3>1 DEF RecordInv, Named
    <3>4. ASSUME NEW z \in Slug PROVE Kept(z)'
      <4>1. z # s => site'[z] = site[z] /\ Kept(z)
        BY <2>1 DEF RecordInv
      <4>2. QED BY <2>1, <2>2, <4>1 DEF Kept, Complete
    <3>5. ASSUME NEW q \in Handler PROVE Drafted(q)'
      <4>1. CASE q = p
        BY <3>1, <4>1 DEF Drafted
      <4>2. CASE q # p
        <5>1. Drafted(q) /\ pc'[q] = pc[q] /\ job'[q] = job[q] /\ UNCHANGED <<manifests, issued>>
          BY <2>1, <3>1, <4>2 DEF RecordInv
        <5>2. Holds(q) => site'[job[q].slug] = site[job[q].slug]
          BY <2>1, <4>2, Alone DEF JobOK, Holds
        <5>3. QED BY <5>1, <5>2 DEF Drafted, Holds
      <4>3. QED BY <4>1, <4>2
    <3>6. QED BY <3>2, <3>3, <3>4, <3>5 DEF RecordInv
  <2>5. QED
    BY <1>9, <2>3, <2>4 DEF PutSite, GoTo
<1>10. CASE WriteFail(p) \/ ClearCache(p)
  <2>1. /\ s \in Slug /\ Holds(p) /\ Leave(p) /\ UNCHANGED <<site, manifests, issued, lost>>
    BY <1>10 DEF WriteFail, ClearCache, JobOK, Holds
  <2>2. Kept(s)' /\ lost \subseteq lost'
    BY <2>1 DEF RecordInv, Kept, Complete
  <2>3. QED BY <2>1, <2>2, Released
<1>11. CASE DeleteRecord(p)
  <2>1. /\ s \in Slug /\ pc[p] = "deleting" /\ lock[s] = Free /\ lock' = [lock EXCEPT ![s] = p]
        /\ pc' = [pc EXCEPT ![p] = "removing"] /\ \A q \in Handler : job'[q] = job[q]
        /\ site' = [site EXCEPT ![s] = NoSite] \/ site' = site
        /\ UNCHANGED <<manifests, issued, lost>>
    BY <1>11 DEF DeleteRecord, Enter, JobOK
  <2>2. NoSite.deploys = <<>> /\ NoSite.current = 0
    BY DEF NoSite
  <2>3. Locked' /\ Named'
    BY <2>1, NodeAssumption DEF RecordInv, Locked, Named, Holds
  <2>4. ASSUME NEW z \in Slug PROVE Kept(z)'
    <3>1. CASE site'[z] = NoSite
      BY <2>1, <2>2, <3>1, NodeAssumption DEF Kept, Complete
    <3>2. CASE site'[z] = site[z]
      BY <2>1, <3>2 DEF RecordInv, Kept, Complete
    <3>3. QED BY <2>1, <3>1, <3>2
  <2>5. ASSUME NEW q \in Handler PROVE Drafted(q)'
    <3>1. CASE q = p
      BY <2>1, <3>1 DEF Drafted
    <3>2. CASE q # p
      <4>1. Drafted(q) /\ pc'[q] = pc[q] /\ job'[q] = job[q] /\ UNCHANGED <<manifests, issued>>
        BY <2>1, <3>2 DEF RecordInv
      <4>2. Holds(q) => site'[job[q].slug] = site[job[q].slug]
        BY <2>1, NodeAssumption DEF RecordInv, Locked, Holds, JobOK
      <4>3. QED BY <4>1, <4>2 DEF Drafted, Holds
    <3>3. QED BY <3>1, <3>2
  <2>6. QED
    BY <2>3, <2>4, <2>5 DEF RecordInv
<1>12. CASE DeleteManifests(p) \/ DeleteFail(p)
  <2>1. /\ s \in Slug /\ pc[p] = "removing" /\ Holds(p) /\ UNCHANGED <<site, issued>> /\ Losing(s)
        /\ \A z \in Slug \ {s}, id \in Id : <<z, id>> \in manifests => <<z, id>> \in manifests'
    <3>1. CASE DeleteManifests(p)
      BY <3>1 DEF DeleteManifests, Holds, JobOK
    <3>2. CASE DeleteFail(p)
      BY <3>2 DEF DeleteFail, Holds, JobOK
    <3>3. QED BY <1>12, <3>1, <3>2
  <2>2. lost \subseteq lost'
    BY <2>1 DEF Losing
  <2>3. Kept(s)'
    <3>1. Kept(s) /\ site[s] \in Site
      BY <2>1 DEF RecordInv
    <3>2. \A i \in 1..Len(site[s].deploys) : site[s].deploys[i] \in Retained(s)
      <4>1. \A i \in 1..Len(site[s].deploys) : Lists(site[s].deploys, site[s].deploys[i])
        BY DEF Lists
      <4>2. QED BY <2>1, <3>1, <4>1, RetainedListed
    <3>3. \A i \in 1..Len(site[s].deploys) :
            <<s, site[s].deploys[i]>> \in manifests => \/ <<s, site[s].deploys[i]>> \in manifests'
                                                     \/ site[s].deploys[i] \in lost'
      BY <2>1, <3>2 DEF Losing
    <3>4. QED BY <2>1, <2>2, <3>1, <3>3 DEF Kept, Complete
  <2>4. CASE DeleteManifests(p)
    <3>1. /\ pc' = [pc EXCEPT ![p] = "clearing"] /\ UNCHANGED <<lock, job>>
      BY <2>4 DEF DeleteManifests, GoTo
    <3>2. Drafted(p)' /\ Holds(p)'
      BY <3>1 DEF Drafted, Holds
    <3>3. QED BY <2>1, <2>2, <2>3, <3>1, <3>2, GoesOn
  <2>5. CASE DeleteFail(p)
    BY <2>1, <2>2, <2>3, <2>5, Released DEF DeleteFail
  <2>6. QED BY <1>12, <2>4, <2>5
<1>13. QED
  BY <1>1, <1>2, <1>3, <1>4, <1>5, <1>6, <1>7, <1>8, <1>9, <1>10, <1>11, <1>12 DEF Step

\* Every step continues the histories.
LEMMA RecordStep == Typed /\ RecordInv /\ [Next]_vars => RecordInv'
<1> SUFFICES ASSUME Typed, RecordInv, [Next]_vars PROVE RecordInv'
  OBVIOUS
<1> USE DEF disk, memory, history
<1>1. ASSUME NEW p \in Handler, Request(p) \/ Step(p) PROVE RecordInv'
  BY <1>1, RequestRecord, StepRecord
<1>2. CASE UNCHANGED vars \/ Sweep \/ Restart \/ \E s \in Slug : Expire(s)
  <2>1. UNCHANGED <<site, manifests, issued, lost, lock, pc, job>>
    BY <1>2 DEF vars, Sweep, SweepStart, SweepUnread, SweepMark, MarkWith, SweepRemove, SweepEnd,
                SweepSite, SweepManifest, SweepUnindex, Restart, Expire
  <2>2. QED BY <2>1, Quiet
<1>3. CASE Crash
  <2>1. /\ UNCHANGED <<site, manifests, issued, lost>> /\ \A q \in Handler : pc'[q] = "idle"
    BY <1>3 DEF Crash
  <2>2. Locked' /\ Named'
    BY <2>1 DEF Locked, Named, Holds
  <2>3. ASSUME NEW s \in Slug PROVE Kept(s)'
    BY <2>1 DEF RecordInv, Kept, Complete
  <2>4. ASSUME NEW q \in Handler PROVE Drafted(q)'
    BY <2>1 DEF Drafted
  <2>5. QED BY <2>2, <2>3, <2>4 DEF RecordInv
<1>4. QED
  BY <1>1, <1>2, <1>3, Steps

\* Histories are always well-formed, and what is about to be saved continues them.
LEMMA AlwaysContinued == Spec => []RecordInv
<1>1. Init => RecordInv
  BY NodeAssumption DEF Init, RecordInv, Locked, Named, Holds, Kept, Complete, Drafted, NoSite
<1>2. QED
  BY <1>1, RecordStep, AlwaysTyped, PTL DEF Spec

\* "Refetch under the lock" (api.go), "the site's current pointer flips atomically"
\* (store.go): what a site retains can be read, but for the oldest deploy of a full
\* history and what a deletion lost after its removal of the record had failed.
THEOREM Readable == Spec => []RetainedReadable
<1>1. Typed /\ RecordInv => RetainedReadable
  <2> SUFFICES ASSUME Typed, RecordInv, NEW s \in Slug
               PROVE  LET ds == site[s].deploys
                      IN /\ Len(ds) <= KeepDeploys
                         /\ site[s].current \in Retained(s) \cup {0}
                         /\ \A i \in DOMAIN ds : <<s, ds[i]>> \notin manifests =>
                              ds[i] \in lost \/ (i = 1 /\ Len(ds) = KeepDeploys)
    BY DEF RetainedReadable
  <2>1. Kept(s) /\ site[s] \in Site
    BY DEF RecordInv, Typed, TypeOK
  <2>2. site[s].current \in Retained(s) \cup {0}
    BY <2>1, RetainedListed DEF Kept, Complete
  <2>3. DOMAIN site[s].deploys = 1..Len(site[s].deploys)
    <3>1. site[s].deploys \in Seq(Id)
      BY <2>1 DEF Site
    <3>2. QED BY <3>1
  <2>4. QED
    BY <2>1, <2>2, <2>3 DEF Kept, Complete
<1>2. QED
  BY <1>1, AlwaysTyped, AlwaysContinued, PTL

-----------------------------------------------------------------------------
\* Somebody has written the record of a site and still holds its lock.
Changed(s) == \E q \in Handler : job[q].slug = s /\ pc[q] \in {"clearing", "removing"}

\* What a handler that was not outrun knows of a site is so, or is being changed.
KnowsOwner(p) ==
  pc[p] = "deleting" /\ p \notin outrun =>
    \/ job[p].owner = site[job[p].slug].owner
    \/ Changed(job[p].slug) /\ site[job[p].slug].owner = Nobody
KnowsCurrent(p) ==
  pc[p] \in {"reading", "loaded"} /\ p \notin outrun =>
    job[p].id = site[job[p].slug].current \/ Changed(job[p].slug)

\* So is what the cache knows of it.
CacheKnows(s) ==
  cache[s] # 0 /\ s \notin uncleared => cache[s] = site[s].current \/ Changed(s)

KnownInv ==
  /\ \A p \in Handler : KnowsOwner(p) /\ KnowsCurrent(p)
  /\ \A s \in Slug : CacheKnows(s)

\* A site that is free, or held by somebody who has not written yet, is not changed.
LEMMA Unchanged ==
  ASSUME Typed, RecordInv, NEW s \in Slug,
         lock[s] = Free \/ \E p \in Handler : Holds(p) /\ job[p].slug = s /\ pc[p] \in {"manifest", "saving"}
  PROVE  ~Changed(s)
<1>1. CASE lock[s] = Free
  BY <1>1, NodeAssumption DEF Changed, RecordInv, Locked, Holds
<1>2. ASSUME NEW p \in Handler, Holds(p), job[p].slug = s, pc[p] \in {"manifest", "saving"} PROVE ~Changed(s)
  BY <1>2, Alone DEF Changed, Holds
<1>3. QED
  BY <1>1, <1>2

\* No record is written, no lock of a changed site given back, and whoever begins
\* to read reads the record as it is.
LEMMA Undisturbed ==
  ASSUME Typed, KnownInv, UNCHANGED site,
         \A q \in Handler : pc[q] \in {"clearing", "removing"} =>
           pc'[q] \in {"clearing", "removing"} /\ job'[q].slug = job[q].slug,
         \A q \in Handler : pc'[q] = "deleting" =>
           \/ job'[q].owner = site[job'[q].slug].owner
           \/ /\ pc[q] = "deleting" /\ job'[q].owner = job[q].owner /\ job'[q].slug = job[q].slug
              /\ q \in outrun => q \in outrun',
         \A q \in Handler : pc'[q] \in {"reading", "loaded"} =>
           \/ job'[q].id = site[job'[q].slug].current
           \/ /\ pc[q] \in {"reading", "loaded"} /\ job'[q].id = job[q].id /\ job'[q].slug = job[q].slug
              /\ q \in outrun => q \in outrun',
         \A s \in Slug : cache'[s] # 0 /\ s \notin uncleared' => cache'[s] = cache[s] /\ s \notin uncleared
  PROVE  KnownInv'
<1>1. \A s : Changed(s) => Changed(s)'
  BY DEF Changed
<1>2. ASSUME NEW q \in Handler PROVE KnowsOwner(q)' /\ KnowsCurrent(q)'
  <2>1. KnowsOwner(q) /\ KnowsCurrent(q)
    BY DEF KnownInv
  <2>2. KnowsOwner(q)'
    BY <1>1, <2>1 DEF KnowsOwner
  <2>3. KnowsCurrent(q)'
    BY <1>1, <2>1 DEF KnowsCurrent
  <2>4. QED BY <2>2, <2>3
<1>3. ASSUME NEW s \in Slug PROVE CacheKnows(s)'
  BY <1>1 DEF KnownInv, CacheKnows
<1>4. QED
  BY <1>2, <1>3 DEF KnownInv

\* A handler writes the record of a site and keeps the lock, or leaves its owner and
\* its current deploy as they were.
LEMMA WrittenKnown ==
  ASSUME Typed, RecordInv, KnownInv, NEW p \in Handler, NEW s \in Slug, s = job[p].slug,
         \A z \in Slug \ {s} : site'[z] = site[z],
         UNCHANGED <<cache, uncleared>>, \A q \in Handler \ {p} : q \in outrun => q \in outrun',
         \A q \in Handler \ {p} : pc'[q] = pc[q] /\ job'[q] = job[q],
         pc[p] \notin {"clearing", "removing"}, pc'[p] \notin {"deleting", "reading", "loaded"},
         ~Changed(s),
         \/ job'[p].slug = s /\ pc'[p] \in {"clearing", "removing"}
         \/ site'[s].current = site[s].current,
         \/ site'[s].owner = site[s].owner
         \/ site[s].owner = Nobody
         \/ site'[s].owner = Nobody /\ job'[p].slug = s /\ pc'[p] \in {"clearing", "removing"}
  PROVE  KnownInv'
<1> USE DEF Typed, TypeOK
<1>1. \A z : Changed(z) => Changed(z)'
  BY DEF Changed
<1>2. job'[p].slug = s /\ pc'[p] \in {"clearing", "removing"} => Changed(s)'
  BY DEF Changed
<1>3. ASSUME NEW q \in Handler PROVE KnowsOwner(q)'
  <2> SUFFICES ASSUME pc'[q] = "deleting", q \notin outrun'
               PROVE  \/ job'[q].owner = site'[job'[q].slug].owner
                      \/ Changed(job[q].slug)' /\ site'[job'[q].slug].owner = Nobody
    BY DEF KnowsOwner
  <2>1. q # p /\ pc[q] = "deleting" /\ q \notin outrun /\ job'[q] = job[q]
    OBVIOUS
  <2>2. job[q].slug \in Slug /\ job[q].owner \in Owner /\ KnowsOwner(q)
    BY <2>1 DEF JobOK, RecordInv, Named, KnownInv
  <2>3. CASE job[q].slug # s
    BY <1>1, <2>1, <2>2, <2>3 DEF KnowsOwner
  <2>4. CASE job[q].slug = s
    <3>1. job[q].owner = site[s].owner /\ site[s].owner # Nobody
      BY <2>1, <2>2, <2>4, NodeAssumption DEF KnowsOwner
    <3>2. QED BY <1>2, <2>1, <2>4, <3>1
  <2>5. QED BY <2>3, <2>4
<1>4. ASSUME NEW q \in Handler PROVE KnowsCurrent(q)'
  <2> SUFFICES ASSUME pc'[q] \in {"reading", "loaded"}, q \notin outrun'
               PROVE  job'[q].id = site'[job'[q].slug].current \/ Changed(job[q].slug)'
    BY DEF KnowsCurrent
  <2>1. q # p /\ pc[q] \in {"reading", "loaded"} /\ q \notin outrun /\ job'[q] = job[q]
    OBVIOUS
  <2>2. job[q].slug \in Slug /\ KnowsCurrent(q)
    BY <2>1 DEF JobOK, KnownInv
  <2>3. CASE job[q].slug # s
    BY <1>1, <2>1, <2>2, <2>3 DEF KnowsCurrent
  <2>4. CASE job[q].slug = s
    BY <1>2, <2>1, <2>2, <2>4 DEF KnowsCurrent
  <2>5. QED BY <2>3, <2>4
<1>5. ASSUME NEW z \in Slug PROVE CacheKnows(z)'
  BY <1>1, <1>2 DEF KnownInv, CacheKnows
<1>6. QED
  BY <1>3, <1>4, <1>5 DEF KnownInv

\* The lock of a changed site is given back: who has read it before is outrun, and
\* what is cached of it, if anything, is not trusted.
LEMMA EndedKnown ==
  ASSUME Typed, KnownInv, NEW p \in Handler, NEW s \in Slug, s = job[p].slug, UNCHANGED site,
         pc'[p] = "idle", \A q \in Handler \ {p} : pc'[q] = pc[q] /\ job'[q] = job[q],
         pc[p] \in {"clearing", "removing"},
         outrun' = outrun \cup Readers(s), cache'[s] = 0 \/ s \in uncleared',
         \A z \in Slug \ {s} : cache'[z] = cache[z] /\ (z \in uncleared => z \in uncleared')
  PROVE  KnownInv'
<1>1. \A z : z # s /\ Changed(z) => Changed(z)'
  BY DEF Changed
<1>2. ASSUME NEW q \in Handler PROVE KnowsOwner(q)' /\ KnowsCurrent(q)'
  <2>1. CASE q = p
    BY <2>1 DEF KnowsOwner, KnowsCurrent
  <2>2. CASE q # p
    <3>1. KnowsOwner(q) /\ KnowsCurrent(q) /\ pc'[q] = pc[q] /\ job'[q] = job[q]
      BY <2>2 DEF KnownInv
    <3>2. pc[q] \in {"deleting", "reading", "loaded"} /\ q \notin outrun' => job[q].slug # s
      BY DEF Readers
    <3>3. KnowsOwner(q)'
      BY <1>1, <3>1, <3>2 DEF KnowsOwner
    <3>4. KnowsCurrent(q)'
      BY <1>1, <3>1, <3>2 DEF KnowsCurrent
    <3>5. QED BY <3>3, <3>4
  <2>3. QED BY <2>1, <2>2
<1>3. ASSUME NEW z \in Slug PROVE CacheKnows(z)'
  BY <1>1 DEF KnownInv, CacheKnows
<1>4. QED
  BY <1>2, <1>3 DEF KnownInv

\* A request begins by reading the record as it is.
LEMMA RequestKnown ==
  ASSUME Typed, KnownInv, NEW p \in Handler, Request(p)
  PROVE  KnownInv'
<1>0. \A s \in Slug : NewJob("serve", Nobody, s) \in Job /\ NewJob("serve", Nobody, s).slug = s
  BY NewJobs DEF Op
<1> USE DEF Typed, TypeOK, disk, memory, history
<1>1. PICK s \in Slug : \/ ServeSite(p, s)
                        \/ \E o \in Owner : \/ Claim(p, s, o) \/ DeleteStart(p, s, o)
                                            \/ \E files \in Bundle : DeployStart(p, s, o, files)
                                            \/ \E id \in Id : Rollback(p, s, o, id)
  BY DEF Request
<1>2. pc[p] = "idle"
  BY DEF Request
<1>3. CASE ServeSite(p, s)
  <2>1. NewJob("serve", Nobody, s) \in Job /\ NewJob("serve", Nobody, s).slug = s
    BY <1>0
  <2>2. pc'[p] = "reading" /\ job'[p].slug = s /\ job'[p].id = site[s].current
    BY <1>3, <2>1 DEF ServeSite, Job
  <2>3. QED BY <1>2, <1>3, <2>2, Undisturbed DEF ServeSite
<1>4. ASSUME NEW o \in Owner, DeleteStart(p, s, o) PROVE KnownInv'
  <2>1. NewJob("delete", o, s).owner = o /\ NewJob("delete", o, s).slug = s
    BY NewJobs DEF Op
  <2>2. pc'[p] = "deleting" /\ job'[p].slug = s /\ job'[p].owner = site[s].owner
    BY <1>4, <2>1 DEF DeleteStart
  <2>3. QED BY <1>2, <1>4, <2>2, Undisturbed DEF DeleteStart
<1>5. ASSUME NEW o \in Owner, Claim(p, s, o) PROVE KnownInv'
  BY <1>2, <1>5, Undisturbed DEF Claim, Enter
<1>6. ASSUME NEW o \in Owner, NEW files \in Bundle, DeployStart(p, s, o, files) PROVE KnownInv'
  BY <1>2, <1>6, Undisturbed DEF DeployStart
<1>7. ASSUME NEW o \in Owner, NEW id \in Id, Rollback(p, s, o, id) PROVE KnownInv'
  BY <1>2, <1>7, Undisturbed DEF Rollback, Enter
<1>8. QED
  BY <1>1, <1>3, <1>4, <1>5, <1>6, <1>7

\* What a step of a handler leaves of the knowledge is true.
LEMMA StepKnown ==
  ASSUME Typed, RecordInv, KnownInv, NEW p \in Handler, Step(p)
  PROVE  KnownInv'
<1> USE DEF disk, memory, history
<1>1. ASSUME NEW x \in Object, StoreKnown(p, x) \/ StoreFile(p, x) PROVE KnownInv'
  <2>1. /\ pc[p] = "storing" /\ pc'[p] \in {"storing", "indexing"} /\ UNCHANGED <<site, cache, outrun, uncleared>>
        /\ \A q \in Handler \ {p} : pc'[q] = pc[q] /\ job'[q] = job[q]
    BY <1>1 DEF StoreKnown, StoreFile, Typed, TypeOK
  <2>2. QED BY <2>1, Undisturbed
<1>2. CASE StoreIndex(p) \/ DeployFail(p) \/ Commit(p) \/ PutDeploy(p) \/ WriteFail(p)
  <2>1. /\ pc[p] \in {"storing", "indexing", "manifest", "saving"}
        /\ pc'[p] \in {"idle", "storing", "manifest", "saving"} /\ UNCHANGED <<site, cache, outrun, uncleared>>
        /\ \A q \in Handler \ {p} : pc'[q] = pc[q] /\ job'[q] = job[q]
    <3>1. CASE StoreIndex(p)
      BY <3>1 DEF StoreIndex, Typed, TypeOK
    <3>2. CASE DeployFail(p)
      BY <3>2 DEF DeployFail, Finish, Typed, TypeOK
    <3>3. CASE Commit(p)
      BY <3>3 DEF Commit, Enter, Typed, TypeOK
    <3>4. CASE PutDeploy(p)
      BY <3>4 DEF PutDeploy, GoTo, Typed, TypeOK
    <3>5. CASE WriteFail(p)
      BY <3>5 DEF WriteFail, Leave, Finish, Typed, TypeOK
    <3>6. QED BY <1>2, <3>1, <3>2, <3>3, <3>4, <3>5
  <2>2. QED BY <2>1, Undisturbed
<1>3. CASE Prune(p)
  <2>1. /\ pc[p] = "saving" /\ UNCHANGED <<pc, site, cache, outrun, uncleared>>
        /\ \A q \in Handler \ {p} : job'[q] = job[q]
    BY <1>3 DEF Prune, Typed, TypeOK
  <2>2. QED BY <2>1, Undisturbed
<1>4. CASE DeleteManifests(p)
  <2>1. /\ pc[p] = "removing" /\ pc'[p] = "clearing" /\ UNCHANGED <<job, site, cache, outrun, uncleared>>
        /\ \A q \in Handler \ {p} : pc'[q] = pc[q]
    BY <1>4 DEF DeleteManifests, GoTo, Typed, TypeOK
  <2>2. QED BY <2>1, Undisturbed
<1>5. CASE ServeDeploy(p)
  <2>1. /\ pc[p] = "reading" /\ UNCHANGED <<site, cache, uncleared>>
        /\ \A q \in Handler \ {p} : pc'[q] = pc[q] /\ job'[q] = job[q] /\ (q \in outrun => q \in outrun')
        /\ \/ pc'[p] = "loaded" /\ job'[p] = job[p] /\ UNCHANGED outrun
           \/ pc'[p] = "idle"
    BY <1>5 DEF ServeDeploy, GoTo, Finish, Typed, TypeOK
  <2>2. QED BY <2>1, Undisturbed
<1> PICK s : s = job[p].slug
  OBVIOUS
<1>6. CASE ServeCache(p)
  <2>1. /\ pc[p] = "loaded" /\ s \in Slug /\ UNCHANGED site /\ cache' = [cache EXCEPT ![s] = job[p].id]
        /\ pc'[p] = "idle" /\ outrun' = outrun \ {p}
        /\ \A q \in Handler \ {p} : pc'[q] = pc[q] /\ job'[q] = job[q]
        /\ uncleared' = IF p \in outrun THEN uncleared \cup {s} ELSE uncleared \ {s}
    BY <1>6 DEF ServeCache, Finish, Typed, TypeOK, JobOK
  <2>2. \A z : Changed(z) => Changed(z)'
    BY <2>1 DEF Changed
  <2>3. ASSUME NEW q \in Handler PROVE KnowsOwner(q)' /\ KnowsCurrent(q)'
    <3>1. CASE q = p
      BY <2>1, <3>1 DEF KnowsOwner, KnowsCurrent
    <3>2. CASE q # p
      <4>1. /\ KnowsOwner(q) /\ KnowsCurrent(q) /\ pc'[q] = pc[q] /\ job'[q] = job[q]
            /\ (q \in outrun <=> q \in outrun') /\ UNCHANGED site
        BY <2>1, <3>2 DEF KnownInv
      <4>2. QED BY <2>2, <4>1 DEF KnowsOwner, KnowsCurrent
    <3>3. QED BY <3>1, <3>2
  <2>4. ASSUME NEW z \in Slug PROVE CacheKnows(z)'
    <3>1. CASE z = s
      <4>1. p \notin outrun => job[p].id = site[s].current \/ Changed(s)
        BY <2>1 DEF KnownInv, KnowsCurrent
      <4>2. cache'[s] = job[p].id
        BY <2>1 DEF Typed, TypeOK
      <4>3. QED BY <2>1, <2>2, <3>1, <4>1, <4>2 DEF CacheKnows
    <3>2. CASE z # s
      BY <2>1, <2>2, <3>2 DEF KnownInv, CacheKnows, Typed, TypeOK
    <3>3. QED BY <3>1, <3>2
  <2>5. QED BY <2>3, <2>4 DEF KnownInv
<1>7. CASE PutSite(p)
  <2>1. /\ pc[p] = "saving" /\ s \in Slug /\ Holds(p) /\ UNCHANGED <<cache, outrun, uncleared>>
        /\ site' = [site EXCEPT ![s] = job[p].rec]
        /\ \A q \in Handler \ {p} : pc'[q] = pc[q] /\ job'[q] = job[q]
        /\ \/ job[p].op = "claim" /\ pc'[p] = "idle"
           \/ job[p].op # "claim" /\ pc'[p] = "clearing" /\ job'[p] = job[p]
    BY <1>7 DEF PutSite, Leave, Finish, GoTo, Holds, Typed, TypeOK, JobOK
  <2>2. Drafted(p) /\ ~Changed(s)
    BY <2>1, Unchanged DEF RecordInv
  <2>3. site'[s] = job[p].rec /\ \A z \in Slug \ {s} : site'[z] = site[z]
    BY <2>1 DEF Typed, TypeOK
  <2>4. /\ site'[s].owner = site[s].owner \/ site[s].owner = Nobody
        /\ job[p].op = "claim" => site'[s].current = site[s].current
    BY <2>1, <2>2, <2>3 DEF Drafted
  <2>5. QED
    BY <2>1, <2>2, <2>3, <2>4, WrittenKnown
<1>8. CASE DeleteRecord(p)
  <2>1. /\ pc[p] = "deleting" /\ s \in Slug /\ lock[s] = Free /\ UNCHANGED <<cache, uncleared>>
        /\ site' = [site EXCEPT ![s] = NoSite] \/ site' = site
        /\ outrun' = outrun \ {p}
        /\ \A q \in Handler \ {p} : pc'[q] = pc[q] /\ job'[q] = job[q]
        /\ pc'[p] = "removing" /\ job'[p].slug = s
    BY <1>8 DEF DeleteRecord, Enter, Typed, TypeOK, JobOK
  <2>2. ~Changed(s)
    BY <2>1, Unchanged
  <2>3. site'[s].owner \in {Nobody, site[s].owner} /\ \A z \in Slug \ {s} : site'[z] = site[z]
    BY <2>1 DEF Typed, TypeOK, NoSite
  <2>4. QED
    BY <2>1, <2>2, <2>3, WrittenKnown
<1>9. CASE ClearCache(p) \/ DeleteFail(p)
  <2>1. /\ pc[p] \in {"clearing", "removing"} /\ s \in Slug /\ UNCHANGED site /\ pc'[p] = "idle"
        /\ \A q \in Handler \ {p} : pc'[q] = pc[q] /\ job'[q] = job[q]
        /\ outrun' = outrun \cup Readers(s)
    BY <1>9 DEF ClearCache, DeleteFail, Leave, Finish, Typed, TypeOK, JobOK
  <2>2. /\ cache'[s] = 0 \/ s \in uncleared'
        /\ \A z \in Slug \ {s} : cache'[z] = cache[z] /\ (z \in uncleared => z \in uncleared')
    <3>1. CASE ClearCache(p)
      BY <2>1, <3>1 DEF ClearCache, Typed, TypeOK
    <3>2. CASE DeleteFail(p)
      BY <3>2 DEF DeleteFail
    <3>3. QED BY <1>9, <3>1, <3>2
  <2>3. QED
    BY <2>1, <2>2, EndedKnown
<1>10. QED
  BY <1>1, <1>2, <1>3, <1>4, <1>5, <1>6, <1>7, <1>8, <1>9 DEF Step

\* Every step keeps the knowledge true.
LEMMA KnownStep == Typed /\ RecordInv /\ KnownInv /\ [Next]_vars => KnownInv'
<1> SUFFICES ASSUME Typed, RecordInv, KnownInv, [Next]_vars PROVE KnownInv'
  OBVIOUS
<1> USE DEF disk, memory, history
<1>1. ASSUME NEW p \in Handler, Request(p) \/ Step(p) PROVE KnownInv'
  BY <1>1, RequestKnown, StepKnown
<1>2. CASE UNCHANGED vars \/ Sweep \/ Restart
  <2>1. UNCHANGED <<site, cache, pc, job, outrun, uncleared>>
    BY <1>2 DEF vars, Sweep, SweepStart, SweepUnread, SweepMark, MarkWith, SweepRemove, SweepEnd,
                SweepSite, SweepManifest, SweepUnindex, Restart
  <2>2. QED BY <2>1, Undisturbed
<1>3. ASSUME NEW s \in Slug, Expire(s) PROVE KnownInv'
  <2>1. /\ UNCHANGED <<site, pc, job, outrun>> /\ cache' = [cache EXCEPT ![s] = 0] /\ uncleared' = uncleared \ {s}
    BY <1>3 DEF Expire
  <2>2. \A z \in Slug : cache'[z] # 0 /\ z \notin uncleared' => cache'[z] = cache[z] /\ z \notin uncleared
    BY <2>1 DEF Typed, TypeOK
  <2>3. QED BY <2>1, <2>2, Undisturbed
<1>4. CASE Crash
  BY <1>4 DEF Crash, KnownInv, KnowsOwner, KnowsCurrent, CacheKnows
<1>5. QED
  BY <1>1, <1>2, <1>3, <1>4, Steps

\* What handlers and cache know of a site is always so, or is being changed.
LEMMA AlwaysKnown == Spec => []KnownInv
<1>1. Init => KnownInv
  BY DEF Init, KnownInv, KnowsOwner, KnowsCurrent, CacheKnows
<1>2. QED
  BY <1>1, KnownStep, AlwaysTyped, AlwaysContinued, PTL DEF Spec

\* "TTL cache that bounds staleness" (serve.go): what is cached is the current deploy
\* of a site that nobody writes, but for what an outrun reader has put there.
THEOREM CacheTrue == Spec => []CacheCurrent
<1>1. Typed /\ RecordInv /\ KnownInv => CacheCurrent
  <2> SUFFICES ASSUME Typed, RecordInv, KnownInv, NEW s \in Slug, lock[s] = Free, cache[s] # 0, s \notin uncleared
               PROVE  cache[s] = site[s].current
    BY DEF CacheCurrent
  <2>1. ~Changed(s)
    BY Unchanged
  <2>2. QED BY <2>1 DEF KnownInv, CacheKnows
<1>2. QED
  BY <1>1, AlwaysTyped, AlwaysContinued, AlwaysKnown, PTL

\* The sweeper touches neither records nor manifests nor requests.
LEMMA SweepAside ==
  ASSUME Sweep
  PROVE  UNCHANGED <<site, content, issued, pc, job>>
<1> USE DEF disk, memory, history
<1>1. SweepStart \/ SweepUnread \/ SweepMark \/ SweepRemove \/ SweepEnd
      => UNCHANGED <<site, content, issued, pc, job>>
  BY DEF SweepStart, SweepUnread, SweepMark, MarkWith, SweepRemove, SweepEnd
<1>2. ASSUME NEW s \in Slug, SweepSite(s) PROVE UNCHANGED <<site, content, issued, pc, job>>
  BY <1>2 DEF SweepSite
<1>3. ASSUME NEW m \in Slug \X Id, SweepManifest(m) PROVE UNCHANGED <<site, content, issued, pc, job>>
  BY <1>3 DEF SweepManifest
<1>4. ASSUME NEW x \in Object, SweepUnindex(x) PROVE UNCHANGED <<site, content, issued, pc, job>>
  BY <1>4 DEF SweepUnindex
<1>5. QED
  BY <1>1, <1>2, <1>3, <1>4 DEF Sweep

\* Two steps write records: a saved one is put in place, a deleted one is removed.
LEMMA Writers ==
  ASSUME [Next]_vars
  PROVE  UNCHANGED site \/ \E p \in Handler : PutSite(p) \/ DeleteRecord(p)
<1> USE DEF disk
<1>1. ASSUME NEW p \in Handler, Step(p), ~PutSite(p), ~DeleteRecord(p) PROVE UNCHANGED site
  BY <1>1 DEF Step, StoreKnown, StoreFile, StoreIndex, DeployFail, Commit, PutDeploy, Prune, WriteFail,
              ClearCache, DeleteManifests, DeleteFail, ServeDeploy, ServeCache
<1>2. ASSUME NEW p \in Handler, Request(p) PROVE UNCHANGED site
  <2>1. \A s \in Slug : ServeSite(p, s) => UNCHANGED site
    BY DEF ServeSite
  <2>2. \A s \in Slug, o \in Owner : Claim(p, s, o) \/ DeleteStart(p, s, o) => UNCHANGED site
    BY DEF Claim, DeleteStart
  <2>3. \A s \in Slug, o \in Owner, files \in Bundle : DeployStart(p, s, o, files) => UNCHANGED site
    BY DEF DeployStart
  <2>4. \A s \in Slug, o \in Owner, id \in Id : Rollback(p, s, o, id) => UNCHANGED site
    BY DEF Rollback
  <2>5. QED BY <1>2, <2>1, <2>2, <2>3, <2>4 DEF Request
<1>3. Crash \/ Restart \/ (\E s \in Slug : Expire(s)) => UNCHANGED site
  BY DEF Crash, Restart, Expire
<1>4. CASE UNCHANGED vars
  BY <1>4 DEF vars
<1>5. QED
  BY <1>1, <1>2, <1>3, <1>4, SweepAside, Steps

\* "Slug already claimed" (api.go): a site changes owner by a deletion alone, of its
\* owner or of somebody who was its owner when the deletion looked, and was outrun.
THEOREM ClaimsKept == Spec => ClaimsStick
<1> DEFINE Stick ==
      \A s \in Slug :
        (Claimed(s) /\ site'[s].owner # site[s].owner) =>
          /\ site'[s] = NoSite
          /\ \E p \in Handler : /\ pc[p] = "deleting" /\ pc'[p] = "removing" /\ job[p].slug = s
                                /\ job[p].owner = site[s].owner \/ p \in outrun
<1>1. Typed /\ RecordInv /\ KnownInv /\ [Next]_vars => [Stick]_vars
  <2> SUFFICES ASSUME Typed, RecordInv, KnownInv, Next PROVE Stick
    OBVIOUS
  <2> USE DEF disk, memory, history
  <2>1. ASSUME NEW p \in Handler, PutSite(p) PROVE Stick
    <3>1. /\ pc[p] = "saving" /\ job[p].slug \in Slug /\ site' = [site EXCEPT ![job[p].slug] = job[p].rec]
      BY <2>1 DEF PutSite, Typed, JobOK
    <3>2. \A s \in Slug : Claimed(s) => site'[s].owner = site[s].owner
      BY <3>1 DEF RecordInv, Drafted, Claimed, Typed, TypeOK
    <3>3. QED BY <3>2
  <2>2. ASSUME NEW p \in Handler, DeleteRecord(p) PROVE Stick
    <3>1. PICK s \in Slug : s = job[p].slug
      BY <2>2 DEF DeleteRecord, Typed, JobOK
    <3>2. /\ pc[p] = "deleting" /\ pc'[p] = "removing" /\ lock[s] = Free
          /\ site'[s] = NoSite \/ site'[s] = site[s]
          /\ \A z \in Slug \ {s} : site'[z] = site[z]
      BY <2>2, <3>1 DEF DeleteRecord, Enter, Typed, TypeOK
    <3>3. job[p].owner = site[s].owner \/ p \in outrun
      BY <3>1, <3>2, Unchanged DEF KnownInv, KnowsOwner
    <3>4. QED BY <3>1, <3>2, <3>3
  <2>3. CASE UNCHANGED site
    BY <2>3
  <2> HIDE DEF Stick
  <2>4. QED
    BY <2>1, <2>2, <2>3, Writers
<1>2. QED
  BY <1>1, AlwaysTyped, AlwaysContinued, AlwaysKnown, PTL DEF Spec, ClaimsStick

-----------------------------------------------------------------------------
\* A pass overlaps every deploy in flight.
Overlaps == sweep.stage # "idle" => \A p \in Handler : InFlight(p) => p \in overlapped

\* The ids of pending deploys are new and nobody else's, and their manifests, once
\* written, list what was uploaded.
PendingIds ==
  /\ \A i \in clean : i <= issued
  /\ \A p \in Handler : Pending(p) => job[p].id <= issued /\ job[p].id \notin clean
  /\ \A p, q \in Handler : Pending(p) /\ Pending(q) /\ p # q => job[p].id # job[q].id
  /\ \A p \in Handler : Pending(p) /\ pc[p] = "saving" => content[job[p].id] = job[p].files

\* What a deploy that no pass overlapped has stored so far is there and indexed.
Uploaded ==
  \A p \in Handler :
    /\ Pending(p) => job[p].todo = {}
    /\ InFlight(p) /\ pc[p] # "indexing" => job[p].putting = {}
    /\ InFlight(p) /\ p \notin overlapped =>
         /\ job[p].files \ (job[p].todo \cup job[p].putting) \subseteq stored \cap indexed
         /\ job[p].putting \subseteq stored

\* The objects of a deploy are on disk, indexed, and not about to be deleted - nor to
\* be marked, or even marked, if no file went unread.
Safe(id) ==
  /\ content[id] \subseteq stored
  /\ up => content[id] \subseteq indexed
  /\ sweep.stage \in {"deleting", "removing"} =>
       sweep.dead \cap content[id] = {} /\ (faults = 0 => sweep.fresh \cap content[id] = {})
  /\ sweep.stage = "removing" => sweep.gone \cap content[id] = {}
  /\ sweep.stage \in {"idle", "reading"} /\ faults = 0 /\ id \in unmarked => marked \cap content[id] = {}

\* A pass has still to read about the deploy, or has found its objects - or it does
\* not matter, for none of them is marked.
Covered(s, id) ==
  sweep.stage = "reading" =>
    \/ s \in sweep.sites \/ <<s, id>> \in sweep.ids \/ content[id] \subseteq sweep.refs
    \/ faults = 1 /\ marked \cap content[id] = {}

\* The deploys CleanIntact is about.
Good(s, id) ==
  /\ Lists(site[s].deploys, id) /\ id \in clean /\ <<s, id>> \in manifests
  /\ faults = 0 \/ (faults = 1 /\ id \in unmarked)

AllIntact == \A s \in Slug, id \in Id : Good(s, id) => Safe(id) /\ Covered(s, id)

IntactInv == Overlaps /\ PendingIds /\ Uploaded /\ AllIntact

\* What one handler does, seen from the others: it takes nothing off the disk or out
\* of the index, and no id but its own.
LEMMA Elsewhere ==
  ASSUME Typed, IntactInv, NEW p \in Handler, UNCHANGED sweep,
         \A q \in Handler \ {p} : /\ pc'[q] = pc[q] /\ job'[q] = job[q]
                                  /\ q \in overlapped' <=> q \in overlapped
                                  /\ Pending(q) => content'[job[q].id] = content[job[q].id],
         stored \subseteq stored', indexed \subseteq indexed', issued' \in {issued, issued + 1},
         clean' = clean \/ (Pending(p) /\ clean' = clean \cup {job[p].id} /\ ~InFlight(p)'),
         InFlight(p)' /\ sweep.stage # "idle" => p \in overlapped',
         Pending(p)' =>
           /\ job'[p].id <= issued' /\ job'[p].id \notin clean' /\ job'[p].todo = {}
           /\ \A q \in Handler \ {p} : Pending(q) => job[q].id # job'[p].id
           /\ pc'[p] = "saving" => content'[job'[p].id] = job'[p].files,
         InFlight(p)' /\ pc'[p] # "indexing" => job'[p].putting = {},
         InFlight(p)' /\ p \notin overlapped' =>
           /\ job'[p].files \ (job'[p].todo \cup job'[p].putting) \subseteq stored' \cap indexed'
           /\ job'[p].putting \subseteq stored'
  PROVE  Overlaps' /\ PendingIds' /\ Uploaded'
<1> USE DEF InFlight, Pending
<1>1. Overlaps'
  BY DEF IntactInv, Overlaps
<1>2. Uploaded'
  <2> SUFFICES ASSUME NEW q \in Handler
               PROVE  /\ Pending(q)' => job'[q].todo = {}
                      /\ InFlight(q)' /\ pc'[q] # "indexing" => job'[q].putting = {}
                      /\ InFlight(q)' /\ q \notin overlapped' =>
                           /\ job'[q].files \ (job'[q].todo \cup job'[q].putting) \subseteq stored' \cap indexed'
                           /\ job'[q].putting \subseteq stored'
    BY DEF Uploaded
  <2>1. CASE q = p
    BY <2>1
  <2>2. CASE q # p
    BY <2>2 DEF IntactInv, Uploaded
  <2>3. QED BY <2>1, <2>2
<1>3. issued \in Nat /\ issued <= issued' /\ clean \subseteq Nat /\ \A q \in Handler : Pending(q) => job[q].id \in Nat
  BY NodeAssumption DEF Typed, TypeOK, JobOK, Id
<1>4. PendingIds'
  <2>1. \A i \in clean' : i <= issued'
    <3>1. \A i \in clean : i \in Nat /\ i <= issued
      BY <1>3 DEF IntactInv, PendingIds
    <3>2. Pending(p) => job[p].id \in Nat /\ job[p].id <= issued
      BY <1>3 DEF IntactInv, PendingIds
    <3>3. ASSUME NEW i \in clean' PROVE i \in Nat /\ i <= issued
      BY <3>1, <3>2 DEF Pending
    <3>4. QED BY <1>3, <3>3
  <2>2. ASSUME NEW q \in Handler, Pending(q)'
        PROVE  /\ job'[q].id <= issued' /\ job'[q].id \notin clean'
               /\ pc'[q] = "saving" => content'[job'[q].id] = job'[q].files
    <3>1. CASE q = p
      BY <2>2, <3>1
    <3>2. CASE q # p
      BY <1>3, <2>2, <3>2 DEF IntactInv, PendingIds
    <3>3. QED BY <3>1, <3>2
  <2>3. ASSUME NEW q \in Handler, NEW r \in Handler, Pending(q)', Pending(r)', q # r
        PROVE  job'[q].id # job'[r].id
    BY <2>3 DEF IntactInv, PendingIds
  <2>4. QED
    BY <2>1, <2>2, <2>3 DEF PendingIds
<1>5. QED
  BY <1>1, <1>2, <1>4

\* A deploy that was intact stays so while handlers work.
LEMMA StaysIntact ==
  ASSUME Typed, IntactInv, NEW s \in Slug, NEW id \in Id, Good(s, id), Good(s, id)',
         UNCHANGED <<sweep, marked, up>>, stored \subseteq stored', indexed \subseteq indexed',
         faults' \in {faults, faults + 1}, content'[id] = content[id],
         id \in unmarked' => id \in unmarked
  PROVE  Safe(id)' /\ Covered(s, id)'
<1>1. Safe(id) /\ Covered(s, id) /\ faults \in Nat
  BY DEF IntactInv, AllIntact, Typed, TypeOK
<1>2. Safe(id)'
  <2>1. content'[id] \subseteq stored' /\ (up' => content'[id] \subseteq indexed')
    BY <1>1 DEF Safe
  <2>2. faults' = 0 => faults = 0
    BY <1>1
  <2>3. QED BY <1>1, <2>1, <2>2 DEF Safe
<1>3. Covered(s, id)'
  <2>1. faults' = faults \/ (faults = 0 /\ faults' = 1)
    BY <1>1 DEF Good
  <2>2. QED BY <1>1, <2>1 DEF Covered
<1>4. QED
  BY <1>2, <1>3

\* No deploy comes to be one CleanIntact is about, and none changes.
LEMMA NoneNew ==
  ASSUME Typed, IntactInv,
         UNCHANGED <<sweep, marked, up, site, content, clean, unmarked>>, manifests' \subseteq manifests,
         stored \subseteq stored', indexed \subseteq indexed', faults' \in {faults, faults + 1}
  PROVE  AllIntact'
<1> SUFFICES ASSUME NEW s \in Slug, NEW id \in Id, Good(s, id)' PROVE Safe(id)' /\ Covered(s, id)'
  BY DEF AllIntact
<1>1. faults \in Nat
  BY DEF Typed, TypeOK
<1>2. Good(s, id)
  BY <1>1 DEF Good
<1>3. QED
  BY <1>2, StaysIntact

\* A request that begins disturbs no deploy.
LEMMA RequestIntact ==
  ASSUME Typed, IntactInv, NEW p \in Handler, Request(p)
  PROVE  IntactInv'
<1>0. \A s \in Slug, o \in Owner : /\ NewJob("claim", o, s) \in Job /\ NewJob("claim", o, s).op = "claim"
                                   /\ NewJob("rollback", o, s) \in Job /\ NewJob("rollback", o, s).op = "rollback"
                                   /\ NewJob("deploy", o, s) \in Job /\ NewJob("deploy", o, s).op = "deploy"
  BY NewJobs DEF Op
<1> USE DEF disk, memory, history
<1>1. PICK s \in Slug : \/ ServeSite(p, s)
                        \/ \E o \in Owner : \/ Claim(p, s, o) \/ DeleteStart(p, s, o)
                                            \/ \E files \in Bundle : DeployStart(p, s, o, files)
                                            \/ \E id \in Id : Rollback(p, s, o, id)
  BY DEF Request
<1> DEFINE Same == /\ UNCHANGED <<sweep, marked, up, site, content, clean, unmarked, manifests, issued, stored, indexed, faults>>
                   /\ \A q \in Handler \ {p} : /\ pc'[q] = pc[q] /\ job'[q] = job[q]
                                               /\ q \in overlapped' <=> q \in overlapped
<1>2. ASSUME Same, ~InFlight(p)' PROVE IntactInv'
  <2>1. Overlaps' /\ PendingIds' /\ Uploaded'
    BY <1>2, Elsewhere DEF InFlight, Pending
  <2>2. QED BY <1>2, <2>1, NoneNew DEF IntactInv
<1>3. CASE ServeSite(p, s)
  <2>1. Same /\ pc'[p] = "reading"
    BY <1>3 DEF ServeSite, Typed, TypeOK
  <2>2. QED BY <1>2, <2>1 DEF InFlight
<1>4. ASSUME NEW o \in Owner, DeleteStart(p, s, o) PROVE IntactInv'
  <2>1. Same /\ pc'[p] = "deleting"
    BY <1>4 DEF DeleteStart, Typed, TypeOK
  <2>2. QED BY <1>2, <2>1 DEF InFlight
<1>5. ASSUME NEW o \in Owner, Claim(p, s, o) PROVE IntactInv'
  <2>1. Same
    BY <1>5 DEF Claim, Enter, Typed, TypeOK
  <2>2. job'[p].op = "claim"
    <3> DEFINE rec == IF Claimed(s) THEN site[s] ELSE [NoSite EXCEPT !.owner = o]
    <3>1. job' = [job EXCEPT ![p] = [NewJob("claim", o, s) EXCEPT !.rec = rec]]
      BY <1>5 DEF Claim, Enter
    <3> HIDE DEF rec
    <3>2. QED BY <1>0, <3>1 DEF Typed, TypeOK, Job
  <2>3. QED BY <1>2, <2>1, <2>2 DEF InFlight
<1>6. ASSUME NEW o \in Owner, NEW id \in Id, Rollback(p, s, o, id) PROVE IntactInv'
  <2>1. Same
    BY <1>6 DEF Rollback, Enter, Typed, TypeOK
  <2>2. job'[p].op = "rollback"
    <3> DEFINE rec == [site[s] EXCEPT !.current = id]
    <3>1. job' = [job EXCEPT ![p] = [NewJob("rollback", o, s) EXCEPT !.id = id, !.rec = rec]]
      BY <1>6 DEF Rollback, Enter
    <3> HIDE DEF rec
    <3>2. QED BY <1>0, <3>1 DEF Typed, TypeOK, Job
  <2>3. QED BY <1>2, <2>1, <2>2 DEF InFlight
<1>7. ASSUME NEW o \in Owner, NEW files \in Bundle, DeployStart(p, s, o, files) PROVE IntactInv'
  <2>1. Same
    BY <1>7 DEF DeployStart, Typed, TypeOK
  <2>2. /\ job'[p].files = files /\ job'[p].todo = files /\ job'[p].putting = {} /\ pc'[p] = "storing"
        /\ sweep.stage # "idle" => p \in overlapped'
    <3>1. NewJob("deploy", o, s).putting = {}
      BY DEF NewJob, NoJob
    <3>2. QED BY <1>0, <1>7, <3>1 DEF DeployStart, Typed, TypeOK, Job
  <2>3. Overlaps' /\ PendingIds' /\ Uploaded'
    BY <2>1, <2>2, Elsewhere DEF InFlight, Pending
  <2>4. QED BY <2>1, <2>3, NoneNew DEF IntactInv
<1> HIDE DEF Same
<1>8. QED
  BY <1>1, <1>3, <1>4, <1>5, <1>6, <1>7

\* What a deploy has been through by the time it is saved: it is intact.
LEMMA SavedIntact ==
  ASSUME Typed, IntactInv, NEW p \in Handler, PutSite(p), job[p].op = "deploy", p \notin overlapped,
         NEW s \in Slug, NEW id \in Id, id = job[p].id
  PROVE  Safe(id)' /\ Covered(s, id)'
<1>1. PICK files : files = job[p].files
  OBVIOUS
<1>2. InFlight(p) /\ Pending(p) /\ pc[p] = "saving"
  BY DEF PutSite, InFlight, Pending
<1>3. sweep.stage = "idle"
  BY <1>2 DEF IntactInv, Overlaps
<1>4. content[id] = files /\ files \subseteq stored /\ files \subseteq indexed /\ id \notin clean
  BY <1>1, <1>2 DEF IntactInv, PendingIds, Uploaded
<1>5. /\ UNCHANGED <<content, stored, indexed, marked, sweep, up, faults>> /\ clean' = clean \cup {id}
      /\ unmarked' = IF files \cap marked = {} THEN unmarked \cup (clean' \ clean) ELSE unmarked
  BY <1>1 DEF PutSite
<1>6. id \in unmarked' => files \cap marked = {}
  BY <1>4, <1>5 DEF Typed, TypeOK
<1>7. QED
  BY <1>1, <1>3, <1>4, <1>5, <1>6 DEF Safe, Covered

\* A history with one deploy more lists what it listed, and that one.
LEMMA LongerLists ==
  ASSUME NEW ds \in Seq(Id), NEW new, NEW last \in Id, Longer(ds, new, last), NEW id, Lists(new, id)
  PROVE  Lists(ds, id) \/ id = last
<1>1. Grown(ds, new, last)
  BY LongerGrown
<1>2. /\ Len(new) \in {Len(ds), Len(ds) + 1} /\ Len(new) >= 1 /\ new[Len(new)] = last
      /\ \A k \in 1..(Len(new) - 1) : new[k] = ds[k + (Len(ds) + 1 - Len(new))]
  BY <1>1, NewHistory
<1>3. PICK k \in 1..Len(new) : new[k] = id
  BY DEF Lists
<1>4. CASE k = Len(new)
  BY <1>2, <1>3, <1>4
<1>5. CASE k # Len(new)
  <2>1. /\ k \in 1..(Len(new) - 1) /\ k + (Len(ds) + 1 - Len(new)) \in 1..Len(ds)
    BY <1>2, <1>3, <1>5
  <2>2. ds[k + (Len(ds) + 1 - Len(new))] = id
    BY <1>2, <1>3, <2>1
  <2>3. QED BY <2>1, <2>2 DEF Lists
<1>6. QED
  BY <1>4, <1>5

\* The deploys a site lists once its record was replaced were listed before, or are
\* the one deploy the record was replaced for.
LEMMA ListedSince ==
  ASSUME Typed, RecordInv, NEW p \in Handler, PutSite(p), NEW s \in Slug, NEW id \in Id,
         Lists(site'[s].deploys, id)
  PROVE  Lists(site[s].deploys, id) \/ (job[p].op = "deploy" /\ id = job[p].id)
<1>1. /\ pc[p] = "saving" /\ job[p].slug \in Slug /\ site' = [site EXCEPT ![job[p].slug] = job[p].rec]
  BY DEF PutSite, Typed, JobOK
<1>2. CASE s # job[p].slug
  BY <1>1, <1>2 DEF Typed, TypeOK
<1>3. CASE s = job[p].slug
  <2>1. Drafted(p) /\ site[s].deploys \in Seq(Id) /\ site'[s] = job[p].rec
    BY <1>1, <1>3 DEF RecordInv, Typed, TypeOK, Site
  <2>2. CASE job[p].op # "deploy"
    BY <1>1, <1>3, <2>1, <2>2 DEF Drafted
  <2>3. CASE job[p].op = "deploy"
    <3>1. Longer(site[s].deploys, site'[s].deploys, job[p].id) /\ job[p].id \in Id
      BY <1>1, <1>3, <2>1, <2>3 DEF Drafted, Typed, JobOK
    <3>2. QED BY <2>1, <2>3, <3>1, LongerLists
  <2>4. QED BY <2>2, <2>3
<1>4. QED
  BY <1>2, <1>3

\* The steps of a deploy.
LEMMA StepIntact ==
  ASSUME Typed, RecordInv, IntactInv, NEW p \in Handler, Step(p)
  PROVE  IntactInv'
<1> USE DEF disk, memory, history
<1> DEFINE Same == /\ UNCHANGED <<sweep, marked, up, site, content, clean, unmarked>>
                   /\ \A q \in Handler \ {p} : /\ pc'[q] = pc[q] /\ job'[q] = job[q]
                                               /\ q \in overlapped' <=> q \in overlapped
<1>1. ASSUME NEW x \in Object, StoreKnown(p, x) PROVE IntactInv'
  <2>1. /\ Same /\ UNCHANGED <<stored, indexed, issued, overlapped, manifests, faults, pc>> /\ pc[p] = "storing"
        /\ job'[p].op = job[p].op /\ job'[p].files = job[p].files /\ job'[p].putting = job[p].putting
        /\ job'[p].todo = job[p].todo \ {x} /\ x \in stored /\ x \in indexed
    BY <1>1 DEF StoreKnown, Typed, TypeOK, Job
  <2>2. Overlaps /\ Uploaded
    BY DEF IntactInv
  <2>3. Overlaps' /\ PendingIds' /\ Uploaded'
    BY <2>1, <2>2, Elsewhere DEF InFlight, Pending, Overlaps, Uploaded
  <2>4. QED BY <2>1, <2>3, NoneNew DEF IntactInv
<1>2. ASSUME NEW x \in Object, StoreFile(p, x) PROVE IntactInv'
  <2>1. /\ Same /\ UNCHANGED <<indexed, issued, overlapped, manifests, faults>> /\ stored' = stored \cup {x}
        /\ pc[p] = "storing" /\ pc'[p] = "indexing"
        /\ job'[p].op = job[p].op /\ job'[p].files = job[p].files /\ job'[p].putting = {x}
        /\ job'[p].todo = job[p].todo \ {x}
    BY <1>2 DEF StoreFile, Typed, TypeOK, Job
  <2>2. Overlaps /\ Uploaded
    BY DEF IntactInv
  <2>3. Overlaps' /\ PendingIds' /\ Uploaded'
    BY <2>1, <2>2, Elsewhere DEF InFlight, Pending, Overlaps, Uploaded
  <2>4. QED BY <2>1, <2>3, NoneNew DEF IntactInv
<1>3. CASE StoreIndex(p)
  <2>1. /\ Same /\ UNCHANGED <<stored, issued, overlapped, manifests, faults>>
        /\ indexed' = indexed \cup job[p].putting /\ pc[p] = "indexing" /\ pc'[p] = "storing"
        /\ job'[p].op = job[p].op /\ job'[p].files = job[p].files /\ job'[p].putting = {}
        /\ job'[p].todo = job[p].todo
    BY <1>3 DEF StoreIndex, Typed, TypeOK, Job
  <2>2. Overlaps /\ Uploaded
    BY DEF IntactInv
  <2>3. Overlaps' /\ PendingIds' /\ Uploaded'
    BY <2>1, <2>2, Elsewhere DEF InFlight, Pending, Overlaps, Uploaded
  <2>4. QED BY <2>1, <2>3, NoneNew DEF IntactInv
<1>4. CASE Commit(p)
  <2>1. /\ Same /\ UNCHANGED <<stored, indexed, overlapped, manifests, faults>> /\ issued' = issued + 1
        /\ pc[p] = "storing" /\ pc'[p] = "manifest" /\ job[p].op = "deploy" /\ job[p].todo = {}
    BY <1>4 DEF Commit, Enter, Typed, TypeOK, JobOK
  <2>2. /\ job'[p].op = "deploy" /\ job'[p].files = job[p].files /\ job'[p].putting = job[p].putting
        /\ job'[p].todo = {} /\ job'[p].id = issued + 1
    <3> DEFINE rec == [site[job[p].slug] EXCEPT !.deploys = Append(@, issued + 1), !.current = issued + 1]
    <3>1. job' = [job EXCEPT ![p] = [job[p] EXCEPT !.id = issued + 1, !.rec = rec]]
      BY <1>4 DEF Commit, Enter
    <3> HIDE DEF rec
    <3>2. QED BY <2>1, <3>1 DEF Typed, TypeOK, Job
  <2>3. Overlaps /\ Uploaded /\ PendingIds
    BY DEF IntactInv
  <2>4. /\ issued \in Nat /\ issued + 1 \notin clean
        /\ \A q \in Handler : Pending(q) => job[q].id # issued + 1
    BY <2>3 DEF PendingIds, Typed, TypeOK
  <2>5. Overlaps' /\ PendingIds' /\ Uploaded'
    BY <2>1, <2>2, <2>3, <2>4, Elsewhere DEF InFlight, Pending, Overlaps, Uploaded
  <2>6. QED BY <2>1, <2>5, NoneNew DEF IntactInv
<1>5. CASE PutDeploy(p)
  <2>1. /\ UNCHANGED <<sweep, marked, up, site, clean, unmarked, stored, indexed, issued, overlapped, faults, job>>
        /\ \A q \in Handler \ {p} : pc'[q] = pc[q]
        /\ pc[p] = "manifest" /\ pc'[p] = "saving" /\ job[p].op = "deploy" /\ job[p].id \in Id
        /\ manifests' = manifests \cup {<<job[p].slug, job[p].id>>}
        /\ content' = [content EXCEPT ![job[p].id] = job[p].files]
    BY <1>5 DEF PutDeploy, GoTo, Typed, TypeOK, JobOK
  <2>2. Overlaps /\ Uploaded /\ PendingIds
    BY DEF IntactInv
  <2>3. /\ content'[job[p].id] = job[p].files /\ \A i \in Id : i # job[p].id => content'[i] = content[i]
    BY <2>1 DEF Typed, TypeOK
  <2>4. \A q \in Handler \ {p} : Pending(q) => content'[job[q].id] = content[job[q].id] /\ job[q].id # job[p].id
    BY <2>1, <2>2, <2>3 DEF PendingIds, Pending, Typed, JobOK
  <2>5. Overlaps' /\ PendingIds' /\ Uploaded'
    BY <2>1, <2>2, <2>3, <2>4, Elsewhere DEF InFlight, Pending, Overlaps, Uploaded, PendingIds
  <2>6. ASSUME NEW s \in Slug, NEW id \in Id, Good(s, id)' PROVE Safe(id)' /\ Covered(s, id)'
    <3>1. id # job[p].id
      BY <2>1, <2>2, <2>6 DEF Good, PendingIds, Pending
    <3>2. Good(s, id) /\ content'[id] = content[id]
      BY <2>1, <2>3, <2>6, <3>1 DEF Good
    <3>3. QED BY <2>1, <2>6, <3>2, StaysIntact
  <2>7. QED BY <2>5, <2>6 DEF IntactInv, AllIntact
<1>6. CASE Prune(p)
  <2>1. /\ Same /\ UNCHANGED <<stored, indexed, issued, overlapped, pc>> /\ manifests' \subseteq manifests
        /\ faults' \in {faults, faults + 1} /\ pc[p] = "saving"
    BY <1>6 DEF Prune, Ignored, Typed, TypeOK
  <2>2. /\ job'[p].op = job[p].op /\ job'[p].files = job[p].files /\ job'[p].putting = job[p].putting
        /\ job'[p].todo = job[p].todo /\ job'[p].id = job[p].id
    BY <1>6 DEF Prune, Typed, TypeOK, Job
  <2>3. Overlaps /\ Uploaded /\ PendingIds
    BY DEF IntactInv
  <2>4. Overlaps' /\ PendingIds' /\ Uploaded'
    BY <2>1, <2>2, <2>3, Elsewhere DEF InFlight, Pending, Overlaps, Uploaded, PendingIds
  <2>5. QED BY <2>1, <2>4, NoneNew DEF IntactInv
<1>7. CASE PutSite(p)
  <2>1. /\ UNCHANGED <<sweep, marked, up, content, stored, indexed, issued, manifests, faults>>
        /\ \A q \in Handler \ {p} : pc'[q] = pc[q] /\ job'[q] = job[q] /\ (q \in overlapped' <=> q \in overlapped)
        /\ pc[p] = "saving" /\ pc'[p] \in {"idle", "clearing"}
        /\ clean' = IF job[p].op = "deploy" /\ p \notin overlapped THEN clean \cup {job[p].id} ELSE clean
        /\ \A i : i \in unmarked' /\ i \notin unmarked => i \in clean' /\ i \notin clean
    BY <1>7 DEF PutSite, Leave, Finish, GoTo, Typed, TypeOK
  <2>2. Overlaps' /\ PendingIds' /\ Uploaded'
    BY <2>1, Elsewhere DEF InFlight, Pending
  <2>3. ASSUME NEW s \in Slug, NEW id \in Id, Good(s, id)' PROVE Safe(id)' /\ Covered(s, id)'
    <3>1. CASE id \in clean
      <4>1. ~(job[p].op = "deploy" /\ id = job[p].id)
        BY <2>1, <3>1 DEF IntactInv, PendingIds, Pending
      <4>2. Lists(site[s].deploys, id)
        BY <1>7, <2>3, <4>1, ListedSince DEF Good
      <4>3. (id \in unmarked' => id \in unmarked) /\ Good(s, id)
        BY <2>1, <2>3, <3>1, <4>2 DEF Good
      <4>4. QED BY <2>1, <2>3, <4>3, StaysIntact
    <3>2. CASE id \notin clean
      <4>1. id = job[p].id /\ job[p].op = "deploy" /\ p \notin overlapped
        BY <2>1, <2>3, <3>2 DEF Good
      <4>2. QED BY <1>7, <4>1, SavedIntact
    <3>3. QED BY <3>1, <3>2
  <2>4. QED BY <2>2, <2>3 DEF IntactInv, AllIntact
<1>8. CASE DeployFail(p) \/ WriteFail(p) \/ ClearCache(p) \/ DeleteManifests(p) \/ DeleteFail(p)
           \/ ServeDeploy(p) \/ ServeCache(p)
  <2>1. /\ Same /\ UNCHANGED <<stored, indexed, issued, faults>> /\ manifests' \subseteq manifests
        /\ pc'[p] \in {"idle", "clearing", "loaded"}
    <3>1. CASE DeployFail(p)
      BY <3>1 DEF DeployFail, Finish, Typed, TypeOK
    <3>2. CASE WriteFail(p)
      BY <3>2 DEF WriteFail, Leave, Finish, Typed, TypeOK
    <3>3. CASE ClearCache(p)
      BY <3>3 DEF ClearCache, Leave, Finish, Typed, TypeOK
    <3>4. CASE DeleteManifests(p)
      BY <3>4 DEF DeleteManifests, GoTo, Typed, TypeOK
    <3>5. CASE DeleteFail(p)
      BY <3>5 DEF DeleteFail, Leave, Finish, Typed, TypeOK
    <3>6. CASE ServeDeploy(p)
      BY <3>6 DEF ServeDeploy, GoTo, Finish, Typed, TypeOK
    <3>7. CASE ServeCache(p)
      BY <3>7 DEF ServeCache, Finish, Typed, TypeOK
    <3>8. QED BY <1>8, <3>1, <3>2, <3>3, <3>4, <3>5, <3>6, <3>7
  <2>2. Overlaps' /\ PendingIds' /\ Uploaded'
    BY <2>1, Elsewhere DEF InFlight, Pending
  <2>3. QED BY <2>1, <2>2, NoneNew DEF IntactInv
<1>9. CASE DeleteRecord(p)
  <2>1. /\ UNCHANGED <<sweep, marked, up, content, clean, unmarked, stored, indexed, issued, manifests, overlapped>>
        /\ \A q \in Handler \ {p} : pc'[q] = pc[q] /\ job'[q] = job[q]
        /\ pc'[p] = "removing" /\ faults' \in {faults, faults + 1} /\ faults \in Nat
        /\ site' = [site EXCEPT ![job[p].slug] = NoSite] \/ site' = site
    BY <1>9 DEF DeleteRecord, Enter, Ignored, Typed, TypeOK
  <2>2. Overlaps' /\ PendingIds' /\ Uploaded'
    BY <2>1, Elsewhere DEF InFlight, Pending
  <2>3. ASSUME NEW s \in Slug, NEW id \in Id, Good(s, id)' PROVE Safe(id)' /\ Covered(s, id)'
    <3>1. Lists(site[s].deploys, id)
      <4>1. site'[s] = site[s] \/ site'[s] = NoSite
        BY <2>1 DEF Typed, TypeOK
      <4>2. ~Lists(NoSite.deploys, id)
        BY DEF Lists, NoSite
      <4>3. QED BY <2>3, <4>1, <4>2 DEF Good
    <3>2. Good(s, id)
      BY <2>1, <2>3, <3>1 DEF Good
    <3>3. QED BY <2>1, <2>3, <3>2, StaysIntact
  <2>4. QED BY <2>2, <2>3 DEF IntactInv, AllIntact
<1> HIDE DEF Same
<1>10. QED
  BY <1>1, <1>2, <1>3, <1>4, <1>5, <1>6, <1>7, <1>8, <1>9 DEF Step

\* The sweeper, the end of the process and its restart leave handlers with a deploy
\* in flight alone, unless a pass overlaps them.
LEMMA Apart ==
  ASSUME Typed, IntactInv, UNCHANGED <<content, clean, issued, pc, job>>, overlapped \subseteq overlapped',
         sweep'.stage # "idle" => Overlaps',
         sweep.stage = "idle" => stored \subseteq stored' /\ indexed \subseteq indexed'
  PROVE  Overlaps' /\ PendingIds' /\ Uploaded'
<1>1. Overlaps'
  BY DEF Overlaps
<1>2. PendingIds'
  BY DEF IntactInv, PendingIds, Pending
<1>3. \A p \in Handler : InFlight(p) /\ p \notin overlapped' => stored \subseteq stored' /\ indexed \subseteq indexed'
  BY DEF IntactInv, Overlaps
<1>4. Uploaded'
  <2> SUFFICES ASSUME NEW p \in Handler
               PROVE  /\ Pending(p) => job[p].todo = {}
                      /\ InFlight(p) /\ pc[p] # "indexing" => job[p].putting = {}
                      /\ InFlight(p) /\ p \notin overlapped' =>
                           /\ job[p].files \ (job[p].todo \cup job[p].putting) \subseteq stored' \cap indexed'
                           /\ job[p].putting \subseteq stored'
    BY DEF Uploaded, Pending, InFlight
  <2>1. QED BY <1>3 DEF IntactInv, Uploaded
<1>5. QED
  BY <1>1, <1>2, <1>4

\* A pass finds the objects of every deploy that is intact, and deletes none of them.
LEMMA SweepIntact ==
  ASSUME Typed, RecordInv, IntactInv, Sweep
  PROVE  IntactInv'
<1> USE DEF disk, memory, history
<1>1. UNCHANGED <<content, clean, issued, pc, job, site, manifests, unmarked, up>> /\ overlapped \subseteq overlapped'
  BY DEF Sweep, SweepStart, SweepUnread, SweepMark, MarkWith, SweepRemove, SweepEnd,
         SweepSite, SweepManifest, SweepUnindex
<1>2. sweep \in Pass /\ faults \in Nat
  BY DEF Typed, TypeOK
<1>3. Overlaps' /\ PendingIds' /\ Uploaded'
  <2>1. sweep'.stage # "idle" => Overlaps'
    <3>1. CASE SweepStart
      BY <3>1 DEF SweepStart, Overlaps, InFlight
    <3>2. CASE sweep.stage # "idle"
      BY <1>1, <3>2 DEF IntactInv, Overlaps, InFlight
    <3>3. QED
      BY <3>1, <3>2 DEF Sweep, SweepUnread, SweepMark, MarkWith, SweepRemove, SweepEnd,
                        SweepSite, SweepManifest, SweepUnindex
  <2>2. sweep.stage = "idle" => stored \subseteq stored' /\ indexed \subseteq indexed'
    BY DEF Sweep, SweepStart, SweepUnread, SweepMark, MarkWith, SweepRemove, SweepEnd,
           SweepSite, SweepManifest, SweepUnindex
  <2>3. QED BY <1>1, <2>1, <2>2, Apart
<1>4. ASSUME NEW s \in Slug, NEW id \in Id, Good(s, id)' PROVE Safe(id)' /\ Covered(s, id)'
  <2>1. faults' = faults \/ (faults = 0 /\ faults' = 1 /\ id \in unmarked)
    <3>1. faults' \in {faults, faults + 1}
      BY DEF Sweep, SweepStart, SweepUnread, SweepMark, MarkWith, SweepRemove, SweepEnd,
             SweepSite, SweepManifest, SweepUnindex, Ignored
    <3>2. QED BY <1>1, <1>2, <1>4, <3>1 DEF Good
  <2>2. Good(s, id)
    BY <1>1, <1>4, <2>1 DEF Good
  <2>3. Safe(id) /\ Covered(s, id) /\ content'[id] = content[id] /\ UNCHANGED <<up, unmarked, site, manifests>>
    BY <1>1, <2>2 DEF IntactInv, AllIntact
  <2>4. CASE SweepStart
    <3>1. /\ UNCHANGED <<stored, indexed, marked, faults>> /\ sweep'.stage = "reading" /\ sweep.stage = "idle"
          /\ sweep'.sites = {z \in Slug : Claimed(z)}
      BY <2>4 DEF SweepStart, NoPass
    <3>2. Claimed(s)
      <4>1. Kept(s) /\ site[s].deploys # <<>>
        BY <2>2 DEF RecordInv, Good, Lists
      <4>2. QED BY <4>1 DEF Kept, Complete, Claimed
    <3>3. QED BY <2>3, <3>1, <3>2 DEF Safe, Covered
  <2>5. CASE SweepUnread
    <3>1. /\ UNCHANGED <<stored, indexed, marked>> /\ sweep'.stage = "reading" /\ sweep.stage = "reading"
          /\ faults' = faults + 1
      BY <1>2, <2>5 DEF SweepUnread, Ignored, Pass
    <3>2. faults = 0 /\ faults' = 1 /\ id \in unmarked
      BY <1>2, <2>1, <3>1
    <3>3. QED BY <2>3, <3>1, <3>2 DEF Safe, Covered
  <2>6. ASSUME NEW z \in Slug, SweepSite(z) PROVE Safe(id)' /\ Covered(s, id)'
    <3>1. /\ UNCHANGED <<stored, indexed, marked, faults>> /\ sweep'.stage = "reading" /\ sweep.stage = "reading"
          /\ sweep'.sites = sweep.sites \ {z} /\ sweep'.ids = sweep.ids \cup ({z} \X Retained(z))
          /\ sweep'.refs = sweep.refs
      BY <1>2, <2>6 DEF SweepSite, Pass
    <3>2. id \in Retained(s)
      BY <2>2, RetainedListed DEF Good, Typed, TypeOK
    <3>3. QED BY <2>3, <3>1, <3>2 DEF Safe, Covered
  <2>7. ASSUME NEW m \in Slug \X Id, SweepManifest(m) PROVE Safe(id)' /\ Covered(s, id)'
    <3>1. /\ UNCHANGED <<stored, indexed, marked, faults>> /\ sweep'.stage = "reading" /\ sweep.stage = "reading"
          /\ sweep'.ids = sweep.ids \ {m} /\ sweep'.sites = sweep.sites
          /\ sweep'.refs = IF m \in manifests THEN sweep.refs \cup content[m[2]] ELSE sweep.refs
      BY <1>2, <2>7 DEF SweepManifest, Pass
    <3>2. m = <<s, id>> => m \in manifests /\ content[m[2]] = content[id]
      BY <2>2 DEF Good
    <3>3. Safe(id)'
      BY <2>3, <3>1 DEF Safe
    <3>4. content[id] \subseteq sweep.refs => content[id] \subseteq sweep'.refs
      BY <3>1
    <3>5. QED BY <2>3, <3>1, <3>2, <3>3, <3>4 DEF Covered
  <2>8. CASE SweepMark
    <3>1. /\ UNCHANGED <<stored, indexed, marked, faults>> /\ sweep'.stage = "deleting" /\ sweep.stage = "reading"
          /\ sweep.sites = {} /\ sweep.ids = {} /\ sweep'.dead = marked \ sweep.refs
          /\ sweep'.fresh = indexed \ sweep.refs
      BY <1>2, <2>8 DEF SweepMark, MarkWith, Pass
    <3>2. content[id] \subseteq sweep.refs \/ (faults = 1 /\ marked \cap content[id] = {})
      BY <2>3, <3>1 DEF Covered
    <3>3. sweep'.dead \cap content[id] = {} /\ (faults = 0 => sweep'.fresh \cap content[id] = {})
      BY <3>1, <3>2
    <3>4. QED BY <2>3, <3>1, <3>3 DEF Safe, Covered
  <2>9. ASSUME NEW x \in Object, SweepUnindex(x) PROVE Safe(id)' /\ Covered(s, id)'
    <3>1. /\ UNCHANGED <<stored, marked, faults>> /\ sweep'.stage = "removing" /\ sweep.stage = "deleting"
          /\ x \in sweep.dead /\ indexed' = indexed \ {x} /\ sweep'.dead = sweep.dead \ {x}
          /\ sweep'.gone = {x} /\ sweep'.fresh = sweep.fresh \ {x}
      BY <1>2, <2>9 DEF SweepUnindex, Pass
    <3>2. x \notin content[id]
      BY <2>3, <3>1 DEF Safe
    <3>3. Safe(id)'
      BY <2>3, <3>1, <3>2 DEF Safe
    <3>4. QED BY <3>1, <3>3 DEF Covered
  <2>10. CASE SweepRemove
    <3>1. /\ UNCHANGED <<indexed, marked>> /\ sweep'.stage = "deleting" /\ sweep.stage = "removing"
          /\ stored' = stored \ sweep.gone \/ stored' = stored
          /\ sweep'.dead = sweep.dead /\ sweep'.fresh = sweep.fresh
      BY <1>2, <2>10 DEF SweepRemove, Pass
    <3>2. content[id] \subseteq stored'
      BY <2>3, <3>1 DEF Safe
    <3>3. faults' = 0 => faults = 0
      BY <2>1
    <3>4. Safe(id)'
      BY <2>3, <3>1, <3>2, <3>3 DEF Safe
    <3>5. QED BY <3>1, <3>4 DEF Covered
  <2>11. CASE SweepEnd
    <3>1. /\ UNCHANGED <<stored, indexed, faults>> /\ sweep'.stage = "idle" /\ sweep.stage = "deleting"
          /\ marked' = sweep.fresh
      BY <2>11 DEF SweepEnd, NoPass
    <3>2. QED BY <2>3, <3>1 DEF Safe, Covered
  <2>12. QED
    BY <2>4, <2>5, <2>6, <2>7, <2>8, <2>9, <2>10, <2>11 DEF Sweep
<1>5. QED
  BY <1>3, <1>4 DEF IntactInv, AllIntact

\* Every step leaves intact what is intact.
LEMMA IntactStep == Typed /\ RecordInv /\ AgeInv /\ IntactInv /\ [Next]_vars => IntactInv'
<1> SUFFICES ASSUME Typed, RecordInv, AgeInv, IntactInv, [Next]_vars PROVE IntactInv'
  OBVIOUS
<1> USE DEF disk, memory, history
<1>1. ASSUME NEW p \in Handler, Request(p) \/ Step(p) PROVE IntactInv'
  BY <1>1, RequestIntact, StepIntact
<1>2. CASE UNCHANGED vars \/ \E s \in Slug : Expire(s)
  <2>1. UNCHANGED <<sweep, marked, up, site, content, clean, unmarked, manifests, stored, indexed, faults,
                    issued, pc, job, overlapped>>
    BY <1>2 DEF vars, Expire
  <2>2. Overlaps' /\ PendingIds' /\ Uploaded'
    BY <2>1, Apart DEF IntactInv, Overlaps, InFlight
  <2>3. QED BY <2>1, <2>2, NoneNew DEF IntactInv
<1>3. CASE Sweep
  BY <1>3, SweepIntact
<1>4. CASE Crash
  <2>1. /\ UNCHANGED <<site, manifests, content, issued, stored, faults, clean, unmarked>>
        /\ \A q \in Handler : pc'[q] = "idle"
        /\ sweep'.stage = "idle" /\ up' = FALSE /\ marked' = {}
    BY <1>4 DEF Crash, NoPass
  <2>2. Overlaps' /\ PendingIds' /\ Uploaded'
    BY <2>1 DEF IntactInv, Overlaps, PendingIds, Uploaded, Pending, InFlight
  <2>3. ASSUME NEW s \in Slug, NEW id \in Id, Good(s, id)' PROVE Safe(id)' /\ Covered(s, id)'
    <3>1. Good(s, id)
      BY <2>1, <2>3 DEF Good
    <3>2. Safe(id)
      BY <3>1 DEF IntactInv, AllIntact
    <3>3. QED BY <2>1, <3>2 DEF Safe, Covered
  <2>4. QED BY <2>2, <2>3 DEF IntactInv, AllIntact
<1>5. CASE Restart
  <2>1. /\ UNCHANGED <<site, manifests, content, issued, stored, faults, clean, unmarked, pc, job, sweep, marked, overlapped>>
        /\ indexed' = stored /\ indexed = {} /\ sweep.stage = "idle"
    BY <1>5 DEF Restart, AgeInv, Down, NoPass
  <2>2. Overlaps' /\ PendingIds' /\ Uploaded'
    BY <2>1, Apart DEF IntactInv, Overlaps
  <2>3. ASSUME NEW s \in Slug, NEW id \in Id, Good(s, id)' PROVE Safe(id)' /\ Covered(s, id)'
    <3>1. Good(s, id)
      BY <2>1, <2>3 DEF Good
    <3>2. Safe(id)
      BY <3>1 DEF IntactInv, AllIntact
    <3>3. QED BY <2>1, <3>2 DEF Safe, Covered
  <2>4. QED BY <2>2, <2>3 DEF IntactInv, AllIntact
<1>6. QED
  BY <1>1, <1>2, <1>3, <1>4, <1>5, Steps

\* Deploys that no pass overlapped are always intact.
LEMMA AlwaysIntact == Spec => []IntactInv
<1>1. Init => IntactInv
  BY DEF Init, IntactInv, Overlaps, PendingIds, Uploaded, AllIntact, Pending, InFlight, Good, NoPass
<1>2. QED
  BY <1>1, IntactStep, AlwaysTyped, AlwaysContinued, AlwaysAged, PTL DEF Spec

\* "An in-flight deploy ... is never swept mid-write" (server.go), as far as it is so:
\* a deploy that no pass overlapped keeps its objects, even past one unread file if
\* none of them was marked.
THEOREM DeploysIntact == Spec => []CleanIntact
<1>1. Typed /\ IntactInv => CleanIntact
  <2> SUFFICES ASSUME Typed, IntactInv, NEW s \in Slug, NEW id \in Retained(s) \cap clean,
                      <<s, id>> \in manifests, faults = 0 \/ (faults = 1 /\ id \in unmarked)
               PROVE  content[id] \subseteq stored
    BY DEF CleanIntact
  <2>1. id \in Id /\ Lists(site[s].deploys, id)
    BY RetainedListed DEF Typed, TypeOK
  <2>2. Good(s, id)
    BY <2>1 DEF Good
  <2>3. QED BY <2>1, <2>2 DEF IntactInv, AllIntact, Safe
<1>2. QED
  BY <1>1, AlwaysTyped, AlwaysIntact, PTL

-----------------------------------------------------------------------------
\* The registry of sites.  A rollback has a deploy to go back to; that no two deploys
\* on their way have the same id is part of IntactInv (PendingIds).
RollsBack(p) == pc[p] = "saving" /\ job[p].op = "rollback"
BackTo == \A p \in Handler : RollsBack(p) => job[p].rec.current # 0

\* No deploy gets an id, and none shows anything else.
NoneIssued ==
  /\ UNCHANGED <<content, issued>>
  /\ \A q \in Handler :
       /\ Pending(q)' => Pending(q) /\ job'[q].id = job[q].id
       /\ RollsBack(q)' => job'[q].rec.current # 0

\* A deploy on its way has an id that was issued.
LEMMA PendingIssued ==
  ASSUME Typed, RecordInv, NEW p \in Handler, Pending(p)
  PROVE  job[p].id \in Id /\ job[p].id \in 1..issued /\ job[p].id \notin Spent
<1>1. job[p].id \in Id /\ job[p].id <= issued
  BY DEF Typed, JobOK, RecordInv, Drafted, Pending
<1>2. QED
  BY <1>1, NodeAssumption DEF Id, Spent, Typed, TypeOK

\* Requests that begin issue nothing.
LEMMA RequestIssues ==
  ASSUME Typed, BackTo, NEW p \in Handler, Request(p)
  PROVE  NoneIssued
<1> USE DEF Typed, TypeOK, disk, memory, history, Pending, RollsBack
<1>1. PICK s \in Slug : \/ ServeSite(p, s)
                        \/ \E o \in Owner : \/ Claim(p, s, o) \/ DeleteStart(p, s, o)
                                            \/ \E files \in Bundle : DeployStart(p, s, o, files)
                                            \/ \E id \in Id : Rollback(p, s, o, id)
  BY DEF Request
<1>2. ASSUME NEW j, NEW stage, pc' = [pc EXCEPT ![p] = stage], job' = [job EXCEPT ![p] = j],
             UNCHANGED <<content, issued>>,
             stage \in {"manifest", "saving"} => j.op # "deploy" /\ (j.op = "rollback" => j.rec.current # 0)
      PROVE  NoneIssued
  BY <1>2 DEF NoneIssued, BackTo
<1>3. CASE ServeSite(p, s)
  BY <1>2, <1>3 DEF ServeSite
<1>4. ASSUME NEW o \in Owner, Claim(p, s, o) PROVE NoneIssued
  <2> DEFINE rec == IF Claimed(s) THEN site[s] ELSE [NoSite EXCEPT !.owner = o]
             j == [NewJob("claim", o, s) EXCEPT !.rec = rec]
  <2>1. pc' = [pc EXCEPT ![p] = "saving"] /\ job' = [job EXCEPT ![p] = j] /\ UNCHANGED <<content, issued>>
    BY <1>4 DEF Claim, Enter
  <2>2. j.op = "claim"
    BY NewJobs DEF Op, Job
  <2> HIDE DEF j
  <2>3. QED BY <1>2, <2>1, <2>2
<1>5. ASSUME NEW o \in Owner, DeleteStart(p, s, o) PROVE NoneIssued
  BY <1>2, <1>5 DEF DeleteStart
<1>6. ASSUME NEW o \in Owner, NEW files \in Bundle, DeployStart(p, s, o, files) PROVE NoneIssued
  BY <1>2, <1>6 DEF DeployStart
<1>7. ASSUME NEW o \in Owner, NEW id \in Id, Rollback(p, s, o, id) PROVE NoneIssued
  <2> DEFINE j == [NewJob("rollback", o, s) EXCEPT !.id = id, !.rec = [site[s] EXCEPT !.current = id]]
  <2>1. pc' = [pc EXCEPT ![p] = "saving"] /\ job' = [job EXCEPT ![p] = j] /\ UNCHANGED <<content, issued>>
    BY <1>7 DEF Rollback, Enter
  <2>2. j.op = "rollback" /\ j.rec.current = id
    <3>1. site[s] \in Site /\ NewJob("rollback", o, s) \in Job /\ NewJob("rollback", o, s).op = "rollback"
      BY NewJobs DEF Op
    <3>2. QED BY <3>1 DEF Job, Site
  <2>3. id # 0
    BY NodeAssumption DEF Id
  <2> HIDE DEF j
  <2>4. QED BY <1>2, <2>1, <2>2, <2>3
<1>8. QED
  BY <1>1, <1>3, <1>4, <1>5, <1>6, <1>7

\* Nor does any other step but Commit, which issues an id, and PutDeploy.
LEMMA StepIssues ==
  ASSUME Typed, BackTo, NEW p \in Handler, Step(p), ~Commit(p), ~PutDeploy(p)
  PROVE  NoneIssued
<1> USE DEF Typed, TypeOK, disk, memory, history, Pending, RollsBack
<1>1. ASSUME UNCHANGED <<content, issued>>, \A q \in Handler \ {p} : pc'[q] = pc[q] /\ job'[q] = job[q],
             pc'[p] \notin {"manifest", "saving"}
      PROVE  NoneIssued
  BY <1>1 DEF NoneIssued, BackTo
<1>2. ASSUME NEW x \in Object, StoreKnown(p, x) \/ StoreFile(p, x) PROVE NoneIssued
  BY <1>1, <1>2 DEF StoreKnown, StoreFile
<1>3. CASE StoreIndex(p) \/ DeployFail(p) \/ ServeDeploy(p) \/ ServeCache(p)
  BY <1>1, <1>3 DEF StoreIndex, DeployFail, ServeDeploy, ServeCache, Finish, GoTo
<1>4. CASE PutSite(p) \/ WriteFail(p) \/ ClearCache(p)
  BY <1>1, <1>4 DEF PutSite, WriteFail, ClearCache, Leave, Finish, GoTo
<1>5. CASE DeleteRecord(p) \/ DeleteManifests(p) \/ DeleteFail(p)
  BY <1>1, <1>5 DEF DeleteRecord, DeleteManifests, DeleteFail, Enter, Leave, Finish, GoTo
<1>6. CASE Prune(p)
  <2>1. /\ job[p] \in Job /\ job[p].rec \in Site /\ UNCHANGED <<content, issued, pc>>
        /\ job' = [job EXCEPT ![p].rec.deploys = Tail(@)]
    BY <1>6 DEF Prune, Job
  <2>2. /\ job'[p].op = job[p].op /\ job'[p].id = job[p].id
        /\ job'[p].rec.current = job[p].rec.current
        /\ \A q \in Handler \ {p} : job'[q] = job[q]
    BY <2>1 DEF Job, Site
  <2>3. QED BY <2>1, <2>2 DEF NoneIssued, BackTo
<1>7. QED
  BY <1>2, <1>3, <1>4, <1>5, <1>6 DEF Step

\* In all, a step that issues something is Commit, one that fills a manifest PutDeploy.
LEMMA Issues ==
  ASSUME Typed, BackTo, [Next]_vars
  PROVE  NoneIssued \/ \E p \in Handler : Commit(p) \/ PutDeploy(p)
<1>1. CASE UNCHANGED vars \/ Sweep \/ Restart \/ \E s \in Slug : Expire(s)
  <2>1. Sweep => UNCHANGED <<content, issued, pc, job>>
    BY SweepAside
  <2>2. UNCHANGED vars \/ Restart \/ (\E s \in Slug : Expire(s)) => UNCHANGED <<content, issued, pc, job>>
    BY DEF vars, disk, Restart, Expire
  <2>3. QED BY <1>1, <2>1, <2>2 DEF NoneIssued, Pending, RollsBack, BackTo
<1>2. CASE Crash
  <2>1. UNCHANGED <<content, issued>> /\ \A q \in Handler : pc'[q] = "idle"
    BY <1>2 DEF Crash, disk
  <2>2. QED BY <2>1 DEF NoneIssued, Pending, RollsBack
<1>3. QED
  BY <1>1, <1>2, RequestIssues, StepIssues, Steps

\* A rollback that has begun keeps its deploy.
LEMMA BackToStep == Typed /\ BackTo /\ [Next]_vars => BackTo'
<1> SUFFICES ASSUME Typed, BackTo, [Next]_vars PROVE BackTo'
  OBVIOUS
<1>1. CASE NoneIssued
  BY <1>1 DEF NoneIssued, BackTo
<1>2. ASSUME NEW p \in Handler, Commit(p) PROVE BackTo'
  BY <1>2 DEF Commit, Enter, BackTo, RollsBack, Typed, TypeOK
<1>3. ASSUME NEW p \in Handler, PutDeploy(p) PROVE BackTo'
  BY <1>3 DEF PutDeploy, GoTo, BackTo, RollsBack, Typed, TypeOK, JobOK
<1>4. QED
  BY <1>1, <1>2, <1>3, Issues

\* Rollbacks always have a deploy to go back to.
LEMMA AlwaysBackTo == Spec => []BackTo
<1>1. Init => BackTo
  BY DEF Init, BackTo, RollsBack
<1>2. QED
  BY <1>1, BackToStep, AlwaysTyped, PTL DEF Spec

\* What the deploys show, as far as their ids were given out.
LEMMA Showing ==
  ASSUME Typed, Typed', Spent \subseteq Spent', \A i \in Spent : content'[i] = content[i]
  PROVE  /\ Spent' \subseteq Id
         /\ \A d \in Spent' \ Spent : Shown'[d] \in SUBSET Object
         /\ Shown' = [d \in Id |-> IF d \in Spent' \ Spent THEN Shown'[d] ELSE Shown[d]]
         /\ Spent' = Spent => Shown' = Shown
<1>1. Spent' \subseteq Id
  BY NodeAssumption DEF Spent, Id, Typed, TypeOK
<1>2. \A d \in Id : Shown'[d] = IF d \in Spent' THEN content'[d] ELSE {}
  BY DEF Shown
<1>3. \A d \in Id : Shown[d] = IF d \in Spent THEN content[d] ELSE {}
  BY DEF Shown
<1>4. \A d \in Id : content'[d] \in SUBSET Object
  BY DEF Typed, TypeOK
<1>5. Shown' = [d \in Id |-> Shown'[d]] /\ Shown = [d \in Id |-> Shown[d]]
  BY DEF Shown
<1>6. \A d \in Id : d \notin Spent' \ Spent => Shown'[d] = Shown[d]
  BY <1>2, <1>3
<1>7. QED
  BY <1>1, <1>2, <1>4, <1>5, <1>6

\* A deploy that fails takes its id with it.
LEMMA Wasting ==
  ASSUME Typed, Typed', NoneIssued, UNCHANGED site
  PROVE  Registry!Waste
<1>1. Spent \subseteq Spent'
  BY DEF NoneIssued, Spent
<1>2. QED
  BY <1>1, Showing DEF NoneIssued, Registry!Waste

\* Giving a deploy its id, or writing its manifest, is nothing that the registry shows.
LEMMA Preparing ==
  ASSUME Typed, Typed', RecordInv, NEW p \in Handler, Commit(p) \/ PutDeploy(p)
  PROVE  UNCHANGED <<site, Spent, Shown>>
<1> USE DEF disk, memory, history
<1>1. UNCHANGED site
  BY DEF Commit, PutDeploy
<1>2. CASE Commit(p)
  <2>1. /\ pc[p] = "storing" /\ pc'[p] = "manifest" /\ job'[p].op = "deploy" /\ job'[p].id = issued + 1
        /\ issued' = issued + 1 /\ issued \in Nat /\ UNCHANGED content
        /\ \A q \in Handler \ {p} : pc'[q] = pc[q] /\ job'[q] = job[q]
    BY <1>2 DEF Commit, Enter, Typed, TypeOK, JobOK, Job
  <2>2. ~Pending(p) /\ Pending(p)' /\ \A q \in Handler \ {p} : Pending(q)' <=> Pending(q)
    BY <2>1 DEF Pending
  <2>3. Spent' = Spent
    BY <2>1, <2>2 DEF Spent
  <2>4. QED BY <1>1, <2>1, <2>3, Showing
<1>3. CASE PutDeploy(p)
  <2>1. /\ pc[p] = "manifest" /\ pc' = [pc EXCEPT ![p] = "saving"] /\ UNCHANGED <<job, issued>>
        /\ content' = [content EXCEPT ![job[p].id] = job[p].files]
    BY <1>3 DEF PutDeploy, GoTo
  <2>2. Pending(p) /\ \A q \in Handler : Pending(q)' <=> Pending(q)
    BY <2>1 DEF Pending, Typed, TypeOK, JobOK
  <2>3. Spent' = Spent
    BY <2>1, <2>2 DEF Spent
  <2>4. \A i \in Spent : content'[i] = content[i]
    BY <2>1, <2>2, PendingIssued DEF Typed, TypeOK
  <2>5. QED BY <1>1, <2>3, <2>4, Showing
<1>4. QED
  BY <1>2, <1>3


\* A record that is written has what was drafted.
LEMMA Written ==
  ASSUME Typed, RecordInv, NEW p \in Handler, PutSite(p)
  PROVE  /\ pc[p] = "saving" /\ pc'[p] # "saving" /\ pc'[p] # "manifest" /\ job[p].slug \in Slug
         /\ Drafted(p) /\ Kept(job[p].slug)
         /\ Len(job[p].rec.deploys) <= KeepDeploys
         /\ job[p].rec \in Site /\ site[job[p].slug] \in Site
         /\ site' = [site EXCEPT ![job[p].slug] = job[p].rec]
         /\ UNCHANGED <<content, issued>>
         /\ \A q \in Handler \ {p} : pc'[q] = pc[q] /\ job'[q] = job[q]
  BY DEF PutSite, Leave, Finish, GoTo, Typed, TypeOK, JobOK, RecordInv, Job

\* A record replaced by one of a deploy more: the deploy is published.
LEMMA Publishing ==
  ASSUME Typed, Typed', RecordInv, PendingIds, NEW p \in Handler, PutSite(p), job[p].op = "deploy"
  PROVE  Registry!Publish(job[p].slug, job[p].id)
<1> DEFINE s == job[p].slug
           d == job[p].id
           r == job[p].rec
<1>1. /\ Drafted(p) /\ pc[p] = "saving" /\ Pending(p) /\ r \in Site /\ site[s] \in Site
  BY Written DEF Pending
<1>2. d \in Id /\ d \in 1..issued /\ d \notin Spent
  BY <1>1, PendingIssued
<1>3. ~Pending(p)' /\ \A q \in Handler \ {p} : (Pending(q)' <=> Pending(q)) /\ job'[q] = job[q]
  BY Written DEF Pending
<1>4. \A q \in Handler \ {p} : Pending(q) => job[q].id # d
  BY <1>1 DEF PendingIds
<1>5. Spent' = Spent \cup {d}
  <2>1. issued' = issued
    BY Written
  <2>2. QED BY <1>1, <1>2, <1>3, <1>4, <2>1 DEF Spent
<1>6. r.deploys = Registry!Longer(site[s].deploys, d)
  <2>1. Len(r.deploys) <= KeepDeploys /\ Longer(site[s].deploys, r.deploys, d)
    BY <1>1, Written DEF Drafted
  <2>2. site[s].deploys \in Seq(Id) /\ KeepDeploys \in Nat
    BY <1>1, NodeAssumption DEF Site
  <2>3. Len(Append(site[s].deploys, d)) = Len(site[s].deploys) + 1 /\ Len(site[s].deploys) \in Nat
    BY <1>2, <2>2, Histories
  <2>4. CASE r.deploys = Append(site[s].deploys, d)
    <3>1. Len(site[s].deploys) < KeepDeploys
      BY <2>1, <2>2, <2>3, <2>4
    <3>2. QED BY <2>4, <3>1 DEF Registry!Longer
  <2>5. CASE Len(site[s].deploys) = KeepDeploys /\ r.deploys = Tail(Append(site[s].deploys, d))
    <3>1. ~(Len(site[s].deploys) < KeepDeploys)
      BY <2>2, <2>5
    <3>2. QED BY <2>5, <3>1 DEF Registry!Longer
  <2>6. QED BY <2>1, <2>4, <2>5 DEF Longer
<1>7. r.owner = site[s].owner /\ site[s].owner # Nobody /\ r.current = d
  BY <1>1 DEF Drafted
<1>8. site' = [site EXCEPT ![s].deploys = Registry!Longer(@, d), ![s].current = d]
  <2>1. site' = [site EXCEPT ![s] = r] /\ s \in Slug
    BY Written
  <2> HIDE DEF r, s, d
  <2>2. r = [site[s] EXCEPT !.deploys = r.deploys, !.current = r.current]
    BY <1>1, <1>7 DEF Site
  <2>3. site' = [site EXCEPT ![s] = [site[s] EXCEPT !.deploys = Registry!Longer(site[s].deploys, d), !.current = d]]
    BY <1>6, <1>7, <2>1, <2>2
  <2>4. QED BY <2>1, <2>3 DEF Typed, TypeOK
<1>9. /\ Shown'[d] \in SUBSET Object
      /\ Shown' = [Shown EXCEPT ![d] = Shown'[d]]
  <2>1. Spent' \ Spent = {d} /\ \A i \in Spent : content'[i] = content[i]
    BY <1>2, <1>5, Written
  <2>2. /\ Shown'[d] \in SUBSET Object
        /\ Shown' = [e \in Id |-> IF e \in {d} THEN Shown'[e] ELSE Shown[e]]
    BY <1>5, <2>1, Showing
  <2>3. QED BY <2>2 DEF Shown
<1>10. QED
  BY <1>2, <1>5, <1>7, <1>8, <1>9 DEF Registry!Publish


\* A step that leaves the deploys on their way alone shows nothing new.
LEMMA Showless ==
  ASSUME Typed, Typed', UNCHANGED <<content, issued>>,
         \A q \in Handler : (Pending(q)' <=> Pending(q)) /\ (Pending(q) => job'[q].id = job[q].id)
  PROVE  UNCHANGED <<Spent, Shown>>
<1>1. Spent' = Spent
  BY DEF Spent
<1>2. QED
  BY <1>1, Showing

\* A record replaced by one of a rollback, or of a claim: the pointer is moved to a
\* deploy of the site, the slug is claimed, or nothing changes.
LEMMA Replacing ==
  ASSUME Typed, Typed', RecordInv, BackTo, NEW p \in Handler, PutSite(p), job[p].op # "deploy"
  PROVE  \/ job[p].rec.current \in Id /\ Registry!Rollback(job[p].slug, job[p].rec.current)
         \/ job[p].rec.owner \in Owner /\ Registry!Claim(job[p].slug, job[p].rec.owner)
         \/ UNCHANGED <<site, Spent, Shown>>
<1> DEFINE s == job[p].slug
           r == job[p].rec
<1>1. /\ Drafted(p) /\ Kept(s) /\ pc[p] = "saving" /\ r \in Site /\ site[s] \in Site /\ s \in Slug
      /\ site' = [site EXCEPT ![s] = r]
  BY Written
<1>2. UNCHANGED <<Spent, Shown>>
  <2>1. ~Pending(p) /\ ~Pending(p)' /\ \A q \in Handler \ {p} : (Pending(q)' <=> Pending(q)) /\ job'[q] = job[q]
    BY Written DEF Pending
  <2>2. QED BY <2>1, Written, Showless
<1>3. /\ r.owner \in Owner /\ (site[s].owner # Nobody => r.owner = site[s].owner)
      /\ r.deploys = site[s].deploys /\ job[p].op \in {"claim", "rollback"}
      /\ job[p].op = "claim" => r.current = site[s].current
      /\ job[p].op = "rollback" => site[s].owner # Nobody
      /\ r.current = 0 \/ Lists(r.deploys, r.current)
  BY <1>1 DEF Drafted, Kept
<1> HIDE DEF s, r
<1>4. CASE job[p].op = "rollback"
  <2>1. r.current # 0 /\ r.current \in Id
    BY <1>1, <1>4 DEF BackTo, RollsBack, Site, r
  <2>2. r = [site[s] EXCEPT !.current = r.current]
    BY <1>1, <1>3, <1>4 DEF Site
  <2>3. site' = [site EXCEPT ![s].current = r.current]
    BY <1>1, <2>2 DEF Typed, TypeOK
  <2>4. \E i \in 1..Len(site[s].deploys) : site[s].deploys[i] = r.current
    BY <1>3, <2>1 DEF Lists
  <2>5. QED BY <1>2, <2>1, <2>3, <2>4 DEF Registry!Rollback, r, s
<1>5. CASE job[p].op = "claim" /\ site[s].owner = Nobody
  <2>1. site[s].deploys = <<>> /\ site[s].current = 0
    <3>1. site[s].deploys = <<>>
      BY <1>1, <1>5 DEF Kept
    <3>2. Len(site[s].deploys) = 0
      BY <3>1
    <3>3. QED BY <1>1, <3>1, <3>2 DEF Kept, Lists
  <2>2. r = [Registry!Unclaimed EXCEPT !.owner = r.owner]
    BY <1>1, <1>3, <1>5, <2>1 DEF Site, Registry!Unclaimed
  <2>3. QED BY <1>1, <1>2, <1>3, <1>5, <2>2 DEF Registry!Claim, r, s
<1>6. CASE job[p].op = "claim" /\ site[s].owner # Nobody
  <2>1. r = site[s]
    BY <1>1, <1>3, <1>6 DEF Site
  <2>2. QED BY <1>1, <1>2, <2>1 DEF Typed, TypeOK
<1>7. QED
  BY <1>3, <1>4, <1>5, <1>6

\* A record that is removed, or that a failed removal leaves.
LEMMA Removing ==
  ASSUME Typed, Typed', RecordInv, NEW p \in Handler, DeleteRecord(p)
  PROVE  Registry!Remove(job[p].slug) \/ UNCHANGED <<site, Spent, Shown>>
<1> DEFINE s == job[p].slug
<1>1. /\ pc[p] = "deleting" /\ pc' = [pc EXCEPT ![p] = "removing"] /\ UNCHANGED <<content, issued>>
      /\ \A q \in Handler \ {p} : job'[q] = job[q]
      /\ s \in Slug /\ (site' = [site EXCEPT ![s] = NoSite] \/ site' = site)
  BY DEF DeleteRecord, Enter, Typed, TypeOK, JobOK
<1>2. UNCHANGED <<Spent, Shown>>
  <2>1. ~Pending(p) /\ ~Pending(p)' /\ \A q \in Handler \ {p} : (Pending(q)' <=> Pending(q)) /\ job'[q] = job[q]
    BY <1>1 DEF Pending, Typed, TypeOK
  <2>2. QED BY <1>1, <2>1, Showless
<1>3. Registry!Unclaimed = NoSite
  BY DEF Registry!Unclaimed, NoSite
<1>4. CASE site[s].owner # Nobody
  BY <1>1, <1>2, <1>3, <1>4 DEF Registry!Remove, Typed, TypeOK
<1>5. CASE site[s].owner = Nobody
  <2>1. Kept(s) /\ site[s] \in Site
    BY <1>1 DEF RecordInv, Typed, TypeOK
  <2>2. site[s].deploys = <<>> /\ Len(site[s].deploys) = 0
    BY <1>5, <2>1 DEF Kept
  <2>3. site[s].current = 0
    BY <2>1, <2>2 DEF Kept, Lists
  <2>4. site[s] = NoSite
    BY <1>5, <2>1, <2>2, <2>3 DEF Site, NoSite
  <2>5. QED BY <1>1, <1>2, <2>4 DEF Typed, TypeOK
<1>6. QED
  BY <1>4, <1>5


\* What the registry needs to know of the node.
RegistryInv == Typed /\ RecordInv /\ PendingIds /\ BackTo

\* A fresh node has an empty registry.
LEMMA RegistryInit == Init => Registry!Init
<1> SUFFICES ASSUME Init PROVE Registry!Init
  OBVIOUS
<1>1. Spent = {}
  BY DEF Init, Spent
<1>2. Shown = [d \in Id |-> {}]
  BY <1>1 DEF Shown
<1>3. Registry!Unclaimed = NoSite
  BY DEF Registry!Unclaimed, NoSite
<1>4. QED
  BY <1>1, <1>2, <1>3 DEF Init, Registry!Init

\* Every step of the node is one of the registry, or none.
LEMMA RegistryStep == RegistryInv /\ Typed' /\ [Next]_vars => [Registry!Next]_(Registry!vars)
<1> SUFFICES ASSUME RegistryInv, Typed', [Next]_vars PROVE Registry!Next \/ UNCHANGED <<site, Spent, Shown>>
  BY DEF Registry!vars
<1> USE DEF RegistryInv
<1>1. ASSUME NEW p \in Handler, PutSite(p) PROVE Registry!Next \/ UNCHANGED <<site, Spent, Shown>>
  <2>1. job[p].slug \in Slug
    BY <1>1, Written
  <2>2. CASE job[p].op = "deploy"
    <3>1. job[p].id \in Id
      BY <1>1, <2>2, Written, PendingIssued DEF Pending
    <3>2. QED BY <1>1, <2>1, <2>2, <3>1, Publishing DEF Registry!Next
  <2>3. CASE job[p].op # "deploy"
    BY <1>1, <2>1, <2>3, Replacing DEF Registry!Next
  <2>4. QED BY <2>2, <2>3
<1>2. ASSUME NEW p \in Handler, DeleteRecord(p) PROVE Registry!Next \/ UNCHANGED <<site, Spent, Shown>>
  <2>1. job[p].slug \in Slug
    BY <1>2 DEF DeleteRecord, Typed, JobOK
  <2>2. QED BY <1>2, <2>1, Removing DEF Registry!Next
<1>3. ASSUME NEW p \in Handler, Commit(p) \/ PutDeploy(p) PROVE UNCHANGED <<site, Spent, Shown>>
  BY <1>3, Preparing
<1>4. CASE UNCHANGED site /\ NoneIssued
  BY <1>4, Wasting DEF Registry!Next
<1>5. QED
  BY <1>1, <1>2, <1>3, <1>4, Writers, Issues

\* What the registry needs to know is always so.
LEMMA AlwaysRegistered == Spec => []RegistryInv
<1>1. IntactInv => PendingIds
  BY DEF IntactInv
<1>2. Typed /\ RecordInv /\ IntactInv /\ BackTo => RegistryInv
  BY <1>1 DEF RegistryInv
<1>3. QED
  BY <1>2, AlwaysTyped, AlwaysContinued, AlwaysIntact, AlwaysBackTo, PTL

\* "Each deploy is an immutable manifest", "the site's current pointer flips atomically"
\* (store.go): the node implements the registry of sites, with its handlers, failed
\* writes, crashes, pruned manifests and passes of the sweeper.
THEOREM NodeImplementsRegistry == Spec => ImplementsRegistry
<1>1. RegistryInv /\ RegistryInv' /\ [Next]_vars => [Registry!Next]_(Registry!vars)
  BY RegistryStep DEF RegistryInv
<1>2. QED
  BY <1>1, RegistryInit, AlwaysRegistered, PTL DEF Spec, ImplementsRegistry, Registry!Spec


\* A history that ends with a deploy, after some that another one lists, in their order.
Ends(ds, new, d) ==
  /\ Len(new) \in Nat /\ Len(new) >= 1 /\ new[Len(new)] = d
  /\ \E cut \in {0, 1} : \A i \in 1..(Len(new) - 1) : i + cut \in 1..Len(ds) /\ new[i] = ds[i + cut]

\* A history that gets a new deploy lists it last, after deploys that it listed before.
LEMMA PublishedLast ==
  ASSUME NEW ds \in Seq(Id), NEW d \in Id, NEW new, Grown(ds, new, d)
  PROVE  Ends(ds, new, d)
<1> DEFINE cut == Len(ds) + 1 - Len(new)
<1>1. /\ new \in Seq(Id) /\ Len(new) \in {Len(ds), Len(ds) + 1} /\ Len(new) >= 1
      /\ new[Len(new)] = d
      /\ \A i \in 1..(Len(new) - 1) : new[i] = ds[i + cut]
  BY NewHistory
<1>2. Len(ds) \in Nat /\ Len(new) \in Nat
  BY <1>1
<1>3. cut \in {0, 1} /\ \A i \in 1..(Len(new) - 1) : i + cut \in 1..Len(ds)
  BY <1>1, <1>2
<1> HIDE DEF cut
<1>4. QED
  BY <1>1, <1>2, <1>3 DEF Ends

\* Every step of the registry lists each deploy once.
LEMMA ListedStep ==
  Typed /\ Registry!ListedOnce /\ [Registry!Next]_(Registry!vars) => Registry!ListedOnce'
<1> SUFFICES ASSUME Typed, Registry!ListedOnce, [Registry!Next]_(Registry!vars)
             PROVE  Registry!ListedOnce'
  OBVIOUS
<1> USE DEF Registry!ListedOnce
<1>1. ASSUME Spent \subseteq Spent',
             \A s \in Slug : site'[s].deploys = site[s].deploys \/ Len(site'[s].deploys) = 0
      PROVE  Registry!ListedOnce'
  <2> SUFFICES ASSUME NEW s \in Slug, NEW i \in 1..Len(site'[s].deploys)
               PROVE  /\ site'[s].deploys[i] \in Spent'
                      /\ \A t \in Slug : \A j \in 1..Len(site'[t].deploys) :
                           site'[s].deploys[i] = site'[t].deploys[j] => s = t /\ i = j
    OBVIOUS
  <2>1. \A t \in Slug : Len(site'[t].deploys) = 0 => 1..Len(site'[t].deploys) = {}
    OBVIOUS
  <2>2. site'[s].deploys = site[s].deploys
    BY <1>1, <2>1
  <2>3. ASSUME NEW t \in Slug, NEW j \in 1..Len(site'[t].deploys), site'[s].deploys[i] = site'[t].deploys[j]
        PROVE  s = t /\ i = j
    <3>1. site'[t].deploys = site[t].deploys
      BY <1>1, <2>1
    <3>2. QED BY <2>2, <2>3, <3>1
  <2>4. QED BY <1>1, <2>2, <2>3
<1>2. CASE UNCHANGED <<site, Spent, Shown>> \/ Registry!Waste
  BY <1>1, <1>2 DEF Registry!Waste
<1>3. ASSUME NEW s \in Slug, NEW o \in Owner, Registry!Claim(s, o) PROVE Registry!ListedOnce'
  <2>1. site' = [site EXCEPT ![s] = [Registry!Unclaimed EXCEPT !.owner = o]] /\ UNCHANGED Spent
    BY <1>3 DEF Registry!Claim
  <2>2. [Registry!Unclaimed EXCEPT !.owner = o].deploys = <<>>
    BY DEF Registry!Unclaimed
  <2>3. QED BY <1>1, <2>1, <2>2 DEF Typed, TypeOK
<1>4. ASSUME NEW s \in Slug, NEW d \in Id, Registry!Rollback(s, d) PROVE Registry!ListedOnce'
  BY <1>1, <1>4 DEF Registry!Rollback, Typed, TypeOK, Site
<1>5. ASSUME NEW s \in Slug, Registry!Remove(s) PROVE Registry!ListedOnce'
  <2>1. site' = [site EXCEPT ![s] = Registry!Unclaimed] /\ UNCHANGED Spent
    BY <1>5 DEF Registry!Remove
  <2>2. Registry!Unclaimed.deploys = <<>>
    BY DEF Registry!Unclaimed
  <2>3. QED BY <1>1, <2>1, <2>2 DEF Typed, TypeOK
<1>6. ASSUME NEW s \in Slug, NEW d \in Id, Registry!Publish(s, d) PROVE Registry!ListedOnce'
  <2>1. d \notin Spent /\ Spent' = Spent \cup {d} /\ \A t \in Slug \ {s} : site'[t] = site[t]
    BY <1>6 DEF Registry!Publish, Typed, TypeOK
  <2> DEFINE ds == site[s].deploys
             new == site'[s].deploys
  <2>2. Ends(ds, new, d)
    <3>1. ds \in Seq(Id)
      BY DEF Typed, TypeOK, Site
    <3>2. new = Registry!Longer(ds, d)
      BY <1>6 DEF Registry!Publish, Typed, TypeOK, Site
    <3>3. ~(Len(ds) < KeepDeploys) => ds # <<>>
      BY NodeAssumption
    <3> HIDE DEF ds, new
    <3>4. Grown(ds, new, d)
      BY <3>2, <3>3 DEF Registry!Longer, Grown
    <3>5. QED BY <3>1, <3>4, PublishedLast
  <2>3. \A i \in 1..Len(new) : i = Len(new) \/ i \in 1..(Len(new) - 1)
    BY <2>2 DEF Ends
  <2>4. \A i \in 1..(Len(new) - 1) : new[i] \in Spent
    BY <2>2 DEF Ends
  <2>5. \A i \in 1..Len(new) : new[i] \in Spent'
    BY <2>1, <2>2, <2>3, <2>4 DEF Ends
  <2>6. \A i, j \in 1..Len(new) : new[i] = new[j] => i = j
    <3>1. \A i, j \in 1..(Len(new) - 1) : new[i] = new[j] => i = j
      <4> SUFFICES ASSUME NEW i \in 1..(Len(new) - 1), NEW j \in 1..(Len(new) - 1), new[i] = new[j] PROVE i = j
        OBVIOUS
      <4>1. PICK cut \in {0, 1} : /\ i + cut \in 1..Len(ds) /\ new[i] = ds[i + cut]
                                 /\ j + cut \in 1..Len(ds) /\ new[j] = ds[j + cut]
        BY <2>2 DEF Ends
      <4>2. i + cut = j + cut
        <5> DEFINE k == i + cut
                   l == j + cut
        <5>1. k \in 1..Len(ds) /\ l \in 1..Len(ds) /\ ds[k] = ds[l]
          BY <4>1
        <5> HIDE DEF k, l
        <5>2. k = l
          BY <5>1
        <5>3. QED BY <5>2 DEF k, l
      <4>3. QED BY <4>2
    <3>2. QED BY <2>1, <2>2, <2>3, <2>4, <3>1 DEF Ends
  <2>7. \A t \in Slug \ {s} : \A i \in 1..Len(new), j \in 1..Len(site[t].deploys) : new[i] # site[t].deploys[j]
    <3> SUFFICES ASSUME NEW t \in Slug \ {s}, NEW i \in 1..Len(new), NEW j \in 1..Len(site[t].deploys)
                 PROVE  new[i] # site[t].deploys[j]
      OBVIOUS
    <3>1. CASE i = Len(new)
      BY <2>1, <2>2, <3>1 DEF Ends
    <3>2. CASE i \in 1..(Len(new) - 1)
      <4>1. PICK k \in 1..Len(ds) : new[i] = ds[k]
        BY <2>2, <3>2 DEF Ends
      <4>2. ds[k] # site[t].deploys[j]
        OBVIOUS
      <4>3. QED BY <4>1, <4>2
    <3>3. QED BY <2>3, <3>1, <3>2
  <2>8. ASSUME NEW t \in Slug, NEW u \in Slug, t # s, u # s
        PROVE  /\ \A i \in 1..Len(site'[t].deploys) : site'[t].deploys[i] \in Spent'
               /\ \A i \in 1..Len(site'[t].deploys), j \in 1..Len(site'[u].deploys) :
                    site'[t].deploys[i] = site'[u].deploys[j] => t = u /\ i = j
    <3>1. site'[t] = site[t] /\ site'[u] = site[u] /\ Spent \subseteq Spent'
      BY <2>1, <2>8
    <3>2. QED BY <3>1
  <2>9. \A t \in Slug \ {s} : \A i \in 1..Len(new), j \in 1..Len(site'[t].deploys) : new[i] # site'[t].deploys[j]
    BY <2>1, <2>7
  <2> HIDE DEF new
  <2>10. QED BY <2>5, <2>6, <2>8, <2>9 DEF new
<1>7. QED
  BY <1>2, <1>3, <1>4, <1>5, <1>6 DEF Registry!Next, Registry!vars

\* A deploy belongs to one site (store.go: a manifest is kept under its site's slug):
\* no history lists it twice, and no two sites list the same.
THEOREM DeploysListedOnce == Spec => []Registry!ListedOnce
<1>1. Init => Registry!ListedOnce
  BY DEF Init, NoSite, Registry!ListedOnce
<1>2. RegistryInv /\ RegistryInv' /\ Registry!ListedOnce /\ [Next]_vars => Registry!ListedOnce'
  BY RegistryStep, ListedStep DEF RegistryInv
<1>3. QED
  BY <1>1, <1>2, AlwaysRegistered, PTL DEF Spec

\* "Immutable manifest" (store.go): what a published deploy shows stays as it is, also
\* when its manifest was pruned or its site removed.
THEOREM DeploysImmutable == Spec => Registry!Immutable
<1>1. Typed /\ [Registry!Next]_(Registry!vars) => [\A d \in Spent : Shown'[d] = Shown[d]]_(Registry!vars)
  <2> SUFFICES ASSUME Typed, Registry!Next, NEW d \in Spent PROVE Shown'[d] = Shown[d]
    BY DEF Registry!vars
  <2>1. d \in Id
    BY NodeAssumption DEF Spent, Id, Typed, TypeOK
  <2>2. ASSUME NEW s \in Slug, NEW e \in Id, Registry!Publish(s, e) PROVE Shown'[d] = Shown[d]
    <3>1. d # e /\ Shown' = [Shown EXCEPT ![e] = Shown'[e]]
      BY <2>2 DEF Registry!Publish
    <3>2. QED BY <2>1, <3>1 DEF Shown
  <2>3. CASE Registry!Waste
    BY <2>1, <2>3 DEF Registry!Waste
  <2>4. CASE UNCHANGED Shown
    BY <2>4
  <2>5. QED
    BY <2>2, <2>3, <2>4 DEF Registry!Next, Registry!Claim, Registry!Rollback, Registry!Remove
<1>2. QED
  BY <1>1, NodeImplementsRegistry, AlwaysTyped, PTL DEF ImplementsRegistry, Registry!Spec, Registry!Immutable

=============================================================================
