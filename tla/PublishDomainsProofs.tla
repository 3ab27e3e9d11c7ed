------------------------ MODULE PublishDomainsProofs ------------------------
(***************************************************************************)
(* Proofs about PublishDomains: the node keeps its theorems with domains   *)
(* next to it, and domains lead where they should, for any slugs, domains, *)
(* owners and handlers, and any number of requests, refreshes and crashes. *)
(***************************************************************************)
EXTENDS PublishDomains, PublishNodeProofs

-----------------------------------------------------------------------------
\* Whatever happens to domains, sites and deploys go on as PublishNode says.
THEOREM NodeGoesOn == DomainsSpec => Spec
<1>1. DomainsInit => Init
  BY DEF DomainsInit
<1>2. [DomainsNext]_<<vars, domainVars>> => [Next]_vars
  <2> SUFFICES ASSUME [DomainsNext]_<<vars, domainVars>> PROVE [Next]_vars
    OBVIOUS
  <2>1. CASE NodeStep
    BY <2>1 DEF NodeStep
  <2>2. CASE NodeCrash \/ NodeRestart
    BY <2>2 DEF NodeCrash, NodeRestart, Next
  <2>3. CASE UNCHANGED vars
    BY <2>3
  <2>4. QED
    BY <2>1, <2>2, <2>3 DEF DomainsNext
<1>3. QED
  BY <1>1, <1>2, PTL DEF DomainsSpec, Spec

\* What the deploys, the cache and the sweeper of a node promise holds next to its
\* domains, each with the exceptions its definition names: retained deploys are there
\* (but for those a deletion lost whose removal of the record failed), the cache is
\* true, deletions wait for a second pass, sites change owner by a deletion alone,
\* and records change as the registry allows.
THEOREM NodeKeepsPromises ==
  DomainsSpec => /\ [](RetainedReadable /\ CleanIntact /\ CacheCurrent)
                 /\ GracePeriod /\ ClaimsStick /\ ImplementsRegistry
  BY NodeGoesOn, Readable, DeploysIntact, CacheTrue, TwoPasses, ClaimsKept,
     NodeImplementsRegistry, PTL

\* A site without an owner has no record.
Ownerless == \A s \in Slug : ~Claimed(s) => site[s] = NoSite

LEMMA NoOwnerNoRecord == Typed /\ RecordInv => Ownerless
<1> SUFFICES ASSUME Typed, RecordInv, NEW s \in Slug, ~Claimed(s)
             PROVE  site[s] = NoSite
  BY DEF Ownerless
<1>1. site[s] \in Site /\ site[s].deploys \in Seq(Id)
  BY DEF Typed, TypeOK, Site
<1>2. site[s].owner = Nobody /\ site[s].deploys = <<>>
  BY DEF RecordInv, Kept, Claimed
<1>3. site[s].current = 0
  <2>1. Len(site[s].deploys) = 0
    BY <1>2
  <2>2. ~Lists(site[s].deploys, site[s].current)
    BY <2>1 DEF Lists
  <2>3. QED BY <2>2 DEF RecordInv, Kept
<1>4. QED
  BY <1>1, <1>2, <1>3 DEF Site, NoSite

\* What is proved of PublishNode holds here.
LEMMA AlwaysNode == DomainsSpec => [](Typed /\ RecordInv /\ Ownerless)
  BY NodeGoesOn, AlwaysTyped, AlwaysContinued, NoOwnerNoRecord, PTL

-----------------------------------------------------------------------------
\* The domain handlers at work.
Busy(p) == stage[p] # "idle"
At(p, s, d) == Busy(p) /\ ask[p].slug = s /\ ask[p].domain = d

\* A busy handler knows what it is about and holds the lock of the site, which is
\* free for everybody else; the site is claimed and the node is up.
Asking ==
  \A p \in Handler :
    /\ ~Busy(p) => ask[p] = NoAsk
    /\ Busy(p) => /\ up
                  /\ ask[p].slug \in Slug /\ ask[p].domain \in Domain
                  /\ siteLock[ask[p].slug] = p /\ lock[ask[p].slug] = Free
                  /\ Claimed(ask[p].slug)

\* Sites that are not claimed have no domains.
Tidy == \A s \in Slug : ~Claimed(s) => attached[s] = Unattached

\* The file of a domain is of a site that has it as verified, or is about to ...
Filed ==
  \A d \in Domain \ (left \cup cut) : \A s \in Slug :
    domainFile[d] = s =>
      \/ attached[s][d] = "verified"
      \/ \E p \in Handler : At(p, s, d) /\ stage[p] \in {"mapping", "flagging"}

\* ... and no such file is left when the domain goes from the record.
Gone ==
  \A p \in Handler : stage[p] = "detaching" =>
    domainFile[ask[p].domain] # ask[p].slug \/ ask[p].domain \in left \cup cut

\* What the record says of a domain that is being worked on.
Known ==
  \A p \in Handler :
    LET what == attached[ask[p].slug][ask[p].domain]
    IN /\ stage[p] = "attaching" => what = "no"
       /\ stage[p] \in {"filing", "mapping", "flagging"} => what = "pending"
       /\ stage[p] \in {"unmapping", "unfiling"} => what = "verified"

HomeInv == Asking /\ Tidy /\ Filed /\ Gone /\ Known

\* Of a domain that was not raced for, one handler at a time is at work on it ...
OneAsk ==
  \A p, q \in Handler :
    (Busy(p) /\ Busy(q) /\ ask[p].domain = ask[q].domain) => p = q \/ ask[p].domain \in raced

\* ... its file and its route lead to the site that has it as verified, until they
\* are taken away ...
Routed(s, d) ==
  \/ /\ domainFile[d] = s
     /\ \/ ~up \/ domains[d] = s
        \/ \E p \in Handler : At(p, s, d) /\ stage[p] = "unfiling"
  \/ domainFile[d] = NoSlug /\ \E p \in Handler : At(p, s, d) /\ stage[p] = "detaching"

\* ... and nobody has it as verified while a site takes it.
Taken(p) ==
  LET d == ask[p].domain
  IN stage[p] \in {"filing", "mapping", "flagging"} =>
       /\ \A s \in Slug : attached[s][d] # "verified"
       /\ stage[p] \in {"mapping", "flagging"} => domainFile[d] = ask[p].slug
       /\ stage[p] = "flagging" => domains[d] = ask[p].slug

Verified == \A d \in Domain \ (raced \cup cut \cup stranded) : \A s \in Slug : attached[s][d] = "verified" => Routed(s, d)
Taking == \A p \in Handler : Busy(p) /\ ask[p].domain \notin raced \cup cut \cup stranded => Taken(p)

SiteInv == OneAsk /\ Verified /\ Taking

-----------------------------------------------------------------------------
\* What a domain handler does when it begins, goes on and leaves.
LEMMA DomainSteps ==
  ASSUME NEW p \in Handler, DomainStep(p)
  PROVE  \/ \E s \in Slug, d \in Domain : \/ AddDomain(p, s, d) \/ VerifyDomain(p, s, d)
                                          \/ DeleteDomain(p, s, d)
         \/ Attach(p) \/ FileDomain(p) \/ MapDomain(p) \/ FlagDomain(p)
         \/ UnmapDomain(p) \/ UnfileDomain(p) \/ Detach(p) \/ DomainFail(p)
  BY DEF DomainStep

\* The types hold initially.
LEMMA InitDomains == DomainsInit => DomainsTypeOK
  BY NodeAssumption, DomainAssumption
  DEF DomainsInit, DomainsTypeOK, Nowhere, Unattached, NoAsk

\* A domain handler's steps keep the types, ...
LEMMA HandlerTyped ==
  ASSUME DomainsTypeOK, Asking, NEW p \in Handler, DomainStep(p)
  PROVE  DomainsTypeOK'
<1> USE DEF DomainsTypeOK, records, past
<1>0. ask[p].slug \in Slug \cup {NoSlug} /\ (ask[p].domain \in Domain \/ ask[p] = NoAsk)
  BY DEF NoAsk
<1>1. ASSUME NEW s \in Slug, NEW d \in Domain, NEW to, Begin(p, s, d, to),
             to \in {"attaching", "filing", "unmapping", "detaching"}
      PROVE  DomainsTypeOK'
  <2>1. asks' \in Nat /\ raced' \subseteq Domain
        /\ UNCHANGED <<attached, domainFile, domains, fresh, left, cut>>
    BY <1>1 DEF Begin
  <2>2. siteLock' \in [Slug -> Handler \cup {Free}]
    BY <1>1 DEF Begin
  <2>3. ask' \in [Handler -> [slug : Slug, domain : Domain] \cup {NoAsk}]
    BY <1>1 DEF Begin
  <2>4. QED BY <1>1, <2>1, <2>2, <2>3 DEF Begin
<1>2. ASSUME Leaves(p)
      PROVE  /\ stage' = [stage EXCEPT ![p] = "idle"]
             /\ ask' \in [Handler -> [slug : Slug, domain : Domain] \cup {NoAsk}]
             /\ siteLock' \in [Slug -> Handler \cup {Free}] /\ asks' \in Nat
  BY <1>2 DEF Leaves
<1>3. ASSUME NEW what \in {"no", "pending", "verified"}, Says(p, what)
      PROVE  attached' \in [Slug -> [Domain -> {"no", "pending", "verified"}]]
  <2>1. attached[ask[p].slug] \in [Domain -> {"no", "pending", "verified"}] \/ ask[p].slug \notin Slug
    OBVIOUS
  <2>2. QED BY <1>3, <2>1 DEF Says
<1>4. CASE \E s \in Slug, d \in Domain : AddDomain(p, s, d) \/ VerifyDomain(p, s, d) \/ DeleteDomain(p, s, d)
  BY <1>1, <1>4 DEF AddDomain, VerifyDomain, DeleteDomain
<1>5. CASE Attach(p) \/ FlagDomain(p) \/ Detach(p)
  BY <1>2, <1>3, <1>5 DEF Attach, FlagDomain, Detach
<1>6. CASE FileDomain(p)
  BY <1>0, <1>6 DEF FileDomain, Onward
<1>7. CASE MapDomain(p)
  BY <1>0, <1>7 DEF MapDomain, Onward
<1>8. CASE UnmapDomain(p)
  BY <1>8 DEF UnmapDomain, Onward
<1>9. CASE UnfileDomain(p)
  BY <1>9 DEF UnfileDomain, Onward
<1>10. CASE DomainFail(p)
  <2>1. ask[p].domain \in Domain
    BY <1>10 DEF DomainFail, Asking, Busy
  <2>2. QED BY <1>2, <1>10, <2>1 DEF DomainFail
<1>11. QED
  BY <1>4, <1>5, <1>6, <1>7, <1>8, <1>9, <1>10, DomainSteps

\* ... and so do all others.
LEMMA DomainsTypedNext ==
  ASSUME DomainsTypeOK, Asking, DomainsNext
  PROVE  DomainsTypeOK'
<1> USE DEF DomainsTypeOK, records, past, progress
<1>1. CASE NodeStep
  <2>1. attached' \in [Slug -> [Domain -> {"no", "pending", "verified"}]]
    BY <1>1 DEF NodeStep, Unlisted, Unattached
  <2>2. domains' \in [Domain -> Slug \cup {NoSlug}]
    BY <1>1 DEF NodeStep, Unrouted
  <2>3. left' \subseteq Domain
    BY <1>1 DEF NodeStep, Outlive
  <2>4. stranded' \subseteq Domain
    BY <1>1 DEF NodeStep, Strands
  <2>5. QED BY <1>1, <2>1, <2>2, <2>3, <2>4 DEF NodeStep
<1>2. CASE NodeCrash
  <2>1. {ask[p].domain : p \in {q \in Handler : stage[q] \notin {"idle", "attaching", "filing"}}} \subseteq Domain
    BY DEF Asking, Busy
  <2>2. QED BY <1>2, <2>1 DEF NodeCrash, Nowhere
<1>3. Read \subseteq [Domain -> Slug \cup {NoSlug}] /\ \A map : Astray(map) \subseteq Domain
  BY DEF Read, Astray
<1>4. CASE NodeRestart
  BY <1>3, <1>4 DEF NodeRestart
<1>5. CASE RefreshRead
  BY <1>3, <1>5 DEF RefreshRead
<1>6. CASE RefreshSwap
  BY <1>3, <1>6 DEF RefreshSwap
<1>7. ASSUME NEW p \in Handler, DomainStep(p) PROVE DomainsTypeOK'
  BY <1>7, HandlerTyped
<1>8. QED
  BY <1>1, <1>2, <1>4, <1>5, <1>6, <1>7 DEF DomainsNext

\* A domain handler that begins takes the lock of the site, one that leaves gives it back.
LEMMA HandlerAsking ==
  ASSUME DomainsTypeOK, Asking, NEW p \in Handler, DomainStep(p), UNCHANGED vars
  PROVE  Asking'
<1> USE NodeAssumption DEF DomainsTypeOK, Busy
<1>1. up' = up /\ lock' = lock /\ \A s : Claimed(s)' <=> Claimed(s)
  BY DEF vars, disk, memory, Claimed
<1>2. ASSUME NEW s \in Slug, NEW d \in Domain, NEW to, Begin(p, s, d, to),
             to \in {"attaching", "filing", "unmapping", "detaching"}
      PROVE  Asking'
  <2>1. /\ up /\ stage[p] = "idle" /\ lock[s] = Free /\ Claimed(s) /\ siteLock[s] = Free
        /\ siteLock' = [siteLock EXCEPT ![s] = p] /\ stage' = [stage EXCEPT ![p] = to]
        /\ ask' = [ask EXCEPT ![p] = [slug |-> s, domain |-> d]]
    BY <1>2 DEF Begin
  <2>2. ASSUME NEW q \in Handler, q # p, Busy(q)
        PROVE  ask'[q] = ask[q] /\ ask[q].slug # s /\ siteLock'[ask[q].slug] = q
    BY <2>1, <2>2 DEF Asking
  <2>3. QED BY <1>1, <1>2, <2>1, <2>2 DEF Asking
<1>3. ASSUME Leaves(p), Busy(p) PROVE Asking'
  <2>1. ASSUME NEW q \in Handler, q # p, Busy(q)
        PROVE  ask'[q] = ask[q] /\ ask[q].slug # ask[p].slug /\ siteLock'[ask[q].slug] = q
    BY <1>3, <2>1 DEF Asking, Leaves
  <2>2. QED BY <1>1, <1>3, <2>1 DEF Asking, Leaves
<1>4. ASSUME NEW to, Onward(p, to), Busy(p), to # "idle" PROVE Asking'
  BY <1>1, <1>4 DEF Asking, Onward
<1>5. CASE \E s \in Slug, d \in Domain : AddDomain(p, s, d) \/ VerifyDomain(p, s, d) \/ DeleteDomain(p, s, d)
  BY <1>2, <1>5 DEF AddDomain, VerifyDomain, DeleteDomain
<1>6. CASE Attach(p) \/ FlagDomain(p) \/ Detach(p) \/ DomainFail(p)
  BY <1>3, <1>6 DEF Attach, FlagDomain, Detach, DomainFail
<1>7. CASE FileDomain(p) \/ MapDomain(p) \/ UnmapDomain(p) \/ UnfileDomain(p)
  BY <1>4, <1>7 DEF FileDomain, MapDomain, UnmapDomain, UnfileDomain
<1>8. QED
  BY <1>5, <1>6, <1>7, DomainSteps

\* A record is changed by who holds its lock, or takes it.
LEMMA RecordsLocked ==
  ASSUME Typed, RecordInv, Next, NEW s \in Slug, lock[s] = Free, lock'[s] = Free
  PROVE  site'[s] = site[s]
<1> USE NodeAssumption DEF disk, memory, history
<1>1. ASSUME NEW p \in Handler, PutSite(p) PROVE site'[s] = site[s]
  <2>1. /\ pc[p] = "saving" /\ job[p].slug \in Slug /\ site' = [site EXCEPT ![job[p].slug] = job[p].rec]
    BY <1>1 DEF PutSite, Typed, JobOK
  <2>2. lock[job[p].slug] = p
    BY <2>1 DEF RecordInv, Locked, Holds
  <2>3. QED BY <2>1, <2>2 DEF Typed, TypeOK
<1>2. ASSUME NEW p \in Handler, DeleteRecord(p) PROVE site'[s] = site[s]
  <2>1. /\ lock' = [lock EXCEPT ![job[p].slug] = p]
        /\ site' = [site EXCEPT ![job[p].slug] = NoSite] \/ site' = site
    BY <1>2 DEF DeleteRecord, Enter
  <2>2. QED BY <2>1 DEF Typed, TypeOK
<1>3. CASE UNCHANGED site
  BY <1>3
<1>4. ASSUME NEW p \in Handler, Step(p), ~PutSite(p), ~DeleteRecord(p) PROVE UNCHANGED site
  BY <1>4 DEF Step, StoreKnown, StoreFile, StoreIndex, DeployFail, Commit, PutDeploy, Prune, WriteFail,
              ClearCache, DeleteManifests, DeleteFail, ServeDeploy, ServeCache
<1>5. ASSUME NEW p \in Handler, Request(p) PROVE UNCHANGED site
  BY <1>5 DEF Request, ServeSite, Claim, DeleteStart, DeployStart, Rollback
<1>6. Sweep \/ Crash \/ Restart \/ (\E z \in Slug : Expire(z)) => UNCHANGED site
  BY DEF Sweep, SweepStart, SweepUnread, SweepMark, MarkWith, SweepRemove, SweepEnd,
         SweepSite, SweepManifest, SweepUnindex, Crash, Restart, Expire
<1>7. QED
  BY <1>1, <1>2, <1>3, <1>4, <1>5, <1>6, Steps

\* What the rest of the node does, seen from the domain handlers: their sites stay as
\* they are.
LEMMA NodeElsewhere ==
  ASSUME Typed, RecordInv, Asking, DomainsTypeOK, NodeStep, NEW p \in Handler, Busy(p)
  PROVE  /\ site'[ask[p].slug] = site[ask[p].slug] /\ lock'[ask[p].slug] = Free
         /\ attached'[ask[p].slug] = attached[ask[p].slug]
<1>1. ask[p].slug \in Slug /\ siteLock[ask[p].slug] = p /\ lock[ask[p].slug] = Free /\ Claimed(ask[p].slug)
  BY DEF Asking
<1>2. lock'[ask[p].slug] = Free
  BY <1>1, NodeAssumption DEF NodeStep
<1>3. site'[ask[p].slug] = site[ask[p].slug]
  BY <1>1, <1>2, RecordsLocked DEF NodeStep
<1>4. site'[ask[p].slug] # NoSite
  BY <1>1, <1>3 DEF Claimed, NoSite
<1>5. QED
  BY <1>1, <1>2, <1>3, <1>4 DEF NodeStep, Unlisted

\* Whoever asks holds the lock of a site that stays claimed.
LEMMA AskingNext == Typed /\ RecordInv /\ DomainsTypeOK /\ Asking /\ DomainsNext => Asking'
<1> SUFFICES ASSUME Typed, RecordInv, DomainsTypeOK, Asking, DomainsNext PROVE Asking'
  OBVIOUS
<1>1. CASE NodeStep
  <2>1. UNCHANGED <<stage, ask, siteLock>> /\ up'
    BY <1>1 DEF NodeStep, progress
  <2>2. ASSUME NEW p \in Handler, Busy(p) PROVE Claimed(ask[p].slug)' /\ lock'[ask[p].slug] = Free
    BY <1>1, <2>1, <2>2, NodeElsewhere DEF Asking, Claimed
  <2>3. QED BY <2>1, <2>2 DEF Asking, Busy
<1>2. CASE NodeCrash
  BY <1>2 DEF NodeCrash, Asking, Busy
<1>3. CASE NodeRestart \/ (UNCHANGED vars /\ (RefreshRead \/ RefreshSwap))
  <2>1. UNCHANGED <<stage, ask, siteLock, site, lock>> /\ (up => up')
    BY <1>3 DEF NodeRestart, Restart, RefreshRead, RefreshSwap, progress, vars, disk, memory
  <2>2. QED BY <2>1 DEF Asking, Busy, Claimed
<1>4. ASSUME NEW p \in Handler, DomainStep(p), UNCHANGED vars PROVE Asking'
  BY <1>4, HandlerAsking
<1>5. QED
  BY <1>1, <1>2, <1>3, <1>4 DEF DomainsNext

\* Domains have their types, and handlers their locks, always.
LEMMA AlwaysAsking == DomainsSpec => [](DomainsTypeOK /\ Asking)
<1>1. DomainsInit => DomainsTypeOK /\ Asking
  BY InitDomains DEF DomainsInit, Asking, Busy
<1>2. Typed /\ RecordInv /\ DomainsTypeOK /\ Asking /\ [DomainsNext]_<<vars, domainVars>>
        => (DomainsTypeOK /\ Asking)'
  <2> SUFFICES ASSUME Typed, RecordInv, DomainsTypeOK, Asking, [DomainsNext]_<<vars, domainVars>>
               PROVE  (DomainsTypeOK /\ Asking)'
    OBVIOUS
  <2>1. CASE DomainsNext
    BY <2>1, DomainsTypedNext, AskingNext
  <2>2. CASE UNCHANGED <<vars, domainVars>>
    BY <2>2 DEF vars, disk, memory, domainVars, records, progress, past, DomainsTypeOK, Asking, Busy, Claimed
  <2>3. QED BY <2>1, <2>2
<1>3. QED
  BY <1>1, <1>2, AlwaysNode, PTL DEF DomainsSpec

\* Records, files, routes and requests keep their types, whatever is asked, fails,
\* is refreshed or crashes (domain.go, fs.go).
THEOREM NodeTypes == DomainsSpec => []NodeTypeOK
<1>1. Typed /\ DomainsTypeOK => NodeTypeOK
  BY DEF Typed, NodeTypeOK
<1>2. QED
  BY <1>1, AlwaysNode, AlwaysAsking, PTL

-----------------------------------------------------------------------------
\* One domain handler at a time is busy with a site.
LEMMA AskAlone ==
  ASSUME Asking, NEW p \in Handler, NEW q \in Handler, Busy(p), Busy(q), ask[p].slug = ask[q].slug
  PROVE  p = q
  BY DEF Asking

\* The steps of a domain handler keep records, files and requests together.
LEMMA HandlerHome ==
  ASSUME DomainsTypeOK, HomeInv, NEW p \in Handler, DomainStep(p), UNCHANGED vars
  PROVE  Tidy' /\ Filed' /\ Gone' /\ Known'
<1> USE DomainAssumption DEF DomainsTypeOK, HomeInv, At, Busy, records, past
<1>1. \A s : Claimed(s)' <=> Claimed(s)
  BY DEF vars, disk, Claimed
<1>2. ASSUME NEW s \in Slug, NEW d \in Domain, NEW to, Begin(p, s, d, to),
             to \in {"attaching", "filing", "unmapping", "detaching"},
             to = "attaching" => attached[s][d] = "no",
             to = "filing" => attached[s][d] = "pending",
             to = "unmapping" => attached[s][d] = "verified",
             to = "detaching" => attached[s][d] # "verified"
      PROVE  Tidy' /\ Filed' /\ Gone' /\ Known'
  <2>1. /\ stage[p] = "idle" /\ siteLock[s] = Free
        /\ UNCHANGED <<attached, domainFile, left, cut>>
        /\ stage' = [stage EXCEPT ![p] = to]
        /\ ask' = [ask EXCEPT ![p] = [slug |-> s, domain |-> d]]
    BY <1>2 DEF Begin
  <2>2. \A q \in Handler : q # p => stage'[q] = stage[q] /\ ask'[q] = ask[q]
    BY <2>1
  <2>3. Tidy'
    BY <1>1, <2>1 DEF Tidy
  <2>4. Filed'
    BY <2>1, <2>2 DEF Filed
  <2>5. \A q \in Handler : Busy(q) => ask[q].slug # s
    BY <2>1, NodeAssumption DEF Asking
  <2>6. to = "detaching" => domainFile[d] # s \/ d \in left \cup cut
    BY <1>2, <2>5 DEF Filed
  <2>7. Gone'
    BY <1>2, <2>1, <2>2, <2>6 DEF Gone
  <2>8. Known'
    BY <1>2, <2>1, <2>2 DEF Known
  <2>9. QED BY <2>3, <2>4, <2>7, <2>8
<1>3. CASE \E s \in Slug, d \in Domain : AddDomain(p, s, d) \/ VerifyDomain(p, s, d) \/ DeleteDomain(p, s, d)
  BY <1>2, <1>3 DEF AddDomain, VerifyDomain, DeleteDomain
<1> DEFINE h == ask[p].slug
           e == ask[p].domain
<1>4. stage[p] # "idle" =>
        /\ h \in Slug /\ e \in Domain /\ Claimed(h)
        /\ \A q \in Handler : stage[q] # "idle" /\ ask[q].slug = h => q = p
  BY AskAlone DEF Asking
<1>5. ASSUME stage[p] # "idle", Leaves(p), stage[p] \in {"attaching", "filing", "unfiling", "detaching"} \/ e \in cut',
             UNCHANGED <<attached, domainFile, left>>, cut \subseteq cut'
      PROVE  Tidy' /\ Filed' /\ Gone' /\ Known'
  <2>1. \A q \in Handler : q # p => stage'[q] = stage[q] /\ ask'[q] = ask[q]
    BY <1>5 DEF Leaves
  <2>2. stage'[p] = "idle"
    BY <1>5 DEF Leaves
  <2>3. Tidy'
    BY <1>1, <1>5 DEF Tidy
  <2>4. Filed'
    BY <1>4, <1>5, <2>1 DEF Filed
  <2>5. Gone'
    BY <1>5, <2>1, <2>2 DEF Gone
  <2>6. Known'
    BY <1>5, <2>1, <2>2 DEF Known
  <2>7. QED BY <2>3, <2>4, <2>5, <2>6
<1>6. ASSUME stage[p] # "idle", Leaves(p), NEW what \in {"no", "pending", "verified"}, Says(p, what),
             UNCHANGED <<domainFile, left, cut>>,
             what = "verified" \/ domainFile[e] # h \/ e \in left \cup cut
      PROVE  Tidy' /\ Filed' /\ Gone' /\ Known'
  <2>1. \A q \in Handler : q # p => stage'[q] = stage[q] /\ ask'[q] = ask[q]
    BY <1>6 DEF Leaves
  <2>2. /\ stage'[p] = "idle"
        /\ attached'[h][e] = what
        /\ \A s \in Slug, d \in Domain : (s # h \/ d # e) => attached'[s][d] = attached[s][d]
        /\ \A s \in Slug : s # h => attached'[s] = attached[s]
    BY <1>4, <1>6 DEF Leaves, Says
  <2>3. Tidy'
    BY <1>1, <1>4, <1>6, <2>2 DEF Tidy
  <2>4. ASSUME NEW s \in Slug, NEW d \in Domain \ (left \cup cut), domainFile[d] = s
        PROVE  \/ attached'[s][d] = "verified"
               \/ \E q \in Handler : At(q, s, d)' /\ stage'[q] \in {"mapping", "flagging"}
    <3>1. CASE s = h /\ d = e
      BY <1>6, <2>2, <2>4, <3>1
    <3>2. CASE ~(s = h /\ d = e)
      BY <2>1, <2>2, <2>4, <3>2 DEF Filed
    <3>3. QED BY <3>1, <3>2
  <2>5. Filed'
    BY <1>6, <2>4 DEF Filed
  <2>6. Gone'
    BY <1>6, <2>1, <2>2 DEF Gone
  <2>7. Known'
    <3>1. \A q \in Handler : q # p /\ Busy(q) => ask[q].slug \in Slug /\ ask[q].slug # h /\ ask[q].domain \in Domain
      BY <1>4, <1>6 DEF Asking
    <3>2. ASSUME NEW q \in Handler, q # p, Busy(q)
          PROVE  attached'[ask'[q].slug][ask'[q].domain] = attached[ask[q].slug][ask[q].domain]
      BY <2>1, <2>2, <3>1, <3>2
    <3>3. ASSUME NEW q \in Handler
          PROVE  LET what2 == attached'[ask'[q].slug][ask'[q].domain]
                 IN /\ stage'[q] = "attaching" => what2 = "no"
                    /\ stage'[q] \in {"filing", "mapping", "flagging"} => what2 = "pending"
                    /\ stage'[q] \in {"unmapping", "unfiling"} => what2 = "verified"
      BY <2>1, <2>2, <3>2, <3>3 DEF Known
    <3>4. QED BY <3>3 DEF Known
  <2>8. QED BY <2>3, <2>5, <2>6, <2>7
<1>7. CASE Attach(p)
  <2>1. stage[p] = "attaching" /\ attached[h][e] = "no"
    BY <1>7 DEF Attach, Known
  <2>2. \A q \in Handler : At(q, h, e) => stage[q] = "attaching"
    BY <1>4, <2>1
  <2>3. domainFile[e] # h \/ e \in left \cup cut
    BY <1>4, <2>1, <2>2 DEF Filed
  <2>4. QED BY <1>6, <1>7, <2>1, <2>3 DEF Attach
<1>8. CASE FlagDomain(p)
  BY <1>6, <1>8 DEF FlagDomain
<1>9. CASE Detach(p)
  BY <1>6, <1>9 DEF Detach, Gone
<1>10. CASE DomainFail(p)
  BY <1>5, <1>10 DEF DomainFail
<1>11. ASSUME NEW to \in {"mapping", "flagging", "unfiling", "detaching"}, Onward(p, to), stage[p] # "idle"
       PROVE  /\ stage'[p] = to /\ ask' = ask
              /\ \A q \in Handler : q # p => stage'[q] = stage[q]
  BY <1>11 DEF Onward
<1>12. CASE FileDomain(p)
  <2>1. /\ stage[p] = "filing" /\ stage'[p] = "mapping" /\ ask' = ask
        /\ \A q \in Handler : q # p => stage'[q] = stage[q]
        /\ domainFile' = [domainFile EXCEPT ![e] = h] /\ left' = left \ {e}
        /\ UNCHANGED <<attached, cut>>
    BY <1>11, <1>12 DEF FileDomain
  <2>2. Tidy'
    BY <1>1, <2>1 DEF Tidy
  <2>3. Filed'
    <3> SUFFICES ASSUME NEW d \in Domain \ (left' \cup cut'), NEW s \in Slug, domainFile'[d] = s
                 PROVE  \/ attached[s][d] = "verified"
                        \/ \E q \in Handler : At(q, s, d)' /\ stage'[q] \in {"mapping", "flagging"}
      BY <2>1 DEF Filed
    <3>1. CASE d = e
      BY <1>4, <2>1, <3>1
    <3>2. CASE d # e
      BY <2>1, <3>2 DEF Filed
    <3>3. QED BY <3>1, <3>2
  <2>4. Gone'
    BY <1>4, <2>1 DEF Gone
  <2>5. Known'
    BY <1>4, <2>1 DEF Known
  <2>6. QED BY <2>2, <2>3, <2>4, <2>5
<1>13. CASE MapDomain(p) \/ UnmapDomain(p)
  <2>1. /\ ask' = ask /\ stage'[p] \in {"flagging", "unfiling"}
        /\ stage[p] = "mapping" => stage'[p] = "flagging"
        /\ stage[p] = "unmapping" => stage'[p] = "unfiling"
        /\ stage[p] \in {"mapping", "unmapping"}
        /\ \A q \in Handler : q # p => stage'[q] = stage[q]
        /\ UNCHANGED <<attached, domainFile, left, cut>>
    BY <1>11, <1>13 DEF MapDomain, UnmapDomain
  <2>2. Tidy'
    BY <1>1, <2>1 DEF Tidy
  <2>3. Filed'
    BY <2>1 DEF Filed
  <2>4. Gone'
    BY <2>1 DEF Gone
  <2>5. Known'
    BY <2>1 DEF Known
  <2>6. QED BY <2>2, <2>3, <2>4, <2>5
<1>14. CASE UnfileDomain(p)
  <2>1. /\ stage[p] = "unfiling" /\ stage'[p] = "detaching" /\ ask' = ask
        /\ \A q \in Handler : q # p => stage'[q] = stage[q]
        /\ domainFile' = [domainFile EXCEPT ![e] = NoSlug] /\ left' = left \ {e}
        /\ UNCHANGED <<attached, cut>>
    BY <1>11, <1>14 DEF UnfileDomain
  <2>2. Tidy'
    BY <1>1, <2>1 DEF Tidy
  <2>3. Filed'
    BY <1>4, <2>1 DEF Filed
  <2>4. Gone'
    BY <1>4, <2>1 DEF Gone, Asking
  <2>5. Known'
    BY <1>4, <2>1 DEF Known
  <2>6. QED BY <2>2, <2>3, <2>4, <2>5
<1>15. QED
  BY <1>3, <1>7, <1>8, <1>9, <1>10, <1>12, <1>13, <1>14, DomainSteps

\* The rest of the node takes a site's domains along with its record, and no others.
LEMMA NodeHome ==
  ASSUME Typed, RecordInv, DomainsTypeOK, HomeInv, NodeStep, Ownerless'
  PROVE  Tidy' /\ Filed' /\ Gone' /\ Known'
<1> USE DEF HomeInv, DomainsTypeOK, Busy, At
<1>1. /\ UNCHANGED <<domainFile, stage, ask, cut>> /\ left' = left \cup Outlive
      /\ attached' = Unlisted
  BY DEF NodeStep, progress
<1>2. ASSUME NEW s \in Slug, ~Claimed(s)' PROVE attached'[s] = Unattached
  <2>1. site'[s] = NoSite
    BY <1>2 DEF Ownerless
  <2>2. QED BY <1>1, <2>1 DEF Unlisted
<1>3. Tidy'
  BY <1>2 DEF Tidy
<1>4. ASSUME NEW d \in Domain \ (left' \cup cut'), NEW s \in Slug, domainFile[d] = s, attached[s][d] = "verified"
      PROVE  attached'[s][d] = "verified"
  <2>1. Claimed(s)
    BY <1>4 DEF Tidy, Unattached
  <2>2. site'[s] # NoSite
    BY <1>1, <1>4, <2>1 DEF Outlive
  <2>3. QED BY <1>1, <1>4, <2>2 DEF Unlisted
<1>5. Filed'
  BY <1>1, <1>4 DEF Filed
<1>6. Gone'
  BY <1>1 DEF Gone
<1>7. ASSUME NEW p \in Handler, stage[p] # "idle" PROVE attached'[ask[p].slug] = attached[ask[p].slug]
  BY <1>7, NodeElsewhere
<1>8. Known'
  BY <1>1, <1>7 DEF Known
<1>9. QED
  BY <1>3, <1>5, <1>6, <1>8

\* Records, files and requests stay together through every step.
LEMMA HomeNext ==
  ASSUME Typed, RecordInv, DomainsTypeOK, HomeInv, DomainsNext, Ownerless'
  PROVE  HomeInv'
<1>1. Asking'
  BY AskingNext DEF HomeInv
<1>2. CASE NodeStep
  BY <1>1, <1>2, NodeHome DEF HomeInv
<1>3. CASE NodeCrash
  <2>1. /\ UNCHANGED <<attached, domainFile, site, left>>
        /\ \A p \in Handler : stage'[p] = "idle"
        /\ cut' = cut \cup {ask[p].domain : p \in {q \in Handler : stage[q] \notin {"idle", "attaching", "filing"}}}
    BY <1>3 DEF NodeCrash, Crash, disk, records
  <2>2. Tidy' /\ Gone' /\ Known'
    BY <2>1 DEF HomeInv, Tidy, Gone, Known, Claimed
  <2>3. Filed'
    BY <2>1 DEF HomeInv, Filed, At
  <2>4. QED BY <1>1, <2>2, <2>3 DEF HomeInv
<1>4. CASE NodeRestart \/ (UNCHANGED vars /\ (RefreshRead \/ RefreshSwap))
  <2>1. UNCHANGED <<attached, domainFile, site, stage, ask, left, cut>>
    BY <1>4 DEF NodeRestart, Restart, RefreshRead, RefreshSwap, records, progress, past, vars, disk
  <2>2. Tidy' /\ Filed' /\ Gone' /\ Known'
    BY <2>1 DEF HomeInv, Tidy, Filed, Gone, Known, Claimed, At, Busy
  <2>3. QED BY <1>1, <2>2 DEF HomeInv
<1>5. ASSUME NEW p \in Handler, DomainStep(p), UNCHANGED vars PROVE HomeInv'
  BY <1>1, <1>5, HandlerHome DEF HomeInv
<1>6. QED
  BY <1>2, <1>3, <1>4, <1>5 DEF DomainsNext

LEMMA AlwaysHome == DomainsSpec => []HomeInv
<1>1. DomainsInit => HomeInv
  BY DomainAssumption
  DEF DomainsInit, HomeInv, Asking, Tidy, Filed, Gone, Known, Busy, Nowhere
<1>2. Typed /\ RecordInv /\ DomainsTypeOK /\ HomeInv /\ Ownerless'
        /\ [DomainsNext]_<<vars, domainVars>> => HomeInv'
  <2> SUFFICES ASSUME Typed, RecordInv, DomainsTypeOK, HomeInv, Ownerless',
                      [DomainsNext]_<<vars, domainVars>>
               PROVE  HomeInv'
    OBVIOUS
  <2>1. CASE DomainsNext
    BY <2>1, HomeNext
  <2>2. CASE UNCHANGED <<vars, domainVars>>
    BY <2>2 DEF vars, disk, memory, domainVars, records, progress, past, HomeInv, Asking, Tidy, Filed,
                Gone, Known, Busy, At, Claimed
  <2>3. QED BY <2>1, <2>2
<1>3. QED
  BY <1>1, <1>2, AlwaysNode, AlwaysAsking, PTL DEF DomainsSpec

\* A route that its file confirms leads to a site whose record has the domain as
\* verified, or is about to (domain.go, store.go).
THEOREM RoutesLeadHome == DomainsSpec => []LeadsHome
<1>1. DomainsTypeOK /\ HomeInv => LeadsHome
  <2> SUFFICES ASSUME DomainsTypeOK, HomeInv, NEW d \in Domain, NEW s \in Slug, domainFile[d] = s, d \notin left \cup cut
               PROVE  \/ attached[s][d] = "verified"
                      \/ \E p \in Handler : stage[p] \in {"mapping", "flagging"} /\ ask[p] = [slug |-> s, domain |-> d]
    BY DEF LeadsHome
  <2>1. CASE attached[s][d] = "verified"
    BY <2>1
  <2>2. ASSUME NEW p \in Handler, At(p, s, d), stage[p] \in {"mapping", "flagging"}
        PROVE  \E q \in Handler : stage[q] \in {"mapping", "flagging"} /\ ask[q] = [slug |-> s, domain |-> d]
    <3>1. ask[p] \in [slug : Slug, domain : Domain] \cup {NoAsk} /\ ask[p].slug = s /\ ask[p].domain = d
      BY <2>2 DEF At, DomainsTypeOK
    <3>2. ask[p] # NoAsk
      BY <3>1, DomainAssumption DEF NoAsk
    <3>3. ask[p] = [slug |-> s, domain |-> d]
      BY <3>1, <3>2
    <3>4. QED BY <2>2, <3>3
  <2>3. QED BY <2>1, <2>2 DEF HomeInv, Filed
<1>2. QED
  BY <1>1, AlwaysAsking, AlwaysHome, PTL

-----------------------------------------------------------------------------
\* The steps of a domain handler keep a domain with one site.
LEMMA HandlerSite ==
  ASSUME DomainsTypeOK, HomeInv, SiteInv, NEW p \in Handler, DomainStep(p), UNCHANGED vars
  PROVE  SiteInv'
<1> USE DomainAssumption DEF DomainsTypeOK, SiteInv, At, Busy, records, past
<1>1. up' = up
  BY DEF vars
<1>2. ASSUME NEW s \in Slug, NEW d \in Domain, NEW to, Begin(p, s, d, to),
             to \in {"attaching", "filing", "unmapping", "detaching"},
             to = "filing" => attached[s][d] = "pending" /\ domains[d] \in {NoSlug, s}
      PROVE  SiteInv'
  <2>1. /\ stage[p] = "idle" /\ up /\ UNCHANGED <<attached, domainFile, domains, cut, stranded>>
        /\ stage' = [stage EXCEPT ![p] = to]
        /\ ask' = [ask EXCEPT ![p] = [slug |-> s, domain |-> d]]
        /\ raced \subseteq raced'
        /\ d \notin raced' => \A q \in Handler : ask[q].domain # d
    BY <1>2 DEF Begin
  <2>2. \A q \in Handler : q # p => stage'[q] = stage[q] /\ ask'[q] = ask[q]
    BY <2>1
  <2>3. stage'[p] = to /\ ask'[p].slug = s /\ ask'[p].domain = d
    BY <2>1
  <2>4. OneAsk'
    BY <2>1, <2>2, <2>3 DEF OneAsk
  <2>5. ASSUME NEW t \in Slug, NEW b \in Domain, Routed(t, b) PROVE Routed(t, b)'
    BY <1>1, <2>1, <2>2, <2>5 DEF Routed
  <2>6. Verified'
    BY <2>1, <2>5 DEF Verified
  <2>7. ASSUME to = "filing", d \notin raced' \cup cut \cup stranded, NEW t \in Slug PROVE attached[t][d] # "verified"
    <3>1. SUFFICES ASSUME attached[t][d] = "verified" PROVE FALSE
      OBVIOUS
    <3>2. Routed(t, d)
      BY <2>1, <2>7, <3>1 DEF Verified
    <3>3. domains[d] = t
      BY <2>1, <2>7, <3>2 DEF Routed
    <3>4. QED BY <1>2, <2>7, <3>1, <3>3
  <2>8. ASSUME NEW q \in Handler, Busy(q)', ask'[q].domain \notin raced' \cup cut' \cup stranded' PROVE Taken(q)'
    <3>1. CASE q = p
      BY <1>2, <2>1, <2>3, <2>7, <2>8, <3>1 DEF Taken
    <3>2. CASE q # p
      BY <2>1, <2>2, <2>8, <3>2 DEF Taken, Taking
    <3>3. QED BY <3>1, <3>2
  <2>9. QED BY <2>4, <2>6, <2>8 DEF Taking
<1>3. CASE \E s \in Slug, d \in Domain : AddDomain(p, s, d) \/ VerifyDomain(p, s, d) \/ DeleteDomain(p, s, d)
  BY <1>2, <1>3 DEF AddDomain, VerifyDomain, DeleteDomain
<1> DEFINE h == ask[p].slug
           e == ask[p].domain
<1>4. ASSUME stage[p] # "idle"
      PROVE  /\ h \in Slug /\ e \in Domain /\ up
             /\ \A q \in Handler : q # p /\ stage[q] # "idle" => ask[q].slug # h /\ (ask[q].domain # e \/ e \in raced)
  BY <1>4, AskAlone DEF HomeInv, Asking, OneAsk
<1>5. ASSUME stage[p] # "idle", Leaves(p)
      PROVE  /\ stage'[p] = "idle"
             /\ \A q \in Handler : q # p => stage'[q] = stage[q] /\ ask'[q] = ask[q]
  BY <1>5 DEF Leaves
<1>6. ASSUME stage[p] # "idle", Leaves(p), UNCHANGED <<attached, domainFile, domains, raced, stranded>>,
             cut \subseteq cut', stage[p] \in {"attaching", "filing"} \/ e \in cut'
      PROVE  SiteInv'
  <2>1. OneAsk'
    BY <1>5, <1>6 DEF OneAsk
  <2>2. ASSUME NEW t \in Slug, NEW b \in Domain \ cut', Routed(t, b) PROVE Routed(t, b)'
    BY <1>1, <1>5, <1>6, <2>2 DEF Routed
  <2>3. Verified'
    BY <1>6, <2>2 DEF Verified
  <2>4. Taking'
    BY <1>5, <1>6 DEF Taking, Taken
  <2>5. QED BY <2>1, <2>3, <2>4
<1>7. ASSUME stage[p] # "idle", Leaves(p), NEW what \in {"no", "pending", "verified"}, Says(p, what),
             UNCHANGED <<domainFile, domains, cut, raced, stranded>>
      PROVE  /\ OneAsk'
             /\ attached'[h][e] = what
             /\ \A s \in Slug, d \in Domain : (s # h \/ d # e) => attached'[s][d] = attached[s][d]
             /\ \A s \in Slug, d \in Domain : (s # h \/ d # e) /\ Routed(s, d) => Routed(s, d)'
  <2>1. OneAsk'
    BY <1>5, <1>7 DEF OneAsk
  <2>2. /\ attached'[h][e] = what
        /\ \A s \in Slug, d \in Domain : (s # h \/ d # e) => attached'[s][d] = attached[s][d]
    BY <1>4, <1>7 DEF Says
  <2>3. ASSUME NEW s \in Slug, NEW d \in Domain, s # h \/ d # e, Routed(s, d) PROVE Routed(s, d)'
    BY <1>1, <1>5, <1>7, <2>3 DEF Routed
  <2>4. QED BY <2>1, <2>2, <2>3
<1>8. ASSUME stage[p] # "idle", Leaves(p), NEW what \in {"no", "pending"}, Says(p, what),
             UNCHANGED <<domainFile, domains, cut, raced, stranded>>
      PROVE  SiteInv'
  <2>1. /\ OneAsk'
        /\ attached'[h][e] = what
        /\ \A s \in Slug, d \in Domain : (s # h \/ d # e) => attached'[s][d] = attached[s][d]
        /\ \A s \in Slug, d \in Domain : (s # h \/ d # e) /\ Routed(s, d) => Routed(s, d)'
    BY <1>7, <1>8
  <2>2. Verified'
    BY <1>8, <2>1 DEF Verified
  <2>3. \A q \in Handler : Busy(q)' => q # p /\ ask'[q] = ask[q] /\ stage'[q] = stage[q] /\ Busy(q)
                                    /\ ask[q].domain \in Domain
    BY <1>5, <1>8 DEF HomeInv, Asking
  <2>4. ASSUME NEW q \in Handler, Busy(q)', Taken(q) PROVE Taken(q)'
    <3>1. \A s \in Slug : attached'[s][ask[q].domain] = "verified" => attached[s][ask[q].domain] = "verified"
      BY <1>8, <2>1, <2>3, <2>4
    <3>2. QED BY <1>8, <2>3, <2>4, <3>1 DEF Taken
  <2>5. Taking'
    BY <1>8, <2>3, <2>4 DEF Taking
  <2>6. QED BY <2>1, <2>2, <2>5
<1>9. CASE Attach(p) \/ Detach(p)
  BY <1>8, <1>9 DEF Attach, Detach
<1>10. CASE DomainFail(p)
  BY <1>6, <1>10 DEF DomainFail
<1>11. CASE FlagDomain(p)
  <2>1. /\ stage[p] = "flagging" /\ Leaves(p) /\ Says(p, "verified")
        /\ UNCHANGED <<domainFile, domains, cut, raced, stranded>>
    BY <1>11 DEF FlagDomain
  <2>2. /\ OneAsk'
        /\ attached'[h][e] = "verified"
        /\ \A s \in Slug, d \in Domain : (s # h \/ d # e) => attached'[s][d] = attached[s][d]
        /\ \A s \in Slug, d \in Domain : (s # h \/ d # e) /\ Routed(s, d) => Routed(s, d)'
    BY <1>7, <2>1
  <2>3. e \notin raced \cup cut \cup stranded => domainFile[e] = h /\ domains[e] = h
    BY <2>1 DEF Taking, Taken
  <2>4. ASSUME NEW s \in Slug, NEW d \in Domain, s = h, d = e, d \notin raced \cup cut \cup stranded
        PROVE  Routed(s, d)'
    BY <2>1, <2>3, <2>4 DEF Routed
  <2>5. Verified'
    BY <2>1, <2>2, <2>4 DEF Verified
  <2>6. ASSUME NEW q \in Handler, Busy(q)', ask'[q].domain \notin raced' \cup cut' \cup stranded' PROVE Taken(q)'
    <3>1. q # p /\ ask'[q] = ask[q] /\ stage'[q] = stage[q] /\ Busy(q)
      BY <1>5, <2>1, <2>6
    <3>2. ask[q].domain \in Domain /\ ask[q].domain # e
      BY <1>4, <2>1, <2>6, <3>1 DEF HomeInv, Asking
    <3>3. QED BY <2>1, <2>2, <2>6, <3>1, <3>2 DEF Taking, Taken
  <2>7. QED BY <2>2, <2>5, <2>6 DEF Taking
<1>12. ASSUME NEW to \in {"mapping", "flagging", "unfiling", "detaching"}, Onward(p, to), stage[p] # "idle",
              UNCHANGED <<attached, cut, raced, stranded>>,
              \A d \in Domain : d # e => domainFile'[d] = domainFile[d] /\ domains'[d] = domains[d]
       PROVE  /\ OneAsk' /\ stage'[p] = to /\ ask' = ask
              /\ \A s \in Slug, d \in Domain : d # e /\ Routed(s, d) => Routed(s, d)'
              /\ \A q \in Handler : q # p /\ Busy(q)' /\ ask'[q].domain \notin raced' \cup cut' \cup stranded' => Taken(q)'
  <2>1. stage'[p] = to /\ ask' = ask /\ \A q \in Handler : q # p => stage'[q] = stage[q]
    BY <1>12 DEF Onward
  <2>2. OneAsk'
    BY <1>12, <2>1 DEF OneAsk
  <2>3. ASSUME NEW s \in Slug, NEW d \in Domain, d # e, Routed(s, d) PROVE Routed(s, d)'
    BY <1>1, <1>12, <2>1, <2>3 DEF Routed
  <2>4. ASSUME NEW q \in Handler, q # p, Busy(q)', ask'[q].domain \notin raced' \cup cut' \cup stranded' PROVE Taken(q)'
    <3>1. ask[q].domain \in Domain /\ ask[q].domain # e /\ Taken(q)
      BY <1>4, <1>12, <2>1, <2>4 DEF HomeInv, Asking, Taking
    <3>2. QED BY <1>12, <2>1, <2>4, <3>1 DEF Taken
  <2>5. QED BY <2>1, <2>2, <2>3, <2>4
<1>13. CASE FileDomain(p) \/ MapDomain(p)
  <2>1. /\ stage[p] \in {"filing", "mapping"} /\ UNCHANGED <<attached, cut, raced, stranded>>
        /\ stage[p] = "filing" => Onward(p, "mapping") /\ domainFile' = [domainFile EXCEPT ![e] = h]
                                  /\ domains' = domains
        /\ stage[p] = "mapping" => Onward(p, "flagging") /\ domains' = [domains EXCEPT ![e] = h]
                                   /\ domainFile' = domainFile
    BY <1>13 DEF FileDomain, MapDomain
  <2>2. e \notin raced \cup cut \cup stranded => \A s \in Slug : attached[s][e] # "verified"
    BY <2>1 DEF Taking, Taken
  <2>3. /\ OneAsk' /\ ask' = ask
        /\ \A s \in Slug, d \in Domain : d # e /\ Routed(s, d) => Routed(s, d)'
        /\ \A q \in Handler : q # p /\ Busy(q)' /\ ask'[q].domain \notin raced' \cup cut' \cup stranded' => Taken(q)'
        /\ stage[p] = "filing" => stage'[p] = "mapping"
        /\ stage[p] = "mapping" => stage'[p] = "flagging"
    BY <1>12, <2>1
  <2>4. Verified'
    BY <2>1, <2>2, <2>3 DEF Verified
  <2>5. e \notin raced \cup cut \cup stranded => Taken(p)'
    BY <1>4, <2>1, <2>2, <2>3 DEF Taking, Taken
  <2>6. QED BY <2>1, <2>3, <2>4, <2>5 DEF Taking
<1>14. CASE UnmapDomain(p) \/ UnfileDomain(p)
  <2>1. /\ stage[p] \in {"unmapping", "unfiling"} /\ UNCHANGED <<attached, cut, raced, stranded>>
        /\ stage[p] = "unmapping" => Onward(p, "unfiling") /\ domains' = [domains EXCEPT ![e] = NoSlug]
                                     /\ domainFile' = domainFile
        /\ stage[p] = "unfiling" => Onward(p, "detaching") /\ domainFile' = [domainFile EXCEPT ![e] = NoSlug]
                                    /\ domains' = domains
    BY <1>14 DEF UnmapDomain, UnfileDomain
  <2>2. /\ OneAsk' /\ ask' = ask
        /\ \A s \in Slug, d \in Domain : d # e /\ Routed(s, d) => Routed(s, d)'
        /\ \A q \in Handler : q # p /\ Busy(q)' /\ ask'[q].domain \notin raced' \cup cut' \cup stranded' => Taken(q)'
        /\ stage[p] = "unmapping" => stage'[p] = "unfiling"
        /\ stage[p] = "unfiling" => stage'[p] = "detaching"
    BY <1>12, <2>1
  <2>3. attached[h][e] = "verified"
    BY <2>1 DEF HomeInv, Known
  <2>4. ASSUME e \notin raced \cup cut \cup stranded PROVE domainFile[e] = h
    <3>1. Routed(h, e)
      BY <1>4, <2>1, <2>3, <2>4 DEF Verified
    <3>2. \A q \in Handler : At(q, h, e) => q = p
      BY <1>4, <2>1
    <3>3. QED BY <2>1, <3>1, <3>2 DEF Routed
  <2>5. ASSUME e \notin raced \cup cut \cup stranded, NEW s \in Slug, attached[s][e] = "verified" PROVE s = h
    <3>1. Routed(s, e)
      BY <1>4, <2>1, <2>5 DEF Verified
    <3>2. QED BY <1>4, <2>1, <2>4, <2>5, <3>1 DEF Routed
  <2>6. e \notin raced \cup cut \cup stranded => Routed(h, e)'
    BY <1>4, <2>1, <2>2, <2>4 DEF Routed
  <2>7. Verified'
    BY <2>1, <2>2, <2>5, <2>6 DEF Verified
  <2>8. Taken(p)'
    BY <2>1, <2>2 DEF Taken
  <2>9. QED BY <2>2, <2>7, <2>8 DEF Taking
<1>15. QED
  BY <1>3, <1>9, <1>10, <1>11, <1>13, <1>14, DomainSteps

\* The rest of the node takes routes away only from sites that are gone.
LEMMA NodeSite ==
  ASSUME Typed, RecordInv, DomainsTypeOK, HomeInv, SiteInv, NodeStep
  PROVE  SiteInv'
<1> USE DEF DomainsTypeOK, Busy, At
<1>1. /\ UNCHANGED <<domainFile, stage, ask, cut, raced>> /\ up /\ up'
      /\ attached' = Unlisted /\ domains' = Unrouted /\ stranded' = stranded \cup Strands
  BY DEF NodeStep, progress
<1>2. ASSUME NEW s \in Slug, NEW d \in Domain, attached'[s][d] = "verified" PROVE attached[s][d] = "verified"
  BY <1>1, <1>2 DEF Unlisted, Unattached
<1>3. ASSUME NEW d \in Domain, domains'[d] # domains[d]
      PROVE  \E q \in Handler : pc[q] = "removing" /\ job[q].slug = domains[d]
  BY <1>1, <1>3 DEF Unrouted
<1>4. ASSUME NEW s \in Slug, NEW d \in Domain \ stranded', domains[d] = s, attached[s][d] = "verified"
      PROVE  domains'[d] = s
  BY <1>1, <1>4 DEF Strands
<1>5. ASSUME NEW p \in Handler, Busy(p), domains[ask[p].domain] = ask[p].slug
      PROVE  domains'[ask[p].domain] = ask[p].slug
  <2>1. /\ ask[p].slug \in Slug /\ ask[p].domain \in Domain /\ lock[ask[p].slug] = Free
    BY <1>5 DEF HomeInv, Asking
  <2>2. ASSUME NEW q \in Handler, pc[q] = "removing", job[q].slug = ask[p].slug PROVE FALSE
    BY <2>1, <2>2, NodeAssumption DEF RecordInv, Locked, Holds
  <2>3. QED BY <1>3, <1>5, <2>1, <2>2
<1>6. OneAsk'
  BY <1>1 DEF SiteInv, OneAsk
<1>7. Verified'
  BY <1>1, <1>2, <1>4 DEF SiteInv, Verified, Routed
<1>8. ASSUME NEW p \in Handler, Busy(p), ask[p].domain \notin raced \cup cut \cup stranded' PROVE Taken(p)'
  <2>1. Taken(p) /\ ask[p].domain \in Domain
    BY <1>1, <1>8 DEF SiteInv, Taking, HomeInv, Asking
  <2>2. QED BY <1>1, <1>2, <1>5, <1>8, <2>1 DEF Taken
<1>9. Taking'
  BY <1>1, <1>8 DEF Taking
<1>10. QED
  BY <1>6, <1>7, <1>9 DEF SiteInv

\* A map that is read from the files leads where the files do, or there was a race.
LEMMA MapSite ==
  ASSUME DomainsTypeOK, HomeInv, SiteInv, NEW map, domains' = map, raced' = raced \cup Astray(map),
         UNCHANGED <<attached, domainFile, stage, ask, cut, stranded>>,
         up' = up \/ \A p \in Handler : ~Busy(p)
  PROVE  SiteInv'
<1> USE DEF DomainsTypeOK, Busy, At
<1>1. \A d \in Domain \ raced' : domains'[d] = domainFile[d]
  BY DEF Astray
<1>2. OneAsk'
  BY DEF SiteInv, OneAsk
<1>3. ASSUME NEW d \in Domain \ (raced' \cup cut \cup stranded), NEW s \in Slug, attached[s][d] = "verified" PROVE Routed(s, d)'
  <2>1. Routed(s, d)
    BY <1>3 DEF SiteInv, Verified
  <2>2. QED BY <1>1, <1>3, <2>1 DEF Routed
<1>4. Verified'
  BY <1>3 DEF Verified
<1>5. ASSUME NEW p \in Handler, Busy(p), ask[p].domain \notin raced' \cup cut \cup stranded PROVE Taken(p)'
  <2>1. Taken(p) /\ ask[p].domain \in Domain
    BY <1>5 DEF SiteInv, Taking, HomeInv, Asking
  <2>2. QED BY <1>1, <1>5, <2>1 DEF Taken
<1>6. Taking'
  BY <1>5 DEF Taking
<1>7. QED
  BY <1>2, <1>4, <1>6 DEF SiteInv

\* No step gives a domain that was not raced for to a second site.
LEMMA SiteNext ==
  ASSUME Typed, RecordInv, DomainsTypeOK, HomeInv, SiteInv, DomainsNext
  PROVE  SiteInv'
<1>1. CASE NodeStep
  BY <1>1, NodeSite
<1>2. CASE NodeCrash
  <2>1. /\ UNCHANGED <<attached, domainFile, raced, stranded>> /\ up' = FALSE
        /\ \A p \in Handler : stage'[p] = "idle"
        /\ cut' = cut \cup {ask[p].domain : p \in {q \in Handler : stage[q] \notin {"idle", "attaching", "filing"}}}
    BY <1>2 DEF NodeCrash, Crash, records
  <2>2. OneAsk' /\ Taking'
    BY <2>1 DEF OneAsk, Taking, Busy
  <2>3. ASSUME NEW d \in Domain \ (raced \cup cut' \cup stranded), NEW s \in Slug, attached[s][d] = "verified" PROVE domainFile[d] = s
    BY <2>1, <2>3 DEF SiteInv, Verified, Routed, At
  <2>4. Verified'
    BY <2>1, <2>3 DEF Verified, Routed
  <2>5. QED BY <2>2, <2>4 DEF SiteInv
<1>3. CASE NodeRestart
  <2>1. ~up /\ UNCHANGED <<attached, domainFile, stage, ask, cut, stranded>>
    BY <1>3 DEF NodeRestart, Restart, records, progress
  <2>2. \A p \in Handler : ~Busy(p)
    BY <2>1 DEF HomeInv, Asking
  <2>3. QED BY <1>3, <2>1, <2>2, MapSite DEF NodeRestart
<1>4. CASE UNCHANGED vars /\ RefreshSwap
  <2>1. up' = up /\ UNCHANGED <<attached, domainFile, stage, ask, cut, stranded>>
    BY <1>4 DEF vars, RefreshSwap, records, progress
  <2>2. QED BY <1>4, <2>1, MapSite DEF RefreshSwap
<1>5. CASE UNCHANGED vars /\ RefreshRead
  BY <1>5 DEF RefreshRead, vars, records, progress, past, SiteInv, OneAsk, Verified, Routed, Taking, Taken, Busy, At
<1>6. ASSUME NEW p \in Handler, DomainStep(p), UNCHANGED vars PROVE SiteInv'
  BY <1>6, HandlerSite
<1>7. QED
  BY <1>1, <1>2, <1>3, <1>4, <1>5, <1>6 DEF DomainsNext

\* "Refuse to attach a domain already verified to another site" (domain.go), though
\* the check holds only the lock of the other site: without a race, a request that
\* was cut off, or a deletion that dropped the route while the record stayed, a domain
\* is verified for one site at most.
THEOREM DomainsUnique == DomainsSpec => []OneSite
<1>1. DomainsInit => SiteInv
  BY DEF DomainsInit, SiteInv, OneAsk, Verified, Taking, Busy, Unattached
<1>2. Typed /\ RecordInv /\ DomainsTypeOK /\ HomeInv /\ SiteInv
        /\ [DomainsNext]_<<vars, domainVars>> => SiteInv'
  <2> SUFFICES ASSUME Typed, RecordInv, DomainsTypeOK, HomeInv, SiteInv, [DomainsNext]_<<vars, domainVars>>
               PROVE  SiteInv'
    OBVIOUS
  <2>1. CASE DomainsNext
    BY <2>1, SiteNext
  <2>2. CASE UNCHANGED <<vars, domainVars>>
    BY <2>2 DEF vars, domainVars, records, progress, past, SiteInv, OneAsk, Verified, Routed, Taking, Taken, Busy, At
  <2>3. QED BY <2>1, <2>2
<1>3. DomainsTypeOK /\ HomeInv /\ SiteInv => OneSite
  <2> SUFFICES ASSUME DomainsTypeOK, HomeInv, SiteInv, NEW d \in Domain \ (raced \cup cut \cup stranded),
                      NEW s \in Slug, NEW t \in Slug, attached[s][d] = "verified", attached[t][d] = "verified"
               PROVE  s = t
    BY DEF OneSite
  <2>1. Routed(s, d) /\ Routed(t, d)
    BY DEF SiteInv, Verified
  <2>2. ASSUME NEW p \in Handler, NEW q \in Handler, At(p, s, d), At(q, t, d) PROVE s = t
    BY <2>2 DEF SiteInv, OneAsk, At
  <2>3. QED BY <2>1, <2>2, DomainAssumption DEF Routed
<1>4. QED
  BY <1>1, <1>2, <1>3, AlwaysNode, AlwaysAsking, AlwaysHome, PTL DEF DomainsSpec
=============================================================================
