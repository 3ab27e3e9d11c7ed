--------------------------- MODULE PublishDomains ---------------------------
(***************************************************************************)
(* Custom domains of the publish node (publish/internal/server/domain.go   *)
(* over store/fs.go), next to everything PublishNode does.  A site's       *)
(* record lists the domains that are attached to it, verified or not; a    *)
(* verified one has a file of its own, and an entry in the map by which    *)
(* requests are routed.  Record, file and map are written one after the    *)
(* other, under the lock of the site, which is not the lock of the domain. *)
(***************************************************************************)
EXTENDS PublishNode

CONSTANTS
  Domain,
  NoSlug,       \* a domain leads nowhere
  MaxDomains,   \* domains per owner
  MaxAsks       \* bound: requests about domains, in all

ASSUME DomainAssumption ==
  NoSlug \notin Slug /\ MaxDomains \in Nat /\ MaxAsks \in Nat

VARIABLES
  attached,     \* SiteMeta.Domains in the record files: what a site says of a domain
  domainFile,   \* the files of verified domains
  domains,      \* FS.domains: where a request for a domain is routed
  stage, ask,   \* where each handler is with a domain, and of which site
  siteLock,     \* Server.siteLocks, as far as these handlers hold them
  fresh,        \* what Refresh has read, {} or {map}
  asks,
  \* History:
  left,         \* domains whose file outlived its site
  cut,          \* domains about which a request was cut off between its writes
  raced,        \* domains two sites, or a site and a refresh, were at together
  stranded      \* domains whose route a deletion dropped, and the record of their site stayed

records == <<attached, domainFile>>
progress == <<stage, ask, siteLock, asks>>
past == <<left, cut, raced, stranded>>
domainVars == <<records, domains, progress, fresh, past>>

Nowhere == [d \in Domain |-> NoSlug]
Unattached == [d \in Domain |-> "no"]
NoAsk == [slug |-> NoSlug, domain |-> NoSlug]

DomainsInit ==
  /\ Init
  /\ attached = [s \in Slug |-> Unattached]
  /\ domainFile = Nowhere /\ domains = Nowhere
  /\ stage = [p \in Handler |-> "idle"] /\ ask = [p \in Handler |-> NoAsk]
  /\ siteLock = [s \in Slug |-> Free]
  /\ fresh = {} /\ asks = 0
  /\ left = {} /\ cut = {} /\ raced = {} /\ stranded = {}

-----------------------------------------------------------------------------
\* A handler begins on a domain of a site: the owner is checked under its lock.
Begin(p, s, d, to) ==
  /\ up /\ pc[p] = "idle" /\ stage[p] = "idle"
  /\ asks < MaxAsks /\ asks' = asks + 1
  /\ Claimed(s)
  /\ MuFree /\ lock[s] = Free /\ siteLock[s] = Free
  /\ siteLock' = [siteLock EXCEPT ![s] = p]
  /\ stage' = [stage EXCEPT ![p] = to]
  /\ ask' = [ask EXCEPT ![p] = [slug |-> s, domain |-> d]]
  /\ raced' = IF \E q \in Handler : ask[q].domain = d THEN raced \cup {d} ELSE raced
  /\ UNCHANGED <<records, domains, fresh, left, cut, stranded>>

\* The next write of the handler, and its last one.
Onward(p, to) == stage' = [stage EXCEPT ![p] = to] /\ UNCHANGED <<ask, siteLock, asks>>
Leaves(p) ==
  /\ stage' = [stage EXCEPT ![p] = "idle"] /\ ask' = [ask EXCEPT ![p] = NoAsk]
  /\ siteLock' = [siteLock EXCEPT ![ask[p].slug] = Free]
  /\ UNCHANGED asks

\* The record of the site, with what it says of the domain.
Says(p, what) == attached' = [attached EXCEPT ![ask[p].slug][ask[p].domain] = what]

\* The domains of all sites of an owner, as ListSites finds them.
DomainsOf(o) == {sd \in SitesOf(o) \X Domain : attached[sd[1]][sd[2]] # "no"}

\* handleAddDomain: below the cap of the owner, unless the domain leads to another
\* site.  One that is attached already changes nothing.
AddDomain(p, s, d) ==
  /\ attached[s][d] = "no"
  /\ Cardinality(DomainsOf(site[s].owner)) < MaxDomains
  /\ domains[d] \in {NoSlug, s}
  /\ Begin(p, s, d, "attaching")

\* PutSite.
Attach(p) ==
  /\ stage[p] = "attaching"
  /\ Says(p, "pending") /\ Leaves(p)
  /\ UNCHANGED <<domainFile, domains, fresh, past>>

\* Mutation of VerifyDomain: SetDomain without its check.
VerifyDomain_Unchecked(p, s, d) ==
  /\ attached[s][d] = "pending"
  /\ Begin(p, s, d, "filing")

\* handleVerifyDomain: the TXT record has been found, and SetDomain finds that the
\* domain does not lead to another site ...
VerifyDomain(p, s, d) ==
  /\ attached[s][d] = "pending"
  /\ domains[d] \in {NoSlug, s}
  /\ Begin(p, s, d, "filing")

\* ... writes its file ...
FileDomain(p) ==
  LET d == ask[p].domain
  IN /\ stage[p] = "filing"
     /\ domainFile' = [domainFile EXCEPT ![d] = ask[p].slug]
     /\ Onward(p, "mapping")
     /\ left' = left \ {d}
     /\ UNCHANGED <<attached, domains, fresh, cut, raced, stranded>>

\* ... and routes it, whatever it was routed to meanwhile; ...
MapDomain(p) ==
  /\ stage[p] = "mapping"
  /\ domains' = [domains EXCEPT ![ask[p].domain] = ask[p].slug]
  /\ Onward(p, "flagging")
  /\ UNCHANGED <<records, fresh, past>>

\* ... then PutSite says so in the record.
FlagDomain(p) ==
  /\ stage[p] = "flagging"
  /\ Says(p, "verified") /\ Leaves(p)
  /\ UNCHANGED <<domainFile, domains, fresh, past>>

\* Mutation of DeleteDomain: the entry is looked at after it was removed.
DeleteDomain_Flagless(p, s, d) ==
  /\ attached[s][d] # "no"
  /\ Begin(p, s, d, "detaching")

\* handleDeleteDomain: of a verified domain, DeleteDomain drops ...
DeleteDomain(p, s, d) ==
  /\ attached[s][d] # "no"
  /\ Begin(p, s, d, IF attached[s][d] = "verified" THEN "unmapping" ELSE "detaching")

\* ... the entry, of whatever site it is, ...
UnmapDomain(p) ==
  /\ stage[p] = "unmapping"
  /\ domains' = [domains EXCEPT ![ask[p].domain] = NoSlug]
  /\ Onward(p, "unfiling")
  /\ UNCHANGED <<records, fresh, past>>

\* ... and the file; ...
UnfileDomain(p) ==
  LET d == ask[p].domain
  IN /\ stage[p] = "unfiling"
     /\ domainFile' = [domainFile EXCEPT ![d] = NoSlug]
     /\ Onward(p, "detaching")
     /\ left' = left \ {d}
     /\ UNCHANGED <<attached, domains, fresh, cut, raced, stranded>>

\* ... then PutSite writes the record without the domain.
Detach(p) ==
  /\ stage[p] = "detaching"
  /\ Says(p, "no") /\ Leaves(p)
  /\ UNCHANGED <<domainFile, domains, fresh, past>>

\* A write or a removal fails: the handler returns, and what it has written stays.
DomainFail(p) ==
  /\ stage[p] \in {"attaching", "filing", "flagging", "unfiling", "detaching"}
  /\ Leaves(p)
  /\ cut' = IF stage[p] \in {"attaching", "filing"} THEN cut ELSE cut \cup {ask[p].domain}
  /\ UNCHANGED <<records, domains, fresh, left, raced, stranded>>

-----------------------------------------------------------------------------
\* The map as it is read from the files: one that cannot be read is passed over.
Read == {[d \in Domain |-> IF d \in unread THEN NoSlug ELSE domainFile[d]] :
           unread \in SUBSET Domain}
Astray(map) == {d \in Domain : map[d] # domainFile[d]}

\* Refresh, which the sweeper calls before each pass: the files are read ...
RefreshRead ==
  /\ up /\ sweep.stage = "idle" /\ fresh = {}
  /\ \E map \in Read : fresh' = {map}
  /\ UNCHANGED <<records, domains, progress, past>>

\* ... and then become the map.
RefreshSwap ==
  /\ \E map \in fresh : domains' = map /\ raced' = raced \cup Astray(map)
  /\ fresh' = {}
  /\ UNCHANGED <<records, progress, left, cut, stranded>>

\* What the rest of the node does to domains.  A record that is removed takes the
\* site's domains along ...
Unlisted == [s \in Slug |-> IF site'[s] = NoSite THEN Unattached ELSE attached[s]]
Outlive == {d \in Domain : \E s \in Slug : domainFile[d] = s /\ Claimed(s) /\ site'[s] = NoSite}

\* ... and DeleteSite, when the manifests are gone, their routes, but not their files.
Unrouted ==
  [d \in Domain |->
     IF \E p \in Handler : pc[p] = "removing" /\ pc'[p] = "clearing" /\ job[p].slug = domains[d]
     THEN NoSlug ELSE domains[d]]
Strands == {d \in Domain : Unrouted[d] # domains[d] /\ attached[domains[d]][d] = "verified"}

\* A step of PublishNode by a running node.  A handler does one request at a time, a
\* site's lock has one holder, and the sweeper refreshes or sweeps.
NodeStep ==
  /\ Next /\ up /\ up'
  /\ \A p \in Handler : stage[p] # "idle" => job'[p] = job[p]
  /\ \A s \in Slug : siteLock[s] # Free => lock'[s] = lock[s]
  /\ fresh # {} => sweep' = sweep
  /\ attached' = Unlisted
  /\ domains' = Unrouted
  /\ left' = left \cup Outlive
  /\ stranded' = stranded \cup Strands
  /\ UNCHANGED <<domainFile, progress, fresh, cut, raced>>

\* The process dies, and comes back with the map its files give (load).
NodeCrash ==
  /\ Crash /\ UNCHANGED requests
  /\ domains' = Nowhere /\ fresh' = {}
  /\ stage' = [p \in Handler |-> "idle"] /\ ask' = [p \in Handler |-> NoAsk]
  /\ siteLock' = [s \in Slug |-> Free]
  /\ cut' = cut \cup {ask[p].domain : p \in {q \in Handler : stage[q] \notin {"idle", "attaching", "filing"}}}
  /\ UNCHANGED <<records, asks, left, raced, stranded>>

NodeRestart ==
  /\ Restart /\ UNCHANGED requests
  /\ \E map \in Read : domains' = map /\ raced' = raced \cup Astray(map)
  /\ UNCHANGED <<records, progress, fresh, left, cut, stranded>>

DomainStep(p) ==
  \/ \E s \in Slug, d \in Domain : AddDomain(p, s, d) \/ VerifyDomain(p, s, d) \/ DeleteDomain(p, s, d)
  \/ Attach(p) \/ FileDomain(p) \/ MapDomain(p) \/ FlagDomain(p)
  \/ UnmapDomain(p) \/ UnfileDomain(p) \/ Detach(p) \/ DomainFail(p)

DomainsNext ==
  \/ NodeStep \/ NodeCrash \/ NodeRestart
  \/ UNCHANGED vars /\ (RefreshRead \/ RefreshSwap \/ \E p \in Handler : DomainStep(p))

DomainsSpec == DomainsInit /\ [][DomainsNext]_<<vars, domainVars>>

-----------------------------------------------------------------------------
\* The domains' part of the state ...
DomainsTypeOK ==
  /\ attached \in [Slug -> [Domain -> {"no", "pending", "verified"}]]
  /\ domainFile \in [Domain -> Slug \cup {NoSlug}]
  /\ domains \in [Domain -> Slug \cup {NoSlug}]
  /\ stage \in [Handler -> {"idle", "attaching", "filing", "mapping", "flagging",
                            "unmapping", "unfiling", "detaching"}]
  /\ ask \in [Handler -> [slug : Slug, domain : Domain] \cup {NoAsk}]
  /\ siteLock \in [Slug -> Handler \cup {Free}]
  /\ fresh \subseteq [Domain -> Slug \cup {NoSlug}]
  /\ asks \in Nat
  /\ left \subseteq Domain /\ cut \subseteq Domain /\ raced \subseteq Domain /\ stranded \subseteq Domain

\* ... and the whole node's: records, manifests, routes and requests have their types.
NodeTypeOK == TypeOK /\ DomainsTypeOK

\* "attaches an unverified domain", "activates the mapping" (domain.go), "verified
\* domain -> slug" (store.go): a route that its file confirms leads to a site whose
\* record has the domain as verified, or is about to; whatever refreshes, crashes
\* and other sites do.  Excepted are the files a deleted site leaves behind, which
\* lead to whoever claims its slug next, and requests that were cut off.
LeadsHome ==
  \A d \in Domain : \A s \in Slug :
    (domains[d] = s /\ domainFile[d] = s /\ d \notin left \cup cut) =>
      \/ attached[s][d] = "verified"
      \/ \E p \in Handler : stage[p] \in {"mapping", "flagging"} /\ ask[p] = [slug |-> s, domain |-> d]

\* "Refuse to attach a domain already verified to another site" (domain.go), "domain
\* already mapped" (store.go): no two sites have one domain as verified, unless the
\* check was made while another site's request, or an outdated map, was about to
\* take its place, or after a deletion that dropped the route of a site whose record
\* it had failed to remove (fs.go:172).
OneSite ==
  \A d \in Domain \ (raced \cup cut \cup stranded) : \A s, t \in Slug :
    (attached[s][d] = "verified" /\ attached[t][d] = "verified") => s = t
=============================================================================
