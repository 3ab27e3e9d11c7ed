--------------------------- MODULE MCPublishNode ---------------------------
(* PublishNode and its domains on small sets of model values. *)
EXTENDS PublishDomains, TLC

\* Bundles of one object; a deploy of several is in flight for longer only.
Singletons == {{x} : x \in Object}

\* Owners, objects and handlers are interchangeable.
Symmetry == Permutations(Owner) \cup Permutations(Object) \cup Permutations(Handler)

\* Readers with the cache and the sweeper share nothing but Server.mu: they are
\* explored next to the writers one at a time.
Serving == \E s \in Slug : cache[s] # 0 \/ \E p \in Handler : job[p].op = "serve"
Sweeping == sweep.stage # "idle" \/ marked # {}
OneAtATime == ~(Serving /\ Sweeping) /\ faults + crashes <= 1

\* Domains and deploys share nothing but the lock of a site: domains are explored on
\* a node without deploys, where two sites contend for one, deploys on one site.
Main == CHOOSE s \in Slug : TRUE
Others == {s \in Slug \ {Main} : Claimed(s) \/ \E p \in Handler : job[p].slug = s}
Deploying ==
  \/ issued > 0 \/ stored # {} \/ Serving \/ Sweeping
  \/ \E p \in Handler : job[p].op \in {"deploy", "rollback"}
Routing == asks > 0 \/ fresh # {} \/ domains # Nowhere \/ domainFile # Nowhere
OneKind == ~(Deploying /\ (Routing \/ Others # {}))
\* A fault or a crash takes one request from the run, and so does a sweep or a domain.
Fewer == requests + faults + crashes <= IF Sweeping \/ Routing THEN MaxRequests - 1 ELSE MaxRequests
Bounded == OneAtATime /\ Fewer /\ OneKind
=============================================================================
