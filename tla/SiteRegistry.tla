---------------------------- MODULE SiteRegistry ----------------------------
(***************************************************************************)
(* What the publish node promises of sites and deploys                     *)
(* (publish/internal/store/store.go): a slug has one owner until the site  *)
(* is removed; a deploy is an immutable snapshot that is published once,   *)
(* on one site; a site's current pointer flips atomically, between the     *)
(* deploys that it retains, which are its last ones.                       *)
(***************************************************************************)
EXTENDS Naturals, Sequences

CONSTANTS
  Slug, Owner, Nobody,
  Deploy,                \* ids of deploys
  None,                  \* no deploy: the current one of a site without any
  Content,               \* what a deploy may show
  Nothing,               \* what an id shows that was not given out
  KeepDeploys            \* deploys retained per site

VARIABLES
  site,      \* owner, retained deploys (oldest first) and current deploy of a slug
  spent,     \* deploy ids that are not to be given out again
  shown      \* what the deploy of an id shows

vars == <<site, spent, shown>>

Unclaimed == [owner |-> Nobody, deploys |-> <<>>, current |-> None]

Init ==
  /\ site = [s \in Slug |-> Unclaimed]
  /\ spent = {}
  /\ shown = [d \in Deploy |-> Nothing]

Claim(s, o) ==
  /\ site[s].owner = Nobody
  /\ site' = [site EXCEPT ![s] = [Unclaimed EXCEPT !.owner = o]]
  /\ UNCHANGED <<spent, shown>>

\* A history with one deploy more, without its oldest if it was full.
Longer(ds, d) == IF Len(ds) < KeepDeploys THEN Append(ds, d) ELSE Tail(Append(ds, d))

Publish(s, d) ==
  /\ site[s].owner # Nobody
  /\ d \notin spent /\ spent' = spent \cup {d}
  /\ site' = [site EXCEPT ![s].deploys = Longer(@, d), ![s].current = d]
  /\ shown'[d] \in Content /\ shown' = [shown EXCEPT ![d] = shown'[d]]

Rollback(s, d) ==
  /\ \E i \in 1..Len(site[s].deploys) : site[s].deploys[i] = d
  /\ site' = [site EXCEPT ![s].current = d]
  /\ UNCHANGED <<spent, shown>>

Remove(s) ==
  /\ site[s].owner # Nobody
  /\ site' = [site EXCEPT ![s] = Unclaimed]
  /\ UNCHANGED <<spent, shown>>

\* Deploys that failed after they got their ids.
Waste ==
  /\ spent \subseteq spent' /\ spent' \subseteq Deploy
  /\ \A d \in spent' \ spent : shown'[d] \in Content
  /\ shown' = [d \in Deploy |-> IF d \in spent' \ spent THEN shown'[d] ELSE shown[d]]
  /\ UNCHANGED site

Next ==
  \/ \E s \in Slug : \/ \E o \in Owner : Claim(s, o)
                     \/ \E d \in Deploy : Publish(s, d) \/ Rollback(s, d)
                     \/ Remove(s)
  \/ Waste

Spec == Init /\ [][Next]_vars

\* No deploy is listed twice, by one site or by two, and none that was not given out.
ListedOnce ==
  /\ \A s \in Slug : \A i \in 1..Len(site[s].deploys) : site[s].deploys[i] \in spent
  /\ \A s, t \in Slug : \A i \in 1..Len(site[s].deploys), j \in 1..Len(site[t].deploys) :
       site[s].deploys[i] = site[t].deploys[j] => s = t /\ i = j

\* What a deploy shows does not change.
Immutable == [][\A d \in spent : shown'[d] = shown[d]]_vars
=============================================================================
