CONSTANTS
  Slug = {s1, s2}
  Owner = {o1, o2}
  Object = {x, y}
  Nobody = Nobody
  Handler = {h1, h2}
  Free = Free
  Bundle <- Singletons
  KeepDeploys = 2
  MaxSites = 1
  SiteQuota = 2
  MaxStorage = 3
  MaxRequests = 5
  MaxDeploys = 3
  MaxFaults = 1
  MaxCrashes = 1
  Domain = {d}
  NoSlug = NoSlug
  MaxDomains = 1
  MaxAsks = 4
SPECIFICATION DomainsSpec
SYMMETRY Symmetry
INVARIANTS NodeTypeOK RetainedReadable CleanIntact CacheCurrent LeadsHome OneSite
PROPERTIES GracePeriod ClaimsStick
CONSTRAINT Bounded
