\* Calls of set_host_tags that meet each other, a batch or a metadata call, both
\* of which echo tags; every call is resumed in the end.  A tag assignment moves
\* updated_at.
CONSTANTS
    h1 = h1  h2 = h2  h3 = h3  c1 = c1  c2 = c2
    v1 = v1  v2 = v2  t1 = t1  t2 = t2
    lan = lan  dmz = dmz
    NoHost = NoHost  None = None  NoScope = NoScope
    Hosts = {h1, h2}
    Calls = {c1, c2}
    Curated = {"name"}
    Discovered = {"hostname"}
    Values = {None, v1, v2}
    MatchFields = {"name", "hostname"}
    Tags = {t1, t2}
    NetworkOf <- MCTwoNetworks
    Scope = NoScope
    Inventories <- MCInventories
    Requests <- TagRequests
    MaxRows = 2
    MaxEnv = 1
    TokenCoversTags = TRUE
SPECIFICATION FairSpec
INVARIANTS TokenFaithful TagSetReplaced
PROPERTIES ImplementsOverlay EveryStepAdvances EveryCallReturns
