\* Batches and single updates that meet each other, under a scope, while the
\* world changes the inventory; a tag assignment does not move updated_at.
CONSTANTS
    h1 = h1  h2 = h2  h3 = h3  c1 = c1  c2 = c2
    v1 = v1  v2 = v2  t1 = t1  t2 = t2
    lan = lan  dmz = dmz
    NoHost = NoHost  None = None  NoScope = NoScope
    Hosts = {h1, h2, h3}
    Calls = {c1, c2}
    Curated = {"name", "description"}
    Discovered = {"hostname"}
    Values = {None, v1, v2}
    MatchFields = {"name", "hostname"}
    Tags = {t1}
    NetworkOf <- MCTwoNetworks
    Scope = lan
    Inventories <- MCInventories
    Requests <- EditRequests
    MaxRows = 2
    MaxEnv = 1
    TokenCoversTags = FALSE
SYMMETRY Symmetric
SPECIFICATION Spec
INVARIANTS TypeOK TokenFaithful BatchAccounted
PROPERTIES ScannerOwnsDiscovered ImplementsOverlay
