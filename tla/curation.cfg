\* Two calls that can meet, with and without a scope, against one change.
CONSTANTS
    h1 = h1  h2 = h2  h3 = h3  h4 = h4  h5 = h5  s1 = s1  s2 = s2  s3 = s3
    sub = sub  cred = cred  key = key  lan = lan  dmz = dmz
    t1 = t1  t2 = t2  t3 = t3  b1 = b1  b2 = b2  b3 = b3
    p1 = p1  a1 = a1  a2 = a2  a3 = a3  c1 = c1  c2 = c2
    nas = nas  NAS = NAS  srv = srv  gray = gray  red = red
    NoScope = NoScope  None = None
    Entities <- MCEntities
    KindOf <- MCKind
    NetsOf <- MCNets
    Rank <- MCRank
    PageSize = 2
    Tags = {t1, t2, t3}
    Bindings = {b1, b2, b3}
    Names = {nas, NAS, srv}
    Folded <- MCFolded
    Styles = {gray, red}
    Addresses = {a1, a2, a3}
    Shapes <- MCShapes
    HasDaemon = {h1}
    Calls = {c1, c2}
    Requests <- MCRequests
    Conversations <- MCConversations
    Scopes = {NoScope, lan}
    Inventories <- MCInventories
    MaxEnv = 1
SYMMETRY Symmetric
SPECIFICATION Spec
INVARIANTS TypeOK UsageIsSeen BindingsFollowService RepeatMergesOnce
PROPERTIES RelabelIsMerge ImplementsReach
