\* A lookup, a search or a page while the list changes up to three times.
CONSTANTS
    h1 = h1  h2 = h2  h3 = h3  h4 = h4  h5 = h5
    srv = srv  srv2 = srv2  nas = nas
    Hosts <- MCHosts
    Names <- MCNames
    NamesIn <- MCNamesIn
    Selectors <- MCReading
    Listings <- MCListings
    InitialName <- MCInitialName
    PageSize = 2
    PageLimit = 4
    ListLimit = 3
    Ceiling = 6
    MaxChurn = 3
    Misbehaving = TRUE
SPECIFICATION Spec
INVARIANTS TypeOK ScanIsExact FoundIsGenuine VerdictIsRight ScanIsBounded SearchIsComplete ReplyIsBounded
