\* An id that is no longer there.
CONSTANTS
    h1 = h1  h2 = h2  h3 = h3  h4 = h4  h5 = h5
    srv = srv  srv2 = srv2  nas = nas
    Hosts <- MCHosts
    Names <- MCNames
    NamesIn <- MCNamesIn
    Selectors <- MCSelectors
    Listings <- MCRetired
    InitialName <- MCInitialName
    PageSize = 2
    PageLimit = 4
    ListLimit = 3
    Ceiling = 6
    MaxChurn = 0
    Misbehaving = FALSE
SPECIFICATION Spec
INVARIANT RetiredIdHasCandidates
