\* Every environment, the server changing once while arborist starts, and a
\* message for the process that serves.
CONSTANTS
    down = down
    Down <- down
    nothing = nothing
    Nothing <- nothing
    Environments <- MCServingEnvironments
    Servers <- MCServers
    MaxChanges = 1
    Messages <- MCMessages
    Results <- MCResults
    Bare <- MCBare
    Secrets <- MCSecrets
    Keys <- MCKeys
    Texts <- MCTexts
    Depth = 3
SPECIFICATION ServeSpec
INVARIANTS TypeOK HttpIsHardened VersionIsGuarded RefusalsComeFirst OnlyAdmittedCallsRun RebindingIsStopped MaskedExactly
