\* A transport that is refused, and the exit code the documentation promises for it.
CONSTANTS
    down = down
    Down <- down
    Environments <- MCEnvironments
    Servers <- MCServers
    MaxChanges = 0
SPECIFICATION Spec
INVARIANT TransportRefusalIsFour
