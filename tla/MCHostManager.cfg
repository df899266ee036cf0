SPECIFICATION FairSpec
CONSTANTS
    Hosts = {1, 2, 3}
    MaxFailures = 1
PROPERTIES
    KeepsPromise
    OneCoordinator
