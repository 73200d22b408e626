SPECIFICATION Spec
CONSTANTS
    Ports = {5088, 5089}
    MaxServers = 3
INVARIANTS IInv NoneLeftBehind
PROPERTIES HandlersKeepTheirGlobals StoppedServersLeave
