SPECIFICATION Spec
CONSTANTS
    Options <- AllOptions
    MaxReads = 2
INVARIANTS
    TypeOK
    HandlerNeverBlocks
    PhasesAlternate
PROPERTIES
    PeriodicDiscovery
    TrafficSent
