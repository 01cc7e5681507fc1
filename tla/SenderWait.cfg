SPECIFICATION Spec
CONSTANTS
    Options <- WaitOptions
    MaxReads = 2
PROPERTY
    TrafficStartsDiscovery
