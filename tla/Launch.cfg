SPECIFICATION Spec
CONSTANTS
    OptWords <- MCOptions
    ArgWords <- MCPeers
    MaxOptions = 3
    MaxArgs = 3
INVARIANTS
    SettingsSound
    ThreadsReady
    FailureCloses
