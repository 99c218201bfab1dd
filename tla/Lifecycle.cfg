SPECIFICATION FairSpec
CONSTANTS
    Apps = {app}
    Main = main
    Completion = completion
    Restarts = {r1, r2}
    MaxToggles = 3
    MaxEdits = 1
    MaxKills = 1
    MaxTunnels = 2
INVARIANTS
    IInv
    ReaderHoldsInterface
    FilterIsFed
    HeldIsUp
    CleanupIsOwed
PROPERTIES
    SessionSpec
    StopReleasesTunnel
CHECK_DEADLOCK FALSE
