SPECIFICATION FairSpec
CONSTANTS
    Apps = {app}
    Main = main
    Completion = completion
    Restarts = {r1, r2}
    MaxToggles = 1
    MaxEdits = 1
    MaxKills = 0
    MaxTunnels = 2
PROPERTY UpdatesAreServed
CHECK_DEADLOCK FALSE
