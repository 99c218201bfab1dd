SPECIFICATION FairSpec
CONSTANTS
    Apps = {app}
    Main = main
    Completion = completion
    Restarts = {r1}
    MaxToggles = 3
    MaxEdits = 0
    MaxKills = 0
    MaxTunnels = 2
PROPERTY StartIsServed
CHECK_DEADLOCK FALSE
