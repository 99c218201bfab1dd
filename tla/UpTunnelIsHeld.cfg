SPECIFICATION Spec
CONSTANTS
    Apps = {app}
    Main = main
    Completion = completion
    Restarts = {r1, r2}
    MaxToggles = 3
    MaxEdits = 1
    MaxKills = 0
    MaxTunnels = 2
INVARIANT UpTunnelIsHeld
CHECK_DEADLOCK FALSE
