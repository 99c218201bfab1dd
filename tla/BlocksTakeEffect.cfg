SPECIFICATION ClaimsSpec
CONSTANTS
    Packages = {mail}
    NoPackage = none
    First = mail
    Addresses = {site, host}
    Ping = ping
    ProtocolOf <- Protocol
    FirstOfUid <- OwnUids
    Modern = TRUE
    Faults = {}
    MaxPackets = 3
    MaxTaps = 2
    MaxEdits = 0
INVARIANT BlocksTakeEffect
CHECK_DEADLOCK FALSE
