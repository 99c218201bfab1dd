SPECIFICATION FairSpec
CONSTANTS
    Packages = {mail, chat}
    NoPackage = none
    First = mail
    Addresses = {site, ping}
    Ping = ping
    ProtocolOf <- Protocol
    FirstOfUid <- OneUid
    Modern = TRUE
    Faults = {"cancel", "database"}
    MaxPackets = 3
    MaxTaps = 1
    MaxEdits = 1
INVARIANTS
    TypeOK
    IInv
    AddressBlockHolds
    TrackedIsKnown
PROPERTIES
    OnlyUserChangesRules
    LoneRowObeys
    BookSpec
    TrackedEventually
CHECK_DEADLOCK FALSE
