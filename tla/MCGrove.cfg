SPECIFICATION GroveSpec
CONSTANTS
    Clients = {c1, c2}
    Channels = {general, other}
    General = general
    Readers = {"none", "listen", "heimdallr", "watch", "coordinator", "poller"}
    Tools <- MCTools
    Rooms <- MCRooms
    Existing <- MCExisting
    Batch = 1
    MaxMsgs <- MCMaxMsgs
    MaxTrouble = 1
INVARIANTS
    ShownInOrder
    MissedExplained
    FlagsTell
    NewestHandled
PROPERTY Reached
CHECK_DEADLOCK FALSE
