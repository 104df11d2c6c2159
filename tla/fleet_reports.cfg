SPECIFICATION FleetSpec
CONSTANTS
    Streams = {s1, s2}
    Devices = {d1, d2}
    Events <- MCEvents
    QueueCap = 2
    PipeCap = 1
    MaxChanges = 1
    MaxSent = 1
    MaxFaults = 1
    NoStream = NoStream
    NoDevice = NoDevice
INVARIANTS NoLostWakeup ReportsNeverBreak
PROPERTIES InventoryArrives DeletedStaysGone
