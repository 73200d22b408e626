SPECIFICATION Spec
CONSTANTS
    Signals <- MCSignals
    Minutes <- MCMinutes
    MaxDay = 2
    MaxOrders = 2
    ExtremeBand = 40
    ZoneMin = 10
    GreenMin = 3
    RedMax <- MCRedMax
    ZeroZone = 8
    DeeplyAligned = 20
    MuteStart = 584
    MuteEnd = 590
    NoEntriesHour = 13
    BaseContracts = 3
INVARIANTS IInv TakenIsBacked SizeWithinBase YellowWarnsOncePerStreak
PROPERTIES OneOrderPerSlot
