SPECIFICATION Spec
CONSTANTS
    Graphs <- AllGraphs
    Engine = "crdb"
    Channels <- SomeChannels
    Versions <- Pins
    MaxEdits = 2
    MaxReloads = 1
    MaxAttributes = 3
INVARIANTS TypeOK OffersHonoured
PROPERTIES StepsAlongEdges NeverPastPin NeverDowngrades FrozenWhileRolling StaysOnPath HeadReached PinReached
CHECK_DEADLOCK FALSE
