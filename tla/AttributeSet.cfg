SPECIFICATION Spec
CONSTANTS
    Graphs <- TwoChannelGraphs
    Engine = "crdb"
    Channels <- SomeChannels
    Versions <- SomePins
    MaxEdits = 1
    MaxReloads = 0
    MaxAttributes = 3
INVARIANTS AttributesAreASet
CHECK_DEADLOCK FALSE
