SPECIFICATION Spec
CONSTANTS
    Graph <- Shipped
    Datastores <- ShippedDatastores
    Unknown = "v0.0.0"
INVARIANTS TypeOK ChannelIsRegular VerdictIsRight
PROPERTIES OperatorAgrees PhasesAreStops Ends
CHECK_DEADLOCK FALSE
