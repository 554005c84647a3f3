SPECIFICATION Spec
CONSTANTS
    Graph <- Releases
    Engine = "crdb"
    Specs <- PinThenHead
    Secrets = {"db1"}
    MaxEdits = 1
    MaxFaults = 1
    MaxFailures = 1
INVARIANTS TypeOK SchemaReady FullyMigrated QuietMeansDeployed
PROPERTIES StepwiseRollout EveryStepDeployed NoMigrationRerun
CHECK_DEADLOCK FALSE
