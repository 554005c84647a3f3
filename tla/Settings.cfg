SPECIFICATION Spec
CONSTANTS
    Graph <- TwoReleases
    Engine = "crdb"
    Specs <- Settings
    Secrets = {"db1", "db2"}
    MaxEdits = 1
    MaxFaults = 0
    MaxFailures = 0
INVARIANTS SchemaReady
PROPERTIES StepwiseRollout EveryStepDeployed
CHECK_DEADLOCK FALSE
