SPECIFICATION FairSpec
CONSTANTS
    Graph <- TwoReleases
    Engine = "crdb"
    Specs <- PinThenHead
    Secrets = {"db1"}
    MaxEdits = 1
    MaxFaults = 0
    MaxFailures = 1
PROPERTIES HeadDeployed FailedMigrationPauses
CHECK_DEADLOCK FALSE
