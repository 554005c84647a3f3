SPECIFICATION FairSpec
CONSTANTS
    Graph <- TwoReleases
    Engine = "crdb"
    Specs <- ImageThenHead
    Secrets = {"db1"}
    MaxEdits = 1
    MaxFaults = 0
    MaxFailures = 0
PROPERTIES HeadDeployed
CHECK_DEADLOCK FALSE
