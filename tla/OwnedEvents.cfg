SPECIFICATION FairSpec
CONSTANTS
    Graph <- InMemory
    Engine = "memory"
    Specs <- BackAndForth
    Secrets = {"db1"}
    MaxEdits = 2
    MaxFaults = 0
    MaxFailures = 0
PROPERTIES SpecDeployed
CHECK_DEADLOCK FALSE
