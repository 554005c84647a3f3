SPECIFICATION FairSpec
CONSTANTS
    Clusters = {c1}
    Secrets = {"d1", "d2"}
    Roles <- TwoRoles
    Credentials <- SharedSecret
    MaxEdits = 1
    MaxWrites = 1
    MaxFaults = 0
PROPERTIES CredentialsCurrent
CHECK_DEADLOCK FALSE
