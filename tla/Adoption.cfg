SPECIFICATION FairSpec
CONSTANTS
    Clusters = {c1}
    Secrets = {"d1", "d2", "k"}
    Roles <- TwoRoles
    Credentials <- OwnSecrets
    MaxEdits = 2
    MaxWrites = 1
    MaxFaults = 1
INVARIANTS TypeOK QuietMeansCurrent
PROPERTIES NeverBackwards CredentialsCurrent OwnsWhatItNames
CHECK_DEADLOCK FALSE
