SPECIFICATION FairSpec
CONSTANTS
    Workers = {w1, w2}
    Namespaces <- TwoNamespaces
    Files = {"f1", "f2", "bad"}
    Undecodable = {"bad"}
    BaseImage = "flag"
    MaxWrites = 1
    MaxFaults = 1
INVARIANTS TypeOK CopiesAreWhole ReconcilesInOrder
PROPERTIES LatestConfigUsed
