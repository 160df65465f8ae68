SPECIFICATION Spec
CONSTANTS
    prodHost = prodHost
    testHost = testHost
    acme = acme
    test = test
    Runs = {r1}
    Endpoints <- URLs
    NoURL = NoURL
    Configs <- Sections
    Key = {k1, k2, k3}
    Missing = Missing
    Garbage = Garbage
INVARIANTS
    TypeOK
    AccountKeyOnFile
PROPERTIES
    FileNeverReplaced
    StagingApart
