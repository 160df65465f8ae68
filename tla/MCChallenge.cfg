SPECIFICATION FairSpec
CONSTANTS
    Runs = {r1}
    Name = {n1, n2}
    Token = {t1, t2, t3, t4}
    None = none
INVARIANTS
    TypeOK
    Litter
    Served
PROPERTIES
    RunAdvances
    RunStops
