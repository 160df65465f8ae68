SPECIFICATION Spec
CONSTANTS
    n1 = n1
    n2 = n2
    p1 = p1
    p2 = p2
    p3 = p3
    d1 = d1
    d2 = d2
    Node = {n1, n2}
    Domain = {d1, d2}
    Shared = Shared
    Process = {p1, p2, p3}
    NodeOf <- On
    Setups <- AllSetups
    Lifetime = 5
    MaxMisses = 1
    Name = {d1, d2}
    ToASCII <- Same
    Unconvertible = none
    NoCert = NoCert
    Garbled = Garbled
    FractionNum = 1
    FractionDen = 3
    RenewBefore = 3
INVARIANTS
    TypeOK
    OneOwner
    Attended
    NeverExpires
