SPECIFICATION Spec
CONSTANTS
    Runs = {r1, r2}
    Name = {n1}
    Token = {t1, t2, t3}
    None = none
SYMMETRY Symmetry
INVARIANTS
    Litter
    Served
