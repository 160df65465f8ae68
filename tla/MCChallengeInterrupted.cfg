SPECIFICATION Spec
CONSTANTS
    Runs = {r1}
    Name = {n1}
    Token = {t1, t2}
    None = none
INVARIANT InterruptedRunCleansUp
