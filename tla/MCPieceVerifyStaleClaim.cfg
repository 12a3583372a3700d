CONSTANTS
    c1 = c1
    c2 = c2
    f1 = f1
    f2 = f2
    Callers <- TwoCallers
    Files <- TwoFiles
    Limits <- ZeroOrTwo
SPECIFICATION Spec
INVARIANTS ClaimsOnlyActive
