\* Two processes; every order of three commands, one fault, one override.
SPECIFICATION Spec
CONSTANTS
    Writers = {p1, p2}
    Memories = {m1, m2}
    Accounts = {a1, a2}
    None = None
    MaxCommands = 3
    MaxFaults = 1
    MaxOverrides = 1
SYMMETRY ModelSymmetry
INVARIANTS
    IdentityIsOfOneAccount
    DeadSessionsStayOut
    AccumulationIsOfOneRun
CHECK_DEADLOCK FALSE
