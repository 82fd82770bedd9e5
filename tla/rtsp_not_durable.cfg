SPECIFICATION Spec
CONSTANTS
    p1 = p1
    p2 = p2
    Passwords = {p1, p2}
    NoPassword = NoPassword
INVARIANTS
    DurabilityReported
