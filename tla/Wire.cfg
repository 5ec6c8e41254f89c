SPECIFICATION Spec
CONSTANTS
    ByteBits = 2
    Q = 17
    M = 2
    K = 1
    N = 2
    TightGamma1s = {4}
    Signatures <- MCSignatures
    TextBytes = {0, 1, 2}
    MaxRaw = 70
    MaxDamages = 1
    None = None
    Refused = Refused
    Panicked = Panicked
INVARIANTS
    ArrivesOrRefused
    ReadIsCanonical
CHECK_DEADLOCK FALSE
