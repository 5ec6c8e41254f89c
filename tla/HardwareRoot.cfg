SPECIFICATION Spec
CONSTANTS
    Tags = {t1, t2}
    Keys = {k1, k2}
    None = None
    MaxLines = 1
    MaxProofs = 2
SYMMETRY MCSymmetry
INVARIANTS
    TypeOK
    VerifiesIffSealed
    ProofsAgree
