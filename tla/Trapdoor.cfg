SPECIFICATION Spec
CONSTANTS
    K = 2
    Ell = 2
    Base = 3
    Q = 17
    Gamma1 = 7
    APrimes <- MCAPrimes
    Trapdoors <- MCTrapdoors
    Targets <- MCTargets
    Noises <- MCNoises
    None = None
INVARIANTS
    TypeOK
    DigitsRecompose
    RefusedForCause
