SPECIFICATION Spec
CONSTANTS
    Depth = 3
    Tags <- MCTags
    Offered <- MCOffered
INVARIANTS
    TypeOK
    CountIsExact
    NodesMirrorLeaves
    WitnessSound
    WitnessComplete
PROPERTY
    ImplementsSet
