SPECIFICATION Spec
CONSTANTS
    Capacity = 2
    Tags <- MCTags
    Batches <- MCBatches
    Slots = {s1, s2}
    None = None
INVARIANTS
    TypeOK
    ForwardSecure
    LocalCheckExact
PROPERTY BatchIsAtomic
