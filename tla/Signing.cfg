SPECIFICATION Spec
CONSTANTS
    Q = 17
    Gamma2 = 2
    A = 3
    Gamma1 = 6
    Beta = 1
    Eta2 = 1
    PackedWidth = 16
    Users <- MCUsers
    Attributes <- MCAttributes
    Holds <- MCHolds
    Preimage <- MCPreimage
    AttributeTarget <- MCAttributeTarget
    Policies <- MCPolicies
    Digest <- MCDigest
    RowToAttr <- MCRowToAttr
    Weights <- MCWeights
    Satisfying <- MCSatisfying
    Messages <- MCMessages
    Tags <- MCTags
    Coefficient <- MCCoefficient
    MaxTries = 2
    MaxAttempts = 2
    None = None
INVARIANTS
    TypeOK
    FirewallNeverRefuses
    IssuedIsAccepted
    AcceptedAsSigned
    DamageIsRejected
    FormsAgree
