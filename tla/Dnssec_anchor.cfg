SPECIFICATION DnssecSpec
CONSTANTS
    Validators = {v1, v2}
    Messages <- SomeMessages
    Signers <- SomeSigners
    Now = 4
    HasAnchor = TRUE
    Nobody = Nobody
INVARIANT VerifiedIsAnchored
CHECK_DEADLOCK FALSE
