SPECIFICATION FairSpec
CONSTANTS
    Options <- SeparateOptions
    Offers <- ServerOffers
    MaxDummies = 1
INVARIANTS SameForm RequiredEncrypted OpenAgrees Chosen
PROPERTY HandshakeEnds
