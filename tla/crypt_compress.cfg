SPECIFICATION Spec
CONSTANTS
    Options <- ValidOptions
    Offers <- ServerOffers
    MaxDummies = 0
INVARIANT SameForm
