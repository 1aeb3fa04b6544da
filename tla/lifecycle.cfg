\* Two Bundles race to be delivered, two cancel requests overlap.
CONSTANTS
    Bundles = {b1, b2}
    NoBundle = NoBundle
    Cancellers = {c1, c2}
    MaxAttempts = 3
SPECIFICATION Spec
INVARIANTS
    TypeOK
    FormalDelivery
PROPERTIES
    CancelReturnsStopped
    KeepsContract
