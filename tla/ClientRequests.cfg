SPECIFICATION Spec
CONSTANTS
    MaxValues = 3
    Cap = 1
INVARIANTS
    DeliveryInv
    OpenForReader
PROPERTIES
    StreamReleased
