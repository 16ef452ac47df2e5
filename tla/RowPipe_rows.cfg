SPECIFICATION Spec
CONSTANTS
    Images <- AllImages
    MaxLines = 3
INVARIANTS StaysInside
PROPERTIES DeliverySpec NoEmptyReturn
