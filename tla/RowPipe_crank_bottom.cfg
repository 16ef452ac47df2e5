SPECIFICATION Spec
CONSTANTS
    Images <- TallStrips
    MaxLines = 3
INVARIANTS NoRowPastBottom
