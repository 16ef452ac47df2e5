SPECIFICATION MCSpec
CONSTANTS
    Images <- MCImages
    MaxLines = 2
    Pictures <- MCPictures
    DCTSIZE = 8
CHECK_DEADLOCK FALSE
INVARIANTS TriangleFilter RowsAreConverted MergedIsSeparate PixelsAreConverted SamplesAreAverages
