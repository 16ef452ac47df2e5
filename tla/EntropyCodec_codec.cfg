SPECIFICATION Spec
CONSTANTS
    DCTSIZE2 = 20
    HUFF_LOOKAHEAD = 4
    MAX_CORR_BITS = 24
    MAX_EOBRUN = 3
    Images <- CodecImages
    FreeSizes = {11, 16}
INVARIANTS BuffersHold WrittenIsIdeal GatherCoversEncode DecodedAsEncoded StopsAtMarker TileIsImage
CHECK_DEADLOCK FALSE
