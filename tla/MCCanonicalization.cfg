SPECIFICATION DocSpec
CONSTANTS
    Texts <- MCTexts
    CodePoints <- MCCodePoints
    Nfc <- MCNfc
    Tag = "tag"
    Hex <- MCHex
    MaxSafe = 2
    Keys <- MCKeys
    Scalars <- MCScalars
    MaxSize = 3
INVARIANTS OneDomain OneEncoding
PROPERTIES DigestsSeparate
