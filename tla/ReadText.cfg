SPECIFICATION Spec
CONSTANTS
    Texts <- MCTexts
    MaxTokens = 8
INVARIANTS
    DocumentedNameIsSplit
    FourPartNameIsKept
    DocumentedAddressIsSplit
    AddressKeepsOrder
    WordsStayWhole
    UnsplitAddressIsKept
    PartsFillInOrder
    SplitTextSurvivesTheFile
CHECK_DEADLOCK FALSE
