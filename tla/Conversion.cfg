\* Up to three pages, of which two are sampled; a conversion ends.
SPECIFICATION ConversionSpec
CONSTANTS
    Texts <- MCTexts
    Blank = ""
    PageNumbers = {"7"}
    ListPrefixed = {"1. item"}
    ItemText <- MCItemText
    HeadingPrefixed = {"Chapter 1"}
    NeverHeadings = {"end."}
    MainText = "main"
    OutlineLimit = 2
    Spelling <- MCSpelling
    Han = {}
    Documents <- MCDocuments
    MaxPages = 3
    SampleLimit = 2
    MaxIllustrations = 2
    RequireEPUBCheck = FALSE
CHECK_DEADLOCK FALSE
INVARIANTS
    NothingIsLost
    OutlineLeadsToHeading
    DeliveredIsComplete
PROPERTIES
    ProgressMovesOn
