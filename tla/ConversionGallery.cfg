\* One illustration to a page is the limit.
SPECIFICATION ConversionSpec
CONSTANTS
    Texts <- MCTexts
    Blank = ""
    PageNumbers = {"7"}
    ListPrefixed = {"1. item"}
    ItemText <- MCItemText
    HeadingPrefixed = {"Chapter 1"}
    NeverHeadings = {"end."}
    MainText = "main"
    OutlineLimit = 2
    Spelling <- MCSpelling
    Han = {}
    Documents <- MCGallery
    MaxPages = 2
    SampleLimit = 2
    MaxIllustrations = 1
    RequireEPUBCheck = TRUE
CHECK_DEADLOCK FALSE
INVARIANT IllustrationsAreKept
