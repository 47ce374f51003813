SPECIFICATION PromptSpec
CONSTANTS
    MaxNet = 3
    MayFail = TRUE
INVARIANT
    TypeOK
PROPERTIES
    NeverBackwards
    FitsOnlyWhenAsked
    ViewTakesEffect
    KeepsUp
