SPECIFICATION Spec
CONSTANTS
    NameOrder <- Order
    jsNameFirst <- FirstChars
    jsNameRest <- RestChars
    Corpora <- PublicFunctions
INVARIANT BindingsKept
CHECK_DEADLOCK FALSE
