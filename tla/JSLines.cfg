SPECIFICATION Spec
CONSTANTS
    NameOrder <- Order
    jsNameFirst <- FirstChars
    jsNameRest <- RestChars
    Corpora <- BrokenLines
INVARIANT StatementsKept
CHECK_DEADLOCK FALSE
