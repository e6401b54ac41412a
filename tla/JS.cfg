SPECIFICATION Spec
CONSTANTS
    NameOrder <- Order
    jsNameFirst <- FirstChars
    jsNameRest <- RestChars
    Corpora <- Scripts
INVARIANTS StatementsKept BindingsKept Idempotent
CHECK_DEADLOCK FALSE
