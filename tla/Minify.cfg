SPECIFICATION Spec
CONSTANTS
    Items = {"sp", "a", "+", "semi", ":", "lbrace", "rbrace", "(", ")", "comment"}
    MaxLen = 6
    Minify <- MCMinify
    Beginnings <- MCBeginnings
    MaxMore = 4
    Starts <- MCStarts
    Endings <- MCEndings
    MaxChars = 4
INVARIANTS TypeOK StructureKept Idempotent ScansAgree
CHECK_DEADLOCK FALSE
