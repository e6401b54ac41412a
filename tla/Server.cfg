SPECIFICATION ServerSpec
CONSTANTS
    m1 = m1
    m2 = m2
    m3 = m3
    m4 = m4
    m5 = m5
    Messages = {m1, m2, m3, m4, m5}
    LengthOf <- MCLengths
    BufCap = 1
    Closer = Closer
    NoCall = NoCall
    Pieces = 3
    MaxEdits = 1
INVARIANTS ServerTypeOK FramesUnmixed HeaderTellsLength ConnIsReady OneAnswer QuietAnswerRight
PROPERTIES KeepsChannel FailureCloses RedirectsEnd NearerAnswer
CHECK_DEADLOCK FALSE
