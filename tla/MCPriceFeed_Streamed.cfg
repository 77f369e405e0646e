CONSTANTS
    eurusd = eurusd
    xauusd = xauusd
    q1 = q1
    q2 = q2
    none = none
    junk = junk
    Symbols <- MCOneSymbol
    ReqIds <- MCOneReqId
    NoId <- none
    Garbage <- junk
    MaxGroups = 1
SPECIFICATION Spec
INVARIANT StreamedIsSubscribed
