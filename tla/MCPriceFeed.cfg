\* Two symbols, two request ids, two symbols per request: a request can name a
\* symbol twice, succeed on the first and be rejected on the second.
CONSTANTS
    eurusd = eurusd
    xauusd = xauusd
    q1 = q1
    q2 = q2
    none = none
    junk = junk
    Symbols <- MCSymbols
    ReqIds <- MCReqIds
    NoId <- none
    Garbage <- junk
    MaxGroups = 2
SPECIFICATION FairSpec
INVARIANTS
    TypeOK
    OffSessionMapsEmpty
    AtMostOneLateQuote
    AcceptedPrefixTookEffect
PROPERTIES
    ImplementsStream
    StreamKeepsFlowing
