\* Three connections, two symbols, messages of up to three words: keywords and
\* symbols in every order, connections that open and close around a message.
CONSTANTS
    c1 = c1
    c2 = c2
    c3 = c3
    btcusd = btcusd
    ltcusd = ltcusd
    none = none
    Clients <- MCClients
    Symbols <- MCSymbols
    NoClient <- none
    MaxTokens = 3
SPECIFICATION Spec
INVARIANTS
    TypeOK
    ThrowsOnlyAroundClose
    MessageTakesEffect
CHECK_DEADLOCK FALSE
