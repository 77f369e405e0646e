\* Four parameters: two settings of a symbol, two groups in each, several rules in
\* a group.
CONSTANTS
    eurusd = eurusd
    retail = retail
    vip = vip
    m1 = m1
    m2 = m2
    retailOnly = retailOnly
    anyGroup = anyGroup
    Symbols <- MCSymbols
    Groups <- MCGroups
    Logins <- MCLogins
    SymbolMasks <- MCSymbolMasks
    SymbolsOf <- MCSymbolsOf
    GroupMasks <- MCGroupMasks
    GroupsOf <- MCGroupsOf
    Parameters <- MCParameters
    MaxParameters = 4
SPECIFICATION ConfigSpec
INVARIANTS
    IndexesAgree
    SearchIsLookup
CHECK_DEADLOCK FALSE
