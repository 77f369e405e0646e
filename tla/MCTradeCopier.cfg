\* A deal, its copies and an account that is moved, while the rules load, while
\* the plugin runs and while it stops.
CONSTANTS
    s1 = s1
    s2 = s2
    eurusd = eurusd
    gold = gold
    retail = retail
    vip = vip
    nogroup = nogroup
    fx = fx
    allSymbols = allSymbols
    retailOnly = retailOnly
    vipOnly = vipOnly
    anyGroup = anyGroup
    Symbols <- MCSymbols
    Groups <- MCGroups
    NoGroup = nogroup
    SymbolMasks <- MCSymbolMasks
    SymbolsOf <- MCSymbolsOf
    GroupMasks <- MCGroupMasks
    GroupsOf <- MCGroupsOf
    Logins <- MCTwoLogins
    InitialGroup <- MCTwoGroups
    Parameters <- MCTwoRules
    Slots = {s1, s2}
    MaxClientDeals = 1
    MaxAstray = 1
SPECIFICATION FairSpec
INVARIANTS
    TypeOK
    NoSelfCopyUnlessAstray
PROPERTIES
    CopiesAreTried
    StopReturns
CHECK_DEADLOCK FALSE
