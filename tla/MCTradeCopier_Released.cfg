\* One rule and one deal, read after its release.
CONSTANTS
    s1 = s1
    s2 = s2
    eurusd = eurusd
    gold = gold
    retail = retail
    vip = vip
    nogroup = nogroup
    fx = fx
    allSymbols = allSymbols
    retailOnly = retailOnly
    vipOnly = vipOnly
    anyGroup = anyGroup
    Symbols <- MCSymbols
    Groups <- MCGroups
    NoGroup = nogroup
    SymbolMasks <- MCSymbolMasks
    SymbolsOf <- MCSymbolsOf
    GroupMasks <- MCGroupMasks
    GroupsOf <- MCGroupsOf
    Logins <- MCLogins
    InitialGroup <- MCInitialGroup
    Parameters <- MCOneRule
    Slots = {s1, s2}
    MaxClientDeals = 1
    MaxAstray = 1
SPECIFICATION Spec
INVARIANT CopyMatchesDeal
CHECK_DEADLOCK FALSE
