--------------------------- MODULE MCCopierConfig ---------------------------
(* CopierConfig with masks over one symbol, two groups and two logins. *)
EXTENDS CopierConfig, TLC

CONSTANTS eurusd, retail, vip, m1, m2, retailOnly, anyGroup

MCSymbols == {eurusd}
MCGroups  == {retail, vip}
MCLogins  == {1, 2}

\* Two texts for one set of symbols, and group masks that overlap without being
\* equal, so that which setting comes first matters.
MCSymbolMasks == {m1, m2}
MCSymbolsOf   == (m1 :> MCSymbols) @@ (m2 :> MCSymbols)
MCGroupMasks  == {retailOnly, anyGroup}
MCGroupsOf    == (retailOnly :> {retail}) @@ (anyGroup :> MCGroups)

MCParameters ==
    [symbolmask : MCSymbolMasks,
     groupmask  : MCGroupMasks,
     loginmask  : {{1}, {2}, {1, 2}},
     target     : MCLogins]
=============================================================================
