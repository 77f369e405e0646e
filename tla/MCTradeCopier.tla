---------------------------- MODULE MCTradeCopier ----------------------------
(* TradeCopier with a few accounts in two groups and the rules among them. *)
EXTENDS TradeCopier, TLC

CONSTANTS eurusd, gold, retail, vip, nogroup, s1, s2,
          fx, allSymbols, retailOnly, vipOnly, anyGroup

MCSymbols == {eurusd, gold}
MCGroups  == {retail, vip, nogroup}
MCLogins  == {1, 2, 3}
MCInitialGroup == (1 :> retail) @@ (2 :> vip) @@ (3 :> retail)

MCSymbolMasks == {fx, allSymbols}
MCSymbolsOf   == (fx :> {eurusd}) @@ (allSymbols :> MCSymbols)

\* "*" accepts the empty name as well.
MCGroupMasks == {retailOnly, vipOnly, anyGroup}
MCGroupsOf   == (retailOnly :> {retail}) @@ (vipOnly :> {vip})
                    @@ (anyGroup :> MCGroups)

Rule(symbolmask, groupmask, loginmask, target) ==
    [symbolmask |-> symbolmask, groupmask |-> groupmask,
     loginmask |-> loginmask, target |-> target]

\* The rules of a group: the target is outside it and in the login mask.
MCOneRule == {Rule(fx, vipOnly, {1, 3}, 3)}

\* Two accounts, 1 copied to 2 in two symbol settings.  The second rule, of
\* the kind with its target in the login mask, copies 2 to itself once 2 is
\* moved; the third is refused unless UserGet fails.
MCTwoLogins == {1, 2}
MCTwoGroups == (1 :> retail) @@ (2 :> vip)
MCTwoRules  ==
    {Rule(fx, anyGroup, {1}, 2),
     Rule(allSymbols, retailOnly, {1, 2}, 2),
     Rule(fx, retailOnly, {1}, 1)}
=============================================================================
