---------------------------- MODULE CopierConfig ----------------------------
(***************************************************************************)
(* The settings of TradeCopierMT5 as the code keeps them (Config.h) and    *)
(* CPluginInstance::ParametersShow builds them: a list of symbol settings, *)
(* each a list of group settings, each a list of (login mask, target), and *)
(* for both outer lists an index from mask to position that is written     *)
(* beside them.  Positions count from 1 here, from 0 in the code.          *)
(***************************************************************************)
EXTENDS CopyTable

CONSTANT MaxParameters  \* how many parameters are entered

VARIABLES
    symbolconfig,  \* _symbolconfig
    symbolIndex,   \* _symbolIndexBySymbolmask: mask -> position
    entered        \* parameters read so far

\* table is a ghost here: the accepted rules, whatever the lists make of them.
configVars == <<symbolconfig, symbolIndex, entered, table>>

ConfigInit ==
    /\ symbolconfig = <<>>
    /\ symbolIndex = [m \in {} |-> 0]
    /\ entered = 0
    /\ table = <<>>

\* map[key] = value
Put(map, key, value) ==
    [k \in DOMAIN map \cup {key} |-> IF k = key THEN value ELSE map[k]]

EmptySetting(mask) ==
    [symbolmask |-> mask, groups |-> <<>>, index |-> [m \in {} |-> 0]]

LoginOf(p) == [loginmask |-> p.loginmask, target |-> p.target]

\* insertSymbolConfig after its check: findGroupConfig, then a new group
\* setting at the end of the list, or insertGroupConfig into the one there is.
InsertRule(sc, p) ==
    IF p.groupmask \in DOMAIN sc.index
    THEN [sc EXCEPT !.groups[sc.index[p.groupmask]].logins =
                        Append(@, LoginOf(p))]
    ELSE [sc EXCEPT !.groups = Append(@, [groupmask |-> p.groupmask,
                                          logins    |-> <<LoginOf(p)>>]),
                    !.index = Put(@, p.groupmask, Len(sc.groups) + 1)]

\* One turn of the loop of ParametersShow, g being what UserGet answers for the
\* target: the symbol mask is known.
EnterKnownSymbol(p, g) ==
    /\ entered < MaxParameters
    /\ p.symbolmask \in DOMAIN symbolIndex
    /\ entered' = entered + 1
    /\ IF Accepted(p, g)
       THEN LET i == symbolIndex[p.symbolmask] IN
            /\ symbolconfig' = [symbolconfig EXCEPT ![i] = InsertRule(@, p)]
            /\ table' = Append(table, p)
       ELSE UNCHANGED <<symbolconfig, table>>
    /\ UNCHANGED symbolIndex

\* Slip: the index is written although the rule failed.
EnterNewSymbolIndexFirst(p, g) ==
    /\ entered < MaxParameters
    /\ p.symbolmask \notin DOMAIN symbolIndex
    /\ entered' = entered + 1
    /\ symbolIndex' = Put(symbolIndex, p.symbolmask, Len(symbolconfig) + 1)
    /\ IF Accepted(p, g)
       THEN /\ symbolconfig' = Append(symbolconfig,
                                      InsertRule(EmptySetting(p.symbolmask), p))
            /\ table' = Append(table, p)
       ELSE UNCHANGED <<symbolconfig, table>>

\* The symbol mask is new: its setting is kept only if the rule is.
EnterNewSymbol(p, g) ==
    /\ entered < MaxParameters
    /\ p.symbolmask \notin DOMAIN symbolIndex
    /\ entered' = entered + 1
    /\ IF Accepted(p, g)
       THEN /\ symbolconfig' = Append(symbolconfig,
                                      InsertRule(EmptySetting(p.symbolmask), p))
            /\ symbolIndex' = Put(symbolIndex, p.symbolmask,
                                  Len(symbolconfig) + 1)
            /\ table' = Append(table, p)
       ELSE UNCHANGED <<symbolconfig, symbolIndex, table>>

ConfigNext ==
    \E p \in Parameters, g \in Groups :
        EnterKnownSymbol(p, g) \/ EnterNewSymbol(p, g)

ConfigSpec == ConfigInit /\ [][ConfigNext]_configVars

-----------------------------------------------------------------------------
\* Slip: searchLogin keeps the last rule that matches.
SearchLoginLast(gr, login) ==
    LET found == {i \in DOMAIN gr.logins : login \in gr.logins[i].loginmask}
    IN  IF found = {} THEN <<0, FALSE>>
        ELSE <<gr.logins[CHOOSE i \in found : \A j \in found : j <= i].target,
               TRUE>>

\* GroupConfig::searchLogin, as the pair (target, found).
SearchLogin(gr, login) ==
    LET found == {i \in DOMAIN gr.logins : login \in gr.logins[i].loginmask}
    IN  IF found = {} THEN <<0, FALSE>>
                      ELSE <<gr.logins[First(found)].target, TRUE>>

\* SymbolConfig::searchGroupConfig.
SearchGroupConfig(sc, g, login) ==
    LET found == {i \in DOMAIN sc.groups : g \in GroupsOf[sc.groups[i].groupmask]}
    IN  IF found = {} THEN <<0, FALSE>>
                      ELSE SearchLogin(sc.groups[First(found)], login)

-----------------------------------------------------------------------------
(***************************************************************************)
(* Each index leads to the list element of its mask, and no mask has two   *)
(* elements: std::advance by the stored position never lands elsewhere.    *)
(***************************************************************************)
IndexesAgree ==
    /\ DOMAIN symbolIndex = {symbolconfig[i].symbolmask :
                                i \in DOMAIN symbolconfig}
    /\ \A i \in DOMAIN symbolconfig :
          LET sc == symbolconfig[i] IN
          /\ symbolIndex[sc.symbolmask] = i
          /\ DOMAIN sc.index = {sc.groups[g].groupmask : g \in DOMAIN sc.groups}
          /\ \A g \in DOMAIN sc.groups : sc.index[sc.groups[g].groupmask] = g

\* Every symbol mask of an accepted rule has its setting.
MasksAgree ==
    {table[r].symbolmask : r \in DOMAIN table} =
        {symbolconfig[i].symbolmask : i \in DOMAIN symbolconfig}

\* The settings are in the order in which the table first mentions their masks.
SettingsInOrder ==
    \A i, j \in DOMAIN symbolconfig, r, s \in Settings(table) :
        /\ table[r].symbolmask = symbolconfig[i].symbolmask
        /\ table[s].symbolmask = symbolconfig[j].symbolmask
        => (i < j <=> r < s)

\* A search in a setting finds what the flat table says.
SearchesAgree ==
    \A i \in DOMAIN symbolconfig, g \in Groups, login \in Logins :
        LET sc  == symbolconfig[i]
            row == Lookup(table, sc.symbolmask, g, login)
        IN  SearchGroupConfig(sc, g, login) =
                IF row = 0 THEN <<0, FALSE>> ELSE <<table[row].target, TRUE>>

(***************************************************************************)
(* OnDealPerform, which goes through the list of settings and searches in  *)
(* each, does what the flat table of accepted rules says, in its order,    *)
(* for every group and login and whatever order the rules came in.         *)
(***************************************************************************)
SearchIsLookup == MasksAgree /\ SettingsInOrder /\ SearchesAgree
=============================================================================
