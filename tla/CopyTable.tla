------------------------------ MODULE CopyTable ------------------------------
(***************************************************************************)
(* The copy rules of TradeCopierMT5 as one table, in the order they were   *)
(* accepted, and what a lookup in them means.  A rule                      *)
(*     symbolmask | groupmask ==> loginmask | target                       *)
(* copies a deal in a symbol symbolmask accepts, made by a login of        *)
(* loginmask whose group groupmask accepts, to the account target.         *)
(* SymbolsOf and GroupsOf are CMTStr::CheckGroupMask: two masks may accept *)
(* the same names and be kept apart, as the code keys them by their text.  *)
(* A login mask is never a key and stands for the logins it accepts.       *)
(***************************************************************************)
EXTENDS Naturals, Sequences

CONSTANTS Symbols, Groups, Logins,
          SymbolMasks, SymbolsOf,  \* symbol masks, the symbols each accepts
          GroupMasks, GroupsOf,    \* group masks, the groups each accepts
          Parameters  \* the rules an administrator may enter as parameters

RuleType == [symbolmask : SymbolMasks, groupmask : GroupMasks,
             loginmask : SUBSET Logins, target : Logins]

ASSUME ParametersAssumption ==
    /\ SymbolsOf \in [SymbolMasks -> SUBSET Symbols]
    /\ GroupsOf \in [GroupMasks -> SUBSET Groups]
    /\ Parameters \subseteq RuleType

VARIABLE table  \* the rules accepted so far

\* Slip: each of the two ways to match is enough.
AcceptedEither(rule, g) ==
    g \in GroupsOf[rule.groupmask] \/ rule.target \in rule.loginmask

(***************************************************************************)
(* SymbolConfig::insertSymbolConfig keeps a rule if groupmask accepts the  *)
(* group g of its target or loginmask the target, but not both.  g is what *)
(* UserGet answered; when it fails, that is the empty group of a new user. *)
(***************************************************************************)
Accepted(rule, g) ==
    (g \in GroupsOf[rule.groupmask]) # (rule.target \in rule.loginmask)

\* The rows that open a symbol setting: the first with their mask.
Settings(tab) ==
    {i \in DOMAIN tab :
        \A j \in 1..(i - 1) : tab[j].symbolmask # tab[i].symbolmask}

First(S) == CHOOSE i \in S : \A j \in S : i <= j

(***************************************************************************)
(* What searchGroupConfig finds for a login of group g in the setting of a *)
(* symbol mask: the first group mask that accepts g decides, and among its *)
(* rules the first whose login mask has the login.  0 when there is none.  *)
(***************************************************************************)
Lookup(tab, symbolmask, g, login) ==
    LET ofGroup == {i \in DOMAIN tab : /\ tab[i].symbolmask = symbolmask
                                         /\ g \in GroupsOf[tab[i].groupmask]}
        ofLogin == {i \in ofGroup :
                       /\ tab[i].groupmask = tab[First(ofGroup)].groupmask
                       /\ login \in tab[i].loginmask}
    IN  IF ofLogin = {} THEN 0 ELSE First(ofLogin)
=============================================================================
