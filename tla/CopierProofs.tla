---------------------------- MODULE CopierProofs ----------------------------
(***************************************************************************)
(* The settings: the nested lists and their indexes stand for the flat     *)
(* table of rules and are in its order, for all parameters an              *)
(* administrator may enter and any number of them.  The plugin, on that    *)
(* table: what the check of the rules is worth, for any accounts, groups,  *)
(* hooks and deals.                                                        *)
(***************************************************************************)
EXTENDS CopierConfig, TradeCopier, SequenceTheorems, WellFoundedInduction, TLAPS

-----------------------------------------------------------------------------
(* What makes the two properties of the settings inductive. *)

GroupSetting == [groupmask : GroupMasks,
                 logins : Seq([loginmask : SUBSET Logins, target : Logins])]

SymbolSetting == [symbolmask : SymbolMasks,
                  groups : Seq(GroupSetting),
                  index : UNION {[D -> Nat] : D \in SUBSET GroupMasks}]

SettingsTypeOK ==
    /\ symbolconfig \in Seq(SymbolSetting)
    /\ symbolIndex \in UNION {[D -> Nat] : D \in SUBSET SymbolMasks}
    /\ entered \in Nat
    /\ table \in Seq(RuleType)

\* The rules of a symbol mask and a group mask in a table.
Rows(tab, symbolmask, groupmask) ==
    {r \in DOMAIN tab : /\ tab[r].symbolmask = symbolmask
                        /\ tab[r].groupmask = groupmask}

\* Those of them that have a login.
ForLogin(tab, symbolmask, groupmask, login) ==
    {r \in Rows(tab, symbolmask, groupmask) : login \in tab[r].loginmask}

\* What the first of some rules answers.
Answer(tab, rows) ==
    IF rows = {} THEN <<0, FALSE>> ELSE <<tab[First(rows)].target, TRUE>>

\* The index of a symbol setting leads to its groups.
Indexed(sc) ==
    /\ DOMAIN sc.index = {sc.groups[g].groupmask : g \in DOMAIN sc.groups}
    /\ \A g \in DOMAIN sc.groups : sc.index[sc.groups[g].groupmask] = g

\* Its groups are those of its rules,
GroupsFit(sc, tab) ==
    \A gm \in GroupMasks :
        (\E g \in DOMAIN sc.groups : sc.groups[g].groupmask = gm)
        <=> Rows(tab, sc.symbolmask, gm) # {}

\* in the order in which the rules first mention them,
OrderFits(sc, tab) ==
    \A g, h \in DOMAIN sc.groups :
        g < h => First(Rows(tab, sc.symbolmask, sc.groups[g].groupmask))
                 < First(Rows(tab, sc.symbolmask, sc.groups[h].groupmask))

\* and a group answers for a login as the first of its rules that has it.
LoginsFit(sc, tab) ==
    \A g \in DOMAIN sc.groups, login \in Logins :
        SearchLogin(sc.groups[g], login) =
            Answer(tab, ForLogin(tab, sc.symbolmask, sc.groups[g].groupmask, login))

Fits(sc, tab) ==
    Indexed(sc) /\ GroupsFit(sc, tab) /\ OrderFits(sc, tab) /\ LoginsFit(sc, tab)

\* The symbol masks: those of the rules, each with one setting.
SymbolsFit ==
    /\ DOMAIN symbolIndex = {symbolconfig[i].symbolmask :
                                i \in DOMAIN symbolconfig}
    /\ DOMAIN symbolIndex = {table[r].symbolmask : r \in DOMAIN table}
    /\ \A i \in DOMAIN symbolconfig : symbolIndex[symbolconfig[i].symbolmask] = i

ConfigInv ==
    /\ SettingsTypeOK
    /\ SymbolsFit
    /\ \A i \in DOMAIN symbolconfig : Fits(symbolconfig[i], table)

-----------------------------------------------------------------------------
(* The first of a set of positions. *)

\* First is the least element: the one an iterator meets first.
LEMMA FirstFacts ==
    ASSUME NEW S, S \subseteq Nat, S # {}
    PROVE  First(S) \in S /\ \A i \in S : First(S) <= i
<1> DEFINE R == OpToRel(<, Nat)
<1>1. IsWellFoundedOn(R, Nat)
  BY NatLessThanWellFounded
<1>2. \A x, y \in Nat : y < x => <<y, x>> \in R
  BY Zenon DEF OpToRel
<1> HIDE DEF R
<1>3. PICK x \in S : \A y \in S : <<y, x>> \notin R
  BY <1>1, WFMin
<1>4. ASSUME NEW y \in S PROVE x <= y
  <2>1. x \in Nat /\ y \in Nat /\ ~(y < x)
    BY <1>2, <1>3
  <2>2. QED  BY <2>1
<1>5. QED  BY <1>4 DEF First

\* It is the only one that is not behind another,
LEMMA FirstIs ==
    ASSUME NEW S, S \subseteq Nat, NEW x \in S, \A i \in S : x <= i
    PROVE  First(S) = x
<1>1. First(S) \in S /\ First(S) <= x
  BY FirstFacts
<1>2. First(S) \in Nat /\ x \in Nat /\ x <= First(S)
  BY <1>1
<1>3. QED  BY <1>1, <1>2

\* Of one row that row is the first.
LEMMA FirstOne ==
    ASSUME NEW n \in Nat
    PROVE  First({n}) = n
<1> DEFINE S == {n}
<1>1. S \subseteq Nat /\ n \in S /\ \A i \in S : n <= i
  OBVIOUS
<1> HIDE DEF S
<1>2. First(S) = n
  BY <1>1, FirstIs
<1>3. QED  BY <1>2 DEF S

\* and stays the first when one is added behind.
LEMMA FirstKept ==
    ASSUME NEW S, S \subseteq Nat, S # {}, NEW n \in Nat, \A i \in S : i < n
    PROVE  First(S \cup {n}) = First(S)
<1>1. First(S) \in S /\ \A i \in S : First(S) <= i
  BY FirstFacts
<1> DEFINE x == First(S)
<1> HIDE DEF x
<1>2. x \in S \cup {n} /\ S \cup {n} \subseteq Nat
  BY <1>1 DEF x
<1>3. \A i \in S \cup {n} : x <= i
  <2>1. \A i \in S : x <= i
    BY <1>1 DEF x
  <2>2. x \in Nat /\ x < n
    BY <1>1 DEF x
  <2>3. x <= n
    BY <2>2
  <2>4. QED  BY <2>1, <2>3
<1>4. First(S \cup {n}) = x
  BY <1>2, <1>3, FirstIs
<1>5. QED  BY <1>4 DEF x

-----------------------------------------------------------------------------
(* One more rule in a table, one more login in a group. *)

\* A set with one more element.
Plus(S, x) == S \cup {x}

\* push_back: one element more, the others where they were.
LEMMA Appended ==
    ASSUME NEW T, NEW s \in Seq(T), NEW e \in T
    PROVE  /\ Append(s, e) \in Seq(T)
           /\ Len(s) \in Nat /\ Len(Append(s, e)) = Len(s) + 1
           /\ DOMAIN s = 1..Len(s)
           /\ DOMAIN Append(s, e) = DOMAIN s \cup {Len(s) + 1}
           /\ DOMAIN s \subseteq Nat
           /\ \A i \in DOMAIN s : i < Len(s) + 1 /\ Append(s, e)[i] = s[i]
           /\ Append(s, e)[Len(s) + 1] = e
<1>1. /\ Append(s, e) \in Seq(T)
      /\ Len(Append(s, e)) = Len(s) + 1
      /\ \A i \in 1..Len(s) : Append(s, e)[i] = s[i]
      /\ Append(s, e)[Len(s) + 1] = e
  BY AppendProperties
<1>2. Len(s) \in Nat /\ DOMAIN s = 1..Len(s)
  BY LenProperties
<1>3. DOMAIN Append(s, e) = 1..Len(s) + 1
  BY <1>1, LenProperties
<1>4. 1..Len(s) + 1 = 1..Len(s) \cup {Len(s) + 1}
  BY <1>2
<1>5. 1..Len(s) \subseteq Nat /\ \A i \in 1..Len(s) : i < Len(s) + 1
  BY <1>2
<1>6. QED  BY <1>1, <1>2, <1>3, <1>4, <1>5

\* One more rule is one more row of its own masks only.
LEMMA RowsAppended ==
    ASSUME NEW tab \in Seq(RuleType), NEW p \in RuleType, NEW m, NEW gm
    PROVE  /\ Rows(tab, m, gm) \subseteq DOMAIN tab
           /\ Rows(Append(tab, p), m, gm) =
                  IF p.symbolmask = m /\ p.groupmask = gm
                  THEN Rows(tab, m, gm) \cup {Len(tab) + 1}
                  ELSE Rows(tab, m, gm)
<1> DEFINE n == Len(tab) + 1
           after == Append(tab, p)
<1>1. /\ DOMAIN after = DOMAIN tab \cup {n}
      /\ \A i \in DOMAIN tab : i < n /\ after[i] = tab[i]
      /\ after[n] = p
  BY Appended
<1> HIDE DEF n, after
<1>2. Rows(after, m, gm) = IF p.symbolmask = m /\ p.groupmask = gm
                           THEN Rows(tab, m, gm) \cup {n} ELSE Rows(tab, m, gm)
  BY <1>1 DEF Rows
<1>3. Rows(tab, m, gm) \subseteq DOMAIN tab
  BY DEF Rows
<1>4. QED  BY <1>2, <1>3 DEF n, after

\* Rules found before answer as before; a new one answers where none was found.
LEMMA AnswerAppended ==
    ASSUME NEW tab \in Seq(RuleType), NEW p \in RuleType,
           NEW rows, rows \subseteq DOMAIN tab
    PROVE  /\ Answer(Append(tab, p), rows) = Answer(tab, rows)
           /\ Answer(Append(tab, p), rows \cup {Len(tab) + 1}) =
                  IF rows = {} THEN <<p.target, TRUE>> ELSE Answer(tab, rows)
<1> DEFINE n == Len(tab) + 1
           after == Append(tab, p)
<1>1. /\ n \in Nat
      /\ rows \subseteq Nat
      /\ \A i \in rows : i < n /\ after[i] = tab[i]
      /\ after[n] = p
  BY Appended
<1> HIDE DEF n, after
<1>2. Answer(after, rows) = Answer(tab, rows)
  <2>1. CASE rows = {}
    BY <2>1 DEF Answer
  <2>2. CASE rows # {}
    <3>1. First(rows) \in rows
      BY <1>1, <2>2, FirstFacts
    <3>2. QED  BY <1>1, <2>2, <3>1 DEF Answer
  <2>3. QED  BY <2>1, <2>2
<1>3. CASE rows = {}
  <2>1. First({n}) = n
    BY <1>1, FirstOne
  <2>2. rows \cup {n} = {n}
    BY <1>3
  <2>3. Answer(after, {n}) = <<p.target, TRUE>>
    BY <1>1, <2>1 DEF Answer
  <2>4. QED  BY <1>2, <1>3, <2>2, <2>3 DEF n, after
<1>4. CASE rows # {}
  <2>1. First(rows \cup {n}) = First(rows) /\ First(rows) \in rows
    BY <1>1, <1>4, FirstFacts, FirstKept
  <2>2. Answer(after, rows \cup {n}) = Answer(tab, rows)
    BY <1>1, <1>4, <2>1 DEF Answer
  <2>3. QED  BY <1>2, <1>4, <2>2 DEF n, after
<1>5. QED  BY <1>3, <1>4

LoginSetting == [loginmask : SUBSET Logins, target : Logins]

\* No rule of a group setting has the login.
Misses(gr, login) ==
    \A i \in DOMAIN gr.logins : login \notin gr.logins[i].loginmask

\* The same of the logins of a group.
LEMMA SearchAppended ==
    ASSUME NEW old, NEW new, old.logins \in Seq(LoginSetting),
           NEW e \in LoginSetting, new.logins = Append(old.logins, e), NEW login
    PROVE  SearchLogin(new, login) =
               IF login \in e.loginmask /\ Misses(old, login)
               THEN <<e.target, TRUE>> ELSE SearchLogin(old, login)
<1> DEFINE s == old.logins
           t == new.logins
           n == Len(s) + 1
           found == {i \in DOMAIN s : login \in s[i].loginmask}
           after == {i \in DOMAIN t : login \in t[i].loginmask}
<1>1. /\ n \in Nat
      /\ found \subseteq Nat
      /\ DOMAIN t = DOMAIN s \cup {n}
      /\ \A i \in DOMAIN s : i < n /\ t[i] = s[i]
      /\ t[n] = e
  BY Appended
<1>2. SearchLogin(old, login) =
          IF found = {} THEN <<0, FALSE>> ELSE <<s[First(found)].target, TRUE>>
  BY DEF SearchLogin
<1>3. SearchLogin(new, login) =
          IF after = {} THEN <<0, FALSE>> ELSE <<t[First(after)].target, TRUE>>
  BY DEF SearchLogin
<1>4. after = IF login \in e.loginmask THEN found \cup {n} ELSE found
  <2> HIDE DEF n, s, t
  <2>1. QED  BY <1>1
<1>5. found = {} <=> Misses(old, login)
  BY DEF Misses
<1>6. \A i \in found : i < n /\ t[i] = s[i]
  BY <1>1
<1> HIDE DEF s, t, n, found, after
<1>7. CASE found = {}
  <2>1. First({n}) = n
    BY <1>1, FirstOne
  <2>2. CASE login \in e.loginmask
    <3>1. after = {n}
      BY <1>4, <1>7, <2>2
    <3>2. SearchLogin(new, login) = <<e.target, TRUE>>
      BY <1>1, <1>3, <2>1, <3>1
    <3>3. QED  BY <1>5, <1>7, <2>2, <3>2
  <2>3. CASE login \notin e.loginmask
    <3>1. after = {}
      BY <1>4, <1>7, <2>3
    <3>2. QED  BY <1>2, <1>3, <1>7, <2>3, <3>1
  <2>4. QED  BY <2>2, <2>3
<1>8. CASE found # {}
  <2>1. First(found) \in found /\ First(found \cup {n}) = First(found)
    BY <1>1, <1>6, <1>8, FirstFacts, FirstKept
  <2>2. after # {} /\ First(after) = First(found)
    BY <1>4, <1>8, <2>1
  <2>3. t[First(after)] = s[First(found)]
    BY <1>6, <2>1, <2>2
  <2>4. SearchLogin(new, login) = SearchLogin(old, login)
    BY <1>2, <1>3, <1>8, <2>2, <2>3
  <2>5. QED  BY <1>5, <1>8, <2>4
<1>9. QED  BY <1>7, <1>8

-----------------------------------------------------------------------------
(* One more rule in a symbol setting. *)

\* The types of the parts of a symbol setting.
LEMMA SettingParts ==
    ASSUME NEW sc \in SymbolSetting
    PROVE  /\ sc.symbolmask \in SymbolMasks
           /\ sc.groups \in Seq(GroupSetting)
           /\ sc.index \in [DOMAIN sc.index -> Nat]
           /\ DOMAIN sc.index \subseteq GroupMasks
           /\ sc = [symbolmask |-> sc.symbolmask, groups |-> sc.groups,
                    index |-> sc.index]
           /\ DOMAIN sc.groups = 1..Len(sc.groups)
           /\ Len(sc.groups) \in Nat
           /\ \A g \in DOMAIN sc.groups : sc.groups[g] \in GroupSetting
<1>1. /\ sc.symbolmask \in SymbolMasks
      /\ sc.groups \in Seq(GroupSetting)
      /\ sc.index \in UNION {[D -> Nat] : D \in SUBSET GroupMasks}
      /\ sc = [symbolmask |-> sc.symbolmask, groups |-> sc.groups,
               index |-> sc.index]
  BY DEF SymbolSetting
<1>2. PICK D \in SUBSET GroupMasks : sc.index \in [D -> Nat]
  BY <1>1
<1>3. DOMAIN sc.groups = 1..Len(sc.groups) /\ Len(sc.groups) \in Nat
  BY <1>1, LenProperties
<1>4. \A g \in DOMAIN sc.groups : sc.groups[g] \in GroupSetting
  BY <1>1, <1>3, ElementOfSeq
<1>5. QED  BY <1>1, <1>2, <1>3, <1>4

\* A rule of a group that has a setting is the last of its logins then.
LEMMA InsertOld ==
    ASSUME NEW sc \in SymbolSetting, NEW p \in RuleType, Indexed(sc),
           p.groupmask \in DOMAIN sc.index, NEW new, new = InsertRule(sc, p)
    PROVE  \E h \in DOMAIN sc.groups :
              /\ sc.groups[h].groupmask = p.groupmask
              /\ new \in SymbolSetting
              /\ new.symbolmask = sc.symbolmask
              /\ new.index = sc.index
              /\ DOMAIN new.groups = DOMAIN sc.groups
              /\ \A g \in DOMAIN sc.groups :
                    /\ new.groups[g].groupmask = sc.groups[g].groupmask
                    /\ new.groups[g].logins =
                           IF g = h THEN Append(sc.groups[g].logins, LoginOf(p))
                           ELSE sc.groups[g].logins
<1> DEFINE h == sc.index[p.groupmask]
           last == Append(sc.groups[h].logins, LoginOf(p))
           group == [groupmask |-> p.groupmask, logins |-> last]
           groups == [sc.groups EXCEPT ![h] = group]
<1>1. h \in DOMAIN sc.groups /\ sc.groups[h].groupmask = p.groupmask
  BY DEF Indexed
<1>2. sc.groups[h] \in GroupSetting
  BY <1>1, SettingParts
<1>3. group = [sc.groups[h] EXCEPT !.logins = Append(@, LoginOf(p))]
  <2>1. PICK gr \in GroupSetting : gr = sc.groups[h]
    BY <1>2
  <2>2. gr = [groupmask |-> p.groupmask, logins |-> gr.logins]
    BY <1>1, <2>1 DEF GroupSetting
  <2> DEFINE more == Append(gr.logins, LoginOf(p))
  <2>3. group = [groupmask |-> p.groupmask, logins |-> more]
    BY <2>1
  <2> HIDE DEF more, group, h
  <2>4. [gr EXCEPT !.logins = more] = [groupmask |-> p.groupmask, logins |-> more]
    BY <2>2
  <2>5. QED  BY <2>1, <2>3, <2>4 DEF more
<1>4. new = [sc EXCEPT !.groups = groups]
  <2>1. new = [sc EXCEPT !.groups[h].logins = Append(@, LoginOf(p))]
    BY DEF InsertRule
  <2> HIDE DEF h
  <2>2. QED  BY <1>3, <2>1, SettingParts
<1>5. group \in GroupSetting
  <2>1. LoginOf(p) \in LoginSetting
    BY DEF LoginOf, LoginSetting, RuleType
  <2>2. last \in Seq(LoginSetting)
    BY <1>2, <2>1, Appended DEF GroupSetting, LoginSetting
  <2>3. p.groupmask \in GroupMasks
    BY DEF RuleType
  <2> HIDE DEF last
  <2>4. QED  BY <2>2, <2>3 DEF GroupSetting, LoginSetting
<1> HIDE DEF h, last, group
<1>6. groups \in Seq(GroupSetting) /\ DOMAIN groups = DOMAIN sc.groups
  <2>1. Len(sc.groups) \in Nat /\ sc.groups \in [1..Len(sc.groups) -> GroupSetting]
    BY SettingParts, SeqDef
  <2>2. groups \in [1..Len(sc.groups) -> GroupSetting]
    BY <1>5, <2>1
  <2>3. QED  BY <2>1, <2>2, SeqDef
<1>7. \A g \in DOMAIN sc.groups : groups[g] = IF g = h THEN group ELSE sc.groups[g]
  BY <1>1
<1> HIDE DEF groups
<1>8. new = [symbolmask |-> sc.symbolmask, groups |-> groups, index |-> sc.index]
  BY <1>4, SettingParts
<1>9. new \in SymbolSetting
  BY <1>6, <1>8 DEF SymbolSetting
<1>10. ASSUME NEW g \in DOMAIN sc.groups
       PROVE  /\ groups[g].groupmask = sc.groups[g].groupmask
              /\ groups[g].logins =
                     IF g = h THEN Append(sc.groups[g].logins, LoginOf(p))
                     ELSE sc.groups[g].logins
  <2>1. CASE g = h
    BY <1>1, <1>7, <2>1 DEF group, last
  <2>2. CASE g # h
    BY <1>7, <2>2
  <2>3. QED  BY <2>1, <2>2
<1>11. QED  BY <1>1, <1>6, <1>8, <1>9, <1>10

\* A symbol setting with other groups and another index.
LEMMA TwoFieldsChanged ==
    ASSUME NEW sc, NEW s, NEW g, NEW x, NEW groups, NEW index,
           sc = [symbolmask |-> s, groups |-> g, index |-> x]
    PROVE  [sc EXCEPT !.groups = groups, !.index = index]
               = [symbolmask |-> s, groups |-> groups, index |-> index]
<1>1. [sc EXCEPT !.groups = groups, !.index = index]
          = [[sc EXCEPT !.groups = groups] EXCEPT !.index = index]
  OBVIOUS
<1>2. PICK half : half = [sc EXCEPT !.groups = groups]
  OBVIOUS
<1>3. half = [symbolmask |-> s, groups |-> groups, index |-> x]
  BY <1>2
<1>4. [half EXCEPT !.index = index]
          = [symbolmask |-> s, groups |-> groups, index |-> index]
  BY <1>3
<1>5. QED  BY <1>1, <1>2, <1>4

\* A rule of another group gets a setting of its own behind the others.
LEMMA InsertNew ==
    ASSUME NEW sc \in SymbolSetting, NEW p \in RuleType,
           p.groupmask \notin DOMAIN sc.index, NEW new, new = InsertRule(sc, p)
    PROVE  /\ new \in SymbolSetting
           /\ new.symbolmask = sc.symbolmask
           /\ DOMAIN new.index = Plus(DOMAIN sc.index, p.groupmask)
           /\ new.index[p.groupmask] = Len(sc.groups) + 1
           /\ \A gm \in DOMAIN sc.index : new.index[gm] = sc.index[gm]
           /\ DOMAIN new.groups = Plus(DOMAIN sc.groups, Len(sc.groups) + 1)
           /\ \A g \in DOMAIN sc.groups :
                 g < Len(sc.groups) + 1 /\ new.groups[g] = sc.groups[g]
           /\ new.groups[Len(sc.groups) + 1] =
                  [groupmask |-> p.groupmask, logins |-> <<LoginOf(p)>>]
<1> DEFINE n == Len(sc.groups) + 1
           group == [groupmask |-> p.groupmask, logins |-> <<LoginOf(p)>>]
           groups == Append(sc.groups, group)
           index == Put(sc.index, p.groupmask, n)
<1>1. new = [symbolmask |-> sc.symbolmask, groups |-> groups, index |-> index]
  <2>1. new = [sc EXCEPT !.groups = Append(@, group), !.index = Put(@, p.groupmask, n)]
    BY DEF InsertRule
  <2>2. new = [sc EXCEPT !.groups = groups, !.index = index]
    BY <2>1
  <2>3. sc = [symbolmask |-> sc.symbolmask, groups |-> sc.groups, index |-> sc.index]
    BY SettingParts
  <2> HIDE DEF groups, index
  <2>4. QED  BY <2>2, <2>3, TwoFieldsChanged
<1>2. group \in GroupSetting
  <2>1. LoginOf(p) \in LoginSetting /\ p.groupmask \in GroupMasks
    BY DEF LoginOf, LoginSetting, RuleType
  <2>2. <<LoginOf(p)>> \in Seq(LoginSetting)
    BY <2>1
  <2>3. QED  BY <2>1, <2>2 DEF GroupSetting, LoginSetting
<1> HIDE DEF group
<1>3. /\ groups \in Seq(GroupSetting)
      /\ DOMAIN groups = DOMAIN sc.groups \cup {n}
      /\ \A g \in DOMAIN sc.groups : g < n /\ groups[g] = sc.groups[g]
      /\ groups[n] = group
  BY <1>2, Appended, SettingParts
<1>4. /\ index \in [DOMAIN sc.index \cup {p.groupmask} -> Nat]
      /\ index[p.groupmask] = n
      /\ \A gm \in DOMAIN sc.index : index[gm] = sc.index[gm]
  BY SettingParts DEF Put
<1>5. DOMAIN sc.index \cup {p.groupmask} \in SUBSET GroupMasks
  BY SettingParts DEF RuleType
<1>6. index \in UNION {[D -> Nat] : D \in SUBSET GroupMasks}
  BY <1>4, <1>5
<1>7. new \in SymbolSetting
  BY <1>1, <1>3, <1>6, SettingParts DEF SymbolSetting
<1> HIDE DEF n, groups, index
<1>8. QED  BY <1>1, <1>3, <1>4, <1>7 DEF n, group, Plus

-----------------------------------------------------------------------------
(* A symbol setting goes on fitting the table of rules. *)

\* Groups of a setting with the same mask are the same.
LEMMA GroupsDiffer ==
    ASSUME NEW sc, Indexed(sc), NEW g \in DOMAIN sc.groups,
           NEW h \in DOMAIN sc.groups,
           sc.groups[g].groupmask = sc.groups[h].groupmask
    PROVE  g = h
BY DEF Indexed

\* A group of a setting has a rule.
LEMMA GroupHasRows ==
    ASSUME NEW sc \in SymbolSetting, NEW tab \in Seq(RuleType),
           GroupsFit(sc, tab), NEW g \in DOMAIN sc.groups
    PROVE  /\ sc.groups[g].groupmask \in GroupMasks
           /\ Rows(tab, sc.symbolmask, sc.groups[g].groupmask) # {}
           /\ Rows(tab, sc.symbolmask, sc.groups[g].groupmask) \subseteq Nat
<1>1. sc.groups[g].groupmask \in GroupMasks
  BY SettingParts DEF GroupSetting
<1>2. Rows(tab, sc.symbolmask, sc.groups[g].groupmask) \subseteq DOMAIN tab
  BY DEF Rows
<1>3. DOMAIN tab \subseteq Nat
  BY LenProperties
<1>4. QED  BY <1>1, <1>2, <1>3 DEF GroupsFit

\* A rule of another symbol mask changes nothing.
LEMMA OtherFits ==
    ASSUME NEW sc \in SymbolSetting, NEW tab \in Seq(RuleType),
           NEW p \in RuleType, Fits(sc, tab), p.symbolmask # sc.symbolmask
    PROVE  Fits(sc, Append(tab, p))
<1> DEFINE after == Append(tab, p)
<1>1. \A gm : Rows(after, sc.symbolmask, gm) = Rows(tab, sc.symbolmask, gm)
  BY RowsAppended
<1>2. ASSUME NEW gm, NEW login
      PROVE  Answer(after, ForLogin(after, sc.symbolmask, gm, login))
             = Answer(tab, ForLogin(tab, sc.symbolmask, gm, login))
  <2> DEFINE rows == ForLogin(tab, sc.symbolmask, gm, login)
  <2>1. rows \subseteq DOMAIN tab
    BY DEF ForLogin, Rows
  <2>2. ForLogin(after, sc.symbolmask, gm, login) = rows
    BY <1>1, Appended DEF ForLogin, Rows
  <2> HIDE DEF rows
  <2>3. Answer(after, rows) = Answer(tab, rows)
    BY <2>1, AnswerAppended
  <2>4. QED  BY <2>2, <2>3 DEF rows
<1> HIDE DEF after
<1>4. GroupsFit(sc, after) /\ OrderFits(sc, after)
  BY <1>1 DEF Fits, GroupsFit, OrderFits
<1>5. LoginsFit(sc, after)
  BY <1>2 DEF Fits, LoginsFit
<1>6. QED  BY <1>4, <1>5 DEF Fits, after

\* What the rules of a group answer for a login when one more comes.
LEMMA ForLoginAppended ==
    ASSUME NEW tab \in Seq(RuleType), NEW p \in RuleType, NEW gm, NEW login
    PROVE  LET m == p.symbolmask
               old == ForLogin(tab, m, gm, login) IN
           Answer(Append(tab, p), ForLogin(Append(tab, p), m, gm, login)) =
               IF gm = p.groupmask /\ login \in p.loginmask /\ old = {}
               THEN <<p.target, TRUE>> ELSE Answer(tab, old)
<1> DEFINE m == p.symbolmask
           n == Len(tab) + 1
           after == Append(tab, p)
           old == ForLogin(tab, m, gm, login)
           new == ForLogin(after, m, gm, login)
<1>1. /\ Rows(tab, m, gm) \subseteq DOMAIN tab
      /\ Rows(after, m, gm) = IF p.groupmask = gm THEN Rows(tab, m, gm) \cup {n}
                              ELSE Rows(tab, m, gm)
  BY RowsAppended
<1>2. (\A i \in DOMAIN tab : after[i] = tab[i]) /\ after[n] = p
  BY Appended
<1>3. old \subseteq DOMAIN tab
  BY <1>1 DEF ForLogin
<1> HIDE DEF n, after
<1>4. new = IF gm = p.groupmask /\ login \in p.loginmask THEN old \cup {n} ELSE old
  BY <1>1, <1>2 DEF ForLogin
<1> HIDE DEF old, new
<1>5. /\ Answer(after, old) = Answer(tab, old)
      /\ Answer(after, old \cup {n}) =
             IF old = {} THEN <<p.target, TRUE>> ELSE Answer(tab, old)
  BY <1>3, AnswerAppended DEF after, n
<1>6. Answer(after, new) =
          IF gm = p.groupmask /\ login \in p.loginmask /\ old = {}
          THEN <<p.target, TRUE>> ELSE Answer(tab, old)
  BY <1>4, <1>5
<1>7. QED  BY <1>6 DEF after, old, new

\* A search that answers as the rules do misses when they are none.
LEMMA SearchMisses ==
    ASSUME NEW tab, NEW rows, NEW gr, NEW login,
           SearchLogin(gr, login) = Answer(tab, rows)
    PROVE  rows = {} <=> Misses(gr, login)
<1> DEFINE found == {i \in DOMAIN gr.logins : login \in gr.logins[i].loginmask}
<1>1. /\ found = {} => SearchLogin(gr, login) = <<0, FALSE>>
      /\ found # {} => SearchLogin(gr, login)[2] = TRUE
  BY DEF SearchLogin
<1>2. /\ rows = {} => Answer(tab, rows) = <<0, FALSE>>
      /\ rows # {} => Answer(tab, rows)[2] = TRUE
  BY DEF Answer
<1>3. <<0, FALSE>>[2] = FALSE
  OBVIOUS
<1> HIDE DEF found
<1>4. found = {} <=> rows = {}
  BY <1>1, <1>2, <1>3
<1>5. QED  BY <1>4 DEF found, Misses

\* The same for the rules of one symbol mask, group by group.
LEMMA RowsOfGroup ==
    ASSUME NEW tab \in Seq(RuleType), NEW p \in RuleType, NEW m,
           p.symbolmask = m, NEW gm
    PROVE  /\ Rows(tab, m, gm) \subseteq DOMAIN tab
           /\ p.groupmask = gm => Rows(Append(tab, p), m, gm)
                                  = Plus(Rows(tab, m, gm), Len(tab) + 1)
           /\ p.groupmask # gm => Rows(Append(tab, p), m, gm) = Rows(tab, m, gm)
<1>1. /\ Rows(tab, m, gm) \subseteq DOMAIN tab
      /\ Rows(Append(tab, p), m, gm) =
             IF p.symbolmask = m /\ p.groupmask = gm
             THEN Rows(tab, m, gm) \cup {Len(tab) + 1} ELSE Rows(tab, m, gm)
  BY RowsAppended
<1>2. QED  BY <1>1 DEF Plus

\* A rule of a group that has a setting.
LEMMA OldGroupFits ==
    ASSUME NEW sc \in SymbolSetting, NEW tab \in Seq(RuleType),
           NEW p \in RuleType, Fits(sc, tab), p.symbolmask = sc.symbolmask,
           p.groupmask \in DOMAIN sc.index, NEW new, new = InsertRule(sc, p)
    PROVE  /\ new \in SymbolSetting
           /\ new.symbolmask = sc.symbolmask
           /\ Fits(new, Append(tab, p))
<1> DEFINE m == p.symbolmask
           n == Len(tab) + 1
           after == Append(tab, p)
<1>1. Indexed(sc) /\ GroupsFit(sc, tab) /\ OrderFits(sc, tab) /\ LoginsFit(sc, tab)
  BY DEF Fits
<1>2. PICK h \in DOMAIN sc.groups :
              /\ sc.groups[h].groupmask = p.groupmask
              /\ new \in SymbolSetting
              /\ new.symbolmask = m
              /\ new.index = sc.index
              /\ DOMAIN new.groups = DOMAIN sc.groups
              /\ \A g \in DOMAIN sc.groups :
                    /\ new.groups[g].groupmask = sc.groups[g].groupmask
                    /\ new.groups[g].logins =
                           IF g = h THEN Append(sc.groups[g].logins, LoginOf(p))
                           ELSE sc.groups[g].logins
  BY <1>1, InsertOld
<1>3. Indexed(new)
  BY <1>1, <1>2 DEF Indexed
<1>4. /\ n \in Nat
      /\ DOMAIN tab \subseteq Nat
      /\ \A i \in DOMAIN tab : i < n
  BY Appended
<1>5. ASSUME NEW gm
      PROVE  /\ Rows(tab, m, gm) \subseteq DOMAIN tab
             /\ Rows(after, m, gm) = IF p.groupmask = gm
                                     THEN Rows(tab, m, gm) \cup {n}
                                     ELSE Rows(tab, m, gm)
  <2>1. /\ Rows(tab, m, gm) \subseteq DOMAIN tab
        /\ p.groupmask = gm => Rows(after, m, gm) = Plus(Rows(tab, m, gm), n)
        /\ p.groupmask # gm => Rows(after, m, gm) = Rows(tab, m, gm)
    <3>1. PICK mm, nn, aa : mm = m /\ nn = n /\ aa = after
      OBVIOUS
    <3>2. p.symbolmask = mm /\ nn = Len(tab) + 1 /\ aa = Append(tab, p)
      BY <3>1
    <3> HIDE DEF m, n, after
    <3>3. /\ Rows(tab, mm, gm) \subseteq DOMAIN tab
          /\ p.groupmask = gm => Rows(aa, mm, gm) = Plus(Rows(tab, mm, gm), nn)
          /\ p.groupmask # gm => Rows(aa, mm, gm) = Rows(tab, mm, gm)
      BY <3>2, RowsOfGroup
    <3>4. QED  BY <3>1, <3>3
  <2>2. QED  BY <2>1 DEF Plus
<1>6. Rows(tab, m, p.groupmask) # {}
  BY <1>1, <1>2, GroupHasRows
<1> HIDE DEF n, after
<1>7. GroupsFit(new, after)
  <2>1. \A gm : Rows(after, m, gm) # {} <=> Rows(tab, m, gm) # {}
    BY <1>5, <1>6
  <2> SUFFICES ASSUME NEW gm \in GroupMasks
               PROVE  (\E g \in DOMAIN new.groups : new.groups[g].groupmask = gm)
                      <=> Rows(after, m, gm) # {}
    BY <1>2 DEF GroupsFit
  <2>2. (\E g \in DOMAIN sc.groups : sc.groups[g].groupmask = gm)
        <=> Rows(tab, m, gm) # {}
    BY <1>1 DEF GroupsFit
  <2>3. QED  BY <1>2, <2>1, <2>2
<1>8. OrderFits(new, after)
  <2>1. ASSUME NEW g \in DOMAIN sc.groups
        PROVE  First(Rows(after, m, sc.groups[g].groupmask))
               = First(Rows(tab, m, sc.groups[g].groupmask))
    <3> DEFINE rows == Rows(tab, m, sc.groups[g].groupmask)
    <3>1. rows # {} /\ rows \subseteq DOMAIN tab
      BY <1>1, <1>5, GroupHasRows
    <3> HIDE DEF rows
    <3>2. First(rows \cup {n}) = First(rows)
      BY <1>4, <3>1, FirstKept
    <3>3. QED  BY <1>5, <3>2 DEF rows
  <2>2. QED  BY <1>1, <1>2, <2>1 DEF OrderFits
<1>9. LoginsFit(new, after)
  <2> SUFFICES ASSUME NEW g \in DOMAIN sc.groups, NEW login \in Logins
               PROVE  SearchLogin(new.groups[g], login) =
                          Answer(after, ForLogin(after, m, sc.groups[g].groupmask,
                                                 login))
    BY <1>2 DEF LoginsFit, ForLogin
  <2> DEFINE gm == sc.groups[g].groupmask
             old == ForLogin(tab, m, gm, login)
  <2>1. Answer(after, ForLogin(after, m, gm, login)) =
            IF gm = p.groupmask /\ login \in p.loginmask /\ old = {}
            THEN <<p.target, TRUE>> ELSE Answer(tab, old)
    BY ForLoginAppended DEF after
  <2>2. SearchLogin(sc.groups[g], login) = Answer(tab, old)
    BY <1>1 DEF LoginsFit, ForLogin
  <2>3. CASE g = h
    <3>1. sc.groups[g].logins \in Seq(LoginSetting) /\ LoginOf(p) \in LoginSetting
      BY SettingParts DEF GroupSetting, LoginSetting, LoginOf, RuleType
    <3>2. LoginOf(p).loginmask = p.loginmask /\ LoginOf(p).target = p.target
      BY DEF LoginOf
    <3>3. new.groups[g].logins = Append(sc.groups[g].logins, LoginOf(p))
      BY <1>2, <2>3
    <3>4. SearchLogin(new.groups[g], login) =
              IF login \in p.loginmask /\ Misses(sc.groups[g], login)
              THEN <<p.target, TRUE>> ELSE SearchLogin(sc.groups[g], login)
      <4>1. SearchLogin(new.groups[g], login) =
                IF login \in LoginOf(p).loginmask /\ Misses(sc.groups[g], login)
                THEN <<LoginOf(p).target, TRUE>>
                ELSE SearchLogin(sc.groups[g], login)
        <5>1. PICK gr, more, e : /\ gr = sc.groups[g] /\ more = new.groups[g]
                                 /\ e = LoginOf(p)
          OBVIOUS
        <5>2. /\ gr.logins \in Seq(LoginSetting)
              /\ e \in LoginSetting
              /\ more.logins = Append(gr.logins, e)
          BY <3>1, <3>3, <5>1
        <5>3. SearchLogin(more, login) =
                  IF login \in e.loginmask /\ Misses(gr, login)
                  THEN <<e.target, TRUE>> ELSE SearchLogin(gr, login)
          BY <5>2, SearchAppended
        <5>4. QED  BY <5>1, <5>3
      <4>2. QED  BY <3>2, <4>1
    <3>5. old = {} <=> Misses(sc.groups[g], login)
      <4> HIDE DEF old
      <4>1. QED  BY <2>2, SearchMisses
    <3>6. gm = p.groupmask
      BY <1>2, <2>3
    <3> HIDE DEF gm, old
    <3>7. QED  BY <2>1, <2>2, <3>4, <3>5, <3>6 DEF gm
  <2>4. CASE g # h
    <3>1. gm # p.groupmask
      BY <1>1, <1>2, <2>4, GroupsDiffer
    <3>2. new.groups[g].logins = sc.groups[g].logins
      BY <1>2, <2>4
    <3>3. SearchLogin(new.groups[g], login) = SearchLogin(sc.groups[g], login)
      BY <3>2 DEF SearchLogin
    <3>4. QED  BY <2>1, <2>2, <3>1, <3>3
  <2>5. QED  BY <2>3, <2>4
<1>10. QED  BY <1>2, <1>3, <1>7, <1>8, <1>9 DEF Fits, after

\* A rule of a group that has none.
LEMMA NewGroupFits ==
    ASSUME NEW sc \in SymbolSetting, NEW tab \in Seq(RuleType),
           NEW p \in RuleType, Fits(sc, tab), p.symbolmask = sc.symbolmask,
           p.groupmask \notin DOMAIN sc.index, NEW new, new = InsertRule(sc, p)
    PROVE  /\ new \in SymbolSetting
           /\ new.symbolmask = sc.symbolmask
           /\ Fits(new, Append(tab, p))
<1> DEFINE m == p.symbolmask
           n == Len(tab) + 1
           k == Len(sc.groups) + 1
           after == Append(tab, p)
<1>1. Indexed(sc) /\ GroupsFit(sc, tab) /\ OrderFits(sc, tab) /\ LoginsFit(sc, tab)
  BY DEF Fits
<1>2. /\ new \in SymbolSetting
      /\ new.symbolmask = m
      /\ DOMAIN new.index = DOMAIN sc.index \cup {p.groupmask}
      /\ new.index[p.groupmask] = k
      /\ \A gm \in DOMAIN sc.index : new.index[gm] = sc.index[gm]
      /\ DOMAIN new.groups = DOMAIN sc.groups \cup {k}
      /\ \A g \in DOMAIN sc.groups : g < k /\ new.groups[g] = sc.groups[g]
      /\ new.groups[k] = [groupmask |-> p.groupmask, logins |-> <<LoginOf(p)>>]
  BY InsertNew DEF Plus
<1>3. new.groups[k].groupmask = p.groupmask /\ new.groups[k].logins = <<LoginOf(p)>>
  BY <1>2
<1>4. /\ n \in Nat
      /\ DOMAIN tab \subseteq Nat
      /\ \A i \in DOMAIN tab : i < n
  BY Appended
<1>5. ASSUME NEW gm
      PROVE  /\ Rows(tab, m, gm) \subseteq DOMAIN tab
             /\ Rows(after, m, gm) = IF p.groupmask = gm
                                     THEN Rows(tab, m, gm) \cup {n}
                                     ELSE Rows(tab, m, gm)
  <2>1. /\ Rows(tab, m, gm) \subseteq DOMAIN tab
        /\ p.groupmask = gm => Rows(after, m, gm) = Plus(Rows(tab, m, gm), n)
        /\ p.groupmask # gm => Rows(after, m, gm) = Rows(tab, m, gm)
    <3>1. PICK mm, nn, aa : mm = m /\ nn = n /\ aa = after
      OBVIOUS
    <3>2. p.symbolmask = mm /\ nn = Len(tab) + 1 /\ aa = Append(tab, p)
      BY <3>1
    <3> HIDE DEF m, n, after
    <3>3. /\ Rows(tab, mm, gm) \subseteq DOMAIN tab
          /\ p.groupmask = gm => Rows(aa, mm, gm) = Plus(Rows(tab, mm, gm), nn)
          /\ p.groupmask # gm => Rows(aa, mm, gm) = Rows(tab, mm, gm)
      BY <3>2, RowsOfGroup
    <3>4. QED  BY <3>1, <3>3
  <2>2. QED  BY <2>1 DEF Plus
<1>6. \A g \in DOMAIN sc.groups : sc.groups[g].groupmask # p.groupmask
  BY <1>1 DEF Indexed
<1>7. p.groupmask \in GroupMasks
  BY DEF RuleType
<1>8. Rows(tab, m, p.groupmask) = {}
  BY <1>1, <1>6, <1>7 DEF GroupsFit
<1>9. Rows(after, m, p.groupmask) = {n}
  BY <1>5, <1>8
<1> HIDE DEF n, k, after
<1>10. Indexed(new)
  BY <1>1, <1>2, <1>3 DEF Indexed
<1>11. GroupsFit(new, after)
  <2> SUFFICES ASSUME NEW gm \in GroupMasks
               PROVE  (\E g \in DOMAIN new.groups : new.groups[g].groupmask = gm)
                      <=> Rows(after, m, gm) # {}
    BY <1>2 DEF GroupsFit
  <2>1. (\E g \in DOMAIN sc.groups : sc.groups[g].groupmask = gm)
        <=> Rows(tab, m, gm) # {}
    BY <1>1 DEF GroupsFit
  <2>2. (\E g \in DOMAIN new.groups : new.groups[g].groupmask = gm)
        <=> gm = p.groupmask
            \/ \E g \in DOMAIN sc.groups : sc.groups[g].groupmask = gm
    BY <1>2, <1>3
  <2>3. Rows(after, m, gm) # {} <=> gm = p.groupmask \/ Rows(tab, m, gm) # {}
    BY <1>5, <1>9
  <2>4. QED  BY <2>1, <2>2, <2>3
<1>12. ASSUME NEW g \in DOMAIN sc.groups
       PROVE  /\ Rows(after, m, sc.groups[g].groupmask)
                 = Rows(tab, m, sc.groups[g].groupmask)
              /\ First(Rows(tab, m, sc.groups[g].groupmask)) < n
  <2> DEFINE rows == Rows(tab, m, sc.groups[g].groupmask)
  <2>1. rows # {} /\ rows \subseteq DOMAIN tab
    BY <1>1, <1>5, GroupHasRows
  <2> HIDE DEF rows
  <2>2. First(rows) \in rows
    BY <1>4, <2>1, FirstFacts
  <2>3. First(rows) < n
    BY <1>4, <2>1, <2>2
  <2>4. QED  BY <1>5, <1>6, <2>3 DEF rows
<1>13. OrderFits(new, after)
  <2> SUFFICES ASSUME NEW g \in DOMAIN new.groups, NEW h \in DOMAIN new.groups,
                      g < h
               PROVE  First(Rows(after, m, new.groups[g].groupmask))
                      < First(Rows(after, m, new.groups[h].groupmask))
    BY <1>2 DEF OrderFits
  <2>1. g \in DOMAIN sc.groups
    <3>1. CASE g = k
      <4>1. k \in Nat /\ (h = k \/ (h < k /\ h \in Nat))
        BY <1>2, SettingParts DEF k
      <4>2. QED  BY <3>1, <4>1
    <3>2. QED  BY <1>2, <3>1
  <2>2. CASE h \in DOMAIN sc.groups
    BY <1>1, <1>2, <1>12, <2>1, <2>2 DEF OrderFits
  <2>3. CASE h = k
    <3>1. First({n}) = n
      BY <1>4, FirstOne
    <3>2. Rows(after, m, new.groups[h].groupmask) = {n}
      BY <1>3, <1>9, <2>3
    <3>3. Rows(after, m, new.groups[g].groupmask)
          = Rows(tab, m, sc.groups[g].groupmask)
      BY <1>2, <1>12, <2>1
    <3>4. First(Rows(tab, m, sc.groups[g].groupmask)) < n
      BY <1>12, <2>1
    <3>5. QED  BY <3>1, <3>2, <3>3, <3>4
  <2>4. QED  BY <1>2, <2>2, <2>3
<1>14. LoginsFit(new, after)
  <2> SUFFICES ASSUME NEW g \in DOMAIN new.groups, NEW login \in Logins
               PROVE  SearchLogin(new.groups[g], login) =
                          Answer(after, ForLogin(after, m, new.groups[g].groupmask,
                                                 login))
    BY <1>2 DEF LoginsFit
  <2> DEFINE gm == new.groups[g].groupmask
             old == ForLogin(tab, m, gm, login)
  <2>1. Answer(after, ForLogin(after, m, gm, login)) =
            IF gm = p.groupmask /\ login \in p.loginmask /\ old = {}
            THEN <<p.target, TRUE>> ELSE Answer(tab, old)
    BY ForLoginAppended DEF after
  <2>2. CASE g \in DOMAIN sc.groups
    <3>1. new.groups[g] = sc.groups[g]
      BY <1>2, <2>2
    <3>2. SearchLogin(sc.groups[g], login) = Answer(tab, old)
      BY <1>1, <2>2, <3>1 DEF LoginsFit
    <3>3. gm # p.groupmask
      BY <1>6, <2>2, <3>1
    <3> HIDE DEF gm, old
    <3>4. QED  BY <2>1, <3>1, <3>2, <3>3 DEF gm
  <2>3. CASE g = k
    <3>1. gm = p.groupmask
      BY <1>3, <2>3
    <3>2. old = {}
      BY <1>8, <3>1 DEF ForLogin
    <3> DEFINE s == <<LoginOf(p)>>
               found == {i \in DOMAIN s : login \in s[i].loginmask}
    <3>3. DOMAIN s = {1} /\ s[1].loginmask = p.loginmask /\ s[1].target = p.target
      BY DEF LoginOf
    <3>4. found = IF login \in p.loginmask THEN {1} ELSE {}
      <4> HIDE DEF s
      <4>1. QED  BY <3>3
    <3>5. First({1}) = 1
      BY FirstOne
    <3>6. SearchLogin(new.groups[g], login) =
              IF found = {} THEN <<0, FALSE>> ELSE <<s[First(found)].target, TRUE>>
      BY <1>3, <2>3 DEF SearchLogin
    <3> HIDE DEF s, found
    <3>7. SearchLogin(new.groups[g], login) =
              IF login \in p.loginmask THEN <<p.target, TRUE>> ELSE <<0, FALSE>>
      BY <3>3, <3>4, <3>5, <3>6
    <3>8. Answer(tab, {}) = <<0, FALSE>>
      BY DEF Answer
    <3> HIDE DEF gm, old
    <3>9. QED  BY <2>1, <3>1, <3>2, <3>7, <3>8 DEF gm
  <2>4. QED  BY <1>2, <2>2, <2>3
<1>15. QED  BY <1>2, <1>10, <1>11, <1>13, <1>14 DEF Fits, after

\* What InsertRule makes of a setting that fits fits again.
LEMMA InsertFits ==
    ASSUME NEW sc \in SymbolSetting, NEW tab \in Seq(RuleType),
           NEW p \in RuleType, Fits(sc, tab), p.symbolmask = sc.symbolmask
    PROVE  /\ InsertRule(sc, p) \in SymbolSetting
           /\ InsertRule(sc, p).symbolmask = sc.symbolmask
           /\ Fits(InsertRule(sc, p), Append(tab, p))
<1> DEFINE new == InsertRule(sc, p)
<1> HIDE DEF new
<1>1. new = InsertRule(sc, p)
  BY DEF new
<1>2. CASE p.groupmask \in DOMAIN sc.index
  BY <1>1, <1>2, OldGroupFits DEF new
<1>3. CASE p.groupmask \notin DOMAIN sc.index
  BY <1>1, <1>3, NewGroupFits DEF new
<1>4. QED  BY <1>2, <1>3

\* A setting without groups fits a table without rules of its mask.
LEMMA EmptyFits ==
    ASSUME NEW tab \in Seq(RuleType), NEW mask \in SymbolMasks,
           \A r \in DOMAIN tab : tab[r].symbolmask # mask
    PROVE  /\ EmptySetting(mask) \in SymbolSetting
           /\ EmptySetting(mask).symbolmask = mask
           /\ Fits(EmptySetting(mask), tab)
<1> DEFINE sc == EmptySetting(mask)
<1>1. /\ sc.symbolmask = mask
      /\ sc.groups = <<>>
      /\ sc.index = [m \in {} |-> 0]
      /\ sc = [symbolmask |-> mask, groups |-> <<>>, index |-> [m \in {} |-> 0]]
  BY DEF EmptySetting
<1>2. DOMAIN sc.groups = {} /\ DOMAIN sc.index = {} /\ <<>> \in Seq(GroupSetting)
  BY <1>1
<1>3. sc.index \in UNION {[D -> Nat] : D \in SUBSET GroupMasks}
  <2>1. {} \in SUBSET GroupMasks /\ sc.index \in [{} -> Nat]
    BY <1>1
  <2>2. QED  BY <2>1
<1>4. sc \in SymbolSetting
  BY <1>1, <1>2, <1>3 DEF SymbolSetting
<1>5. \A gm : Rows(tab, mask, gm) = {}
  BY DEF Rows
<1> HIDE DEF sc
<1>6. Fits(sc, tab)
  BY <1>1, <1>2, <1>5 DEF Fits, Indexed, GroupsFit, OrderFits, LoginsFit
<1>7. QED  BY <1>1, <1>4, <1>6 DEF sc

\* A search in a setting that fits finds what a lookup in the table does.
Row(sc, tab, g, login) == Lookup(tab, sc.symbolmask, g, login)

\* What a row of the table answers.
RowAnswer(tab, row) ==
    IF row = 0 THEN <<0, FALSE>> ELSE <<tab[row].target, TRUE>>

\* A setting that fits the table answers as the table does.
LEMMA FitsSearch ==
    ASSUME NEW sc \in SymbolSetting, NEW tab \in Seq(RuleType), Fits(sc, tab),
           NEW g \in Groups, NEW login \in Logins
    PROVE  SearchGroupConfig(sc, g, login) =
               RowAnswer(tab, Row(sc, tab, g, login))
<1> SUFFICES ASSUME NEW row, row = Row(sc, tab, g, login)
             PROVE  SearchGroupConfig(sc, g, login) =
                        IF row = 0 THEN <<0, FALSE>>
                                   ELSE <<tab[row].target, TRUE>>
  BY DEF RowAnswer
<1> DEFINE m == sc.symbolmask
           ofGroup == {i \in DOMAIN tab : /\ tab[i].symbolmask = m
                                          /\ g \in GroupsOf[tab[i].groupmask]}
           gm == tab[First(ofGroup)].groupmask
           ofLogin == {i \in ofGroup : /\ tab[i].groupmask = gm
                                       /\ login \in tab[i].loginmask}
           found == {i \in DOMAIN sc.groups :
                        g \in GroupsOf[sc.groups[i].groupmask]}
<1>1. Indexed(sc) /\ GroupsFit(sc, tab) /\ OrderFits(sc, tab) /\ LoginsFit(sc, tab)
  BY DEF Fits
<1>2. row = IF ofLogin = {} THEN 0 ELSE First(ofLogin)
  BY DEF Row, Lookup
<1>3. SearchGroupConfig(sc, g, login) =
          IF found = {} THEN <<0, FALSE>>
          ELSE SearchLogin(sc.groups[First(found)], login)
  BY DEF SearchGroupConfig
<1>4. /\ DOMAIN tab \subseteq Nat \ {0}
      /\ \A i \in DOMAIN tab : tab[i] \in RuleType
      /\ ofGroup \subseteq DOMAIN tab
  BY LenProperties, ElementOfSeq
<1>5. DOMAIN sc.groups \subseteq Nat /\ found \subseteq DOMAIN sc.groups
  BY SettingParts
<1>6. ASSUME NEW x \in found
      PROVE  LET rows == Rows(tab, m, sc.groups[x].groupmask)
             IN  rows # {} /\ rows \subseteq ofGroup
  <2>1. Rows(tab, m, sc.groups[x].groupmask) # {}
    BY <1>1, GroupHasRows
  <2>2. Rows(tab, m, sc.groups[x].groupmask) \subseteq ofGroup
    BY DEF Rows
  <2>3. QED  BY <2>1, <2>2
<1>7. CASE ofGroup = {}
  <2>1. found = {}
    BY <1>6, <1>7
  <2>2. ofLogin = {}
    BY <1>7
  <2>3. QED  BY <1>2, <1>3, <2>1, <2>2
<1>8. CASE ofGroup # {}
  <2> DEFINE r == First(ofGroup)
             rows == Rows(tab, m, gm)
  <2>1. r \in ofGroup /\ \A i \in ofGroup : r <= i
    <3> HIDE DEF ofGroup
    <3>1. QED  BY <1>4, <1>8, FirstFacts
  <2>2. r \in rows /\ gm \in GroupMasks /\ g \in GroupsOf[gm]
    BY <1>4, <2>1 DEF Rows, RuleType
  <2>3. rows \subseteq ofGroup
    BY <2>2 DEF Rows
  <2>4. First(rows) = r
    <3> HIDE DEF rows, ofGroup, r
    <3>1. rows \subseteq Nat /\ \A i \in rows : r <= i
      BY <1>4, <2>1, <2>3
    <3>2. QED  BY <2>2, <3>1, FirstIs
  <2>5. PICK h \in DOMAIN sc.groups : sc.groups[h].groupmask = gm
    BY <1>1, <2>2 DEF GroupsFit
  <2>6. h \in found
    BY <2>2, <2>5
  <2>7. ASSUME NEW x \in found PROVE h <= x
    <3> DEFINE others == Rows(tab, m, sc.groups[x].groupmask)
    <3>1. others # {} /\ others \subseteq ofGroup
      BY <1>6
    <3>2. First(others) \in others
      <4> HIDE DEF others, ofGroup
      <4>1. others \subseteq Nat
        BY <1>4, <3>1
      <4>2. QED  BY <3>1, <4>1, FirstFacts
    <3>3. First(others) \in Nat /\ r \in Nat /\ ~(First(others) < r)
      <4> HIDE DEF others, ofGroup, r
      <4>1. First(others) \in ofGroup /\ r \in ofGroup
        BY <2>1, <3>1, <3>2
      <4>2. First(others) \in Nat /\ r \in Nat /\ r <= First(others)
        BY <1>4, <2>1, <4>1
      <4>3. QED  BY <4>2
    <3>4. x < h => First(others) < First(rows)
      BY <1>1, <2>5 DEF OrderFits
    <3>5. x \in Nat /\ h \in Nat
      BY <1>5
    <3> HIDE DEF others, rows, r, found
    <3>6. QED  BY <2>4, <3>3, <3>4, <3>5
  <2>8. First(found) = h
    <3> HIDE DEF found
    <3>1. found \subseteq Nat
      BY <1>5
    <3>2. QED  BY <2>6, <2>7, <3>1, FirstIs
  <2>9. ofLogin = ForLogin(tab, m, gm, login)
    <3> HIDE DEF gm
    <3>1. QED  BY <2>2 DEF ForLogin, Rows
  <2>10. SearchLogin(sc.groups[h], login) = Answer(tab, ofLogin)
    <3> HIDE DEF ofLogin, gm
    <3>1. QED  BY <1>1, <2>5, <2>9 DEF LoginsFit
  <2>11. ofLogin # {} => First(ofLogin) # 0
    <3>1. ofLogin \subseteq Nat \ {0}
      BY <1>4
    <3> HIDE DEF ofLogin
    <3>2. ofLogin # {} => First(ofLogin) \in ofLogin
      BY <3>1, FirstFacts
    <3>3. QED  BY <3>1, <3>2
  <2> HIDE DEF ofLogin, found
  <2>12. SearchGroupConfig(sc, g, login) = Answer(tab, ofLogin)
    BY <1>3, <2>6, <2>8, <2>10
  <2>13. QED  BY <1>2, <2>11, <2>12 DEF Answer
<1>9. QED  BY <1>7, <1>8

-----------------------------------------------------------------------------
(* The invariant. *)

\* The symbol masks of a table with one more rule.
LEMMA MasksAppended ==
    ASSUME NEW tab \in Seq(RuleType), NEW p \in RuleType
    PROVE  {Append(tab, p)[r].symbolmask : r \in DOMAIN Append(tab, p)}
           = {tab[r].symbolmask : r \in DOMAIN tab} \cup {p.symbolmask}
<1> DEFINE n == Len(tab) + 1
           after == Append(tab, p)
<1>1. /\ DOMAIN after = DOMAIN tab \cup {n}
      /\ \A r \in DOMAIN tab : after[r] = tab[r]
      /\ after[n] = p
  BY Appended
<1> HIDE DEF n, after
<1>2. {after[r].symbolmask : r \in DOMAIN after}
      = {tab[r].symbolmask : r \in DOMAIN tab} \cup {p.symbolmask}
  BY <1>1
<1>3. QED  BY <1>2 DEF after

\* An accepted rule of a symbol mask that has a setting.
LEMMA KnownStep ==
    ASSUME ConfigInv, NEW p \in RuleType, NEW g,
           EnterKnownSymbol(p, g), Accepted(p, g)
    PROVE  /\ ConfigInv'
           /\ DOMAIN symbolconfig' = DOMAIN symbolconfig
           /\ \A k \in DOMAIN symbolconfig :
                 symbolconfig'[k].symbolmask = symbolconfig[k].symbolmask
<1> DEFINE i == symbolIndex[p.symbolmask]
           new == InsertRule(symbolconfig[i], p)
<1>1. SettingsTypeOK /\ SymbolsFit /\ \A k \in DOMAIN symbolconfig : Fits(symbolconfig[k], table)
  BY DEF ConfigInv
<1>2. /\ p.symbolmask \in DOMAIN symbolIndex
      /\ symbolconfig' = [symbolconfig EXCEPT ![i] = new]
      /\ table' = Append(table, p)
      /\ symbolIndex' = symbolIndex
      /\ entered' = entered + 1
  BY DEF EnterKnownSymbol
<1>3. i \in DOMAIN symbolconfig /\ symbolconfig[i].symbolmask = p.symbolmask
  BY <1>1, <1>2 DEF SymbolsFit
<1>4. /\ Len(symbolconfig) \in Nat
      /\ DOMAIN symbolconfig = 1..Len(symbolconfig)
      /\ symbolconfig \in [1..Len(symbolconfig) -> SymbolSetting]
  BY <1>1, LenProperties, SeqDef DEF SettingsTypeOK
<1>5. /\ new \in SymbolSetting
      /\ new.symbolmask = p.symbolmask
      /\ Fits(new, Append(table, p))
  <2>1. symbolconfig[i] \in SymbolSetting
    BY <1>3, <1>4
  <2>2. table \in Seq(RuleType) /\ Fits(symbolconfig[i], table)
    BY <1>1, <1>3 DEF SettingsTypeOK
  <2>3. QED  BY <1>3, <2>1, <2>2, InsertFits
<1> HIDE DEF i, new
<1>6. symbolconfig' \in [1..Len(symbolconfig) -> SymbolSetting]
  BY <1>2, <1>4, <1>5
<1>7. symbolconfig' \in Seq(SymbolSetting) /\ DOMAIN symbolconfig' = DOMAIN symbolconfig
  BY <1>4, <1>6, SeqDef
<1>8. \A k \in DOMAIN symbolconfig :
         symbolconfig'[k] = IF k = i THEN new ELSE symbolconfig[k]
  BY <1>2
<1>9. SettingsTypeOK'
  <2>1. table' \in Seq(RuleType)
    BY <1>1, <1>2, Appended DEF SettingsTypeOK
  <2>2. QED  BY <1>1, <1>2, <1>7, <2>1 DEF SettingsTypeOK
<1>10. \A k \in DOMAIN symbolconfig :
          symbolconfig'[k].symbolmask = symbolconfig[k].symbolmask
  BY <1>3, <1>5, <1>8
<1>11. SymbolsFit'
  <2>1. {symbolconfig'[k].symbolmask : k \in DOMAIN symbolconfig'}
        = {symbolconfig[k].symbolmask : k \in DOMAIN symbolconfig}
    BY <1>7, <1>10
  <2>2. {table'[r].symbolmask : r \in DOMAIN table'}
        = {table[r].symbolmask : r \in DOMAIN table} \cup {p.symbolmask}
    <3>1. table \in Seq(RuleType)
      BY <1>1 DEF SettingsTypeOK
    <3>2. {Append(table, p)[r].symbolmask : r \in DOMAIN Append(table, p)}
          = {table[r].symbolmask : r \in DOMAIN table} \cup {p.symbolmask}
      BY <3>1, MasksAppended
    <3>3. QED  BY <1>2, <3>2
  <2>3. DOMAIN symbolIndex = {table[r].symbolmask : r \in DOMAIN table}
    BY <1>1 DEF SymbolsFit
  <2>4. {table'[r].symbolmask : r \in DOMAIN table'} = DOMAIN symbolIndex
    BY <1>2, <2>2, <2>3
  <2>5. \A k \in DOMAIN symbolconfig' :
           symbolIndex'[symbolconfig'[k].symbolmask] = k
    BY <1>1, <1>2, <1>7, <1>10 DEF SymbolsFit
  <2>6. DOMAIN symbolIndex = {symbolconfig[k].symbolmask : k \in DOMAIN symbolconfig}
    BY <1>1 DEF SymbolsFit
  <2>7. QED  BY <1>2, <2>1, <2>4, <2>5, <2>6 DEF SymbolsFit
<1>12. ASSUME NEW k \in DOMAIN symbolconfig
       PROVE  Fits(symbolconfig'[k], table')
  <2>1. CASE k = i
    BY <1>2, <1>5, <1>8, <2>1
  <2>2. CASE k # i
    <3>1. symbolconfig[k].symbolmask # p.symbolmask
      BY <1>1, <1>3, <2>2 DEF SymbolsFit
    <3>2. /\ symbolconfig[k] \in SymbolSetting
          /\ table \in Seq(RuleType)
          /\ Fits(symbolconfig[k], table)
      BY <1>1, <1>4 DEF SettingsTypeOK
    <3>3. Fits(symbolconfig[k], Append(table, p))
      BY <3>1, <3>2, OtherFits
    <3>4. QED  BY <1>2, <1>8, <2>2, <3>3
  <2>3. QED  BY <2>1, <2>2
<1>13. ConfigInv'
  BY <1>7, <1>9, <1>11, <1>12 DEF ConfigInv
<1>14. QED  BY <1>7, <1>10, <1>13

\* An accepted rule of a new symbol mask.
LEMMA NewStep ==
    ASSUME ConfigInv, NEW p \in RuleType, NEW g,
           EnterNewSymbol(p, g), Accepted(p, g)
    PROVE  /\ ConfigInv'
           /\ DOMAIN symbolconfig' =
                 DOMAIN symbolconfig \cup {Len(symbolconfig) + 1}
           /\ \A k \in DOMAIN symbolconfig :
                 /\ k < Len(symbolconfig) + 1
                 /\ symbolconfig'[k] = symbolconfig[k]
           /\ symbolconfig'[Len(symbolconfig) + 1].symbolmask = p.symbolmask
<1> DEFINE n == Len(symbolconfig) + 1
           new == InsertRule(EmptySetting(p.symbolmask), p)
<1>1. SettingsTypeOK /\ SymbolsFit /\ \A k \in DOMAIN symbolconfig : Fits(symbolconfig[k], table)
  BY DEF ConfigInv
<1>2. /\ p.symbolmask \notin DOMAIN symbolIndex
      /\ symbolconfig' = Append(symbolconfig, new)
      /\ table' = Append(table, p)
      /\ symbolIndex' = Put(symbolIndex, p.symbolmask, n)
      /\ entered' = entered + 1
  BY DEF EnterNewSymbol
<1>3. /\ new \in SymbolSetting
      /\ new.symbolmask = p.symbolmask
      /\ Fits(new, Append(table, p))
  <2>1. \A r \in DOMAIN table : table[r].symbolmask # p.symbolmask
    BY <1>1, <1>2 DEF SymbolsFit
  <2>2. table \in Seq(RuleType) /\ p.symbolmask \in SymbolMasks
    BY <1>1 DEF SettingsTypeOK, RuleType
  <2>3. /\ EmptySetting(p.symbolmask) \in SymbolSetting
        /\ EmptySetting(p.symbolmask).symbolmask = p.symbolmask
        /\ Fits(EmptySetting(p.symbolmask), table)
    BY <2>1, <2>2, EmptyFits
  <2>4. QED  BY <2>2, <2>3, InsertFits
<1> HIDE DEF new
<1>4. /\ symbolconfig' \in Seq(SymbolSetting)
      /\ DOMAIN symbolconfig' = DOMAIN symbolconfig \cup {n}
      /\ n \in Nat
      /\ \A k \in DOMAIN symbolconfig : k < n /\ symbolconfig'[k] = symbolconfig[k]
      /\ symbolconfig'[n] = new
  BY <1>1, <1>2, <1>3, Appended DEF SettingsTypeOK
<1> HIDE DEF n
<1>5. /\ DOMAIN symbolIndex' = DOMAIN symbolIndex \cup {p.symbolmask}
      /\ symbolIndex'[p.symbolmask] = n
      /\ \A m \in DOMAIN symbolIndex :
            m # p.symbolmask /\ symbolIndex'[m] = symbolIndex[m]
  BY <1>2 DEF Put
<1>6. SettingsTypeOK'
  <2>1. table' \in Seq(RuleType)
    BY <1>1, <1>2, Appended DEF SettingsTypeOK
  <2>2. PICK D \in SUBSET SymbolMasks : symbolIndex \in [D -> Nat]
    BY <1>1 DEF SettingsTypeOK
  <2>3. symbolIndex' \in [D \cup {p.symbolmask} -> Nat]
    BY <1>2, <1>4, <2>2 DEF Put
  <2>4. D \cup {p.symbolmask} \in SUBSET SymbolMasks
    BY <2>2 DEF RuleType
  <2>5. symbolIndex' \in UNION {[E -> Nat] : E \in SUBSET SymbolMasks}
    BY <2>3, <2>4
  <2>6. QED  BY <1>1, <1>2, <1>4, <2>1, <2>5 DEF SettingsTypeOK
<1>7. SymbolsFit'
  <2>1. {symbolconfig'[k].symbolmask : k \in DOMAIN symbolconfig'}
        = {symbolconfig[k].symbolmask : k \in DOMAIN symbolconfig} \cup {p.symbolmask}
    BY <1>3, <1>4
  <2>2. {table'[r].symbolmask : r \in DOMAIN table'}
        = {table[r].symbolmask : r \in DOMAIN table} \cup {p.symbolmask}
    <3>1. table \in Seq(RuleType)
      BY <1>1 DEF SettingsTypeOK
    <3>2. {Append(table, p)[r].symbolmask : r \in DOMAIN Append(table, p)}
          = {table[r].symbolmask : r \in DOMAIN table} \cup {p.symbolmask}
      BY <3>1, MasksAppended
    <3>3. QED  BY <1>2, <3>2
  <2>3. /\ DOMAIN symbolIndex = {table[r].symbolmask : r \in DOMAIN table}
        /\ DOMAIN symbolIndex = {symbolconfig[k].symbolmask : k \in DOMAIN symbolconfig}
    BY <1>1 DEF SymbolsFit
  <2>4. ASSUME NEW k \in DOMAIN symbolconfig'
        PROVE  symbolIndex'[symbolconfig'[k].symbolmask] = k
    <3>1. CASE k \in DOMAIN symbolconfig
      <4>1. symbolconfig[k].symbolmask \in DOMAIN symbolIndex
            /\ symbolIndex[symbolconfig[k].symbolmask] = k
        BY <1>1, <3>1 DEF SymbolsFit
      <4>2. QED  BY <1>4, <1>5, <3>1, <4>1
    <3>2. CASE k = n
      BY <1>3, <1>4, <1>5, <3>2
    <3>3. QED  BY <1>4, <3>1, <3>2
  <2>5. QED  BY <1>5, <2>1, <2>2, <2>3, <2>4 DEF SymbolsFit
<1>8. ASSUME NEW k \in DOMAIN symbolconfig'
      PROVE  Fits(symbolconfig'[k], table')
  <2>1. CASE k = n
    BY <1>2, <1>3, <1>4, <2>1
  <2>2. CASE k \in DOMAIN symbolconfig
    <3>1. symbolconfig[k].symbolmask # p.symbolmask
      BY <1>1, <1>2, <2>2 DEF SymbolsFit
    <3>2. /\ symbolconfig[k] \in SymbolSetting
          /\ table \in Seq(RuleType)
          /\ Fits(symbolconfig[k], table)
      BY <1>1, <2>2, LenProperties, ElementOfSeq DEF SettingsTypeOK
    <3>3. Fits(symbolconfig[k], Append(table, p))
      BY <3>1, <3>2, OtherFits
    <3>4. QED  BY <1>2, <1>4, <2>2, <3>3
  <2>3. QED  BY <1>4, <2>1, <2>2
<1>9. ConfigInv'
  BY <1>6, <1>7, <1>8 DEF ConfigInv
<1>10. QED  BY <1>3, <1>4, <1>9 DEF n

\* Every step keeps lists and indexes fitting the table.
LEMMA ConfigStep ==
    ASSUME ConfigInv, [ConfigNext]_configVars
    PROVE  ConfigInv'
<1>1. ASSUME NEW p \in Parameters, NEW g \in Groups,
             EnterKnownSymbol(p, g) \/ EnterNewSymbol(p, g)
      PROVE  ConfigInv'
  <2>1. p \in RuleType
    BY ParametersAssumption
  <2>2. CASE Accepted(p, g)
    BY <1>1, <2>1, <2>2, KnownStep, NewStep
  <2>3. CASE ~Accepted(p, g)
    <3>1. /\ entered' = entered + 1
          /\ UNCHANGED <<symbolconfig, symbolIndex, table>>
      BY <1>1, <2>3 DEF EnterKnownSymbol, EnterNewSymbol
    <3>2. SettingsTypeOK'
      BY <3>1 DEF ConfigInv, SettingsTypeOK
    <3>3. SymbolsFit'
      <4>1. SymbolsFit
        BY DEF ConfigInv
      <4>2. QED  BY <3>1, <4>1, Zenon DEF SymbolsFit
    <3>4. \A k \in DOMAIN symbolconfig : Fits(symbolconfig[k], table)
      BY DEF ConfigInv
    <3>5. (\A k \in DOMAIN symbolconfig : Fits(symbolconfig[k], table))'
      BY <3>1, <3>4
    <3>6. QED  BY <3>1, <3>2, <3>3, <3>5 DEF ConfigInv
  <2>4. QED  BY <2>2, <2>3
<1>2. CASE UNCHANGED configVars
  BY <1>2 DEF configVars, ConfigInv, SettingsTypeOK, SymbolsFit
<1>3. QED  BY <1>1, <1>2 DEF ConfigNext

\* The lists and indexes fit the table of accepted rules, whatever parameters
\* are entered in whatever order.
THEOREM ConfigInvariant == ConfigSpec => []ConfigInv
<1>1. ConfigInit => ConfigInv
  <2> SUFFICES ASSUME ConfigInit PROVE ConfigInv
    OBVIOUS
  <2>1. symbolconfig = <<>> /\ table = <<>> /\ symbolIndex = [m \in {} |-> 0]
        /\ entered = 0
    BY DEF ConfigInit
  <2>2. DOMAIN symbolconfig = {} /\ DOMAIN table = {} /\ DOMAIN symbolIndex = {}
    BY <2>1
  <2>3. symbolIndex \in [{} -> Nat] /\ {} \in SUBSET SymbolMasks
    BY <2>1
  <2>4. symbolIndex \in UNION {[D -> Nat] : D \in SUBSET SymbolMasks}
    BY <2>3
  <2>5. symbolconfig \in Seq(SymbolSetting) /\ table \in Seq(RuleType)
    BY <2>1
  <2>6. QED  BY <2>1, <2>2, <2>4, <2>5 DEF ConfigInv, SettingsTypeOK, SymbolsFit
<1>2. ConfigInv /\ [ConfigNext]_configVars => ConfigInv'
  BY ConfigStep
<1>3. QED  BY <1>1, <1>2, PTL DEF ConfigSpec

\* Each index leads to the list element of its mask: std::advance by a stored
\* position never lands elsewhere.
THEOREM IndexesAgreeHolds == ConfigSpec => []IndexesAgree
<1>1. ConfigInv => IndexesAgree
  BY DEF ConfigInv, SymbolsFit, Fits, Indexed, IndexesAgree
<1>2. QED  BY <1>1, ConfigInvariant, PTL

-----------------------------------------------------------------------------
(* The order of the settings. *)

\* A rule opens a setting if it is the first with its symbol mask.
LEMMA SettingsAppended ==
    ASSUME NEW tab \in Seq(RuleType), NEW p \in RuleType
    PROVE  /\ Settings(tab) \subseteq DOMAIN tab
           /\ (\E r \in DOMAIN tab : tab[r].symbolmask = p.symbolmask)
              => Settings(Append(tab, p)) = Settings(tab)
           /\ (\A r \in DOMAIN tab : tab[r].symbolmask # p.symbolmask)
              => Settings(Append(tab, p)) = Settings(tab) \cup {Len(tab) + 1}
<1> DEFINE n == Len(tab) + 1
           after == Append(tab, p)
<1>1. /\ DOMAIN after = DOMAIN tab \cup {n}
      /\ \A r \in DOMAIN tab : r < n /\ after[r] = tab[r]
      /\ after[n] = p
  BY Appended
<1>2. DOMAIN tab = 1..n - 1 /\ n \in Nat \ {0}
  BY LenProperties
<1> HIDE DEF n, after
<1>3. ASSUME NEW r \in DOMAIN tab
      PROVE  r \in Settings(after) <=> r \in Settings(tab)
  <2>1. 1..r - 1 \subseteq DOMAIN tab
    BY <1>2
  <2>2. \A j \in 1..r - 1 : after[j] = tab[j]
    BY <1>1, <2>1
  <2>3. QED  BY <1>1, <2>2 DEF Settings
<1>4. n \in Settings(after)
      <=> \A j \in DOMAIN tab : tab[j].symbolmask # p.symbolmask
  BY <1>1, <1>2 DEF Settings
<1>5. Settings(tab) \subseteq DOMAIN tab /\ Settings(after) \subseteq DOMAIN after
  BY DEF Settings
<1>6. /\ (\E r \in DOMAIN tab : tab[r].symbolmask = p.symbolmask)
         => Settings(after) = Settings(tab)
      /\ (\A r \in DOMAIN tab : tab[r].symbolmask # p.symbolmask)
         => Settings(after) = Settings(tab) \cup {n}
  BY <1>1, <1>3, <1>4, <1>5
<1>7. QED  BY <1>5, <1>6 DEF n, after

\* Every step keeps the settings in the order of the table.
LEMMA OrderStep ==
    ASSUME ConfigInv, SettingsInOrder, [ConfigNext]_configVars
    PROVE  SettingsInOrder'
<1>1. /\ table \in Seq(RuleType)
      /\ DOMAIN symbolIndex = {table[r].symbolmask : r \in DOMAIN table}
      /\ DOMAIN symbolIndex = {symbolconfig[k].symbolmask :
                                   k \in DOMAIN symbolconfig}
  BY DEF ConfigInv, SettingsTypeOK, SymbolsFit
<1>2. Settings(table) \subseteq DOMAIN table
  BY DEF Settings
<1>3. ASSUME NEW p \in RuleType, NEW g, EnterKnownSymbol(p, g),
             Accepted(p, g)
      PROVE  SettingsInOrder'
  <2>1. table' = Append(table, p) /\ p.symbolmask \in DOMAIN symbolIndex
    BY <1>3 DEF EnterKnownSymbol
  <2>2. Settings(table') = Settings(table)
    BY <1>1, <2>1, SettingsAppended
  <2>3. \A r \in Settings(table) : table'[r] = table[r]
    BY <1>1, <1>2, <2>1, Appended
  <2>4. /\ DOMAIN symbolconfig' = DOMAIN symbolconfig
        /\ \A k \in DOMAIN symbolconfig :
              symbolconfig'[k].symbolmask = symbolconfig[k].symbolmask
    BY <1>3, KnownStep
  <2>5. QED  BY <2>2, <2>3, <2>4 DEF SettingsInOrder
<1>4. ASSUME NEW p \in RuleType, NEW g, EnterNewSymbol(p, g),
             Accepted(p, g)
      PROVE  SettingsInOrder'
  <2> DEFINE n == Len(symbolconfig) + 1
             m == Len(table) + 1
  <2>1. table' = Append(table, p) /\ p.symbolmask \notin DOMAIN symbolIndex
    BY <1>4 DEF EnterNewSymbol
  <2>2. Settings(table') = Settings(table) \cup {m}
    BY <1>1, <2>1, SettingsAppended
  <2>3. /\ \A r \in Settings(table) : r < m /\ table'[r] = table[r]
        /\ table'[m] = p
    BY <1>1, <1>2, <2>1, Appended
  <2>4. /\ DOMAIN symbolconfig' = DOMAIN symbolconfig \cup {n}
        /\ \A k \in DOMAIN symbolconfig : k < n /\ symbolconfig'[k] = symbolconfig[k]
        /\ symbolconfig'[n].symbolmask = p.symbolmask
    BY <1>4, NewStep
  <2>5. /\ n \in Nat /\ DOMAIN symbolconfig \subseteq Nat
        /\ m \in Nat /\ Settings(table) \subseteq Nat
    <3>1. symbolconfig \in Seq(SymbolSetting)
      BY DEF ConfigInv, SettingsTypeOK
    <3>2. QED  BY <1>1, <1>2, <3>1, LenProperties
  <2> HIDE DEF n, m
  <2>6. \A k \in DOMAIN symbolconfig : symbolconfig[k].symbolmask # p.symbolmask
    BY <1>1, <2>1
  <2>7. \A r \in Settings(table) : table[r].symbolmask # p.symbolmask
    BY <1>1, <1>2, <2>1
  <2>8. ASSUME NEW i \in DOMAIN symbolconfig', NEW r \in Settings(table'),
               table'[r].symbolmask = symbolconfig'[i].symbolmask
        PROVE  \/ i = n /\ r = m
               \/ i \in DOMAIN symbolconfig /\ r \in Settings(table)
    BY <2>2, <2>3, <2>4, <2>6, <2>7, <2>8
  <2>9. ASSUME NEW i \in DOMAIN symbolconfig', NEW j \in DOMAIN symbolconfig',
               NEW r \in Settings(table'), NEW s \in Settings(table'),
               table'[r].symbolmask = symbolconfig'[i].symbolmask,
               table'[s].symbolmask = symbolconfig'[j].symbolmask
        PROVE  i < j <=> r < s
    <3>1. CASE i = n /\ r = m
      <4>1. CASE j = n /\ s = m
        BY <2>5, <3>1, <4>1
      <4>2. CASE j \in DOMAIN symbolconfig /\ s \in Settings(table)
        <5>1. j < n /\ s < m /\ j \in Nat /\ s \in Nat
          BY <2>3, <2>4, <2>5, <4>2
        <5>2. QED  BY <2>5, <3>1, <5>1
      <4>3. QED  BY <2>8, <2>9, <4>1, <4>2
    <3>2. CASE i \in DOMAIN symbolconfig /\ r \in Settings(table)
      <4>1. CASE j = n /\ s = m
        BY <2>3, <2>4, <3>2, <4>1
      <4>2. CASE j \in DOMAIN symbolconfig /\ s \in Settings(table)
        BY <2>3, <2>4, <2>9, <3>2, <4>2 DEF SettingsInOrder
      <4>3. QED  BY <2>8, <2>9, <4>1, <4>2
    <3>3. QED  BY <2>8, <2>9, <3>1, <3>2
  <2>10. QED  BY <2>9 DEF SettingsInOrder
<1>5. CASE UNCHANGED <<symbolconfig, table>>
  BY <1>5 DEF SettingsInOrder
<1>6. ASSUME NEW p \in Parameters, NEW g \in Groups,
             EnterKnownSymbol(p, g) \/ EnterNewSymbol(p, g)
      PROVE  SettingsInOrder'
  <2>1. p \in RuleType
    BY ParametersAssumption
  <2>2. CASE Accepted(p, g)
    BY <1>3, <1>4, <1>6, <2>1, <2>2
  <2>3. CASE ~Accepted(p, g)
    BY <1>5, <1>6, <2>3 DEF EnterKnownSymbol, EnterNewSymbol
  <2>4. QED  BY <2>2, <2>3
<1>7. QED  BY <1>5, <1>6 DEF ConfigNext, configVars

\* The code's walk over the list of settings, with a search in each, is the walk
\* over the rows that open them, in the order of the table, with a lookup for
\* each, for every group and login.
THEOREM SearchIsLookupHolds == ConfigSpec => []SearchIsLookup
<1>1. ASSUME ConfigInv PROVE MasksAgree /\ SearchesAgree
  <2>1. MasksAgree
    BY <1>1 DEF ConfigInv, SymbolsFit, MasksAgree
  <2>2. ASSUME NEW i \in DOMAIN symbolconfig, NEW g \in Groups,
               NEW login \in Logins
        PROVE  LET sc  == symbolconfig[i]
                   row == Lookup(table, sc.symbolmask, g, login)
               IN  SearchGroupConfig(sc, g, login) =
                       IF row = 0 THEN <<0, FALSE>> ELSE <<table[row].target, TRUE>>
    <3> DEFINE sc == symbolconfig[i]
               row == Lookup(table, sc.symbolmask, g, login)
    <3>1. sc \in SymbolSetting
      BY <1>1, LenProperties, ElementOfSeq DEF ConfigInv, SettingsTypeOK
    <3>2. table \in Seq(RuleType) /\ Fits(sc, table)
      BY <1>1 DEF ConfigInv, SettingsTypeOK
    <3> HIDE DEF sc
    <3>3. SearchGroupConfig(sc, g, login) =
              RowAnswer(table, Row(sc, table, g, login))
      BY <3>1, <3>2, FitsSearch
    <3>4. QED  BY <3>3 DEF sc, Row, RowAnswer
  <2>3. QED  BY <2>1, <2>2 DEF SearchesAgree
<1>2. ConfigInit => SettingsInOrder
  BY DEF ConfigInit, SettingsInOrder
<1>3. ConfigInv /\ SettingsInOrder /\ [ConfigNext]_configVars => SettingsInOrder'
  BY OrderStep
<1>4. ConfigInv /\ SettingsInOrder => SearchIsLookup
  BY <1>1 DEF SearchIsLookup
<1>5. QED  BY <1>2, <1>3, <1>4, ConfigInvariant, PTL DEF ConfigSpec

-----------------------------------------------------------------------------
(***************************************************************************)
(* The plugin, over any table of accepted rules.                           *)
(***************************************************************************)

\* The rules that were accepted would still be, unless their target is astray.
RulesHold ==
    \A i \in DOMAIN table :
        table[i].target \notin astray
        => Accepted(table[i], groupOf[table[i].target])

CopyInv == TypeOK /\ RulesHold /\ NoSelfCopyUnlessAstray

\* A search that finds a row finds one that has the login and its group.
LEMMA LookupFinds ==
    ASSUME NEW T \in Seq(RuleType), NEW m, NEW g, NEW l, Lookup(T, m, g, l) # 0
    PROVE  /\ Lookup(T, m, g, l) \in DOMAIN T
           /\ g \in GroupsOf[T[Lookup(T, m, g, l)].groupmask]
           /\ l \in T[Lookup(T, m, g, l)].loginmask
<1> DEFINE G == {i \in DOMAIN T : /\ T[i].symbolmask = m
                                  /\ g \in GroupsOf[T[i].groupmask]}
           L == {i \in G : /\ T[i].groupmask = T[First(G)].groupmask
                           /\ l \in T[i].loginmask}
<1>1. L # {} /\ Lookup(T, m, g, l) = First(L)
  BY DEF Lookup
<1>2. L \subseteq DOMAIN T /\ DOMAIN T \subseteq Nat
  OBVIOUS
<1>3. First(L) \in L
  BY <1>1, <1>2, FirstFacts
<1>. QED
  BY <1>1, <1>3

\* A rule accepted for the group its target is found in never sends a deal of
\* that account back to it.
LEMMA AcceptedIsNoSelfCopy ==
    ASSUME NEW T \in Seq(RuleType), NEW m, NEW g, NEW l,
           Lookup(T, m, g, l) # 0, Accepted(T[Lookup(T, m, g, l)], g)
    PROVE  T[Lookup(T, m, g, l)].target # l
  BY LookupFinds DEF Accepted

-----------------------------------------------------------------------------
\* At the beginning the invariant holds.
LEMMA InitInv == Init => CopyInv
  BY TableAssumption, ParametersAssumption DEF Init, CopyInv, TypeOK, RulesHold, Phases,
     NoSelfCopyUnlessAstray, Pending

\* The setting a hook comes to is a row of the table.
LEMMA NextSetting ==
    ASSUME TypeOK, NEW s \in Slots, AtSetting(s)
    PROVE  hook[s] \in HookType /\ Setting(s) \in DOMAIN table \cap Nat
<1>1. SettingsAfter(hook[s].pos) \subseteq DOMAIN table /\ DOMAIN table \subseteq Nat
  BY DEF SettingsAfter, Settings, TypeOK
<1>2. SettingsAfter(hook[s].pos) # {} /\ hook[s] \in HookType
  BY DEF AtSetting, TypeOK
<1>. QED
  BY <1>1, <1>2, FirstFacts DEF Setting

\* The row a hook pushes for is a row of the table.
LEMMA RuleForFinds ==
    ASSUME TypeOK, NEW s \in Slots, AtSetting(s), NEW g, RuleFor(s, g) # 0
    PROVE  /\ RuleFor(s, g) \in DOMAIN table
           /\ TaskFor(s, RuleFor(s, g)) \in TaskType
<1>1. hook[s].deal \in DealType
  BY NextSetting DEF HookType
<1>2. RuleFor(s, g) \in DOMAIN table
  BY LookupFinds DEF RuleFor, TypeOK
<1>3. table[RuleFor(s, g)].target \in Logins
  <2>1. table[RuleFor(s, g)] \in RuleType
    BY <1>2 DEF TypeOK
  <2>. QED
    BY <2>1 DEF RuleType
<1>. QED
  BY <1>1, <1>2, <1>3 DEF TaskFor, TaskType, TypeOK

\* UserGet answers a group, and may lead one account astray.
LEMMA UserGetType ==
    ASSUME NEW l \in Logins, NEW g, UserGet(l, g), astray \subseteq Logins
    PROVE  astray \subseteq astray' /\ astray' \subseteq Logins
  BY DEF UserGet

\* A function on an interval from 1 is a sequence.
LEMMA FunctionIsSeq ==
    ASSUME NEW S, NEW n \in Nat, NEW f \in [1..n -> S]
    PROVE  f \in Seq(S)
BY SeqDef

\* Every step keeps the types.
LEMMA TypeStep == TypeOK /\ [Next]_vars => TypeOK'
<1> SUFFICES ASSUME TypeOK, [Next]_vars PROVE TypeOK'
  OBVIOUS
<1> USE TableAssumption, ParametersAssumption DEF TypeOK
<1>1. ASSUME NEW s \in Slots, NEW d \in DealType, ClientDeal(s, d)
      PROVE  TypeOK'
  <2>1. hook' \in [Slots -> HookType \cup {NoHook}]
    BY <1>1 DEF ClientDeal, HookType
  <2>. QED
    BY <1>1, <2>1 DEF ClientDeal
<1>2. ASSUME NEW l \in Logins, NEW g \in Groups, MoveLogin(l, g)
      PROVE  TypeOK'
  BY <1>2 DEF MoveLogin
<1>3. CASE Load
  <2>1. CASE StartDone
    BY <2>1 DEF StartDone, Phases
  <2>2. ASSUME NEW p \in Parameters, NEW g \in Groups, ReadRule(p, g)
        PROVE  TypeOK'
    <3>1. p \in RuleType
      OBVIOUS
    <3>2. table' \in Seq(RuleType)
      BY <2>2, <3>1 DEF ReadRule
    <3>3. astray' \subseteq Logins
      BY <2>2, <3>1, UserGetType DEF ReadRule, RuleType
    <3>. QED
      BY <2>2, <3>2, <3>3 DEF ReadRule
  <2>. QED
    BY <1>3, <2>1, <2>2 DEF Load
<1>4. ASSUME NEW s \in Slots, VisitSetting(s) PROVE TypeOK'
  <2>1. /\ hook[s] \in HookType
        /\ Setting(s) \in Nat
    BY <1>4, NextSetting DEF VisitSetting
  <2>2. PICK g \in Groups :
           /\ UserGet(hook[s].deal.login, g)
           /\ hook' = [hook EXCEPT ![s].pos = Setting(s),
                                   ![s].pushed = (RuleFor(s, g) # 0)]
           /\ queue' = IF RuleFor(s, g) = 0 THEN queue
                       ELSE Append(queue, TaskFor(s, RuleFor(s, g)))
    BY <1>4 DEF VisitSetting
  <2>3. hook' \in [Slots -> HookType \cup {NoHook}]
    <3> DEFINE pos == Setting(s)
               pushed == RuleFor(s, g) # 0
    <3>1. pos \in Nat /\ pushed \in BOOLEAN
      BY <2>1
    <3>2. hook' = [hook EXCEPT ![s] = [@ EXCEPT !.pos = pos, !.pushed = pushed]]
      BY <2>2
    <3> HIDE DEF pos, pushed
    <3>3. [hook[s] EXCEPT !.pos = pos, !.pushed = pushed] \in HookType
      BY <2>1, <3>1 DEF HookType
    <3>. QED  BY <3>2, <3>3
  <2>4. queue' \in Seq(TaskType)
    <3>1. RuleFor(s, g) # 0 => TaskFor(s, RuleFor(s, g)) \in TaskType
      BY <1>4, RuleForFinds DEF VisitSetting
    <3>. QED  BY <2>2, <3>1
  <2>5. astray' \subseteq Logins
    BY <2>1, <2>2, UserGetType DEF HookType, DealType
  <2>6. UNCHANGED <<phase, unread, table, groupOf, worker, made, copies>>
    BY <1>4 DEF VisitSetting
  <2>. QED
    BY <2>3, <2>4, <2>5, <2>6
<1>5. ASSUME NEW s \in Slots, ReleaseDeal(s) PROVE TypeOK'
  <2>1. hook' \in [Slots -> HookType \cup {NoHook}]
    BY <1>5 DEF ReleaseDeal, HookType, NoHook
  <2>2. \A t \in TaskType : Dead(t, s) \in TaskType
    BY DEF Dead, TaskType
  <2>3. queue' \in Seq(TaskType)
    <3>1. \A i \in DOMAIN queue : queue[i] \in TaskType
      OBVIOUS
    <3>2. queue' = [i \in 1..Len(queue) |-> Dead(queue[i], s)]
      BY <1>5 DEF ReleaseDeal
    <3>3. queue' \in [1..Len(queue) -> TaskType] /\ Len(queue) \in Nat
      BY <2>2, <3>1, <3>2
    <3>. QED
      BY <3>3, FunctionIsSeq, Zenon
  <2>4. worker' \in {<<>>} \cup {<<t>> : t \in TaskType}
    BY <1>5, <2>2 DEF ReleaseDeal
  <2>. QED
    BY <1>5, <2>1, <2>3, <2>4 DEF ReleaseDeal
<1>6. ASSUME NEW s \in Slots, HookReturn(s) PROVE TypeOK'
  BY <1>6 DEF HookReturn
<1>7. CASE TakeTask
  BY <1>7 DEF TakeTask
<1>8. ASSUME NEW s \in Slots, NEW y \in Symbols, Copy(s, y) PROVE TypeOK'
  <2> DEFINE d == [login |-> worker[1].target, symbol |-> y]
  <2>1. worker[1] \in TaskType
    BY <1>8 DEF Copy
  <2>2. d \in DealType /\ worker[1].deal \in DealType
    BY <2>1 DEF TaskType, DealType
  <2>3. hook' = [hook EXCEPT ![s] = [deal |-> d, pos |-> 0, pushed |-> FALSE]]
    BY <1>8 DEF Copy
  <2>4. hook' \in [Slots -> HookType \cup {NoHook}]
    BY <2>2, <2>3 DEF HookType
  <2>5. copies' \subseteq DealType \X DealType
    BY <1>8, <2>2 DEF Copy
  <2>. QED
    BY <1>8, <2>4, <2>5 DEF Copy
<1>9. CASE CopyRefused
  BY <1>9 DEF CopyRefused
<1>10. CASE BeginStop \/ PoolStopped \/ Unsubscribed
  BY <1>10 DEF BeginStop, PoolStopped, Unsubscribed, Phases
<1>11. CASE UNCHANGED vars
  BY <1>11 DEF vars
<1>12. ASSUME NEW s \in Slots, SkipSetting(s) PROVE TypeOK'
  <2>1. hook[s] \in HookType /\ Setting(s) \in Nat
    BY <1>12, NextSetting DEF SkipSetting
  <2>2. hook' \in [Slots -> HookType \cup {NoHook}]
    BY <1>12, <2>1 DEF SkipSetting, HookType
  <2>. QED
    BY <1>12, <2>2 DEF SkipSetting
<1>. QED
  BY <1>1, <1>2, <1>3, <1>4, <1>5, <1>6, <1>7, <1>8, <1>9, <1>10, <1>11,
     <1>12 DEF Next, Hook, CopyOrNot

\* No step brings an account back.
LEMMA AstrayStays == TypeOK /\ [Next]_vars => astray \subseteq astray'
<1> SUFFICES ASSUME TypeOK, [Next]_vars PROVE astray \subseteq astray'
  OBVIOUS
<1>1. ASSUME NEW p \in Parameters, NEW g \in Groups, ReadRule(p, g)
      PROVE  astray \subseteq astray'
  BY <1>1 DEF ReadRule, UserGet
<1>2. ASSUME NEW s \in Slots, VisitSetting(s) PROVE astray \subseteq astray'
  BY <1>2 DEF VisitSetting, UserGet
<1>. QED
  BY <1>1, <1>2
     DEF Next, Load, Hook, CopyOrNot, ClientDeal, MoveLogin, StartDone,
         SkipSetting, ReleaseDeal, HookReturn, TakeTask, Copy, CopyRefused,
         BeginStop, PoolStopped, Unsubscribed, vars

\* A login that goes astray is one the rules make no promise about any more.
LEMMA RulesStep == TypeOK /\ RulesHold /\ [Next]_vars => RulesHold'
<1> SUFFICES ASSUME TypeOK, RulesHold, [Next]_vars PROVE RulesHold'
  OBVIOUS
<1> USE DEF RulesHold
<1>1. ASSUME NEW l \in Logins, NEW g \in Groups, MoveLogin(l, g)
      PROVE  RulesHold'
  <2> SUFFICES ASSUME NEW i \in DOMAIN table, table[i].target \notin astray'
               PROVE  Accepted(table[i], groupOf'[table[i].target])
    BY <1>1 DEF MoveLogin
  <2>1. table[i].target \in Logins
    <3>1. table[i] \in RuleType
      BY DEF TypeOK
    <3>. QED
      BY <3>1 DEF RuleType
  <2>2. table[i].target # l /\ table[i].target \notin astray
    BY <1>1 DEF MoveLogin
  <2>3. groupOf'[table[i].target] = groupOf[table[i].target]
    BY <1>1, <2>1, <2>2 DEF MoveLogin, TypeOK
  <2>. QED
    BY <2>2, <2>3
<1>2. ASSUME NEW p \in Parameters, NEW g \in Groups, ReadRule(p, g)
      PROVE  RulesHold'
  <2>1. astray \subseteq astray' /\ UNCHANGED groupOf
    BY <1>2, AstrayStays DEF ReadRule
  <2>2. CASE ~Accepted(p, g)
    BY <1>2, <2>1, <2>2 DEF ReadRule
  <2>3. CASE Accepted(p, g)
    <3>1. table' = Append(table, p)
      BY <1>2, <2>3 DEF ReadRule
    <3>2. \A i \in DOMAIN table' :
             \/ i \in DOMAIN table /\ table'[i] = table[i]
             \/ table'[i] = p
      BY <3>1 DEF TypeOK
    <3>3. p.target \notin astray' => g = groupOf[p.target]
      BY <1>2 DEF ReadRule, UserGet
    <3>. QED
      BY <2>1, <2>3, <3>2, <3>3
  <2>. QED
    BY <2>2, <2>3
<1>3. CASE UNCHANGED <<table, groupOf>>
  BY <1>3, AstrayStays
<1>. QED
  BY <1>1, <1>2, <1>3
     DEF Next, Load, Hook, CopyOrNot, ClientDeal, StartDone, SkipSetting,
         VisitSetting, ReleaseDeal, HookReturn, TakeTask, Copy, CopyRefused,
         BeginStop, PoolStopped, Unsubscribed, vars

\* What is said of one task; a released deal object changes nothing in it.
Harmless(t, lost) == t.target = t.deal.login => t.target \in lost

\* A hook pushes harmless tasks only.
LEMMA PushIsHarmless ==
    ASSUME TypeOK, RulesHold, NEW s \in Slots, AtSetting(s),
           NEW g, UserGet(hook[s].deal.login, g), RuleFor(s, g) # 0
    PROVE  Harmless(TaskFor(s, RuleFor(s, g)), astray')
<1> DEFINE deal == hook[s].deal
           row == RuleFor(s, g)
<1>1. row = Lookup(table, table[Setting(s)].symbolmask, g, deal.login)
  BY DEF RuleFor
<1>2. table \in Seq(RuleType) /\ row \in DOMAIN table
  BY RuleForFinds DEF TypeOK
<1>3. ASSUME table[row].target = deal.login, deal.login \notin astray'
      PROVE  FALSE
  <2>1. g = groupOf[deal.login] /\ deal.login \notin astray
    BY <1>3 DEF UserGet
  <2>2. Accepted(table[row], g)
    BY <1>2, <1>3, <2>1 DEF RulesHold
  <2> HIDE DEF deal
  <2>. QED
    BY <1>1, <1>2, <1>3, <2>2, AcceptedIsNoSelfCopy
<1>. QED
  BY <1>3 DEF Harmless, TaskFor

\* Every step leaves only harmless tasks pending.
LEMMA HarmlessStep ==
    CopyInv /\ [Next]_vars => NoSelfCopyUnlessAstray'
<1> SUFFICES ASSUME CopyInv, [Next]_vars PROVE NoSelfCopyUnlessAstray'
  OBVIOUS
<1>1. TypeOK /\ RulesHold
  BY DEF CopyInv
<1>2. \A t \in Pending : Harmless(t, astray')
  BY <1>1, AstrayStays DEF CopyInv, NoSelfCopyUnlessAstray, Harmless
<1> SUFFICES \A t \in Pending' : Harmless(t, astray')
  BY DEF NoSelfCopyUnlessAstray, Harmless
<1>3. ASSUME NEW s \in Slots, VisitSetting(s)
      PROVE  \A t \in Pending' : Harmless(t, astray')
  <2>1. PICK g \in Groups :
           /\ UserGet(hook[s].deal.login, g)
           /\ queue' = IF RuleFor(s, g) = 0 THEN queue
                       ELSE Append(queue, TaskFor(s, RuleFor(s, g)))
    BY <1>3 DEF VisitSetting
  <2>2. AtSetting(s) /\ UNCHANGED worker
    BY <1>3 DEF VisitSetting
  <2>3. CASE RuleFor(s, g) = 0
    BY <1>2, <2>1, <2>2, <2>3 DEF Pending
  <2>4. CASE RuleFor(s, g) # 0
    <3> DEFINE task == TaskFor(s, RuleFor(s, g))
    <3>1. queue' = Append(queue, task)
      BY <2>1, <2>4
    <3>2. Harmless(task, astray')
      BY <1>1, <2>1, <2>2, <2>4, PushIsHarmless
    <3> HIDE DEF task
    <3>3. \A t \in Pending' : t \in Pending \/ t = task
      BY <1>1, <2>2, <3>1 DEF Pending, TypeOK
    <3>. QED
      BY <1>2, <3>2, <3>3
  <2>. QED
    BY <2>3, <2>4
<1>4. ASSUME NEW s \in Slots, ReleaseDeal(s)
      PROVE  \A t \in Pending' : Harmless(t, astray')
  <2>1. \A t \in Pending' : \E u \in Pending : t = Dead(u, s)
    BY <1>4 DEF ReleaseDeal, Pending
  <2>2. Pending \subseteq TaskType
    BY <1>1 DEF Pending, TypeOK
  <2>3. \A u \in Pending : Harmless(Dead(u, s), astray')
    BY <1>2, <2>2 DEF Harmless, Dead, TaskType
  <2>. QED
    BY <2>1, <2>3
<1>5. CASE TakeTask
  <2>1. queue \in Seq(TaskType) /\ queue # <<>>
    BY <1>1, <1>5 DEF TakeTask, TypeOK
  <2>2. worker' = <<queue[1]>> /\ queue' = Tail(queue)
    BY <1>5, <2>1 DEF TakeTask
  <2>3. \A j \in DOMAIN queue' : \E k \in DOMAIN queue : queue'[j] = queue[k]
    BY <2>1, <2>2
  <2>4. 1 \in DOMAIN queue
    BY <2>1
  <2>5. Pending' \subseteq Pending
    BY <2>2, <2>3, <2>4 DEF Pending
  <2>. QED
    BY <1>2, <2>5
<1>6. CASE \/ UNCHANGED <<queue, worker>>
           \/ worker' = <<>> /\ UNCHANGED queue
  BY <1>2, <1>6 DEF Pending
<1>7. ASSUME NEW s \in Slots, NEW y \in Symbols, Copy(s, y)
      PROVE  worker' = <<>> /\ UNCHANGED queue
  BY <1>7 DEF Copy
<1>. QED
  BY <1>3, <1>4, <1>5, <1>6, <1>7
     DEF Next, Load, Hook, CopyOrNot, ClientDeal, MoveLogin, ReadRule,
         StartDone, SkipSetting, HookReturn, CopyRefused, BeginStop,
         PoolStopped, Unsubscribed, vars

-----------------------------------------------------------------------------
\* CopyInv is an inductive invariant of the plugin.
THEOREM CopyInvariant == Spec => []CopyInv
<1>1. CopyInv /\ [Next]_vars => CopyInv'
  BY TypeStep, RulesStep, HarmlessStep DEF CopyInv
<1>. QED
  BY InitInv, <1>1, PTL DEF Spec

\* The plugin's variables stay within their types.
THEOREM TypeCorrect == Spec => []TypeOK
<1>1. CopyInv => TypeOK
  BY DEF CopyInv
<1>. QED
  BY CopyInvariant, <1>1, PTL

\* insertSymbolConfig's check keeps every deal off the account it is from,
\* whatever rules, deals and hooks there are and whatever happens to other
\* accounts.
THEOREM NoSelfCopyHolds == Spec => []NoSelfCopyUnlessAstray
<1>1. CopyInv => NoSelfCopyUnlessAstray
  BY DEF CopyInv
<1>. QED
  BY CopyInvariant, <1>1, PTL

-----------------------------------------------------------------------------
(***************************************************************************)
(* The two together: each rule ParametersShow reads is entered in the      *)
(* lists, with the group UserGet answers for its target; nothing else      *)
(* writes them.                                                            *)
(***************************************************************************)
ReadAndEnter ==
    \E p \in Parameters, g \in Groups :
        ReadRule(p, g) /\ (EnterKnownSymbol(p, g) \/ EnterNewSymbol(p, g))

ReadsRule == \E p \in Parameters, g \in Groups : ReadRule(p, g)

PluginNext ==
    \/ ReadAndEnter
    \/ Next /\ ~ReadsRule /\ UNCHANGED <<symbolconfig, symbolIndex, entered>>

PluginSpec == Init /\ ConfigInit /\ [][PluginNext]_<<vars, configVars>>

\* The table grows by the rules read only.
LEMMA TableStep ==
    ASSUME Next, ~ReadsRule
    PROVE  UNCHANGED table
  BY DEF Next, Load, ReadsRule, Hook, CopyOrNot, ClientDeal, MoveLogin, StartDone,
         SkipSetting, VisitSetting, ReleaseDeal, HookReturn, TakeTask, Copy,
         CopyRefused, BeginStop, PoolStopped, Unsubscribed

\* The plugin with its lists behaves as the two components do, each on its own
\* variables, with the accepted rules as the table of both.
THEOREM Composition == PluginSpec => Spec /\ ConfigSpec
<1>1. [PluginNext]_<<vars, configVars>> => [Next]_vars
  BY DEF PluginNext, ReadAndEnter, Next, Load, vars
<1>2. PluginSpec => Spec
  BY <1>1, PTL DEF PluginSpec, Spec
<1>3. [PluginNext]_<<vars, configVars>> => [ConfigNext]_configVars
  <2> SUFFICES ASSUME [PluginNext]_<<vars, configVars>>
               PROVE  [ConfigNext]_configVars
    OBVIOUS
  <2>1. CASE ReadAndEnter
    BY <2>1 DEF ReadAndEnter, ConfigNext
  <2>2. CASE /\ Next /\ ~ReadsRule
             /\ UNCHANGED <<symbolconfig, symbolIndex, entered>>
    BY <2>2, TableStep DEF configVars
  <2>3. CASE UNCHANGED <<vars, configVars>>
    BY <2>3
  <2>4. QED  BY <2>1, <2>2, <2>3 DEF PluginNext
<1>4. QED
  BY <1>2, <1>3, PTL DEF PluginSpec, ConfigSpec

\* While hooks run, deals are copied and accounts are moved, the lists and their
\* indexes that OnDealPerform searches mean what the table means.
THEOREM ListsAreSearchable == PluginSpec => [](IndexesAgree /\ SearchIsLookup)
  BY Composition, IndexesAgreeHolds, SearchIsLookupHolds, PTL
=============================================================================
