----------------------------- MODULE TradeCopier -----------------------------
(***************************************************************************)
(* TradeCopierMT5: the hook CPluginInstance::OnDealPerform, called by the  *)
(* trade server for every deal, the one worker of its thread pool, and the *)
(* start and stop of the plugin around them.  Start subscribes to deals    *)
(* before it reads the parameters, so the hook may run while the table     *)
(* grows; Stop closes the pool before it unsubscribes, so the hook may     *)
(* push to a pool that has no worker left.                                 *)
(*                                                                         *)
(* The settings are the CopyTable that CopierConfig shows them to be; the  *)
(* pool is the TaskPool that ThreadPool implements, with resize(1).  The   *)
(* server (deals, groups, UserGet, TradeRequest, unsubscribing) is         *)
(* external: it is modelled by how the plugin uses it.  The login the      *)
(* copies are requested in the name of (_managerLogin) is left out: it     *)
(* decides nothing here, but see the README on when it is uninitialised.   *)
(***************************************************************************)
EXTENDS CopyTable, FiniteSets

CONSTANTS InitialGroup,    \* group of each login when the plugin starts
          NoGroup,         \* the empty group name a failed UserGet leaves
          Slots,           \* deals the server may be performing at a time
          MaxClientDeals,  \* deals made by clients
          MaxAstray        \* logins that are moved or a UserGet fails for

ASSUME TableAssumption ==
    /\ InitialGroup \in [Logins -> Groups]
    /\ NoGroup \in Groups
    /\ MaxClientDeals \in Nat
    /\ MaxAstray \in Nat

VARIABLES
    phase,         \* of the plugin, see Phases
    unread,        \* parameters ParametersShow has still to come to
    groupOf,       \* group of each login, in the server
    astray,        \* ghost: logins moved, or that a UserGet failed for
    hook,          \* hook[s]: the deal performed in slot s, how far its
                   \* OnDealPerform is, and the rule just pushed for it
    queue,         \* tasks in _threadpool
    worker,        \* <<task>> the worker runs, or <<>>
    made,          \* client deals so far
    copies         \* ghost: pairs (deal meant, deal copied) not alike

\* table stands for _symbolconfig.
vars == <<phase, unread, table, groupOf, astray, hook, queue,
          worker, made, copies>>

\* "draining": Stop is in _threadpool.stop(true).  "drained": it has returned
\* and the hook is still subscribed.
Phases == {"loading", "running", "draining", "drained", "stopped"}

\* While there is a worker.
PoolRuns == {"loading", "running", "draining"}

DealType == [login : Logins, symbol : Symbols]

\* A hook is at table row pos; pushed is set from the push to the end of the
\* block, where the unique_ptr _deal releases the deal object.
HookType == [deal : DealType, pos : Nat, pushed : BOOLEAN]

NoHook == <<>>

TaskType == [slot : Slots, live : BOOLEAN, deal : DealType,
             target : Logins]

TypeOK ==
    /\ phase \in Phases
    /\ unread \subseteq Parameters
    /\ table \in Seq(RuleType)
    /\ groupOf \in [Logins -> Groups]
    /\ astray \subseteq Logins
    /\ hook \in [Slots -> HookType \cup {NoHook}]
    /\ queue \in Seq(TaskType)
    /\ worker \in {<<>>} \cup {<<t>> : t \in TaskType}
    /\ made \in 0..MaxClientDeals
    /\ copies \subseteq DealType \X DealType

Init ==
    /\ phase = "loading"
    /\ unread = Parameters
    /\ table = <<>>
    /\ groupOf = InitialGroup
    /\ astray = {}
    /\ hook = [s \in Slots |-> NoHook]
    /\ queue = <<>>
    /\ worker = <<>>
    /\ made = 0
    /\ copies = {}

-----------------------------------------------------------------------------
(* The trade server. *)

\* A client's deal is performed, the hook is called.
ClientDeal(s, d) ==
    /\ phase # "stopped"
    /\ made < MaxClientDeals
    /\ made' = made + 1
    /\ hook[s] = NoHook
    /\ hook' = [hook EXCEPT ![s] = [deal |-> d, pos |-> 0, pushed |-> FALSE]]
    /\ UNCHANGED <<phase, unread, table, groupOf, astray, queue,
                   worker, copies>>

MoveLogin(l, g) ==
    /\ Cardinality(astray) < MaxAstray
    /\ g # groupOf[l]
    /\ groupOf' = [groupOf EXCEPT ![l] = g]
    /\ astray' = astray \cup {l}
    /\ UNCHANGED <<phase, unread, table, hook, queue, worker,
                   made, copies>>

\* UserGet answers the group of l, or fails, which is only logged: the user
\* object stays new and its group is the empty one.
UserGet(l, g) ==
    \/ g = groupOf[l] /\ UNCHANGED astray
    \/ /\ g = NoGroup
       /\ Cardinality(astray) < MaxAstray
       /\ astray' = astray \cup {l}

-----------------------------------------------------------------------------
(* ParametersShow, called by Start; the parameters come in any order. *)

ReadRule(p, g) ==
    /\ phase = "loading"
    /\ p \in unread
    /\ UserGet(p.target, g)
    /\ unread' = unread \ {p}
    /\ table' = IF Accepted(p, g) THEN Append(table, p) ELSE table
    /\ UNCHANGED <<phase, groupOf, hook, queue, worker, made,
                   copies>>

\* ParametersShow returns behind the last parameter or before, at a failing
\* PluginCreate, PluginCurrent, PluginParamCreate or ParameterNext, and Start
\* says MT_RET_OK.
StartDone ==
    /\ phase = "loading"
    /\ phase' = "running"
    /\ unread' = {}
    /\ UNCHANGED <<table, groupOf, astray, hook, queue, worker,
                   made, copies>>

-----------------------------------------------------------------------------
(* OnDealPerform: one step for each symbol setting. *)

SettingsAfter(i) == {j \in Settings(table) : j > i}

\* The row that opens the setting the hook in slot s comes to.
Setting(s) == First(SettingsAfter(hook[s].pos))

AtSetting(s) ==
    /\ hook[s] # NoHook
    /\ ~hook[s].pushed
    /\ SettingsAfter(hook[s].pos) # {}

\* Whether the mask of that setting accepts the symbol of the deal.
SymbolFits(s) ==
    hook[s].deal.symbol \in SymbolsOf[table[Setting(s)].symbolmask]

\* The row searchGroupConfig returns there when UserGet has answered g.
RuleFor(s, g) ==
    Lookup(table, table[Setting(s)].symbolmask, g, hook[s].deal.login)

TaskFor(s, row) ==
    [slot |-> s, live |-> TRUE, deal |-> hook[s].deal,
     target |-> table[row].target]

SkipSetting(s) ==
    /\ AtSetting(s)
    /\ ~SymbolFits(s)
    /\ hook' = [hook EXCEPT ![s].pos = Setting(s)]
    /\ UNCHANGED <<phase, unread, table, groupOf, astray, queue,
                   worker, made, copies>>

\* Slip: "found" is not looked at; a search that finds nothing returns 0.
VisitSettingUnchecked(s) ==
    /\ AtSetting(s)
    /\ SymbolFits(s)
    /\ \E g \in Groups :
          LET row == RuleFor(s, g) IN
          /\ UserGet(hook[s].deal.login, g)
          /\ hook' = [hook EXCEPT ![s].pos = Setting(s), ![s].pushed = TRUE]
          /\ queue' = Append(queue, IF row = 0
                                    THEN [TaskFor(s, Setting(s)) EXCEPT !.target = 0]
                                    ELSE TaskFor(s, row))
    /\ UNCHANGED <<phase, unread, table, groupOf, worker, made,
                   copies>>

VisitSetting(s) ==
    /\ AtSetting(s)
    /\ SymbolFits(s)
    /\ \E g \in Groups :
          LET row == RuleFor(s, g) IN
          /\ UserGet(hook[s].deal.login, g)
          /\ hook' = [hook EXCEPT ![s].pos = Setting(s),
                                  ![s].pushed = (row # 0)]
          /\ queue' = IF row = 0 THEN queue ELSE Append(queue, TaskFor(s, row))
    /\ UNCHANGED <<phase, unread, table, groupOf, worker, made,
                   copies>>

\* The deal object a task points to is gone.
Dead(t, s) == IF t.slot = s THEN [t EXCEPT !.live = FALSE] ELSE t

\* End of the block: ~unique_ptr releases the deal object, run or not.
ReleaseDeal(s) ==
    /\ hook[s] # NoHook
    /\ hook[s].pushed
    /\ hook' = [hook EXCEPT ![s].pushed = FALSE]
    /\ queue' = [i \in DOMAIN queue |-> Dead(queue[i], s)]
    /\ worker' = [i \in DOMAIN worker |-> Dead(worker[i], s)]
    /\ UNCHANGED <<phase, unread, table, groupOf, astray, made,
                   copies>>

HookReturn(s) ==
    /\ hook[s] # NoHook
    /\ ~hook[s].pushed
    /\ SettingsAfter(hook[s].pos) = {}
    /\ hook' = [hook EXCEPT ![s] = NoHook]
    /\ UNCHANGED <<phase, unread, table, groupOf, astray, queue,
                   worker, made, copies>>

-----------------------------------------------------------------------------
(* The worker: processDealRequest. *)

TakeTask ==
    /\ phase \in PoolRuns
    /\ worker = <<>>
    /\ queue # <<>>
    /\ worker' = <<Head(queue)>>
    /\ queue' = Tail(queue)
    /\ UNCHANGED <<phase, unread, table, groupOf, astray, hook,
                   made, copies>>

\* What the deal object of t reads as.  Once released its memory may still
\* hold the deal or hold another.
ReadsAs(t) == IF t.live THEN {t.deal.symbol} ELSE Symbols

\* TradeRequest is accepted: the server performs a deal of the target, with
\* reason DEALER, which the hook is called for like for any other.
Copy(s, symbol) ==
    /\ worker # <<>>
    /\ hook[s] = NoHook
    /\ LET t == worker[1]
           d == [login |-> t.target, symbol |-> symbol]
       IN  /\ symbol \in ReadsAs(t)
           /\ hook' = [hook EXCEPT ![s] = [deal |-> d, pos |-> 0,
                                           pushed |-> FALSE]]
           /\ copies' = IF symbol = t.deal.symbol THEN copies
                        ELSE copies \cup {<<t.deal, d>>}
    /\ worker' = <<>>
    /\ UNCHANGED <<phase, unread, table, groupOf, astray, queue,
                   made>>

\* TradeRequest is refused: logged, and the worker goes on.
CopyRefused ==
    /\ worker # <<>>
    /\ worker' = <<>>
    /\ UNCHANGED <<phase, unread, table, groupOf, astray, hook,
                   queue, made, copies>>

-----------------------------------------------------------------------------
(* Stop. *)

BeginStop ==
    /\ phase = "running"
    /\ phase' = "draining"
    /\ UNCHANGED <<unread, table, groupOf, astray, hook, queue,
                   worker, made, copies>>

\* Slip: stop(), which drops the queue, instead of stop(true).
PoolStoppedAtOnce ==
    /\ phase = "draining"
    /\ worker = <<>>
    /\ phase' = "drained"
    /\ UNCHANGED <<unread, table, groupOf, astray, hook, queue,
                   worker, made, copies>>

\* stop(true) returns: the worker found the queue empty and was joined.
PoolStopped ==
    /\ phase = "draining"
    /\ worker = <<>>
    /\ queue = <<>>
    /\ phase' = "drained"
    /\ UNCHANGED <<unread, table, groupOf, astray, hook, queue,
                   worker, made, copies>>

\* DealUnsubscribe returns once no hook is running; m_api = NULL.
Unsubscribed ==
    /\ phase = "drained"
    /\ \A s \in Slots : hook[s] = NoHook
    /\ phase' = "stopped"
    /\ UNCHANGED <<unread, table, groupOf, astray, hook, queue,
                   worker, made, copies>>

-----------------------------------------------------------------------------
Hook(s) == SkipSetting(s) \/ VisitSetting(s) \/ ReleaseDeal(s) \/ HookReturn(s)

CopyOrNot == CopyRefused \/ \E s \in Slots, y \in Symbols : Copy(s, y)

Load ==
    \/ StartDone
    \/ \E p \in Parameters, g \in Groups : ReadRule(p, g)

Next ==
    \/ \E s \in Slots, d \in DealType : ClientDeal(s, d)
    \/ \E l \in Logins, g \in Groups : MoveLogin(l, g)
    \/ Load
    \/ \E s \in Slots : Hook(s)
    \/ TakeTask
    \/ CopyOrNot
    \/ BeginStop
    \/ PoolStopped
    \/ Unsubscribed

Spec == Init /\ [][Next]_vars

\* The hooks, the worker and Stop get to run, the server answers each request,
\* and unsubscribing waits for the hooks only.
FairSpec ==
    /\ Spec
    /\ \A s \in Slots : WF_vars(Hook(s))
    /\ WF_vars(TakeTask)
    /\ WF_vars(CopyOrNot)
    /\ WF_vars(PoolStopped)
    /\ WF_vars(Unsubscribed)

-----------------------------------------------------------------------------
\* Every task there is, queued or being run.
Pending == {queue[i] : i \in DOMAIN queue} \cup {worker[i] : i \in DOMAIN worker}

\* "loginmask and login should not same" (insertSymbolConfig): whatever deals
\* come while the rules are loaded, a deal is never copied to the account that
\* made it, as long as that account stays in the group it had when the rule was
\* checked and no UserGet for it fails; once astray, its deals match the rule
\* and are copied to itself.
NoSelfCopyUnlessAstray ==
    \A t \in Pending : t.target = t.deal.login => t.target \in astray

\* The copy of a deal is in the symbol of the deal ("Trade Copier").
CopyMatchesDeal == copies = {}

\* A copy that was queued before the pool stopped is tried, accepted or refused,
\* the plugin's stop included: copies come to an end although each is a deal
\* that may be copied again, when no rules copy two accounts to each other and
\* no account goes astray.
CopiesAreTried ==
    queue # <<>> /\ phase \in PoolRuns ~> queue = <<>> \/ astray # {}

\* Stop returns: the queue the pool drains before is not refilled for ever, and
\* the hooks that DealUnsubscribe waits for end.
StopReturns == phase = "draining" ~> phase = "stopped" \/ astray # {}
=============================================================================
