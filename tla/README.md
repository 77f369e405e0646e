# Verification of nostroforex-TPE

TLA+ models of the programs under `src/`, the TLC runs that check them on small
instances, and theorems about them that the TLA+ proof system checks for every
value of the constants. The code is the reference; each module's header says
which class it models, and `PROJECT.json` maps every definition to its lines.

## 1. Inventory

The repository holds independent programs around MetaTrader 5 (MT5). Third-party
code is vendored under `src/thirdparty`: the MT5 API, quickfix, asio, boost, the
`ctpl` thread pool. `websocketpp` is used but not in the tree.

| Program | State it keeps | Operations | What is hard |
|---|---|---|---|
| `PrimeXM_Price`: FIX 4.4 price acceptor (`Application`) | `sym_MDReqID` (symbol to request id), `sym_sub` (subscribed symbols), the session's logged-on flag | `onLogon`, `onLogout`, `onMessage(MarketDataRequest)` on the FIX thread; `OnTick` on the MT5 pump thread | two threads, two maps, no lock; requests that fail in the middle; logout between the find and the send of a tick |
| `PrimeXM_Price`: Windows service (`CService.h`) | global `serviceStatus`, `stopServiceEvent`, the acceptor | `ServiceMain`, `ServiceControlHandler` | two threads write and report one status; a stop at any point |
| `ctpl::thread_pool` (`thirdparty/clib`) | queue, `isDone`, condition variable, threads | `push`, `stop(true)`, the workers | lost wakeups, a push that overlaps the stop |
| `TradeCopierMT5`: settings (`Config.h`) | nested lists of symbol, group and login settings, with position indexes | `ParametersShow`, `insertSymbolConfig`, the searches | index and list must grow together; overlapping masks |
| `TradeCopierMT5`: plugin (`PluginInstance.cpp`) | settings, manager login, the pool's tasks with raw deal pointers | `Start`, `Stop`, `OnDealPerform`, `processDealRequest` | hooks run while settings load and while the pool stops; lifetime of the deal; copies of copies; lookups that fail |
| `HistoryManagerMT5`: web socket server | `sym_sub`, `hdl_1`, `connectionlist`, `m_actions` | `on_open`, `on_close`, `on_message`, `sendJSONTick` | one map and one handle for every connection; ticks between a close and its handler |
| `PrimeXM_Price`: settings and MT5 connection (`AppStart`, `Application::managerConnect`) | the values read, the manager object, its pump mode | `readConfigFile`, `managerConnect`, `serverReconnect` | an unknown key; retries by recursion, reconnect without pumping |
| quickfix session (`Session.cpp`, `FileStore.cpp`) | next numbers and sent messages in files, `m_queue`, `m_resendRange` | logon, send, receive, resend, disconnect | lost connections and dying processes at both ends, resets, gaps |
| `BalanceEventPluginMT5` | `m_actions`, `m_connections`, the flag of the loop | `on_open`, `on_close`, `on_message`, `process_messages`, `stop` | a list that lags behind the sockets, wakeups, a wait nobody ends |
| `JSONDatafeedMT5` | client to instrument map, which stays empty | `OnTick`, publisher | nothing registers a client |
| `FIXSpreadEngine`, `FIXEngine` | their quickfix session | one market data request, a snapshot handler that prints | a request sent by the clock, not by the logon |
| `OxamTest` (`MarketData`) | a multiset of prices, a map of orders, running sums | `insertOrderEntry`, `eraseOrderEntry` | the two containers drift apart |
| `NordeaTest` (`XMLProcessor`) | the list of files, a tree | one pass, evaluating nested expressions | width, rounding, division by zero, one bad file |

How they interact: MT5 calls `OnTick` and `OnDealPerform` on its own threads;
quickfix calls the `Application` on the session's thread and takes
`Session::m_mutex` for a send and around a disconnect; websocketpp calls its
handlers one at a time from the asio loop; `TradeCopierMT5` hands tasks to one
thread of the pool; the service control manager calls the control handler on the
dispatcher's thread; the FIX clients and the price acceptor are two ends of a
quickfix session, in two processes with a file store each.

What makes each component correct is in section 3, component by component; the
hazards, each at its line and with the properties that watch it, are in
`PROJECT.json`.

## 2. Plan

Done, in this order: the price feed with its abstract specification and proofs;
the thread pool and the abstract pool; the copier's settings and the plugin over
them, with proofs; the web socket server of `HistoryManagerMT5`, with a proof;
the service; the order book; the FIX session with its abstract channel; settings
and MT5 connection, composed into the service; the action queue of
`BalanceEventPluginMT5`, with proofs; the expression evaluator; the proof that
the pool implements the abstract pool; the proofs about the FIX session (it
implements its channel), the service, the copier's settings, and what a message
does in the web socket server; the proofs about the order book.

Next:

1. The venue's own numbers in `FixSession`, so that an off-session quote of
   `PriceFeed` can be followed into the client's next session; a crash inside a
   write of the store; several sessions that share one `appSessionID`.
2. The shutdown of the web socket server of `HistoryManagerMT5`.
3. `XMLProcessor` without RECURSIVE operators, so that the prover can reach it, and
   a proof that what it prints is the meaning, for expressions of bounded depth.

## 3. Modules

Modules with the code's names for state and operations; an operation of a thread
that another thread can interleave with is cut into one action per access to
shared state, and `pc`-like variables say where the thread is. Operators whose
comment begins with "Slip" are not part of a model: each is a definition of the
model with a plausible mistake in it, kept beside it to show that the
properties notice.

**`QuoteStream`** (abstract) / **`PriceFeed`** / **`MCPriceFeed`** /
**`PriceFeedProofs`**. `PriceFeed` models `Application.cpp`. `sym_MDReqID` is a
function with `NoId` for an absent key, `sym_sub` the set of its keys (the only
value stored is TRUE). The FIX thread handles a request symbol by symbol
(`Subscribe`, `SubscribeRejected`, `Unsubscribe`, `UnsubscribeRejected`,
`IgnoreSymbol`, then `SendReject` or `RequestDone`), runs `onLogon` and the erase
loop of `onLogout`, one entry per step (`OnLogoutErase`), which ends by its counter
`size`, taken before the first erase, and never looks at `end()`; the pump thread is `TickFind`, `TickRead`, `TickSend`. A
`TickSend` waits for a logout because both hold `Session::m_mutex`. A find whose
node is erased or reassigned before the read is a race (`racing`), and the read
may then return anything: an id or `Garbage`. `EligibilityChange` is the MT5
administrator, `Restart` the end of the process at any point. Two C++ races are
not given their worst outcome: a find that overlaps a rebalancing of the tree
either finds the entry or ends the process (`Restart`).

What the feed promises: off session both maps are empty, which the loop's counter
has to bring about (`OffSessionMapsEmpty`); at most one quote follows an unsubscribe or enters the
store off session (`AtMostOneLateQuote`); each symbol a request has passed is as
it asked, in both maps at once (`AcceptedPrefixTookEffect`); and the whole
implements `QuoteStream`, in which quotes of open streams are begun and delivered
one at a time (`ImplementsStream`, open streams = keys of `sym_MDReqID`).

**`RequestChannel`** (abstract) / **`FixSession`** / **`MCFixSession`** /
**`FixSessionProofs`**. A FIX client
(`FIXSpreadEngine`, `FIXEngine`) and its venue, quickfix at both ends, in the
direction client to venue. `store` is the client's `FileStore`: what each number
carried, a request or another message (`Admin`). `Request` is
`sendMarketDataRequest`, at any time: the message is numbered and stored, and
sent if the session is logged on. `SendLogon` resets the store first when
`toAdmin` adds ResetSeqNumFlag, as the settings shipped with `FIXSpreadEngine`
do. The venue's steps are `AcceptLogon`, `Receive` (too high: queue it and ask
for the rest, `AskAgain`; too low and no duplicate: `Refuse`; expected: `Take`)
and `NextQueued`; the client answers a ResendRequest in one step under `m_mutex`
(`AnswerResend`: requests again as possible duplicates, runs of other messages
as a gap fill). Connections end at either end, with what is unread lost; either
process ends at any point, the venue also between the callback of a request and
the write of the next expected number (`VenueDiesHandling`). What survives is
what the files hold. The venue's own messages are not numbered: an error there
ends the connection, which may end at any time anyway.

`RequestChannel` is what the application may rely on: requests arrive in the
order they were made, each once and none left out; a venue that died while it
handled one is given it again; a client that resets may lose requests, never
reorder them. `ImplementsChannel` maps the session to it.
`GapIsBeingFilled` is the reason nothing waits for ever while a connection lasts.

**`TaskPool`** (abstract) / **`ThreadPool`** / **`MCThreadPool`** /
**`ThreadPoolProofs`**. `ThreadPool` is `ctpl_stl.h` after one `resize`: pushes from
any number of threads (`PushQueue`, `PushNotify`), workers (`Pop`, `Run`,
`LockAndPop`, `Decide`) and `stop(true)` (`StopBegin`, `StopNotify`, `StopJoin`).
The queue's own mutex makes its operations atomic; the pool's mutex is explicit.
`TaskPool` promises order, each task once, and that a close returns when nothing
runs and nothing whose push returned before it is left; a later push may be
dropped.

**`CopyTable`** / **`CopierConfig`** / **`MCCopierConfig`** / **`CopierProofs`**.
`CopyTable` is the meaning of the settings: `table`, a sequence of accepted rules,
`Accepted` the test of `insertSymbolConfig`, `Settings` the rows that open a symbol
setting, `Lookup` the search in one. Symbol and group masks are keys of their own,
as the code keys them by their text; `SymbolsOf` and `GroupsOf` say what each
accepts, and two masks may accept the same. `Accepted` is given the group that
`UserGet` answered, which is the empty one when it failed.
`CopierConfig` is the representation: nested lists, and for the two outer ones an
index from mask to position, built one parameter at a time beside `table`, with
accounts in any groups (`grp`) when `UserGet` is asked about a parameter.
`SearchIsLookup` shows that no accepted mask is left out (`MasksAgree`), that the
list of settings is in the order of the rows that open them (`SettingsInOrder`) and
that a search in each finds what the table says (`SearchesAgree`); `IndexesAgree`
shows that `std::advance` lands on the right element.

**`TradeCopier`** / **`MCTradeCopier`** / **`CopierProofs`**. The plugin over the same
`table` and the pool of one worker. `Start` subscribes before it reads the
parameters, so `ClientDeal` is possible while `ReadRule` still runs; `StartDone` may
leave parameters unread, since `ParametersShow` returns at the first call that fails
and `Start` reports success all the same. `OnDealPerform` comes to one symbol setting
per step (`SkipSetting`, `VisitSetting`), pushes a task and
releases the deal object at the end of the block (`ReleaseDeal`), after which a
task reads what the memory holds (`ReadsAs`); an accepted request makes the
server perform another deal (`Copy`), for which the hook is called like for any
other. `Stop` is `BeginStop`, `PoolStopped`, `Unsubscribed`. External: the server
performs deals, moves accounts between groups (`MoveLogin`), answers requests and
`UserGet`, which may fail both for a rule's target and for a deal's account, and
`DealUnsubscribe` returns when no hook is running. An account that was moved, or that
a `UserGet` failed for, is `astray`. The login copies are requested in the name of
(`_managerLogin`) is not in the model: it is set and passed on, and no decision
depends on it. Section 5 says when it is uninitialised.

**`TickServer`** / **`MCTickServer`** / **`TickServerProofs`**. The asio thread reads a
message word by word (`ReadKeyword`, `ReadSymbol`), opens and closes connections
between messages; the pump thread is `TickFind`, `TickSend`. External:
websocketpp runs one handler at a time; a connection closes (`Closes`) before
`on_close` is called for it, and from then on `send()` throws, which ends the
process (`failed`). Ticks and handlers of other connections may come between the two.
`ThrowsOnlyAroundClose` says how long that can last, although `hdl_1` is never
reset: no tick is found once the `on_close` of `hdl_1` has run, and only the one tick
found before can still be sent to it (`overtaken`). `MessageTakesEffect` states the
meaning of a message without its flags: the last mention of a symbol under a
keyword decides, and after the first UNSUBSCRIBE every mention withdraws.

**`ActionQueue`** / **`MCActionQueue`** / **`ActionQueueProofs`**. The web socket server
of `BalanceEventPluginMT5`: the asio thread pushes an action under
`m_action_lock` (`on_open`, `on_message`, `on_close`) and notifies after it
(`Notify`); `process_messages` is `Check`, `Pop`, `Apply`; a wait may also end by
itself (`WakeSpuriously`). `stop()` is `Stop` and `StopServer`, and notifies
nobody. External: the threads that call `process_messages` and `stop()`, which
the plugin does not start, and websocketpp, which opens and closes a connection
once. `ViewCatchesUp` says what the lagging `m_connections` is worth: with the
actions pending it is the set of open connections. `OUT_MESSAGE` is never pushed
and left out.

**`AppSettings`** / **`ManagerLink`** / **`PriceService`** / **`MCPriceService`** /
**`PriceServiceProofs`**.
`PriceService` composes the start of the service with what it is built from: the
settings (`readConfigFile`, line by line: the value of an unknown key swallows the
key after it) and the connection to MT5 (`managerConnect`, its reduced second
attempt `serverReconnect`, and its call of itself, up to a full stack). Every
write and every report of `serviceStatus` is a step of its own; `CreateEvent` is
auto-reset. Three failures the code does not look at, or looks at only once, are steps
too: no control handler is registered (`RegisterFails`), no event is created and the
wait ends at once, no manager is created and the call goes on with NULL or with the
manager of the call before. The acceptor may throw at start or stop, or be NULL
when `FileLogRequired` is neither Y nor N; settings that quickfix or `stoi` refuse end
the process (`BuildFails`). External: the service control manager, which sends a
stop once, to a service that has reported that it is running and accepts it, and
the MT5 API, any call of which may fail.

**`MarketData`** / **`MCMarketData`** / **`MarketDataProofs`**. Both operations of the order book, over lines
in time order. Prices are whole numbers. `regular` remembers whether a line was
one the class does not cope with: a live id inserted again (its first price stays
in the multiset), a price two live orders share (`multiset::erase` takes both), an
erase of an unknown id (adds time to the divisor, from 0 when the book is
empty).

**`XMLProcessor`** / **`MCXMLProcessor`**. A file is a sequence of entries with an
operation, attributes and operands. `callType`, `operandValue`, `accumulate` and
`process` are the recursive evaluation, over ints of `Width` bits: `stoi` throws
for what is no number or does not fit, and only then the nested operations are
looked at; sums and products wrap, a division by zero ends the process.
`OpenFile`, `VisitEntry`, `FileDone` are the loops. `Meaning` is the reference:
sums, products and the integer part of a quotient, with no order of evaluation.

## 4. Runs

Every run checks deadlock except where the system may stop: pool and plugin end
stopped, parameters, messages, requests and lines run out, a service ends.

| Run | Instance | What it shows |
|---|---|---|
| `price_feed` | 2 symbols, 2 request ids, up to 2 symbols per request; 323324 states | the safety properties and the refinement above; streams keep flowing |
| `price_feed_streamed` | 1 symbol, 1 id | violated: a rejected subscribe leaves its symbol streaming |
| `fix_session` | 2 requests per process, 2 failures, reset or not; 660027 states | numbers never fall behind, gaps are filled, `RequestChannel` is implemented, what is stored arrives or is erased by a reset |
| `thread_pool` | 2 workers, 3 pushes, 1 stop; 22222 states | refinement of `TaskPool`; no lost wakeup (`QueuedIsRun`), `stop` returns |
| `copier_config` | 4 parameters over overlapping masks, groups that change in between; 74565 states | the nested lists mean what the table means, and are in its order |
| `trade_copier` | 2 accounts, 3 rules, 2 hooks, 1 client deal, 1 move or failed `UserGet`; 227354 states | no self copy for accounts not astray, copies queued before the pool stops are tried, `Stop` returns |
| `trade_copier_released` | 3 accounts, 1 rule | violated: the deal copied may be another one |
| `tick_server` | 3 connections, 2 symbols, 3 words; 245824 states | a send can throw only around a close; the meaning of a message |
| `action_queue` | 3 connections, 2 messages; 252656 states | no unknown connection, the list catches up, one action after `stop`, no lost wakeup |
| `price_service` | 6 settings files, 3 calls of `managerConnect`; 13612 states | settings as written, only an answering manager, reports go forward, a stop is answered, stopped serves nobody |
| `market_data` | 2 orders, 2 prices, 4 instants, 5 lines; 8776 states | highest price and weighted average are right on regular lines |
| `xml` | ints of 5 bits; 1 to 3 operands, one level of nesting; up to 3 files; 6122 states | what is printed is what the expression means; which files are answered |

Why the bounds are enough. A request needs two symbols to succeed on the first
and fail on the second, or to name one twice; two ids to overwrite an entry. Two
failures let a connection break while the gap of the one before is being filled,
and a restart meet a venue that has died; two requests and a heartbeat per
connection make messages before, inside and after a gap. Two workers and three
pushes let both workers wait, one be notified and the third push overtake both.
Four parameters fill two settings, two groups in one and two logins in a group.
One client deal already makes chains, since copies are deals; two slots let its
hook and a copy's overlap; one account that goes astray is enough to make a rule copy
it to itself. Three connections let one leave, one stay and one
come. The settings files have the unknown keys at the end, as shipped, before a
key that matters, and first, and a key twice. Five lines fill, share, empty and
refill a book. Five bits hold every quotient of small numbers, with one text that
does not fit and sums that wrap.

Fairness. Each thread that is inside an operation keeps running (weak fairness of
its steps): OS threads are scheduled. Nothing obliges a client to connect, ask or
log off, a caller to push or stop, or an administrator to act. The environment is
assumed to do this much: the ticks of a symbol that is in the map again and again
find it in the end (strong fairness of `TickFind` in `PriceFeed`); the MT5
server answers each request and lets `DealUnsubscribe` return; `onStart` of the
initiator reconnects every `ReconnectInterval` and quickfix sends a heartbeat when
it has been silent (weak fairness of `Connect` and `Heartbeat`), without which
the venue would never learn of a last request that was only stored. Failures are
finitely many: with endless failures nothing could be promised. The liveness
of the copier does not need the loading of the rules to end; it is stated for
accounts that do not go astray: a move or a failed `UserGet` can make a rule
copy an account to itself, and then the worker never runs out of tasks. The
liveness of `PriceService` excepts an event that was not created, an acceptor
that throws and a process that ends; that of `ActionQueue` a stop. `TickServer` has
no liveness property and assumes no fairness.

## 5. Disagreements found

The two runs marked violated are findings in `PROJECT.json`, with the comment or
document they contradict. The models show further behaviour that nothing in the
repository forbids firmly enough to be a finding:

- Price feed: the id that `OnTick` sends may be one nobody requested, read from a
  node that is being erased (`Garbage`). A Logon with ResetSeqNumFlag=Y inside a
  session clears `sym_sub` and leaves the streams open. A request of another
  subscription type is ignored without a reject (`IgnoreSymbol`).
- FIX clients: a request made before the Logon is erased from the store by the
  reset of that Logon, and nothing asks again after a reconnect.
- Pool: a push that overlaps `stop(true)` may be deleted without being run.
- Copier: an account moved to another group after its rule was accepted, or one that
  `UserGet` failed for, is copied to itself, again and again. `_managerLogin` has no
  initial value and is set only by a parameter of its name: copies are requested in
  the name of whatever it holds until that parameter is read, and always when there
  is none, since nothing looks whether there was. A deal performed between the
  pool's stop and `DealUnsubscribe` is pushed to a pool without a worker and is not
  copied. `findGroupConfig` reads through the end iterator for a new group mask.
- Web socket servers: a tick for the connection in `hdl_1` between its close and its
  `on_close`, or one found before `on_close`, ends the process (`failed`); closed connections stay in `connectionlist`; `stop()` does
  not wake `process_messages`, which then waits until an action comes; `BalanceEventPluginMT5` calls `run()` from `Start`,
  which therefore does not return.
- Service: a stop handled while the acceptor throws, or while a service without an
  event ends by itself, is reported after SERVICE_STOPPED; an unknown settings key loses every key after it;
  `managerConnect` leaves the managers of its failed calls connected, so ticks may
  be delivered twice, and a manager connected by `serverReconnect` pumps nothing.
- Order book: equal prices leave the multiset together.
- Expressions: a quotient is rounded after each divisor; one unreadable file, one
  comment or one element without attributes ends the program before the files
  that come earlier in the directory.

## 6. Proofs

`PriceFeedProofs`, for every set of symbols and ids and every request length, from
the one assumption that `NoId` and `Garbage` are told apart from ids and symbols.
The safety properties are not inductive alone. `FeedInv` adds which callbacks run
in which session state (`CallbackMatchesSession`: without it a logout could meet a
half-done request), that the counter of onLogout's loop is the number of keys left (`CounterIsRight`:
without it the loop could end early, or run past the last entry), that a tick in
flight has not been counted yet (`TickInFlightUncounted`: without it the one late quote could be the second), and
that the iterator points to an entry unless there was a race (`IteratorValid`).
One lemma per part takes every action (`TypeStep`, `SessionStep`, `CounterStep`,
`QuoteStep`, `PrefixStep`, `IteratorStep`); `FeedInvariant` combines them, and `TypeCorrect`,
`OffSession`, `LateQuotes`, `RequestsTakeEffect` follow. `CountingEntries` says what
an erase does to the number of keys. `Refinement` maps every
step to one of `QuoteStream` or a stutter (`StreamStep`), using `FeedInv`.

`ThreadPoolProofs`, for any workers, at least one, and any pushes.
`Refinement` needs `PoolInv`: every task is in one place, the queue or one worker
(`OnePlace`, `OnlyPushed`, `RunsItsTask`), so that taking and finishing are what
`TaskPool` says; and a worker that found the queue empty under the mutex holds it
until it waits or exits (`EmptyWhileHeld`), so that no push can return meanwhile
and an exiting worker leaves nothing that is owed (`LeavesNothingOwed`), which is
what `Close` asks. `Appended` and `Taken` say what a push and a pop do to a queue
of distinct tasks.

`ActionQueueProofs`, for any connections and number of messages. The argument
follows the actions pending, the one in hand and those queued: a push appends to
them, a pop leaves them as they are, an application removes the first.
`QueueInv` says that a connection is added at most once, while nobody knows it
(`AddedOnce`), and dropped at most once, after it was added
(`DroppedAfterAdded`); so the first action pending, when it drops, drops a
connection that is known (`NeverThrowsHolds`), and the actions pending make the
list what the sockets are (`ViewHolds`). `OneAfterStop` needs that the flag was
looked at after `stop()` only with `taken` at 0 (`StopIsSeen`).

`FixSessionProofs`, for any number of requests, of broken connections and of killed
processes at either end, with or without resets, from the one assumption that the
bounds are naturals. `SessionInv` has one part for each question a message raises:
- `WireReflectsStore`: what is on the wire or queued says what the store says, a gap
  fill of each number it covers, so that what the venue takes is what was stored.
- `ConnectionShape`: what there is in each state of a connection, and that a Logon
  comes first, with nothing but requests stored behind it.
- `NumbersGoForward`: a new message is numbered behind all that was sent, queued or
  taken. `NeverTooLowHolds` follows.
- `RequestsInOrder`: where the request handled last is in the store. It makes a step
  of the session one of `RequestChannel` (`ChannelStep`, `Refinement`).
- `OneResend`: in a connection either no gap has been seen, or one ResendRequest is
  on its way, or its answer is on the wire behind what was sent before it, and
  everything behind it is gapless (`NoGapSeen`, `AskedAgain`, `Answered`).
  `GapIsBeingFilledHolds` follows. This is the part that is hard to see from the
  code: without what `OverlapKnown` says of a gap fill that comes after messages
  it overlaps, a second gap could open.

The answer to a ResendRequest (`Resent`) is put together by a recursive function over
the store. That such a function is what its equations say (`RecursionExists`), and
that the messages it yields follow one another without a gap from the first number
asked for to the end of any store (`ChainMade`), is proved by least counterexamples.

`PriceServiceProofs`, for any settings files and any number of calls of
`managerConnect`; `FilesAssumption` says that a file is a sequence of lines with a
key and a value. `ServiceInv` relates the two threads, `serviceStatus`, what the
manager was told and the event: `OneStop` (the event is set once, by the one
stop, after STOP_PENDING was written and reported), `StateFits` (what
`serviceStatus` says where `ServiceMain` is, and that no report is ahead of it),
`BuiltOnAnswer` and `StoppedBehind`. `ReportsGoForwardHolds` is an action property
that follows from `StateFits` before and after the step. `SettingsAreReadHolds`
rests on `ReadIsMeant`: for a file of any length the loop of `readConfigFile`, in
which the value of an unknown key is taken for a key, computes `Setting`, which is
stated without a loop.

`CopierProofs` holds the proofs about both halves of the plugin, which meet in
`table`. The settings, for any rules, entered in any order; `ParametersAssumption`
says that the parameters are rules. `ConfigInv` describes the nested lists by the
table of accepted rules: the groups of a symbol setting are those of its rules
(`GroupsFit`), in the order of their first mention (`OrderFits`), and each answers
for a login as the first of its rules that has it (`LoginsFit`); the indexes lead to
them (`Indexed`, `SymbolsFit`). `RowsAppended`, `AnswerAppended`, `SearchAppended` say
what one more rule does to a table and to a list, `InsertFits` that
`insertSymbolConfig` does both alike, and `FitsSearch` that a setting which fits
answers as the table does. That the settings are in the order of the table is
inductive given `ConfigInv` (`OrderStep`): a rule opens a setting exactly if its
symbol mask is new (`SettingsAppended`), and the new setting is the last of the list.

The plugin, for every table of rules, account, group, hook and deal.
`NoSelfCopyUnlessAstray` needs `RulesHold`: every rule in the table would be
accepted again, unless its target went astray. `LookupFinds` says a search that finds a row
found one with the login in its mask and the group in its group mask, which
`Accepted` excludes for the target itself (`AcceptedIsNoSelfCopy`). Hence
`CopyInvariant` and `NoSelfCopyHolds`: no deal is copied to the account that made it
while that account stays in its group and is found by `UserGet`, whatever the
interleaving of loading, hooks, worker and stop.

The two together: in `PluginSpec` each rule that is read is entered in the lists too,
with the accounts in the groups they have then. `Composition` shows that it
implements both components on their own variables, so that the lists mean what the
table means while hooks run, deals are copied and accounts are moved
(`ListsAreSearchable`). It needs that nothing but `ReadRule` changes the table
(`TableStep`), and that `CopierConfig` lets the groups change between two parameters.

`TickServerProofs`, for any number of connections, symbols and words.
`ThrowsOnlyAroundClose` follows from the fact that the connection being read from is
`hdl_1` and open (`RequesterIsOpen`), so that a map that is not empty belongs to a
connection whose `on_close`, which empties it, is still to come. `MessageTakesEffect` is not about one step: it compares the
map with all words read so far. `EffectInv` adds that the two flags are the keywords
among those words (`FlagsAreSaid`); `WantedStep` says what one more word changes in
the meaning, `KeywordEffect` and `SymbolEffect` that the code changes the map
alike.

`MarketDataProofs`, for any orders, any finite set of prices and any number of lines.
`DataAssumption` says that prices are naturals, more than 0 and finitely many, and
that there is one. `BookInv` holds without a condition only for the types; what
makes the printed figures right is conditional on `regular`, and that it is
inductive shows that the irregular lines named in section 3 are all there are.
`ContainersAgree`: no two orders have the same price, and the multiset holds exactly
the prices of the orders, so that `multiset::erase`, which removes every equal price,
removes one. `SumsAreCurrent`: while there are orders the sums go up to the last
line, and the price added next is one of an order; an empty book adds nothing.
`Averages`: the divisor is the time there was an order, and the sum lies between the
lowest and the highest price times that time, which `Weighted` carries over one more
line. That a finite set of prices has a greatest and a least element (`Extremes`) is
well-foundedness of strict inclusion on finite sets. `HighestIfRegularHolds` and
`WeightedIsAverageHolds` follow.

Only model-checked. `PrintedIsMeant` of `XMLProcessor`, which is written with
RECURSIVE operators, out of the prover's reach; the other safety properties of the
runs are theorems. Liveness under fairness and ENABLED are out of its reach as well.
What a definition by recursion over data computes is proved only where a least
counterexample settles it, for the resend of `FixSession` and the settings of
`PriceService`.

## 7. Not modelled

The components with status `not_modelled` in `PROJECT.json`, with the reasons
there. Inside the modelled ones: the text of messages and logs, prices of ticks,
the venue's own message numbers, a crash inside a write of the file store,
malformed parameters (they end the process while it loads), torn reads of
container nodes other than the read in `OnTick`, the action queue of
`HistoryManagerMT5`'s web socket server, which nothing reads, `OUT_MESSAGE`, and
`printWeightedPx`.

Of the 3.1 million lines under `src/` all but about seven thousand are vendored:
boost, asio, sqlite, the MT5 API, and quickfix with its generated message
classes. The models cover the repository's own programs and, of the libraries,
what these programs depend on and what is hard in it: the thread pool, and the
session layer of quickfix. The share of all lines stays small for that reason.
