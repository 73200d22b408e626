# A TLA+ model of the TradingView / Flow-Bot to NinjaTrader and Sierra Chart bridge

The repository takes trading commands by HTTP, filters them, and hands them to
NinjaTrader (over a local TCP line) or to Sierra Chart (over the DTC protocol).
Orders are money, so the questions are: can a command be traded twice, can a
slot that allows one order per session be lost or used twice, does the answer
tell the truth about the order, and can any part get stuck.  This directory
models the parts those questions depend on, checks them with TLC and proves the
central answers with TLAPS.

## 1. The system

```
 TradingView / curl --POST /webhook--+                     +--TCP line--> NinjaTrader add-on
 Flow Bot ----------POST /signal-----+--> receiver (Python)|              WebhookTradeListener.cs
 browser -----GET /status, POST /reset                     +--DTC-------> Sierra Chart
                                          |--HTTP--> options receiver, Discord
          tray application (starts, stops, restarts the receiver)
```

| Component | State | Operations | Talks to |
|---|---|---|---|
| HTTP handlers and dispatch, `main.py` | module globals `config`, `dedupe`, `entry_cooldown`, `flow_engine` | `/webhook`, `/signal`, `/status`, `/reset`, `/health` | all below |
| Duplicate cache, `config.py` | `_seen`, `_last_prune`, lock | `try_accept`, prune | called by dispatch |
| Entry cooldown, `config.py` | `_last_entry`, lock | `try_accept` | called by dispatch |
| Flow rule engine, `flow_rules.py` | `FlowState`: date, session, colors seen, INST at the open, four taken flags, warning flags; lock | `evaluate`, `release_reservation`, `reset_current_session`, `status` | called by `/signal`, `/status`, `/reset` |
| Validation and forwarding, `services.py` | none | `normalize_and_validate`, `forward_command` | NinjaTrader, Sierra Chart |
| DTC client, `sierra_dtc.py` | a session per order | connect, negotiate, log on, submit, await, log off | Sierra Chart |
| Options forwarder, `options_forwarder.py` | none | build and post an envelope | options receiver |
| Tray application, `tray_app.py` | status, server and its thread, lock | start, restart, quit | replaces `main`'s globals |
| Configuration, `config.py`, `setup_wizard.py`, `paths.py` | `config.json` | load, top up with defaults | installer writes it too |
| NinjaTrader listener, `WebhookTradeListener.cs` | `_running`, `_liveTradingEnabled`, panel fields, accept thread, a thread per client | Start, Stop, check box, accept, process a line | NinjaTrader account |
| Listener's duplicate cache, `WebhookDuplicateCache.cs` | `_seen`, `_window`, lock | `TryAccept`, `SetWindowSeconds` | called by client threads |
| Listener's JSON reader, `WebhookTradeCommand.cs` | none | `TryParse` | called by client threads |
| Installer, archived .NET receiver, samples, scripts | - | - | - |

What is hard:

* **Concurrency.** `/webhook` and `/signal` are coroutines that await only the
  body, so they are serial; `/status` and `/reset` are plain functions on pool
  threads and interleave with them.  The listener has a UI thread, an accept
  thread and a thread per connection.  The tray has its own thread and one per
  server, and an old server may outlive the restart that replaced it.
* **Stale reads.** The receiver's caches read the clock before the lock; the
  listener's reads it three times inside.  The listener decides on a position
  that does not know the orders on their way.
* **Failure.** Any forward may fail before, during or after the order reached
  its target.  DTC messages come late, grouped, cut, or about another order, and
  the connection may be closed or reset at any point.
* **Memory only.** Ids, cooldowns and slots are lost with the process
  (`FLOW_TRADING.md:57` says so of the flow state).

What makes each part correct: an id is accepted once per window and refused only
as a duplicate (both caches); same-side entries are a cooldown apart and a
reverse passes; one order per day, session and direction, and no slot lost to an
order that failed; a slot agrees with the answer the client got; options only
follow a futures order; a DTC session ends, and with an honest result; a command
leads to one order at the listener and every thread gets on; an id leads to one
order as long as either process remembers it, and the account follows the
commands; what the receiver lets pass the add-on accepts; a restart leaves no
server behind and no handler with another's globals; no choice in the
configuration is lost to a default.

## 2. Modules

| Module | Models | Composes or implements |
|---|---|---|
| `CommandDedupe` | abstract: an id is accepted at most once per window | |
| `DedupeCache` | `DuplicateCommandCache` of `config.py` | implements `CommandDedupe` |
| `EntryCooldown` | `EntryCooldown` of `config.py` | |
| `FlowReservations` | abstract: one live order per session and direction ("Rule 11") | |
| `FlowEngine` | `FlowRuleEngine`, with the handlers of `/signal`, `/status`, `/reset` around it | implements `FlowReservations` |
| `Receiver` | dispatch, forwarding and the handlers over all of the above | caches and engine by what their own modules establish |
| `SierraDtc` | one `submit_market` session with a hostile but rule-abiding server | |
| `ListenerDedupe` | `WebhookDuplicateCache` of the add-on | implements `CommandDedupe` |
| `TradeListener` | the add-on's threads, its order logic and the account | |
| `Bridge` | receiver and add-on together, each reduced to what its own module shows of it | composes `Receiver` and `TradeListener` |
| `TrayApp` | the tray thread, the server threads and the handlers in them | |
| `CommandValidation` | `normalize_and_validate`, trading hours, symbol maps, the add-on's reading of a line: operators | |
| `SignalParsing` | `parse_flow_signal`, the flow order, the options envelope: operators | extends `CommandValidation` |
| `CommandPath` | one body on its way through both of the above | composes them |
| `ConfigFile` | `config.json` between starts, edits and the setup program | |
| `...Proofs` | theorems about the module they are named after; `TradeListenerProofs` has those of `ListenerDedupe` too, `TrayAppProofs` those of `ConfigFile`, `EntryCooldownProofs` those of `CommandPath` | extend them |
| `MC...` | values for TLC | extend their module |

How state and actions correspond to the code:

* **DedupeCache, EntryCooldown.** `call[t]` is a thread that has executed
  `now = time.time()` and waits for the lock (`ReadClock`); `Locked` is the whole
  `with self._lock` block, prune included.  `accepts` and `entries` are histories.
  A missing dictionary key is `Absent` (-1).  Actions that are neither BUY nor
  SELL, and all actions when the cooldown is off, return before the state and are
  no steps of `EntryCooldown`.
* **FlowEngine.** `state` is `self._state`, one action per entry point, each being
  one critical section.  `_check_resets` is `Current`.  The rules are a sequence
  of names (`Rules`) in the order of the code, with `ObjectsTo` giving each rule's
  condition, and the verdict is the first that objects.  The dispatch is open while
  `handler.at = "dispatching"`; `live` is the history of orders sent and not
  known to have failed.
* **Receiver.** One `handler` at a time (`Read` to `Reply`), with the steps where
  something else can happen between: gates, NinjaTrader, Sierra Chart, settle,
  options, reply.  `Gates` is `_dispatch_command` down to the forward, whose state no pool thread
  touches.  `NewRound` (`/reset`, or a session change) and `Restart` (a crash, or
  a restart with another configuration) come at any point.  `returned` and
  `failed` are what `forward_command` knows, `reached` what really happened.
* **SierraDtc.** `inbox` is what is on the wire; `Receive` takes a chunk that holds
  any number of messages and may end inside one, returns the first, and forgets
  the rest of the chunk, as `_recv_json_message` forgets its buffer; what remains of
  a cut message is `"garbage"`.  Results: `"acked"` and `"assumed"` (returned on an update or
  without one), `"rejected"` and `"dtc error"` (`SierraDtcError`), and the other exceptions by
  class.  An update of this order comes with its `ClientOrderID` or without one; `strangers`
  remembers that one of *another* order came without, which the client cannot tell apart.
* **ListenerDedupe.** `Enter`, `Check`, `Record` are the three looks at the clock
  inside the lock; `SetWindowSeconds` needs no lock in the code and none here.
* **TradeListener.** `thread[c]` is where the thread of a connection is, one
  step per look at shared state: `_running`, the panel (which needs a free UI
  thread), the cache, the live box, the position, the submission.
  `working` are submitted orders that have not filled; only fills move `position`,
  which is what `account.Positions` shows.  The close of `account.Flatten` is such an order
  too, so that an exit may be decided before it fills; its cancellations take effect at once.
* **Bridge.** `msg[c]` is a command that passed the receiver's gates, from the
  wire to its fill; `recent`, `cooling` and `seen` are the two caches and the
  cooldown, `listening` the add-on's Start with its live box.  Messages overtake
  each other, are lost with the backlog or dropped at the add-on; either
  process restarts and forgets.  `expected` is the position the accepted
  commands ask for, taken one after the other.  One thing is assumed of time: a
  command handed over is filled or dropped within a window and a cooldown (300 s each
  by default), so `Idle` guards what forgets an id.  `Flatten` closes by an order as in
  `TradeListener`.
* **TrayApp.** `tray` walks through `_start_server`, `_stop_server` and the
  callbacks; `server[s]` is a server thread in uvicorn's `run` and after it.
  `globals` is the server for which `main.config`, `dedupe`, `entry_cooldown` and
  `flow_engine` were made, `busy[s]` the globals with which the handler on the event
  loop of `s` began, and `overran` remembers that a join of five seconds timed out.
  `globals` is 0 after a `_start_server` that failed with some of them replaced.  The
  `_stop_server_locked` in `_start_server` finds no server, for `Restart` has stopped it
  (`TrayForgets`), and is no step of its own; the mutant `RestartUnstopped` therefore stands for
  the loss of both calls.  `BindFails` ends a thread without a word, because uvicorn answers a failed bind
  with `sys.exit` and `SystemExit` passes `except Exception`.
* **CommandValidation, SignalParsing, CommandPath.** A text of a command is `""` (missing,
  null or empty: all that Python takes for false), white space (`Blank`) or one of a few
  values; a number is what JSON can hold and what `int()` makes of it, infinity and
  text included.  In a signal a key that is not there (`Missing`) differs from one that is blank
  or null, because `setdefault` merges by keys: a blank one at the top hides the signal's.
  Prices say what they are (no key, null, a text, a number), so that a price of 0 is one.
  `Forward` has Sierra Chart's own refusals (quantity, account, symbol), and the add-on's
  acceptance asks its panel for an instrument; the panel's quantity is never below one.  `CommandPath` takes a body through `Validate`, `Forward` and
  `Options`; every outcome that depends on more than the body (duplicates, rules,
  failures) is in `Receiver`.
* **ConfigFile.** The file is a record of the settings it has, `Missing` or `Torn`.
  Both programs rewrite it in place, so each write is a truncation and an end, with
  crashes between; `chosen` is what a person has put into it, and `raced` says
  that two of the writers overlapped.  Five settings stand for all: one whose two
  defaults differ, two with the key `enabled`, one the setup program writes, one that is
  translated.  `env` is whether the process has an `OPTIONS_WEBHOOK_URL`, which goes over the
  file's URL, blank or not, and may differ from one process to the next; `OPTIONS_API_KEY` does
  the same to a key that switches nothing, and is left out.  A setup that is given an options
  URL switches the trading hours on with it: `SetupFinishes` takes that switch out of `chosen`,
  so that the properties are silent about this one side effect, which is listed below.

Definitions introduced by a comment "Mutant of ..." (`ExpiredEarly`,
`RulesSlotForgotten`, ...) are plausible mistakes.  No specification uses them;
putting one in the place of its original makes a property fail, which shows that
the property can fail.

## 3. What TLC checks

| Run | Question | Bounds |
|---|---|---|
| `bridge` | Through restarts of either side: one order per id while one of the two remembers it? With overtaking and lost commands: when does the account follow them, and what keeps a second entry away? | 3 commands, 2 ids |
| `receiver` | Ids, slots, options and answers agree under failures, resets and restarts | 3 requests, 1 chosen id and fresh ones, 5 configurations |
| `flow_engine` | One order per slot; no slot held by nothing; a streak of yellow warned of once and not again; sizes | 9 signals, 5 minutes a day, 2 days, 2 orders |
| `trade_listener` | One order per id; exact results without overlap; nobody waits for ever | 2 connections, 2 ids, 3 clicks, with and without brackets |
| `sierra_dtc` | Does the session end, and with an honest result, as long as every anonymous update is its own? | waits of 3 and 2 ticks, an inbox with room for 2 messages, chatter without an end |
| `dedupe_cache` | Is an id accepted once per window, and refused only as a duplicate, with stale clocks and somebody else's prune? `AtMostOncePerWindow` is the abstract specification. | 2 threads, 2 ids, window 2 s, prune every 2 s, 5 ticks |
| `listener_dedupe` | The same, with the window changed under the lock's holder | 2 threads, 2 ids, windows 1 and 3, 5 ticks |
| `entry_cooldown` | Are same-side entries a cooldown apart, and does a reverse always pass? | 2 threads, cooldown 2 s, 5 ticks, 4 entries |
| `tray_app` | No server is left behind, ports are given back, handlers end with the globals they began with | 3 servers, 2 ports |
| `command_path` | Do receiver, add-on, Sierra Chart and options receiver understand the same command? | every field through its cases, 5-unit days, ints up to 8 |
| `config_file` | Are choices kept, and does no start run on a torn file or on another process's URL? | 4 old files, 3 edits or setups, 3 environments |
| `sierra_failure` | The counterexample below | as `sierra_dtc` |

Why the bounds suffice.  The caches compare two times: two threads, a window of
two ticks and a clock that outlives two windows reach every order of read, lock,
prune and expiry, and the proofs below remove the bounds altogether.  `MaxEntries`
is a state constraint, since alternating sides fill the history without the clock
moving; four entries hold two reversals.  The signals of `MCFlowEngine` reach
every rule but Rule 16, its minutes lie in every session, in the mute window
and after the last entry hour; two orders are enough for a release to hit the
wrong one.  Three requests are a first attempt, a retry, and one after it; a
configuration for each set of targets, and the switches off in turn.  Room for two
messages puts an update in front of, behind, or cut in two by another; the server fills the
inbox again whenever there is room, so that messages about other things never end.
Two connections are what duplicates and overlaps take, three clicks are Start, the
live box and Stop.  Three commands in `Bridge` are an entry, what overtakes it, and
what meets the result (four were tried as well: a million states and no
difference).  Three servers are two restarts, the second while the first server
drains.  `CommandPath` puts each field through its cases alone or with the field
it is checked with; a day of five units has every order of start, end and now,
and an `IntMax` of 8 lies below a number that is still a small one for the
receiver.  `OneAtATime`, its state constraint, leaves out the product of all bodies and all
hours, which do not meet in the code.  Three edits of `ConfigFile` are a choice, a
setup and a second one on top.  Symmetry is used for threads, ids and commands where no
liveness is checked.

`TradeListener` is checked without deadlock detection: once the connections are
used up and the clicks are spent, a listener at rest has nothing to do.  That
nobody waits for somebody who does not move is `EveryCommandEnds` instead.
`SierraDtc` and `TrayApp` end in states that stutter (`Finished`, `Gone`).

Fairness.  `SierraDtc`: the client runs and time passes (both weak); the server
owes nothing, and `SessionEnds` holds all the same because every wait has a
deadline.  `TradeListener`: `Join(1000)` returns, the accept loop ends after its
socket is closed, an accepted connection gets its thread (weak); a client thread
needs a free UI thread, which it gets again and again rather than for good, and the
dispatcher serves its callers in turn (strong).  `TrayApp`: the tray thread and
the server threads run and handlers end, for every socket in them has a timeout
(weak); an event loop looks at `should_exit` between two requests (strong).
Draining has no fairness: uvicorn waits for open connections as long as their
clients like.  The safety-only modules have none.

One run ends in a counterexample.  `sierra_failure`: `main.py:92` answers an `OSError`
of the dispatch with 502 "Failed to reach trading target"; a connection that is reset
after the submission raises one that `_await_order_ack` does not catch, so the
order is working, the client is told that it failed, and a flow slot is given back.

Other behaviour met while modelling, which no run asserts.

* *Sierra Chart.* An update of another order that bears no `ClientOrderID` passes the
  check of `sierra_dtc.py:278` and is taken for the answer: "Order rejected" for an order at
  work, or an acknowledgement of one that was refused.  `UpdatesAreOurs` says that this does
  not happen, and TLC refutes it on the instance of `sierra_dtc`; `DtcErrorMeansNoOrder` and
  `AckMeansWorking` hold until such an update is sent (`strangers`), and an update without an id
  that is about this very order does not disturb them.  An `ORDER_UPDATE` behind another message of a chunk is thrown
  away, so a rejected order may be reported as submitted; an order only assumed to be
  submitted takes its options with it.  With both targets, a malformed DTC message
  after NinjaTrader took the order ends in a 500 instead of `partial`.  When the
  alert brings an `ntSymbol` of its own, that is the one compared with the allowed
  symbols, and Sierra Chart trades what the other one maps to.
* *Flow engine.* PM-3 looks at the INST value of the day's open, so "Wait for INST
  to pull back" does not help for the rest of the day.  Rule 16 never decides: an
  earlier rule always objects to what it would.  An exception nobody catches leaves
  the slot taken for the session.
* *Requests.* An id of white space is present for the receiver and missing for
  the add-on, which drops the command after "accepted".  Ticks beyond an `int`
  read as 0 in the add-on: an entry without its bracket.  A quantity of infinity is an
  `OverflowError` and a 500.  A signal without an id gets an invented one, so a
  repetition is no duplicate.  A key at the top level or in the context of a full
  payload, a blank one too, hides the signal's and may give the order another direction than
  the envelope that is passed on says: with a blank `side` at the top, `side` "long" and
  `color` "red" in the signal, the receiver sells and posts a long envelope.
* *Options.* `OPTIONS_TRADING.md` says that forwarding errors are in the
  response; a URL without a scheme or an answer that breaks off raises something
  else, and the answer is a 500 after a live order.  A URL switches options on
  whatever `options.enabled` says, the environment's included.
* *Add-on.* The position does not show orders on their way, so two BUYs on two client threads
  both look at a flat account and stack, which the check under the comment "Prevent stacking"
  (`WebhookTradeListener.cs:929`) does not see; in `Bridge` the receiver's cooldown keeps them
  apart (`CooldownPreventsStacking`).  A reverse that ended in a 502 has cleared the other side's cooldown, which
  is what keeps entries apart.  An exit
  sized before another fill, a FLATTEN's included, may open a position on the other side, and
  commands may overtake each other or be lost with the backlog; `OneAtATimeIsExact`,
  `AccountFollowsCommands` and `CooldownPreventsStacking` say from which of these on they
  promise nothing (`overlapped`, `dropped`, `crossed`).  A command past
  its look at the live box is submitted although the box has been unticked; an
  exit leaves the entry's bracket working.
* *Tray.* uvicorn leaves its thread by `SystemExit` when it cannot bind, so the tray shows
  "Listening" with nobody listening.  An old server that drains for longer than
  five seconds replaces its successor's "Listening" by "Stopped", and its handler
  may release a slot of the successor's engine (`overran`).
* *Configuration.* A torn file stays unusable until somebody repairs it: every start fails,
  on the safe side.  Writers that overlap may lose a choice (`raced`).  The setup program replaces every `"enabled": false` of the
  file when it is given an options URL, the trading hours' too.

## 4. What is proved

Every safety property and every refinement that a passing run checks is also a
theorem.  The proofs hold for every value of the constants, under the `ASSUME`s in the
modules, which say no more than that numbers are numbers (the windows `SetWindowSeconds`
is given, a C# `int`'s), that there is a port, a window, a
quantity and a configuration, that an invented id is none of the chosen ones, that
no file and a torn file are not files with settings, that bodies are what JSON can
hold and trading hours are times of the day, that
the process starts later than `PruneEvery` seconds after 1970 (so that the first
call does prune), and that the cooldown is on.  One theorem has a hypothesis of its
own: `SizesHold` is about `BaseContracts >= 1`, because `load_config` takes whatever
`flow.base_contracts` says, and the floor of one contract exceeds a base of none.
Where a module's property is not
inductive, `IInv` is its strengthening: `Init` implies it, every step keeps it
(one lemma per action or kind of action), and it implies the property.  A second
model whose proofs share a module has its own names for the same three
(`CacheInv`, `ConfigInv`, `PathInv`, with `CacheSpec`, `FileSpec` and `PathSpec`).

* `DedupeCacheProofs`: `Invariant`, `NoFalseDuplicates` and `ImplementsPromise`,
  the last being `Spec => CommandDedupe!Spec`.  That the cache compares times is not
  inductive by itself: a thread may write an *older* time over a newer one and
  the prune may use yet another.  The invariant is `Covered`: every acceptance is
  a window old on the clock or is covered by the time the cache holds for its id;
  with it, `TimesArePast` (nobody carries a time from the future) and the types.
  `Recorded`, the other half, is that each time the cache holds is one of an
  acceptance of that id, so that a refusal always has an acceptance to point at.
* `TradeListenerProofs`, second part, for `ListenerDedupe`: `CacheInvariant`,
  `CacheImplementsPromise` and `CacheRejectsOnlyDuplicates`.  The argument is the
  same with two differences.  The promise is about the shortest window there
  is, which exists because the windows, clamped, are a nonempty set of naturals
  (`SmallestNat`) and is bounded by an `int` at the other end.  And between the comparison and the
  entry the clock moves and the window may grow: `Covered` says of a thread that
  is about to record that every acceptance of its id is a shortest window old already,
  which neither can undo.
* `EntryCooldownProofs`: `Spaced` and `ReversePasses`.  The invariant is
  `RemembersNewest`: `_last_entry` holds the newest entry and nothing else, so
  clearing the other side loses nothing that matters.
* `FlowEngineProofs`: `Invariant`, `Backed`, `ImplementsReservations`, `YellowOnce` and
  `SizesHold`.
  `release_reservation` frees the slot of whatever session the state was last
  brought up to, which need not be the order's.  `IInv` says why that is
  harmless: the state never runs ahead of the clock (`SessionsInOrder`), an order
  in flight belongs to no later session than the state's and any other live
  order on its side to an earlier one (`InFlightIsNewest`), a live order's slot is taken
  (`LiveIsTaken`), and a taken slot of a session that is not over has a live
  order (`OpenSlotsBacked`).  What the rules say enters by one lemma: a signal
  passes when no rule objects, so its slot was free.  `YellowRemembered` says
  that the warning flag is up exactly when the last decision of the day was about a
  yellow signal, over status polls, resets and sessions; with it the count of warnings a
  decision carries from the one before (`StreakWarnings`, a history) stays at one.
* `ReceiverProofs`: `HandedOnce`, `SlotsMatch`, `OptionsFollow` and `Honest`, each a
  conjunct of `IInv`.  `Progress` says what a request has been through by where it is;
  `IdsAreSpent` that an id handed over is remembered, and that a request past the
  duplicate check has an id no target has been handed yet; `SlotInHand` that the
  slot of the order being handled is held until it is settled, and gone with the
  round it belongs to.  All of it is said of one lifetime of the process: `Restart` forgets what
  was handed over with everything else, and what a crash may do to an id is in `Bridge`.
* `TradeListenerProofs`, first part: `OneOrder` and `Exactness`.  `IdsAreSpent` gives a thread
  past the cache its id to itself; `OneOnItsWay` says that while no command was
  decided on top of another's order, one order or bracket at most is on its way and is
  exact at the position there is, which only its own fill can change, the close of a FLATTEN
  like an exit;
  `OrdersAreSubmitted` ties orders to threads that are done.
* `BridgeProofs`: `OneOrder`, `AccountFollows` and `NoStacking`.  `Owned` is why the caches back each other up: an id that
  led to an order is in one of them; a command on the wire that the add-on would let
  pass has led to none, for the receiver had forgotten the id when it accepted it;
  and past the add-on's cache an id has one owner.  `Followed` says that while commands
  have the way to themselves the one on its way brings the position to what was asked
  for, and with none on its way it is there; `Spaced` that an entry which nothing
  crossed is alone on its way, that its cooldown runs, and that its order was
  decided at the position the account still has.
* `TrayAppProofs`: `Behind` and `KeepTheirGlobals`.  `TrayForgets` says when there is no
  current server and that it was told first, `OneAtATime` that while every join was in
  time one server at most is alive and a handler runs with the globals there are.
  Second part, for `ConfigFile`: `NoChoiceLost`, `RunsAsChosen` and
  `LeavesCompleteFiles`.  What a choice survives is a write that is under way, in the
  memory of a program: `StartCarries` and `SetupCarries` say that what a start or the
  setup program holds has all the choices, save the three switches a setup with a URL is
  asked to set, and `NoUrl` that a URL nobody chose is blank, without which a setup
  could switch options on.  All of it holds while no two writers overlap (`raced`).
* `SierraDtcProofs`: `ErrorsAreHonest` and `AcksAreHonest`.  `UpdatesAreTrue` holds of
  every message in the inbox - of the named ones always, of those without an id until a
  stranger's is among them - and survives a chunk of any size, cut anywhere
  (`RestFacts`, about `SubSeq`); `ResultsAreTrue` ties what the client knows to what the server did.
* `EntryCooldownProofs`, second part, for `CommandPath`: `AcceptedByBoth`, `RoundTheClock`,
  `FlowOrdersPass`, `SierraSymbolChecked` and `EnvelopeFollowsOrder`, over all bodies JSON can
  hold, symbol maps, lists and configurations, where the run has a chosen few.
  `PathInv` says what a body has been through by where it is.  The rest are lemmas about
  the operators: what `Strip`, `NormToken` and `Or` return, what `Mapped` finds in a map
  with exact and lower-case keys, when `Valid` holds, which direction and
  price `Envelope` takes.

`IInv` is an invariant of the runs of `DedupeCache`, `FlowEngine`, `Receiver`,
`TradeListener`, `Bridge` and `TrayApp` as well, so that TLC has seen each of its
parts hold.  `CacheInv` and `ConfigInv` hold on the instances of their runs too, and
`PathInv` on a smaller one (it enumerates the payloads in every state).

Proving `CommandPath` for every configuration corrected what its run had said for a
few.  `FlowOrdersAreValid` needs `BUY`, `SELL` and `MARKET` among the configured actions and
order types, which `load_config` does not see to: without one of them every flow order is
refused after its slot was taken, and the slot given back.  `AcceptedIsAccepted`
has to except ticks *below* an `int` as well as above.
`SierraTradesWhatIsAllowed` has to admit an alert that is on the list by its NinjaTrader name
and traded under its own, in Sierra Chart's style or by Sierra's map; what it does not admit
is another alert's entry of that map.
`MCCommandPath` has a case for each of them.

Only model-checked: liveness (`SessionEnds`, `EveryCommandEnds`, `StoppedServersLeave`),
which together with `ENABLED` is out of the prover's reach, as is induction over data;
and that `FailureMeansNoOrder` fails, as `UpdatesAreOurs` does.  TLC's `@@` is unknown to the prover, so
`ConfigFile` has `Over` for `{**defaults, **settings}`.

## 5. What is not modelled

* The scanner of the add-on's JSON reader, character by character: the lines it gets are
  written by `json.dumps`, and what it makes of their fields is in `Heard`.
* The setup program's pages for ports and Discord, and its copying of files; of
  its text surgery what it does to the settings.
* The add-on's window, its account, instrument and expiry selectors, its settings file and
  price arithmetic.
* Discord: fire and forget after the response, and it changes no state.  Which
  warnings there are is in `FlowEngine`.
* The archived .NET receiver, which the Python one supersedes.
* The wall clock set back: time only moves forward in all modules.  NaN among the numbers
  of a signal: `FlowEngine` takes its numbers from a set of integers.
* `Receiver` has one server at a time; that a second one may be alive, and what it
  does to the globals, is in `TrayApp`.  `Bridge` leaves out brackets, which are in
  `TradeListener`.

## 6. Plan

Done: the caches, cooldown and flow engine; receiver, DTC client, add-on and tray;
their composition; the data of a command, a signal and an envelope; the
configuration file; a theorem for every safety property of them.
What would come next:

1. The steps of `Bridge` as steps of `Receiver` and `TradeListener`: `Bridge` reduces both
   to what their modules show of them, which is an argument on paper so far.
2. The safety half of the liveness properties: the variants that make `SessionEnds` and
   `EveryCommandEnds` true (a deadline that only comes nearer, a thread that never
   goes back a step) as action properties.
3. Brackets in `Bridge`, once it is written down what an exit promises about them.
4. The scanner of the JSON reader over short strings, against a grammar.
