--------------------------- MODULE TradeListener ---------------------------
(* The WebhookTradeListener add-on of NinjaTrader: the UI thread with its   *)
(* Start and Stop buttons and the live-trading box, the accept thread, one  *)
(* client thread per connection, and the account the orders go to.          *)
(*                                                                          *)
(* The receiver opens a connection per command, so a connection carries one *)
(* line here, and nothing orders the threads among themselves.  The account *)
(* is external: an order fills some time after it was submitted, and        *)
(* account.Positions shows the fills and not the orders.                    *)
EXTENDS Integers, FiniteSets

CONSTANTS Conns,        \* connections, each with the thread that serves it
          Ids,          \* command ids
          Quantities,   \* contract sizes the panel may be set to
          Positions,    \* positions the account may start with
          Ticks,        \* may an entry have SL/PT ticks, may it have none
          MaxToggles    \* bound: Start, Stop and check-box clicks

ASSUME ListenerAssumption ==
    /\ Quantities \subseteq Nat \ {0} /\ Quantities # {}
    /\ Positions \subseteq Int /\ Ticks \subseteq BOOLEAN
    /\ MaxToggles \in Nat

VARIABLES running,      \* _running
          ui,           \* the UI thread: free, or in Stop's Join
          acceptor,     \* is the accept thread alive
          live,         \* _liveTradingEnabled
          quantity,     \* the panel's quantity
          toggles,      \* clicks so far
          recent,       \* _dedupe: ids accepted less than a window ago
          thread,       \* per connection: where its command is
          position,     \* the account's position: > 0 long, < 0 short
          working,      \* per connection: its market order not yet filled
          bracket,      \* per connection: its working SL/PT pair
          placed,       \* history: orders and flattens an id led to in a window
          overlapped    \* history: a command was decided while another's order
                        \*   or bracket was on its way

vars == <<running, ui, acceptor, live, quantity, toggles, recent, thread,
          position, working, bracket, placed, overlapped>>

panel   == <<running, ui, acceptor, live, quantity, toggles>>
account == <<position, working, bracket>>

Actions == {"BUY", "SELL", "EXIT_LONG", "EXIT_SHORT", "FLATTEN"}
Entries == {"BUY", "SELL"}
(* Only an entry's ticks are looked at.                                     *)
Command == {cmd \in [id : Ids, action : Actions, ticks : BOOLEAN] :
               cmd.ticks => cmd.action \in Entries}

(* A market order: its signed size, and whether it is to close a position.  *)
NoOrder == [size |-> 0, exit |-> FALSE]
MarketOrder == [size : Int \ {0}, exit : BOOLEAN]

(* order is what the thread decided on; inWindow is history.                *)
Unused == [at |-> "unused"]
Done == [at |-> "done"]
Thread == [at : {"backlog", "loop", "reading", "validate", "dedupe", "live",
                 "execute", "submit"},
           cmd : Command, order : {NoOrder} \cup MarketOrder, inWindow : BOOLEAN]

TypeOK ==
    /\ running \in BOOLEAN /\ acceptor \in BOOLEAN
    /\ live \in BOOLEAN /\ overlapped \in BOOLEAN
    /\ ui \in {"free", "joining"}
    /\ quantity \in Quantities /\ toggles \in 0..MaxToggles
    /\ recent \subseteq Ids
    /\ thread \in [Conns -> {Unused, Done} \cup Thread]
    /\ \A c \in Conns : thread[c].at = "submit" => thread[c].order \in MarketOrder
    /\ position \in Int
    /\ working \in [Conns -> {NoOrder} \cup MarketOrder] /\ bracket \in [Conns -> Int]
    /\ placed \in [Ids -> Nat]

Init ==
    /\ running = FALSE /\ ui = "free" /\ acceptor = FALSE /\ live = FALSE
    /\ quantity \in Quantities /\ toggles = 0
    /\ recent = {}
    /\ thread = [c \in Conns |-> Unused]
    /\ position \in Positions
    /\ working = [c \in Conns |-> NoOrder] /\ bracket = [c \in Conns |-> 0]
    /\ placed = [id \in Ids |-> 0] /\ overlapped = FALSE

-----------------------------------------------------------------------------
(* Mutant of Joined: the client threads are joined as well.                 *)
JoinedClients ==
    /\ ui = "joining" /\ ui' = "free"
    /\ \A c \in Conns : thread[c] \in {Unused, Done}
    /\ UNCHANGED <<running, acceptor, live, quantity, toggles, recent, thread,
                   account, placed, overlapped>>

(* The UI thread.  The panel's fields are disabled while it listens.        *)
Click == toggles < MaxToggles /\ toggles' = toggles + 1 /\ ui = "free"
others == <<recent, thread, account, placed, overlapped>>

StartListener ==
    /\ Click /\ ~running
    /\ running' = TRUE /\ acceptor' = TRUE
    /\ quantity' \in Quantities
    /\ UNCHANGED <<ui, live, others>>

(* The listening socket is closed, and with it go the connections nobody    *)
(* has accepted.                                                            *)
StopListener ==
    /\ Click /\ running
    /\ running' = FALSE /\ ui' = "joining"
    /\ thread' = [c \in Conns |-> IF thread[c].at = "backlog" THEN Done ELSE thread[c]]
    /\ UNCHANGED <<acceptor, live, quantity, recent, account, placed, overlapped>>

(* _acceptThread.Join(1000): the thread is gone, or a second has passed.    *)
Joined ==
    /\ ui = "joining" /\ ui' = "free"
    /\ UNCHANGED <<running, acceptor, live, quantity, toggles, others>>

(* ENABLE LIVE TRADING is ticked or unticked, listening or not.             *)
ToggleLive ==
    /\ Click
    /\ live' = ~live
    /\ UNCHANGED <<running, ui, acceptor, quantity, others>>

-----------------------------------------------------------------------------
(* AcceptLoop.                                                              *)
Connect(c, cmd) ==
    /\ thread[c] = Unused /\ running
    /\ thread' = [thread EXCEPT ![c] =
          [at |-> "backlog", cmd |-> cmd, order |-> NoOrder, inWindow |-> TRUE]]
    /\ UNCHANGED <<panel, recent, account, placed, overlapped>>

Goes(c, where) == thread' = [thread EXCEPT ![c].at = where]
Ends(c) == thread' = [thread EXCEPT ![c] = Done]

Accept(c) ==
    /\ thread[c].at = "backlog" /\ acceptor
    /\ Goes(c, "loop")
    /\ UNCHANGED <<panel, recent, account, placed, overlapped>>

AcceptLoopEnds ==
    /\ acceptor /\ ~running
    /\ acceptor' = FALSE
    /\ UNCHANGED <<running, ui, live, quantity, toggles, others>>

-----------------------------------------------------------------------------
(* HandleClient: the loop looks at _running and then waits for the line,    *)
(* which it handles even if the listener has been stopped meanwhile.        *)
Loop(c) ==
    /\ thread[c].at = "loop"
    /\ IF running THEN Goes(c, "reading") ELSE Ends(c)
    /\ UNCHANGED <<panel, recent, account, placed, overlapped>>

ReadLine(c) ==
    /\ thread[c].at = "reading"
    /\ Goes(c, "validate")
    /\ UNCHANGED <<panel, recent, account, placed, overlapped>>

(* ValidateCommand asks the UI thread for the panel's fields and waits for  *)
(* it.  The quantity is never below 1, and instrument and action may or may *)
(* not do.                                                                  *)
Validate(c) ==
    /\ thread[c].at = "validate" /\ ui = "free"
    /\ Goes(c, "dedupe") \/ Ends(c)
    /\ UNCHANGED <<panel, recent, account, placed, overlapped>>

(* Mutant of Seen: an id counts as used once it led to an order.            *)
SeenTraded(id) == placed[id] > 0

Seen(id) == id \in recent

TryAccept(c) ==
    LET id == thread[c].cmd.id
    IN  /\ thread[c].at = "dedupe"
        /\ IF Seen(id) THEN Ends(c) ELSE Goes(c, "live")
        /\ recent' = recent \cup {id}
        /\ UNCHANGED <<panel, account, placed, overlapped>>

(* Off: the command is logged and dropped, and its id stays used.           *)
CheckLive(c) ==
    /\ thread[c].at = "live"
    /\ IF live THEN Goes(c, "execute") ELSE Ends(c)
    /\ UNCHANGED <<panel, recent, account, placed, overlapped>>

(* Mutant of Ignored: an entry on the position's side is let through.       *)
IgnoredExitsOnly(action) ==
    \/ action = "EXIT_SHORT" /\ position >= 0
    \/ action = "EXIT_LONG" /\ position <= 0

(* ExecuteCommand up to the order: what it does follows from the position   *)
(* it reads, whatever orders are on their way.                              *)
Ignored(action) ==
    \/ action \in {"BUY", "EXIT_SHORT"} /\ position > 0
    \/ action \in {"SELL", "EXIT_LONG"} /\ position < 0
    \/ action \in {"EXIT_LONG", "EXIT_SHORT"} /\ position = 0

OrderFor(action) ==
    [size |-> CASE action = "BUY" -> quantity
                [] action = "SELL" -> -quantity
                [] action \in Actions \ Entries -> -position,
     exit |-> action \notin Entries]

OnItsWay(c) == thread[c].at = "submit" \/ working[c] # NoOrder \/ bracket[c] # 0
Overlaps(c) == overlapped' = (overlapped \/ \E d \in Conns \ {c} : OnItsWay(d))

Decide(c) ==
    LET action == thread[c].cmd.action
    IN  /\ thread[c].at = "execute" /\ ui = "free" /\ action # "FLATTEN"
        /\ Overlaps(c)
        /\ IF Ignored(action) THEN Ends(c)
           ELSE thread' = [thread EXCEPT ![c].at = "submit",
                                         ![c].order = OrderFor(action)]
        /\ UNCHANGED <<panel, recent, account, placed>>

Places(c) ==
    placed' = [placed EXCEPT ![thread[c].cmd.id] = IF thread[c].inWindow THEN @ + 1 ELSE @]

(* account.Flatten cancels the instrument's orders and sends an order that  *)
(* closes the position there is, which fills when it fills.  An order is    *)
(* cancelled at once: a cancellation loses to a fill only where two         *)
(* commands have overlapped.                                                *)
Flatten(c) ==
    /\ thread[c].at = "execute" /\ ui = "free"
    /\ thread[c].cmd.action = "FLATTEN"
    /\ working' = [d \in Conns |-> IF d = c /\ position # 0
                                   THEN OrderFor("FLATTEN") ELSE NoOrder]
    /\ bracket' = [d \in Conns |-> 0]
    /\ Places(c) /\ Overlaps(c)
    /\ Ends(c)
    /\ UNCHANGED <<panel, recent, position>>

(* SubmitMarket: an entry with ticks goes out with its stop and its target. *)
Submit(c) ==
    LET cmd == thread[c].cmd
    IN  /\ thread[c].at = "submit"
        /\ working' = [working EXCEPT ![c] = thread[c].order]
        /\ bracket' = [bracket EXCEPT ![c] =
                          IF cmd.ticks THEN -thread[c].order.size ELSE @]
        /\ Places(c) /\ Ends(c)
        /\ UNCHANGED <<panel, recent, position, overlapped>>

(* No market price, no such account: an exception, and no order.            *)
SubmitFails(c) ==
    /\ thread[c].at = "submit"
    /\ Ends(c)
    /\ UNCHANGED <<panel, recent, account, placed, overlapped>>

-----------------------------------------------------------------------------
(* The account, and time.                                                   *)
Fill(c) ==
    /\ working[c] # NoOrder
    /\ position' = position + working[c].size
    /\ working' = [working EXCEPT ![c] = NoOrder]
    /\ UNCHANGED <<panel, recent, thread, bracket, placed, overlapped>>

(* The price reaches the stop or the target of a filled entry.              *)
BracketFills(c) ==
    /\ bracket[c] # 0 /\ working[c] = NoOrder
    /\ position' = position + bracket[c]
    /\ bracket' = [bracket EXCEPT ![c] = 0]
    /\ UNCHANGED <<panel, recent, thread, working, placed, overlapped>>

WindowPasses(id) ==
    /\ id \in recent
    /\ recent' = recent \ {id}
    /\ placed' = [placed EXCEPT ![id] = 0]
    /\ thread' = [c \in Conns |->
          IF thread[c].at \in {"live", "execute", "submit"} /\ thread[c].cmd.id = id
          THEN [thread[c] EXCEPT !.inWindow = FALSE] ELSE thread[c]]
    /\ UNCHANGED <<panel, account, overlapped>>

Client(c) == Loop(c) \/ ReadLine(c) \/ Validate(c) \/ TryAccept(c) \/ CheckLive(c)
                \/ Decide(c) \/ Flatten(c) \/ Submit(c) \/ SubmitFails(c)

Next ==
    \/ StartListener \/ StopListener \/ Joined \/ ToggleLive \/ AcceptLoopEnds
    \/ \E c \in Conns :
          \/ \E cmd \in Command : cmd.ticks \in Ticks /\ Connect(c, cmd)
          \/ Accept(c) \/ Client(c) \/ Fill(c) \/ BracketFills(c)
    \/ \E id \in Ids : WindowPasses(id)

(* Threads run, a Join ends, and the dispatcher serves its callers in turn. *)
Fairness ==
    /\ WF_vars(Joined) /\ WF_vars(AcceptLoopEnds)
    /\ \A c \in Conns : SF_vars(Client(c)) /\ WF_vars(Accept(c))

Spec == Init /\ [][Next]_vars /\ Fairness

-----------------------------------------------------------------------------
(* An id leads to at most one order or flatten in a dedupe window, on       *)
(* whichever threads its copies arrive and whatever is clicked meanwhile.   *)
OneOrderPerId == \A id \in Ids : placed[id] <= 1

Filled(c) == working[c] # NoOrder /\ working'[c] = NoOrder

(* An entry's fill does not add to a position on its own side.              *)
AddsNothing(c) ==
    /\ working[c].size > 0 => position <= 0
    /\ working[c].size < 0 => position >= 0

(* Commands decided while no other order or bracket is on its way do what   *)
(* their names say: an exit and a FLATTEN leave the account flat, by the    *)
(* time their order has filled, and an entry never adds to a position on    *)
(* its own side.                                                            *)
OneAtATimeIsExact ==
    [][ \A c \in Conns :
          Filled(c) /\ ~overlapped'
          => IF working[c].exit THEN position' = 0 ELSE AddsNothing(c) ]_vars

(* Nobody waits for ever: a thread that asks the UI thread for the panel    *)
(* and a UI thread that waits for the accept thread do not hold each other  *)
(* up, and a command once read is done with.                                *)
EveryCommandEnds ==
    \A c \in Conns : thread[c].at = "validate" ~> thread[c] = Done

(* Past its check of the cache a thread has an id that is remembered and    *)
(* has led to no order yet, and it has that id to itself.                   *)
Past(c) == thread[c].at \in {"live", "execute", "submit"} /\ thread[c].inWindow

IdsAreSpent ==
    /\ \A id \in Ids : placed[id] > 0 => id \in recent
    /\ \A c \in Conns : Past(c) =>
          /\ thread[c].cmd.id \in recent
          /\ placed[thread[c].cmd.id] = 0
          /\ \A d \in Conns : Past(d) /\ thread[d].cmd.id = thread[c].cmd.id => d = c

(* An order does at a position what it was decided for.                     *)
Exact(order, at) ==
    IF order.exit THEN order.size = -at
    ELSE /\ order.size > 0 => at <= 0
         /\ order.size < 0 => at >= 0

(* While nothing has overlapped, one order or bracket is on its way.        *)
OneOnItsWay ==
    ~overlapped => \A c \in Conns :
        /\ thread[c].at = "submit" => Exact(thread[c].order, position)
        /\ working[c] # NoOrder => Exact(working[c], position)
        /\ OnItsWay(c) => \A d \in Conns \ {c} : ~OnItsWay(d)

(* A thread has no order in the account before it has submitted one.        *)
OrdersAreSubmitted ==
    \A c \in Conns : thread[c] # Done => working[c] = NoOrder /\ bracket[c] = 0

(* The inductive invariant of the proofs.                                   *)
IInv == TypeOK /\ OneOrderPerId /\ IdsAreSpent /\ OneOnItsWay /\ OrdersAreSubmitted
=============================================================================
