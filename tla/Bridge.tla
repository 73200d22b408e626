------------------------------- MODULE Bridge -------------------------------
(* The receiver and the add-on together: what the one lets pass and what    *)
(* the other makes of it.  A connection per command puts commands on        *)
(* threads of their own, which may overtake each other; the add-on reads a  *)
(* position that does not know the orders on their way; either process may  *)
(* end and forget.  Each part is reduced to what its own module (Receiver,  *)
(* TradeListener) shows of it; there are no brackets.                       *)
(*                                                                          *)
(* One thing is assumed of time: what is handed over is filled or dropped   *)
(* within a cooldown and a dedupe window (300 s each by default).           *)
EXTENDS Integers, FiniteSets

CONSTANTS Msgs,        \* commands the receiver may accept in a behaviour
          Ids          \* command ids

VARIABLES recent,      \* receiver: dedupe
          cooling,     \* receiver: entry_cooldown
          msg,         \* per accepted command: where it is
          seen,        \* add-on: _dedupe
          listening,   \* add-on: is it started, with live trading ticked
          position,    \* account
          expected,    \* history: the position the accepted commands ask for
          orders,      \* history: orders, flattens included, an id led to since
                       \*   both sides forgot it
          overlapped,  \* history: a command was accepted with one on its way
          crossed,     \* history: ... with one of another action on its way
          dropped      \* history: an accepted command came to nothing

vars == <<recent, cooling, msg, seen, listening, position,
          expected, orders, overlapped, crossed, dropped>>

receiver == <<recent, cooling>>
history == <<expected, orders, overlapped, crossed, dropped>>

Entries == {"BUY", "SELL"}
Actions == Entries \cup {"EXIT_LONG", "EXIT_SHORT", "FLATTEN"}
Opposite(side) == IF side = "BUY" THEN "SELL" ELSE "BUY"

Unused == [at |-> "unused"]
Gone == [at |-> "gone"]
Msg == [at : {"wire", "decide", "submit", "working"},
        id : Ids, action : Actions, size : Int]

TypeOK ==
    /\ recent \subseteq Ids /\ seen \subseteq Ids /\ cooling \subseteq Entries
    /\ msg \in [Msgs -> {Unused, Gone} \cup Msg]
    /\ listening \in BOOLEAN /\ dropped \in BOOLEAN
    /\ overlapped \in BOOLEAN /\ crossed \in BOOLEAN
    /\ position \in Int /\ expected \in Int
    /\ orders \in [Ids -> Nat]

OnItsWay(c) == msg[c] \notin {Unused, Gone}
Quiet == \A c \in Msgs : ~OnItsWay(c)

Init ==
    /\ recent = {} /\ cooling = {} /\ seen = {}
    /\ msg = [c \in Msgs |-> Unused]
    /\ listening \in BOOLEAN
    /\ position = 0 /\ expected = 0
    /\ orders = [id \in Ids |-> 0]
    /\ overlapped = FALSE /\ crossed = FALSE /\ dropped = FALSE

-----------------------------------------------------------------------------
(* What an action asks for, at a position: an entry trades one contract     *)
(* unless the account is on its side, an exit and FLATTEN close.            *)
Asked(action, at) ==
    CASE action = "BUY" -> IF at > 0 THEN at ELSE at + 1
      [] action = "SELL" -> IF at < 0 THEN at ELSE at - 1
      [] action = "EXIT_LONG" -> IF at > 0 THEN 0 ELSE at
      [] action = "EXIT_SHORT" -> IF at < 0 THEN 0 ELSE at
      [] action = "FLATTEN" -> 0

(* Mutant of OrderFor: an exit closes whatever there is.                    *)
OrderForAnyExit(action, at) ==
    CASE action = "BUY" /\ at <= 0 -> 1
      [] action = "SELL" /\ at >= 0 -> -1
      [] action \in Actions \ Entries -> -at
      [] OTHER -> 0

(* The add-on's order for an action at a position, of one contract; 0 is    *)
(* none.                                                                    *)
OrderFor(action, at) ==
    CASE action = "BUY" /\ at <= 0 -> 1
      [] action = "SELL" /\ at >= 0 -> -1
      [] action = "EXIT_LONG" /\ at > 0 -> -at
      [] action = "EXIT_SHORT" /\ at < 0 -> -at
      [] OTHER -> 0

(* Mutant of Entered: the cooldown is kept for one side only.               *)
EnteredLong(action) ==
    IF action = "BUY" THEN {action} ELSE IF action = "SELL" THEN {} ELSE cooling

Entered(action) ==
    IF action \in Entries THEN (cooling \ {Opposite(action)}) \cup {action} ELSE cooling

(* A command passes the gates; its id is spent.  It is handed over if the   *)
(* add-on listens; else the answer is 502, and a reverse has ended the      *)
(* other side's cooldown all the same.                                      *)
Accept(c, id, action) ==
    /\ msg[c] = Unused /\ id \notin recent /\ action \notin cooling
    /\ recent' = recent \cup {id}
    /\ cooling' = Entered(action)
    /\ IF listening
       THEN /\ msg' = [msg EXCEPT ![c] = [at |-> "wire", id |-> id,
                                          action |-> action, size |-> 0]]
            /\ expected' = Asked(action, expected)
            /\ overlapped' = (overlapped \/ ~Quiet)
       ELSE /\ msg' = [msg EXCEPT ![c] = Gone]
            /\ UNCHANGED <<expected, overlapped>>
    /\ crossed' = (crossed \/ \E d \in Msgs : OnItsWay(d) /\ msg[d].action # action)
    /\ UNCHANGED <<seen, listening, position, orders, dropped>>

(* A cooldown that refuses a command has its id spent as well.              *)
Refuse(id, action) ==
    /\ id \notin recent /\ action \in cooling
    /\ recent' = recent \cup {id}
    /\ UNCHANGED <<cooling, msg, seen, listening, position, history>>

(* A cooldown or a window is over: nothing of it is on its way any more.    *)
CoolOff(side) ==
    /\ \A c \in Msgs : OnItsWay(c) => msg[c].action # side
    /\ cooling' = cooling \ {side}
    /\ UNCHANGED <<recent, msg, seen, listening, position, history>>

Idle(id) == \A c \in Msgs : OnItsWay(c) => msg[c].id # id

Counted(r, s) == [id \in Ids |-> IF id \in r \cup s THEN orders[id] ELSE 0]

ForgetsAtReceiver(id) ==
    /\ Idle(id)
    /\ recent' = recent \ {id}
    /\ orders' = Counted(recent', seen)
    /\ UNCHANGED <<cooling, msg, seen, listening, position,
                   expected, overlapped, crossed, dropped>>

ReceiverRestarts ==
    /\ recent' = {} /\ cooling' = {}
    /\ orders' = Counted({}, seen)
    /\ crossed' = (crossed \/ ~Quiet)
    /\ UNCHANGED <<msg, seen, listening, position, expected, overlapped, dropped>>

-----------------------------------------------------------------------------
Drops(c) == msg' = [msg EXCEPT ![c] = Gone] /\ dropped' = TRUE

(* Mutant of Seen: the check is left to the receiver.                       *)
SeenNever(id) == FALSE

Seen(id) == id \in seen

(* A client thread reads the line and asks its cache, then the live box.    *)
Take(c) ==
    /\ msg[c].at = "wire"
    /\ seen' = seen \cup {msg[c].id}
    /\ IF listening /\ ~Seen(msg[c].id)
       THEN msg' = [msg EXCEPT ![c].at = "decide"] /\ UNCHANGED dropped
       ELSE Drops(c)
    /\ UNCHANGED <<receiver, listening, position, expected, orders, overlapped, crossed>>

(* ExecuteCommand: reads the position.                                      *)
Decide(c) ==
    /\ msg[c].at = "decide" /\ msg[c].action # "FLATTEN"
    /\ LET size == OrderFor(msg[c].action, position)
       IN  msg' = [msg EXCEPT ![c] = IF size = 0 THEN Gone
                                     ELSE [@ EXCEPT !.at = "submit", !.size = size]]
    /\ UNCHANGED <<receiver, seen, listening, position, history>>

(* account.Flatten: the orders that work are cancelled, and one that closes *)
(* the position works instead.                                              *)
Flatten(c) ==
    /\ msg[c].at = "decide" /\ msg[c].action = "FLATTEN"
    /\ msg' = [d \in Msgs |->
          IF d = c /\ position # 0
          THEN [msg[c] EXCEPT !.at = "working", !.size = -position]
          ELSE IF d = c \/ msg[d].at = "working" THEN Gone ELSE msg[d]]
    /\ orders' = [orders EXCEPT ![msg[c].id] = @ + 1]
    /\ UNCHANGED <<receiver, seen, listening, position,
                   expected, overlapped, crossed, dropped>>

Submit(c) ==
    /\ msg[c].at = "submit"
    /\ msg' = [msg EXCEPT ![c].at = "working"]
    /\ orders' = [orders EXCEPT ![msg[c].id] = @ + 1]
    /\ UNCHANGED <<receiver, seen, listening, position,
                   expected, overlapped, crossed, dropped>>

SubmitFails(c) ==
    /\ msg[c].at = "submit"
    /\ Drops(c)
    /\ UNCHANGED <<receiver, seen, listening, position, expected, orders, overlapped, crossed>>

Fill(c) ==
    /\ msg[c].at = "working"
    /\ position' = position + msg[c].size
    /\ msg' = [msg EXCEPT ![c] = Gone]
    /\ UNCHANGED <<receiver, seen, listening, history>>

ForgetsAtListener(id) ==
    /\ Idle(id)
    /\ seen' = seen \ {id}
    /\ orders' = Counted(recent, seen')
    /\ UNCHANGED <<receiver, msg, listening, position,
                   expected, overlapped, crossed, dropped>>

(* Start and Stop, or the live box: what nobody has read may be lost.       *)
Toggle ==
    /\ listening' = ~listening
    /\ \E lost \in SUBSET {c \in Msgs : msg[c].at = "wire"} :
          /\ listening \/ lost = {}
          /\ msg' = [c \in Msgs |-> IF c \in lost THEN Gone ELSE msg[c]]
          /\ dropped' = (dropped \/ lost # {})
    /\ UNCHANGED <<receiver, seen, position, expected, orders, overlapped, crossed>>

(* NinjaTrader ends and starts again: its threads and its cache are gone,   *)
(* orders that work are not.                                                *)
ListenerRestarts ==
    /\ seen' = {} /\ listening' = FALSE
    /\ orders' = Counted(recent, {})
    /\ msg' = [c \in Msgs |-> IF OnItsWay(c) /\ msg[c].at # "working" THEN Gone ELSE msg[c]]
    /\ dropped' = (dropped \/ msg' # msg)
    /\ UNCHANGED <<receiver, position, expected, overlapped, crossed>>

Next ==
    \/ \E c \in Msgs, id \in Ids, action \in Actions : Accept(c, id, action)
    \/ \E id \in Ids : \/ \E action \in Entries : Refuse(id, action)
                       \/ ForgetsAtReceiver(id) \/ ForgetsAtListener(id)
    \/ \E side \in Entries : CoolOff(side)
    \/ \E c \in Msgs : Take(c) \/ Decide(c) \/ Flatten(c) \/ Submit(c)
                       \/ SubmitFails(c) \/ Fill(c)
    \/ Toggle \/ ReceiverRestarts \/ ListenerRestarts

Spec == Init /\ [][Next]_vars

-----------------------------------------------------------------------------
(* The two caches back each other up: an id leads to one order as long as   *)
(* either side remembers it, so a restart of the one alone, and the retry   *)
(* of a command it has forgotten, repeats no trade.                         *)
OneOrderWhileRemembered == \A id \in Ids : orders[id] <= 1

(* What an id has led to is remembered.  A command that the add-on has let  *)
(* past its cache has its id there to itself, and one that it will let past *)
(* has led to no order.                                                     *)
InHand(c) == msg[c].at \in {"decide", "submit"}

Owned ==
    /\ \A id \in Ids : orders[id] > 0 => id \in recent \cup seen
    /\ \A c \in Msgs :
          (msg[c].at = "wire" /\ msg[c].id \notin seen) => orders[msg[c].id] = 0
    /\ \A c \in Msgs : InHand(c) =>
          /\ msg[c].id \in seen /\ orders[msg[c].id] = 0
          /\ \A d \in Msgs : InHand(d) /\ msg[d].id = msg[c].id => d = c

(* With none overlapped and none dropped there is one command at most on    *)
(* its way, and what the account comes to with it is what was asked for.    *)
ComesTo(c) == IF msg[c].at \in {"wire", "decide"} THEN Asked(msg[c].action, position)
              ELSE position + msg[c].size

Followed ==
    ~overlapped /\ ~dropped =>
       /\ Quiet => position = expected
       /\ \A c \in Msgs : OnItsWay(c) => /\ ComesTo(c) = expected
                                         /\ \A d \in Msgs : OnItsWay(d) => d = c

(* Uncrossed, an entry is alone on its way, its cooldown runs, and its      *)
(* order was decided at the position the account still has.                 *)
Spaced ==
    ~crossed =>
       \A c \in Msgs : OnItsWay(c) /\ msg[c].action \in Entries =>
          /\ \A d \in Msgs : OnItsWay(d) => d = c
          /\ msg[c].action \in cooling
          /\ msg[c].at \in {"submit", "working"} =>
                \/ msg[c].size = 1 /\ position <= 0
                \/ msg[c].size = -1 /\ position >= 0

(* The inductive invariant of the proofs.                                   *)
CacheInv == TypeOK /\ OneOrderWhileRemembered /\ Owned
IInv == CacheInv /\ Followed /\ Spaced

(* When all is done the account stands where the accepted commands, taken   *)
(* one after the other, put it - provided that none was handed over with    *)
(* one on its way and none came to nothing at the add-on.                   *)
AccountFollowsCommands ==
    Quiet /\ ~overlapped /\ ~dropped => position = expected

(* The add-on does not see the orders on their way, and only the receiver's *)
(* cooldown keeps a second entry of the side away until the first has       *)
(* filled: no fill adds to a position on its side, unless a command of      *)
(* another kind was accepted (and be it in vain), or the receiver           *)
(* restarted, while one was on its way.                                     *)
CooldownPreventsStacking ==
    [][ \A c \in Msgs :
          msg[c] # Unused /\ msg[c].at = "working" /\ position' # position
          /\ msg[c].action \in Entries /\ msg'[c] = Gone
          => crossed \/ msg[c].size * position <= 0 ]_vars
=============================================================================
