------------------------ MODULE TradeListenerProofs ------------------------
(* Proofs about TradeListener, for any connections, ids, quantities and any *)
(* number of clicks, and about its cache in ListenerDedupe, for any threads *)
(* and any windows.                                                         *)
EXTENDS TradeListener, ListenerDedupe,
        FiniteSetTheorems, SequenceTheorems, WellFoundedInduction, TLAPS

(* Where a thread is tells what it is.                                      *)
LEMMA ThreadType ==
  ASSUME TypeOK, NEW c \in Conns
  PROVE  /\ thread[c].at \notin {"unused", "done"} => thread[c] \in Thread
         /\ thread[c] \in Thread => thread[c].at \notin {"unused", "done"}
         /\ thread[c] # Done => thread[c].at # "done"
         /\ thread[c] # Unused => thread[c].at # "unused"
  BY DEF TypeOK, Thread, Unused, Done

LEMMA InitHolds == Init => IInv
  <1> SUFFICES ASSUME Init PROVE IInv
    OBVIOUS
  <1>1. position \in Int /\ 0 \in 0..MaxToggles
    BY ListenerAssumption DEF Init, ListenerAssumption
  <1>2. \A c \in Conns : thread[c] = Unused /\ working[c] = NoOrder /\ bracket[c] = 0
    BY DEF Init
  <1>3. TypeOK
    <2>1. /\ running \in BOOLEAN /\ acceptor \in BOOLEAN
          /\ live \in BOOLEAN /\ overlapped \in BOOLEAN
      BY Zenon DEF Init
    <2>2. thread \in [Conns -> {Unused, Done} \cup Thread] /\ placed \in [Ids -> Nat]
      BY DEF Init
    <2>3. /\ working \in [Conns -> {NoOrder} \cup MarketOrder]
          /\ bracket \in [Conns -> Int]
      BY DEF Init
    <2>4. ui \in {"free", "joining"} /\ quantity \in Quantities
          /\ toggles \in 0..MaxToggles /\ recent \subseteq Ids
      BY <1>1 DEF Init
    <2>5. \A c \in Conns : thread[c].at # "submit"
      BY <1>2 DEF Unused
    <2> QED BY <1>1, <2>1, <2>2, <2>3, <2>4, <2>5 DEF TypeOK
  <1>4. OneOrderPerId /\ IdsAreSpent
    BY <1>2 DEF Init, OneOrderPerId, IdsAreSpent, Past, Unused
  <1>5. OneOnItsWay /\ OrdersAreSubmitted
    BY <1>2 DEF OneOnItsWay, OrdersAreSubmitted, OnItsWay, Unused
  <1> QED BY <1>3, <1>4, <1>5 DEF IInv

-----------------------------------------------------------------------------
(* A thread goes on or ends, and leads to no order in doing so.             *)
LEMMA MoveStep ==
  ASSUME IInv, NEW c \in Conns, NEW next \in {Done} \cup Thread,
         thread' = [thread EXCEPT ![c] = next],
         thread[c] # Done, next.at # "submit",
         next.at \in {"live", "execute"} =>
            /\ thread[c].at \in {"live", "execute"}
            /\ next.cmd = thread[c].cmd /\ next.inWindow = thread[c].inWindow,
         UNCHANGED <<recent, account, placed>>, UNCHANGED panel,
         ~overlapped' => ~overlapped, overlapped' \in BOOLEAN
  PROVE  IInv'
  <1>0. TypeOK
    BY DEF IInv
  <1>1. UNCHANGED <<recent, position, working, bracket, placed>>
    BY DEF account
  <1>2. \A d \in Conns : thread'[d] = IF d = c THEN next ELSE thread[d]
    BY <1>0 DEF TypeOK
  <1>3. TypeOK'
    <2>1. thread' \in [Conns -> {Unused, Done} \cup Thread]
      BY <1>0 DEF TypeOK
    <2>2. \A d \in Conns : thread'[d].at = "submit" => thread'[d].order \in MarketOrder
      BY <1>0, <1>2 DEF TypeOK
    <2>3. UNCHANGED <<running, ui, acceptor, live, quantity, toggles>>
      BY DEF panel
    <2> QED BY <1>0, <1>1, <2>1, <2>2, <2>3 DEF TypeOK
  <1>4. OneOrderPerId' /\ \A id \in Ids : placed'[id] > 0 => id \in recent'
    BY <1>1 DEF IInv, OneOrderPerId, IdsAreSpent
  <1>5. \A d \in Conns : Past(d)' => Past(d) /\ thread'[d].cmd = thread[d].cmd
    BY <1>2 DEF Past, Done
  <1>6. IdsAreSpent'
    BY <1>1, <1>4, <1>5 DEF IInv, IdsAreSpent
  <1>7. \A d \in Conns : OnItsWay(d)' => OnItsWay(d)
    BY <1>1, <1>2 DEF OnItsWay
  <1>8. OneOnItsWay'
    <2> SUFFICES ASSUME ~overlapped', NEW d \in Conns
                 PROVE  /\ thread'[d].at = "submit" => Exact(thread'[d].order, position')
                        /\ working'[d] # NoOrder => Exact(working'[d], position')
                        /\ OnItsWay(d)' => \A e \in Conns \ {d} : ~OnItsWay(e)'
      BY DEF OneOnItsWay
    <2>1. /\ thread[d].at = "submit" => Exact(thread[d].order, position)
          /\ working[d] # NoOrder => Exact(working[d], position)
          /\ OnItsWay(d) => \A e \in Conns \ {d} : ~OnItsWay(e)
      BY DEF IInv, OneOnItsWay
    <2>2. thread'[d].at = "submit" => thread'[d] = thread[d]
      BY <1>2
    <2> QED BY <1>1, <1>7, <2>1, <2>2
  <1>9. OrdersAreSubmitted'
    BY <1>1, <1>2 DEF IInv, OrdersAreSubmitted
  <1> QED BY <1>3, <1>4, <1>6, <1>8, <1>9 DEF IInv

-----------------------------------------------------------------------------
(* The panel, which may drop what nobody has accepted.                      *)
LEMMA PanelStep ==
  ASSUME IInv, TypeOK', UNCHANGED <<recent, account, placed, overlapped>>,
         \A c \in Conns : thread'[c] = thread[c]
                          \/ (thread[c].at = "backlog" /\ thread'[c] = Done)
  PROVE  IInv'
  <1>1. UNCHANGED <<recent, position, working, bracket, placed>>
    BY DEF account
  <1>o. overlapped' = overlapped
    OBVIOUS
  <1>2. \A c \in Conns : /\ thread'[c] = thread[c] \/ thread'[c] = Done
                         /\ thread'[c].at = "submit" => thread'[c] = thread[c]
                         /\ thread'[c] # Done => thread[c] # Done
    BY DEF Done
  <1>3. \A c \in Conns : Past(c)' => Past(c) /\ thread'[c] = thread[c]
    BY <1>2 DEF Past, Done
  <1>4. OneOrderPerId' /\ IdsAreSpent'
    BY <1>1, <1>3 DEF IInv, OneOrderPerId, IdsAreSpent
  <1>5. \A c \in Conns : OnItsWay(c)' => OnItsWay(c)
    BY <1>1, <1>2 DEF OnItsWay
  <1>6. OneOnItsWay'
    BY <1>1, <1>o, <1>2, <1>5 DEF IInv, OneOnItsWay
  <1>7. OrdersAreSubmitted'
    BY <1>1, <1>2 DEF IInv, OrdersAreSubmitted
  <1> QED BY <1>4, <1>6, <1>7 DEF IInv

LEMMA ClicksStep ==
  ASSUME IInv, \/ StartListener \/ StopListener \/ Joined \/ ToggleLive
               \/ AcceptLoopEnds
  PROVE  IInv'
  <1>0. TypeOK
    BY DEF IInv
  <1>1. /\ UNCHANGED <<recent, account, placed, overlapped>>
        /\ ui' \in {"free", "joining"} /\ quantity' \in Quantities
        /\ toggles' \in 0..MaxToggles
    BY <1>0, ListenerAssumption
       DEF StartListener, StopListener, Joined, ToggleLive, AcceptLoopEnds, Click,
           others, TypeOK, ListenerAssumption
  <1>2. /\ running' \in BOOLEAN /\ acceptor' \in BOOLEAN
        /\ live' \in BOOLEAN /\ overlapped' \in BOOLEAN
    BY <1>0, <1>1 DEF StartListener, StopListener, Joined, ToggleLive, AcceptLoopEnds,
       others, TypeOK
  <1>3. /\ thread' \in [Conns -> {Unused, Done} \cup Thread]
        /\ \A c \in Conns : thread'[c] = thread[c]
                            \/ (thread[c].at = "backlog" /\ thread'[c] = Done)
    <2>1. CASE StopListener
      <3>1. thread' = [c \in Conns |-> IF thread[c].at = "backlog" THEN Done ELSE thread[c]]
        BY <2>1 DEF StopListener
      <3>2. thread \in [Conns -> {Unused, Done} \cup Thread]
        BY <1>0 DEF TypeOK
      <3>3. thread' \in [Conns -> {Unused, Done} \cup Thread]
        BY <3>1, <3>2
      <3>4. \A c \in Conns : thread'[c] = IF thread[c].at = "backlog" THEN Done ELSE thread[c]
        BY <3>1
      <3>5. \A c \in Conns : thread'[c] = thread[c]
                             \/ (thread[c].at = "backlog" /\ thread'[c] = Done)
        BY <3>4
      <3> QED BY <3>3, <3>5
    <2>2. CASE StartListener \/ Joined \/ ToggleLive \/ AcceptLoopEnds
      <3>1. thread' = thread
        BY <2>2 DEF StartListener, Joined, ToggleLive, AcceptLoopEnds, others
      <3>2. thread \in [Conns -> {Unused, Done} \cup Thread]
        BY <1>0 DEF TypeOK
      <3>3. thread' \in [Conns -> {Unused, Done} \cup Thread]
        BY <3>1, <3>2
      <3>4. \A c \in Conns : thread'[c] = thread[c]
        BY <3>1
      <3> QED BY <3>3, <3>4
    <2> QED BY <2>1, <2>2
  <1>4. TypeOK'
    <2>1. UNCHANGED <<position, working, bracket>>
      BY <1>1 DEF account
    <2>2. \A c \in Conns : thread'[c].at = "submit" => thread'[c].order \in MarketOrder
      BY <1>0, <1>3 DEF TypeOK, Done
    <2> QED BY <1>0, <1>1, <1>2, <1>3, <2>1, <2>2 DEF TypeOK
  <1> QED BY <1>1, <1>3, <1>4, PanelStep

-----------------------------------------------------------------------------
(* The steps of a thread up to its order.                                   *)
LEMMA ThreadStep ==
  ASSUME IInv, NEW c \in Conns,
         \/ \E cmd \in Command : Connect(c, cmd)
         \/ Accept(c) \/ Loop(c) \/ ReadLine(c) \/ Validate(c) \/ CheckLive(c)
         \/ SubmitFails(c)
  PROVE  IInv'
  <1>0. TypeOK
    BY DEF IInv
  <1>1. /\ UNCHANGED <<recent, account, placed>> /\ UNCHANGED panel
        /\ UNCHANGED overlapped
    BY DEF Connect, Accept, Loop, ReadLine, Validate, CheckLive, SubmitFails
  <1>2. (~overlapped' => ~overlapped) /\ overlapped' \in BOOLEAN
    BY <1>0, <1>1 DEF TypeOK
  <1>3. CASE \E cmd \in Command : Connect(c, cmd)
    <2>1. PICK cmd \in Command : Connect(c, cmd)
      BY <1>3
    <2> DEFINE next == [at |-> "backlog", cmd |-> cmd, order |-> NoOrder, inWindow |-> TRUE]
    <2>2. next \in Thread /\ next.at = "backlog"
      BY DEF Thread
    <2>3. thread' = [thread EXCEPT ![c] = next] /\ thread[c] # Done
      BY <2>1 DEF Connect, Unused, Done
    <2> HIDE DEF next
    <2> QED BY <1>1, <1>2, <2>2, <2>3, MoveStep
  <1>4. ASSUME NEW where \in {"loop", "reading", "validate", "dedupe", "execute"},
               Goes(c, where), thread[c].at \notin {"unused", "done"},
               where = "execute" => thread[c].at = "live"
        PROVE  IInv'
    <2> DEFINE next == [thread[c] EXCEPT !.at = where]
    <2>1. thread[c] \in Thread /\ thread[c] # Done
      BY <1>0, <1>4, ThreadType DEF Done
    <2>2. /\ next \in Thread /\ next.at = where
          /\ next.cmd = thread[c].cmd /\ next.inWindow = thread[c].inWindow
      BY <2>1 DEF Thread
    <2>3. thread' = [thread EXCEPT ![c] = next]
      BY <1>4 DEF Goes
    <2> HIDE DEF next
    <2> QED BY <1>1, <1>2, <1>4, <2>1, <2>2, <2>3, MoveStep
  <1>5. ASSUME Ends(c), thread[c].at # "done"
        PROVE  IInv'
    <2>1. thread' = [thread EXCEPT ![c] = Done] /\ thread[c] # Done /\ Done.at = "done"
      BY <1>5 DEF Ends, Done
    <2> QED BY <1>1, <1>2, <2>1, MoveStep
  <1> QED
    BY <1>3, <1>4, <1>5 DEF Accept, Loop, ReadLine, Validate, CheckLive, SubmitFails

(* The check of the cache.                                                  *)
LEMMA AcceptStep == ASSUME IInv, NEW c \in Conns, TryAccept(c) PROVE IInv'
  <1> DEFINE id == thread[c].cmd.id
  <1>0. /\ TypeOK /\ thread[c] \in Thread /\ thread[c].at = "dedupe" /\ id \in Ids
        /\ thread[c] # Done
    BY ThreadType DEF IInv, TryAccept, Thread, Command, Done
  <1>1. CASE Seen(id)
    <2>1. /\ Ends(c) /\ recent' = recent
          /\ UNCHANGED <<panel, account, placed, overlapped>>
      BY <1>1 DEF TryAccept, Seen
    <2>2. (~overlapped' => ~overlapped) /\ overlapped' \in BOOLEAN
      BY <1>0, <2>1 DEF TypeOK
    <2>3. thread' = [thread EXCEPT ![c] = Done] /\ Done.at = "done"
      BY <2>1 DEF Ends, Done
    <2> QED BY <1>0, <2>1, <2>2, <2>3, MoveStep
  <1>2. CASE ~Seen(id)
    <2> DEFINE next == [thread[c] EXCEPT !.at = "live"]
    <2>1. /\ thread' = [thread EXCEPT ![c] = next] /\ recent' = recent \cup {id}
          /\ UNCHANGED <<running, ui, acceptor, live, quantity, toggles, position,
                         working, bracket, placed, overlapped>>
          /\ id \notin recent
      BY <1>2 DEF TryAccept, Seen, Goes, panel, account
    <2>2. /\ next \in Thread /\ next.at = "live" /\ next # Done
          /\ next.cmd = thread[c].cmd /\ next.inWindow = thread[c].inWindow
      BY <1>0 DEF Thread, Done
    <2>3. \A d \in Conns : thread'[d] = IF d = c THEN next ELSE thread[d]
      BY <1>0, <2>1 DEF TypeOK
    <2> HIDE DEF next, id
    <2>4. TypeOK'
      <3>1. thread' \in [Conns -> {Unused, Done} \cup Thread]
        BY <1>0, <2>1, <2>2 DEF TypeOK
      <3>2. \A d \in Conns : thread'[d].at = "submit" => thread'[d].order \in MarketOrder
        BY <1>0, <2>2, <2>3 DEF TypeOK
      <3> QED BY <1>0, <2>1, <3>1, <3>2 DEF TypeOK
    <2>5. OneOrderPerId'
      BY <2>1 DEF IInv, OneOrderPerId
    <2>6. IdsAreSpent'
      <3>1. placed[id] = 0
        BY <1>0, <2>1 DEF IInv, IdsAreSpent, TypeOK
      <3>2. \A d \in Conns \ {c} : (Past(d)' <=> Past(d)) /\ thread'[d] = thread[d]
        BY <2>3 DEF Past
      <3>3. \A d \in Conns \ {c} : Past(d) => /\ thread[d].cmd.id # id
                                             /\ thread[d].cmd.id \in recent
                                             /\ placed[thread[d].cmd.id] = 0
        BY <2>1 DEF IInv, IdsAreSpent
      <3>4. thread'[c].cmd.id = id
        BY <2>2, <2>3 DEF id
      <3>5. \A x \in Ids : placed'[x] > 0 => x \in recent'
        BY <2>1 DEF IInv, IdsAreSpent
      <3>6. \A d \in Conns : Past(d)' =>
              /\ thread'[d].cmd.id \in recent' /\ placed'[thread'[d].cmd.id] = 0
              /\ \A e \in Conns : Past(e)' /\ thread'[e].cmd.id = thread'[d].cmd.id => e = d
        <4>1. \A d \in Conns : Past(d)' => thread'[d].cmd.id \in recent' /\ placed'[thread'[d].cmd.id] = 0
          BY <2>1, <3>1, <3>2, <3>3, <3>4
        <4>2. \A d, e \in Conns : Past(d)' /\ Past(e)' /\ thread'[e].cmd.id = thread'[d].cmd.id => e = d
          BY <3>2, <3>3, <3>4 DEF IInv, IdsAreSpent
        <4> QED BY <4>1, <4>2
      <3> QED BY <3>5, <3>6 DEF IdsAreSpent
    <2>7. \A d \in Conns : OnItsWay(d)' <=> OnItsWay(d)
      BY <1>0, <2>1, <2>2, <2>3 DEF OnItsWay
    <2>8. \A d \in Conns : thread'[d].at = "submit" => thread'[d] = thread[d]
      BY <2>2, <2>3
    <2>9. OneOnItsWay'
      BY <2>1, <2>7, <2>8 DEF IInv, OneOnItsWay
    <2>10. OrdersAreSubmitted'
      BY <1>0, <2>1, <2>3 DEF IInv, OrdersAreSubmitted
    <2> QED BY <2>4, <2>5, <2>6, <2>9, <2>10 DEF IInv
  <1> QED BY <1>1, <1>2

-----------------------------------------------------------------------------
(* An order is decided on: it is exact at the position it was decided for.  *)
LEMMA OrderFacts ==
  ASSUME TypeOK, NEW action \in Actions \ {"FLATTEN"}, ~Ignored(action)
  PROVE  OrderFor(action) \in MarketOrder /\ Exact(OrderFor(action), position)
  <1>1. quantity \in Int /\ quantity > 0 /\ position \in Int
    BY ListenerAssumption DEF TypeOK, ListenerAssumption
  <1>2. CASE action = "BUY"
    <2>1. OrderFor(action) = [size |-> quantity, exit |-> FALSE]
      BY <1>2 DEF OrderFor, Entries
    <2>2. position <= 0
      BY <1>1, <1>2 DEF Ignored
    <2> QED BY <1>1, <2>1, <2>2 DEF MarketOrder, Exact
  <1>3. CASE action = "SELL"
    <2>1. OrderFor(action) = [size |-> -quantity, exit |-> FALSE]
      BY <1>3 DEF OrderFor, Entries
    <2>2. position >= 0
      BY <1>1, <1>3 DEF Ignored
    <2> QED BY <1>1, <2>1, <2>2 DEF MarketOrder, Exact
  <1>4. CASE action \in {"EXIT_LONG", "EXIT_SHORT"}
    <2>1. OrderFor(action) = [size |-> -position, exit |-> TRUE]
      BY <1>4 DEF OrderFor, Entries
    <2>2. position # 0
      BY <1>4 DEF Ignored
    <2> QED BY <1>1, <2>1, <2>2 DEF MarketOrder, Exact
  <1> QED BY <1>2, <1>3, <1>4 DEF Actions

LEMMA DecideStep == ASSUME IInv, NEW c \in Conns, Decide(c) PROVE IInv'
  <1> DEFINE action == thread[c].cmd.action
             next   == [thread[c] EXCEPT !.at = "submit", !.order = OrderFor(action)]
  <1>0. /\ TypeOK /\ thread[c] \in Thread /\ thread[c].at = "execute"
        /\ action \in Actions \ {"FLATTEN"} /\ thread[c] # Done
    BY ThreadType DEF IInv, Decide, Thread, Command, Done
  <1>1. /\ UNCHANGED <<panel, recent, account, placed>>
        /\ overlapped' = (overlapped \/ \E d \in Conns \ {c} : OnItsWay(d))
    BY DEF Decide, Overlaps
  <1>2. overlapped' \in BOOLEAN
    BY <1>1, Zenon
  <1>3. ~overlapped' => ~overlapped /\ \A d \in Conns \ {c} : ~OnItsWay(d)
    BY <1>1, Zenon
  <1>4. CASE Ignored(action)
    <2>1. thread' = [thread EXCEPT ![c] = Done] /\ Done.at = "done"
      BY <1>4 DEF Decide, Ends, Done
    <2> QED BY <1>0, <1>1, <1>2, <1>3, <2>1, MoveStep
  <1>5. CASE ~Ignored(action)
    <2>1. thread' = [thread EXCEPT ![c] = next]
      BY <1>0, <1>5 DEF Decide, Thread
    <2>2. OrderFor(action) \in MarketOrder /\ Exact(OrderFor(action), position)
      BY <1>0, <1>5, OrderFacts
    <2>3. /\ next \in Thread /\ next.at = "submit" /\ next.order = OrderFor(action)
          /\ next.cmd = thread[c].cmd /\ next.inWindow = thread[c].inWindow /\ next # Done
      BY <1>0, <2>2 DEF Thread, Done
    <2>4. \A d \in Conns : thread'[d] = IF d = c THEN next ELSE thread[d]
      BY <1>0, <2>1 DEF TypeOK
    <2> HIDE DEF next, action
    <2>5. UNCHANGED <<running, ui, acceptor, live, quantity, toggles, recent, position,
                      working, bracket, placed>>
      BY <1>1 DEF panel, account
    <2>6. TypeOK'
      <3>1. thread' \in [Conns -> {Unused, Done} \cup Thread]
        BY <1>0, <2>1, <2>3 DEF TypeOK
      <3>2. \A d \in Conns : thread'[d].at = "submit" => thread'[d].order \in MarketOrder
        BY <1>0, <2>2, <2>3, <2>4 DEF TypeOK
      <3> QED BY <1>0, <1>2, <2>5, <3>1, <3>2 DEF TypeOK
    <2>7. \A d \in Conns : (Past(d)' <=> Past(d)) /\ thread'[d].cmd = thread[d].cmd
      BY <1>0, <2>3, <2>4 DEF Past
    <2>8. OneOrderPerId' /\ IdsAreSpent'
      BY <2>5, <2>7 DEF IInv, OneOrderPerId, IdsAreSpent
    <2>9. \A d \in Conns \ {c} : (OnItsWay(d)' <=> OnItsWay(d)) /\ thread'[d] = thread[d]
      BY <2>4, <2>5 DEF OnItsWay
    <2>10. working[c] = NoOrder
      BY <1>0 DEF IInv, OrdersAreSubmitted
    <2>11. OneOnItsWay'
      <3> SUFFICES ASSUME ~overlapped', NEW d \in Conns
                   PROVE  /\ thread'[d].at = "submit" => Exact(thread'[d].order, position')
                          /\ working'[d] # NoOrder => Exact(working'[d], position')
                          /\ OnItsWay(d)' => \A e \in Conns \ {d} : ~OnItsWay(e)'
        BY DEF OneOnItsWay
      <3>1. CASE d = c
        BY <1>3, <2>2, <2>3, <2>4, <2>5, <2>9, <2>10, <3>1
      <3>2. CASE d # c
        <4>1. ~OnItsWay(d)
          BY <1>3, <3>2
        <4> QED BY <2>5, <2>9, <3>2, <4>1 DEF OnItsWay
      <3> QED BY <3>1, <3>2
    <2>12. OrdersAreSubmitted'
      BY <1>0, <2>4, <2>5 DEF IInv, OrdersAreSubmitted
    <2> QED BY <2>6, <2>8, <2>11, <2>12 DEF IInv
  <1> QED BY <1>4, <1>5

(* A thread past its check has its id to itself, so what it places is the   *)
(* only thing its id has led to.                                            *)
LEMMA PlacesStep ==
  ASSUME IInv, NEW c \in Conns, thread[c].at \in {"execute", "submit"}, Places(c), Ends(c),
         UNCHANGED recent
  PROVE  placed' \in [Ids -> Nat] /\ OneOrderPerId' /\ IdsAreSpent'
  <1> DEFINE cmd == thread[c].cmd
  <1>0. TypeOK /\ thread[c] \in Thread /\ cmd.id \in Ids /\ thread[c].inWindow \in BOOLEAN
    <2>1. TypeOK
      BY DEF IInv
    <2>2. thread[c] \in Thread
      BY <2>1, ThreadType
    <2> QED BY <2>1, <2>2 DEF Thread, Command
  <1>1. /\ recent' = recent /\ thread' = [thread EXCEPT ![c] = Done]
        /\ placed' = [placed EXCEPT ![cmd.id] =
                          IF thread[c].inWindow THEN placed[cmd.id] + 1 ELSE placed[cmd.id]]
    BY DEF Places, Ends
  <1>2. placed' \in [Ids -> Nat]
    BY <1>0, <1>1 DEF TypeOK
  <1>3. \A d \in Conns : thread'[d] = IF d = c THEN Done ELSE thread[d]
    BY <1>0, <1>1 DEF TypeOK
  <1>4. \A id \in Ids : placed'[id] = IF id = cmd.id /\ thread[c].inWindow
                                      THEN placed[id] + 1 ELSE placed[id]
    BY <1>0, <1>1 DEF TypeOK
  <1>5. thread[c].inWindow => /\ Past(c) /\ placed[cmd.id] = 0 /\ cmd.id \in recent
    BY <1>0 DEF IInv, IdsAreSpent, Past
  <1> HIDE DEF cmd
  <1>6. OneOrderPerId'
    BY <1>4, <1>5 DEF IInv, OneOrderPerId
  <1>7. IdsAreSpent'
    <2>1. \A d \in Conns : Past(d)' => d # c /\ Past(d) /\ thread'[d] = thread[d]
      BY <1>3 DEF Past, Done
    <2>2. \A d \in Conns : Past(d)' => placed'[thread'[d].cmd.id] = 0 /\ thread[d].cmd.id \in Ids
      <3> SUFFICES ASSUME NEW d \in Conns, d # c, Past(d), thread'[d] = thread[d]
                   PROVE  placed'[thread[d].cmd.id] = 0 /\ thread[d].cmd.id \in Ids
        BY <2>1
      <3>1. thread[d] \in Thread
        BY <1>0, ThreadType DEF Past
      <3>2. thread[d].cmd.id \in Ids /\ placed[thread[d].cmd.id] = 0
        BY <3>1 DEF IInv, IdsAreSpent, Thread, Command
      <3>3. thread[d].cmd.id = cmd.id => ~thread[c].inWindow
        BY <1>5 DEF IInv, IdsAreSpent, cmd
      <3> QED BY <1>4, <3>2, <3>3
    <2>3. \A id \in Ids : placed'[id] > 0 => id \in recent'
      BY <1>1, <1>4, <1>5 DEF IInv, IdsAreSpent
    <2> QED BY <1>1, <2>1, <2>2, <2>3 DEF IInv, IdsAreSpent
  <1> QED BY <1>2, <1>6, <1>7

(* FLATTEN leaves one order, which closes the position.                     *)
LEMMA FlattenStep == ASSUME IInv, NEW c \in Conns, Flatten(c) PROVE IInv'
  <1> DEFINE close == OrderFor("FLATTEN")
  <1>0. TypeOK /\ thread[c].at = "execute" /\ position \in Int
    BY DEF IInv, Flatten, TypeOK
  <1>1. /\ UNCHANGED <<running, ui, acceptor, live, quantity, toggles, recent, position>>
        /\ overlapped' = (overlapped \/ \E d \in Conns \ {c} : OnItsWay(d))
        /\ Places(c) /\ Ends(c)
    BY DEF Flatten, Overlaps, panel
  <1>2. overlapped' \in BOOLEAN
    BY <1>1, Zenon
  <1>3. ~overlapped' => \A d \in Conns \ {c} : ~OnItsWay(d)
    BY <1>1, Zenon
  <1>c. /\ close = [size |-> -position, exit |-> TRUE]
        /\ position # 0 => close \in MarketOrder
        /\ Exact(close, position)
    <2>1. "FLATTEN" \in Actions \ Entries /\ "FLATTEN" # "BUY" /\ "FLATTEN" # "SELL"
      BY DEF Actions, Entries
    <2>2. close = [size |-> -position, exit |-> TRUE]
      BY <2>1 DEF OrderFor
    <2> HIDE DEF close
    <2> QED BY <1>0, <2>2 DEF MarketOrder, Exact
  <1>4. \A d \in Conns : /\ thread'[d] = IF d = c THEN Done ELSE thread[d]
                         /\ working'[d] = IF d = c /\ position # 0 THEN close ELSE NoOrder
                         /\ bracket'[d] = 0
    BY <1>0 DEF Flatten, Ends, TypeOK
  <1>w. working' \in [Conns -> {NoOrder} \cup MarketOrder] /\ bracket' \in [Conns -> Int]
    <2>1. working' = [d \in Conns |-> IF d = c /\ position # 0 THEN close ELSE NoOrder]
          /\ bracket' = [d \in Conns |-> 0]
      BY DEF Flatten
    <2> HIDE DEF close
    <2> QED BY <1>c, <2>1
  <1> HIDE DEF close
  <1>5. placed' \in [Ids -> Nat] /\ OneOrderPerId' /\ IdsAreSpent'
    BY <1>0, <1>1, PlacesStep
  <1>6. TypeOK'
    <2>1. thread' \in [Conns -> {Unused, Done} \cup Thread]
      BY <1>0 DEF Flatten, Ends, TypeOK
    <2>2. \A d \in Conns : thread'[d].at = "submit" => thread'[d].order \in MarketOrder
      BY <1>0, <1>4 DEF TypeOK, Done
    <2> QED BY <1>0, <1>1, <1>2, <1>5, <1>w, <2>1, <2>2 DEF TypeOK
  <1>8. OneOnItsWay'
    <2>1. ~overlapped' => \A d \in Conns \ {c} : ~OnItsWay(d)'
      BY <1>3, <1>4 DEF OnItsWay
    <2>2. thread'[c].at # "submit" /\ (working'[c] # NoOrder => Exact(working'[c], position'))
      BY <1>1, <1>4, <1>c DEF Done
    <2> QED BY <2>1, <2>2 DEF OneOnItsWay, OnItsWay
  <1>9. OrdersAreSubmitted'
    BY <1>4 DEF IInv, OrdersAreSubmitted
  <1> QED BY <1>5, <1>6, <1>8, <1>9 DEF IInv

LEMMA SubmitStep == ASSUME IInv, NEW c \in Conns, Submit(c) PROVE IInv'
  <1> DEFINE cmd == thread[c].cmd
             order == thread[c].order
  <1>0. /\ TypeOK /\ thread[c] \in Thread /\ thread[c].at = "submit" /\ thread[c] # Done
        /\ cmd.id \in Ids /\ order \in MarketOrder
        /\ thread[c].inWindow \in BOOLEAN
    <2>1. TypeOK /\ thread[c].at = "submit"
      BY DEF IInv, Submit
    <2>2. thread[c] \in Thread
      BY <2>1, ThreadType
    <2> QED BY <2>1, <2>2 DEF TypeOK, Thread, Command, Done
  <1>1. /\ UNCHANGED <<running, ui, acceptor, live, quantity, toggles, recent, position,
                       overlapped>>
        /\ working' = [working EXCEPT ![c] = order]
        /\ thread' = [thread EXCEPT ![c] = Done]
        /\ bracket' = [bracket EXCEPT ![c] = IF cmd.ticks THEN -order.size ELSE bracket[c]]
        /\ Places(c) /\ Ends(c)
    BY DEF Submit, Ends, panel
  <1>2. order # NoOrder /\ order.size \in Int
    BY <1>0 DEF MarketOrder, NoOrder
  <1>3. \A d \in Conns : /\ thread'[d] = IF d = c THEN Done ELSE thread[d]
                         /\ working'[d] = IF d = c THEN order ELSE working[d]
                         /\ d # c => bracket'[d] = bracket[d]
    BY <1>0, <1>1 DEF TypeOK
  <1>4. placed' \in [Ids -> Nat] /\ OneOrderPerId' /\ IdsAreSpent'
    BY <1>0, <1>1, PlacesStep
  <1> HIDE DEF cmd, order
  <1>6. TypeOK'
    <2>1. thread' \in [Conns -> {Unused, Done} \cup Thread]
      BY <1>0, <1>1 DEF TypeOK
    <2>2. working' \in [Conns -> {NoOrder} \cup MarketOrder]
      BY <1>0, <1>1 DEF TypeOK
    <2>3. bracket' \in [Conns -> Int]
      BY <1>0, <1>1, <1>2 DEF TypeOK
    <2>4. \A d \in Conns : thread'[d].at = "submit" => thread'[d].order \in MarketOrder
      BY <1>0, <1>3 DEF TypeOK, Done
    <2> QED BY <1>0, <1>1, <1>4, <2>1, <2>2, <2>3, <2>4 DEF TypeOK
  <1>9. OneOnItsWay'
    <2> SUFFICES ASSUME ~overlapped, NEW d \in Conns
                 PROVE  /\ thread'[d].at = "submit" => Exact(thread'[d].order, position')
                        /\ working'[d] # NoOrder => Exact(working'[d], position')
                        /\ OnItsWay(d)' => \A e \in Conns \ {d} : ~OnItsWay(e)'
      BY <1>1 DEF OneOnItsWay
    <2>1. OnItsWay(c) /\ Exact(order, position)
      BY <1>0 DEF IInv, OneOnItsWay, OnItsWay, order
    <2>2. \A e \in Conns \ {c} : ~OnItsWay(e)
      BY <2>1 DEF IInv, OneOnItsWay
    <2>3. \A e \in Conns \ {c} : ~OnItsWay(e)' /\ thread'[e] = thread[e] /\ working'[e] = NoOrder
      BY <1>3, <2>2 DEF OnItsWay
    <2>4. CASE d = c
      BY <1>1, <1>3, <2>1, <2>3, <2>4 DEF Done
    <2>5. CASE d # c
      BY <2>2, <2>3, <2>5 DEF OnItsWay
    <2> QED BY <2>4, <2>5
  <1>10. OrdersAreSubmitted'
    BY <1>3 DEF IInv, OrdersAreSubmitted
  <1> QED BY <1>4, <1>6, <1>9, <1>10 DEF IInv

-----------------------------------------------------------------------------
(* What fills was the only thing on its way, or something has overlapped.   *)
LEMMA FillStep == ASSUME IInv, NEW c \in Conns, Fill(c) PROVE IInv'
  <1>0. TypeOK /\ working[c] # NoOrder
    BY DEF IInv, Fill
  <1>1. /\ UNCHANGED <<running, ui, acceptor, live, quantity, toggles, recent, thread,
                       bracket, placed, overlapped>>
        /\ position' = position + working[c].size
        /\ working' = [working EXCEPT ![c] = NoOrder]
    BY DEF Fill, panel
  <1>2. \A d \in Conns : working'[d] = IF d = c THEN NoOrder ELSE working[d]
    BY <1>0, <1>1 DEF TypeOK
  <1>3. TypeOK'
    <2>1. working[c] \in MarketOrder
      BY <1>0 DEF TypeOK
    <2>2. position' \in Int
      BY <1>0, <1>1, <2>1 DEF TypeOK, MarketOrder
    <2>3. working' \in [Conns -> {NoOrder} \cup MarketOrder]
      BY <1>0, <1>1 DEF TypeOK
    <2> QED BY <1>0, <1>1, <2>2, <2>3 DEF TypeOK
  <1>4. OneOrderPerId' /\ IdsAreSpent'
    BY <1>1 DEF IInv, OneOrderPerId, IdsAreSpent, Past
  <1>5. OneOnItsWay'
    <2> SUFFICES ASSUME ~overlapped, NEW d \in Conns
                 PROVE  /\ thread'[d].at = "submit" => Exact(thread'[d].order, position')
                        /\ working'[d] # NoOrder => Exact(working'[d], position')
                        /\ OnItsWay(d)' => \A e \in Conns \ {d} : ~OnItsWay(e)'
      BY <1>1 DEF OneOnItsWay
    <2>1. \A e \in Conns \ {c} : ~OnItsWay(e)
      BY <1>0 DEF IInv, OneOnItsWay, OnItsWay
    <2>2. \A e \in Conns \ {c} : ~OnItsWay(e)'
      BY <1>1, <1>2, <2>1 DEF OnItsWay
    <2>3. thread[c].at # "submit"
      BY <1>0 DEF IInv, OrdersAreSubmitted, Done
    <2>4. CASE d = c
      BY <1>1, <1>2, <2>2, <2>3, <2>4
    <2>5. CASE d # c
      BY <1>1, <1>2, <2>1, <2>2, <2>5 DEF OnItsWay
    <2> QED BY <2>4, <2>5
  <1>6. OrdersAreSubmitted'
    BY <1>1, <1>2 DEF IInv, OrdersAreSubmitted
  <1> QED BY <1>3, <1>4, <1>5, <1>6 DEF IInv

LEMMA BracketStep == ASSUME IInv, NEW c \in Conns, BracketFills(c) PROVE IInv'
  <1>0. TypeOK /\ bracket[c] # 0 /\ working[c] = NoOrder
    BY DEF IInv, BracketFills
  <1>1. /\ UNCHANGED <<running, ui, acceptor, live, quantity, toggles, recent, thread,
                       working, placed, overlapped>>
        /\ position' = position + bracket[c]
        /\ bracket' = [bracket EXCEPT ![c] = 0]
    BY DEF BracketFills, panel
  <1>2. \A d \in Conns : bracket'[d] = IF d = c THEN 0 ELSE bracket[d]
    BY <1>0, <1>1 DEF TypeOK
  <1>3. TypeOK'
    <2>1. position' \in Int
      BY <1>0, <1>1 DEF TypeOK
    <2>2. bracket' \in [Conns -> Int]
      BY <1>0, <1>1 DEF TypeOK
    <2> QED BY <1>0, <1>1, <2>1, <2>2 DEF TypeOK
  <1>4. OneOrderPerId' /\ IdsAreSpent'
    BY <1>1 DEF IInv, OneOrderPerId, IdsAreSpent, Past
  <1>5. OneOnItsWay'
    <2>1. thread[c].at # "submit"
      BY <1>0 DEF IInv, OrdersAreSubmitted, Done
    <2>2. ~overlapped => \A e \in Conns \ {c} : ~OnItsWay(e)
      BY <1>0 DEF IInv, OneOnItsWay, OnItsWay
    <2>3. ~overlapped' => \A e \in Conns : ~OnItsWay(e)'
      BY <1>0, <1>1, <1>2, <2>1, <2>2 DEF OnItsWay
    <2> QED BY <2>3 DEF OneOnItsWay, OnItsWay
  <1>6. OrdersAreSubmitted'
    BY <1>1, <1>2 DEF IInv, OrdersAreSubmitted
  <1> QED BY <1>3, <1>4, <1>5, <1>6 DEF IInv

(* The window of an id passes: nobody is past its check in it any more.     *)
LEMMA WindowStep == ASSUME IInv, NEW id \in Ids, WindowPasses(id) PROVE IInv'
  <1> DEFINE caught(c) == /\ thread[c].at \in {"live", "execute", "submit"}
                          /\ thread[c].cmd.id = id
             late(c) == [thread[c] EXCEPT !.inWindow = FALSE]
  <1>0. TypeOK
    BY DEF IInv
  <1>1. /\ UNCHANGED <<running, ui, acceptor, live, quantity, toggles, position, working,
                       bracket, overlapped>>
        /\ recent' = recent \ {id} /\ placed' = [placed EXCEPT ![id] = 0]
        /\ thread' = [c \in Conns |-> IF caught(c) THEN late(c) ELSE thread[c]]
    BY DEF WindowPasses, panel, account
  <1>2. \A c \in Conns : caught(c) =>
          /\ late(c) \in Thread /\ late(c).at = thread[c].at /\ late(c).cmd = thread[c].cmd
          /\ late(c).order = thread[c].order /\ late(c).inWindow = FALSE
          /\ late(c) # Done /\ thread[c] # Done
    <2> SUFFICES ASSUME NEW c \in Conns, caught(c)
                 PROVE  /\ late(c) \in Thread /\ late(c).at = thread[c].at
                        /\ late(c).cmd = thread[c].cmd /\ late(c).order = thread[c].order
                        /\ late(c).inWindow = FALSE /\ late(c) # Done /\ thread[c] # Done
      OBVIOUS
    <2>1. thread[c] \in Thread /\ thread[c].at # "done"
      BY <1>0, ThreadType
    <2>2. /\ late(c) \in Thread /\ late(c).at = thread[c].at /\ late(c).cmd = thread[c].cmd
          /\ late(c).order = thread[c].order /\ late(c).inWindow = FALSE
      BY <2>1 DEF Thread
    <2> HIDE DEF late
    <2>3. late(c) # Done /\ thread[c] # Done
      BY <2>1, <2>2 DEF Done
    <2> QED BY <2>2, <2>3
  <1>3. \A c \in Conns : thread'[c] = IF caught(c) THEN late(c) ELSE thread[c]
    BY <1>1
  <1>4. \A x \in Ids : placed'[x] = IF x = id THEN 0 ELSE placed[x]
    BY <1>0, <1>1 DEF TypeOK
  <1> HIDE DEF late
  <1>5. \A c \in Conns : /\ thread'[c].at = thread[c].at
                         /\ (thread'[c] = Done <=> thread[c] = Done)
                         /\ thread[c].at = "submit" => thread'[c].order = thread[c].order
    BY <1>2, <1>3
  <1>6. TypeOK'
    <2>1. thread \in [Conns -> {Unused, Done} \cup Thread]
      BY <1>0 DEF TypeOK
    <2>2. thread' \in [Conns -> {Unused, Done} \cup Thread]
      BY <1>1, <1>2, <2>1
    <2>3. placed' \in [Ids -> Nat] /\ recent' \subseteq Ids
      BY <1>0, <1>1 DEF TypeOK
    <2>4. \A c \in Conns : thread'[c].at = "submit" => thread'[c].order \in MarketOrder
      BY <1>0, <1>5 DEF TypeOK
    <2> QED BY <1>0, <1>1, <2>2, <2>3, <2>4 DEF TypeOK
  <1>7. OneOrderPerId'
    BY <1>4 DEF IInv, OneOrderPerId
  <1>8. IdsAreSpent'
    <2>1. \A c \in Conns : Past(c)' => /\ Past(c) /\ thread'[c] = thread[c]
                                        /\ thread[c].cmd.id \in Ids \ {id}
      <3> SUFFICES ASSUME NEW c \in Conns, Past(c)'
                   PROVE  Past(c) /\ thread'[c] = thread[c] /\ thread[c].cmd.id \in Ids \ {id}
        OBVIOUS
      <3>1. ~caught(c)
        BY <1>2, <1>3 DEF Past
      <3>2. thread'[c] = thread[c] /\ Past(c)
        BY <1>3, <3>1 DEF Past
      <3>3. thread[c] \in Thread
        BY <1>0, <3>2, ThreadType DEF Past
      <3> QED BY <3>1, <3>2, <3>3 DEF Past, Thread, Command
    <2>2. \A x \in Ids : placed'[x] > 0 => x \in recent'
      BY <1>1, <1>4 DEF IInv, IdsAreSpent
    <2>3. \A c \in Conns : Past(c)' =>
            thread'[c].cmd.id \in recent' /\ placed'[thread'[c].cmd.id] = 0
      BY <1>1, <1>4, <2>1 DEF IInv, IdsAreSpent
    <2>4. \A c, d \in Conns : Past(c)' /\ Past(d)' /\ thread'[d].cmd.id = thread'[c].cmd.id
                              => d = c
      BY <2>1 DEF IInv, IdsAreSpent
    <2> QED BY <2>2, <2>3, <2>4 DEF IdsAreSpent
  <1>9. \A c \in Conns : OnItsWay(c)' <=> OnItsWay(c)
    BY <1>1, <1>5 DEF OnItsWay
  <1>10. OneOnItsWay'
    BY <1>1, <1>5, <1>9 DEF IInv, OneOnItsWay
  <1>11. OrdersAreSubmitted'
    BY <1>1, <1>5 DEF IInv, OrdersAreSubmitted
  <1> QED BY <1>6, <1>7, <1>8, <1>10, <1>11 DEF IInv

LEMMA Step == IInv /\ [Next]_vars => IInv'
  <1> SUFFICES ASSUME IInv, [Next]_vars PROVE IInv'
    OBVIOUS
  <1>1. CASE StartListener \/ StopListener \/ Joined \/ ToggleLive \/ AcceptLoopEnds
    BY <1>1, ClicksStep
  <1>2. ASSUME NEW c \in Conns, \E cmd \in Command : cmd.ticks \in Ticks /\ Connect(c, cmd)
        PROVE  IInv'
    BY <1>2, ThreadStep
  <1>3. ASSUME NEW c \in Conns, Accept(c) PROVE IInv'
    BY <1>3, ThreadStep
  <1>4. ASSUME NEW c \in Conns, Client(c) PROVE IInv'
    BY <1>4, ThreadStep, AcceptStep, DecideStep, FlattenStep, SubmitStep DEF Client
  <1>5. ASSUME NEW c \in Conns, Fill(c) \/ BracketFills(c) PROVE IInv'
    BY <1>5, FillStep, BracketStep
  <1>6. ASSUME NEW id \in Ids, WindowPasses(id) PROVE IInv'
    BY <1>6, WindowStep
  <1>7. CASE UNCHANGED vars
    BY <1>7 DEF IInv, TypeOK, OneOrderPerId, IdsAreSpent, Past, OneOnItsWay, OnItsWay,
       OrdersAreSubmitted, vars
  <1> QED BY <1>1, <1>2, <1>3, <1>4, <1>5, <1>6, <1>7 DEF Next

(* The inductive invariant: what an id has led to is remembered, a thread   *)
(* past its check has its id to itself, and while no command was decided on *)
(* top of another, one order or bracket at most is on its way.              *)
THEOREM Invariant == Spec => []IInv
  BY InitHolds, Step, PTL DEF Spec

(* The threads that check the cache of the add-on and submit orders, in     *)
(* whatever order they run, place one order per id and window: the lock of  *)
(* TryAccept is the only thing between two copies of an alert.              *)
THEOREM OneOrder == Spec => []OneOrderPerId
  <1>1. IInv => OneOrderPerId
    BY DEF IInv
  <1> QED BY <1>1, Invariant, PTL

(* An order is filled by the account; a FLATTEN may also cancel it, and     *)
(* then two commands overlapped.                                            *)
LEMMA FilledExactly ==
  ASSUME IInv, [Next]_vars, NEW c \in Conns, Filled(c), ~overlapped'
  PROVE  IF working[c].exit THEN position' = 0 ELSE AddsNothing(c)
  <1>0. TypeOK /\ working[c] # NoOrder /\ working'[c] = NoOrder
    BY DEF IInv, Filled
  <1>1. CASE Fill(c)
    <2>1. position' = position + working[c].size /\ ~overlapped
      BY <1>1 DEF Fill
    <2>2. Exact(working[c], position)
      BY <1>0, <2>1 DEF IInv, OneOnItsWay
    <2>3. working[c].size \in Int /\ position \in Int
      BY <1>0 DEF TypeOK, MarketOrder
    <2> QED BY <2>1, <2>2, <2>3 DEF Exact, AddsNothing
  <1>2. ASSUME NEW d \in Conns, Fill(d) PROVE Fill(c)
    <2>1. working'[c] = IF c = d THEN NoOrder ELSE working[c]
      BY <1>0, <1>2 DEF Fill, TypeOK
    <2> QED BY <1>0, <1>2, <2>1
  <1>3. ASSUME NEW d \in Conns, Flatten(d) PROVE FALSE
    <2>1. thread[c] = Done /\ thread[d].at = "execute"
      BY <1>0, <1>3 DEF IInv, OrdersAreSubmitted, Flatten
    <2>2. c # d /\ OnItsWay(c)
      BY <1>0, <2>1 DEF Done, OnItsWay
    <2> QED BY <1>3, <2>2 DEF Flatten, Overlaps
  <1>4. ASSUME NEW d \in Conns, Submit(d) PROVE FALSE
    <2>1. thread[c] = Done /\ thread[d].at = "submit"
      BY <1>0, <1>4 DEF IInv, OrdersAreSubmitted, Submit
    <2>2. c # d
      BY <2>1 DEF Done
    <2>3. working'[c] = working[c]
      BY <1>0, <1>4, <2>2 DEF Submit, TypeOK
    <2> QED BY <1>0, <2>3
  <1>5. ASSUME working' = working PROVE FALSE
    BY <1>0, <1>5
  <1> QED
    BY <1>1, <1>2, <1>3, <1>4, <1>5
       DEF Next, vars, Client, StartListener, StopListener, Joined, ToggleLive,
           AcceptLoopEnds, Connect, Accept, Loop, ReadLine, Validate, TryAccept, CheckLive,
           Decide, SubmitFails, BracketFills, WindowPasses, account, others

(* Commands decided one at a time do what their names say, whatever thread  *)
(* serves them: an EXIT leaves ExecuteCommand's account flat and an entry   *)
(* never adds to a position on its own side.                                *)
THEOREM Exactness == Spec => OneAtATimeIsExact
  <1>1. IInv /\ [Next]_vars =>
          [\A c \in Conns : Filled(c) /\ ~overlapped'
              => IF working[c].exit THEN position' = 0 ELSE AddsNothing(c)]_vars
    BY FilledExactly
  <1> QED BY <1>1, Invariant, PTL DEF Spec, OneAtATimeIsExact

-----------------------------------------------------------------------------
(* A set of natural numbers that is not empty has a smallest element: the   *)
(* intervals below its elements are finite sets, well-founded by inclusion. *)
LEMMA SmallestNat ==
  ASSUME NEW S \in SUBSET Nat, S # {}
  PROVE  \E m \in S : \A n \in S : m <= n
  <1> DEFINE Below == {1..n : n \in S}
             R == StrictSubsetOrdering(Nat)
             F == FiniteSubsetsOf(Nat)
  <1>1. Below \subseteq F /\ Below # {}
    <2>1. ASSUME NEW n \in S PROVE 1..n \in F
      <3>1. IsFiniteSet(1..n) /\ n \in Int /\ 1..n \subseteq Nat
        BY FS_Interval
      <3> QED BY <3>1 DEF FiniteSubsetsOf
    <2> HIDE DEF F
    <2> QED BY <2>1
  <1>2. \A x, y \in Below : <<x, y>> \in R <=> x \subseteq y /\ x # y
    BY <1>1 DEF StrictSubsetOrdering, FiniteSubsetsOf
  <1>3. IsWellFoundedOn(R, F)
    BY FS_StrictSubsetOrderingWellFounded
  <1> HIDE DEF R, F
  <1>4. \E x \in Below : \A y \in Below : ~(<<y, x>> \in R)
    <2> HIDE DEF Below
    <2> QED BY <1>1, <1>3, WFMin, Zenon
  <1>5. PICK x \in Below : \A y \in Below : ~(y \subseteq x /\ y # x)
    BY <1>2, <1>4
  <1>6. PICK m \in S : x = 1..m
    BY <1>5
  <1>7. ASSUME NEW n \in S PROVE m <= n
    <2>1. SUFFICES ASSUME n < m PROVE FALSE
      OBVIOUS
    <2>2. 1..n \subseteq 1..m /\ m \in 1..m /\ m \notin 1..n
      BY <2>1
    <2> QED BY <1>5, <1>6, <2>2
  <1> QED BY <1>7

(* The windows that can be set have a shortest and a longest.               *)
LEMMA Bounds ==
  /\ Allowed \subseteq Nat \ {0}
  /\ ShortestWindow \in Allowed /\ \A w \in Allowed : ShortestWindow <= w
  /\ LongestWindow \in Allowed /\ \A w \in Allowed : LongestWindow >= w
  <1>0. MaxValue \in Nat \ {0}
    BY SMT DEF MaxValue
  <1>1. Allowed \subseteq 1..MaxValue /\ Allowed # {}
    <2>1. \A w \in Windows : w \in Int /\ w <= MaxValue
      BY <1>0, ListenerDedupeAssumption DEF ListenerDedupeAssumption
    <2>2. \A w \in Windows : Clamped(w) \in 1..MaxValue
      BY <1>0, <2>1 DEF Clamped
    <2>3. PICK w \in Windows : TRUE
      BY ListenerDedupeAssumption DEF ListenerDedupeAssumption
    <2> QED BY <2>2, <2>3 DEF Allowed
  <1>2. \E m \in Allowed : \A n \in Allowed : m <= n
    BY <1>0, <1>1, SmallestNat
  <1>3. \E m \in Allowed : \A n \in Allowed : m >= n
    <2> DEFINE S == {MaxValue - w : w \in Allowed}
    <2>1. S \in SUBSET Nat /\ S # {}
      <3>1. \A w \in Allowed : MaxValue - w \in Nat
        BY <1>0, <1>1
      <3>2. PICK w \in Allowed : TRUE
        BY <1>1
      <3> QED BY <3>1, <3>2
    <2>2. PICK m \in S : \A n \in S : m <= n
      <3> HIDE DEF S
      <3> QED BY <2>1, SmallestNat
    <2>3. PICK w \in Allowed : m = MaxValue - w
      OBVIOUS
    <2>4. ASSUME NEW v \in Allowed PROVE w >= v
      <3>1. MaxValue - v \in S
        OBVIOUS
      <3>2. m <= MaxValue - v
        BY <2>2, <3>1
      <3> QED BY <1>0, <1>1, <2>3, <3>2
    <2> QED BY <2>4
  <1>4. Allowed \subseteq Nat \ {0}
    BY <1>0, <1>1
  <1>5. ShortestWindow \in Allowed /\ \A w \in Allowed : ShortestWindow <= w
    BY <1>2, Zenon DEF ShortestWindow
  <1>6. LongestWindow \in Allowed /\ \A w \in Allowed : LongestWindow >= w
    BY <1>3, Zenon DEF LongestWindow
  <1> QED BY <1>4, <1>5, <1>6

LEMMA AcceptanceType ==
  ASSUME CacheTypeOK, NEW i \in DOMAIN accepts
  PROVE  accepts[i].id \in Keys /\ accepts[i].ts \in Nat
  <1>1. accepts \in Seq([id : Keys, ts : Nat]) /\ i \in 1..Len(accepts)
    BY DEF CacheTypeOK
  <1>2. accepts[i] \in [id : Keys, ts : Nat]
    BY <1>1, ElementOfSeq
  <1> QED BY <1>2

LEMMA CacheInitHolds == CacheInit => CacheInv
  <1> SUFFICES ASSUME CacheInit PROVE CacheInv
    OBVIOUS
  <1>1. window \in Allowed /\ window \in Nat \ {0}
    BY Bounds DEF CacheInit, Allowed
  <1>2. CacheTypeOK
    BY <1>1 DEF CacheInit, CacheTypeOK
  <1>3. Covered /\ Recorded
    BY DEF CacheInit, Covered, Recorded, Outside
  <1> QED BY <1>1, <1>2, <1>3 DEF CacheInv

(* The history after an acceptance.                                         *)
LEMMA Appended ==
  ASSUME CacheTypeOK, NEW id \in Keys, NEW ts \in Nat,
         accepts' = Append(accepts, [id |-> id, ts |-> ts])
  PROVE  /\ accepts' \in Seq([id : Keys, ts : Nat])
         /\ Len(accepts) \in Nat /\ DOMAIN accepts = 1..Len(accepts)
         /\ DOMAIN accepts' = 1..(Len(accepts) + 1)
         /\ \A i \in DOMAIN accepts : accepts'[i] = accepts[i]
         /\ accepts'[Len(accepts) + 1] = [id |-> id, ts |-> ts]
  <1>1. accepts \in Seq([id : Keys, ts : Nat]) /\ [id |-> id, ts |-> ts] \in [id : Keys, ts : Nat]
    BY DEF CacheTypeOK
  <1> QED BY <1>1, AppendProperties

(* PruneUnlocked forgets what is as old as the window of that moment, which *)
(* is no shorter than the shortest.                                         *)
LEMMA EnterStep ==
  ASSUME CacheInv, NEW t \in Threads, NEW id \in Keys, Enter(t, id)
  PROVE  CacheInv'
  <1>0. /\ CacheTypeOK /\ window \in Nat /\ clock \in Nat
        /\ ShortestWindow \in Nat /\ ShortestWindow <= window
    BY Bounds DEF CacheInv, CacheTypeOK
  <1>1. /\ seen' = Pruned /\ step' = [at |-> "check", id |-> id] /\ holder' = t
        /\ UNCHANGED <<clock, window, accepts>>
    BY DEF Enter
  <1>2. ASSUME NEW k \in Keys
        PROVE  /\ seen[k] \in Nat \cup {-1} /\ seen'[k] \in {seen[k], -1}
               /\ seen'[k] # seen[k] => clock - seen[k] >= window
    BY <1>0, <1>1 DEF Pruned, Expired, CacheTypeOK, Absent
  <1>3. CacheTypeOK'
    BY <1>0, <1>1 DEF CacheTypeOK, Pruned
  <1>4. Covered'
    <2>1. ASSUME NEW i \in DOMAIN accepts
          PROVE  /\ accepts[i].ts <= clock
                 /\ \/ clock - accepts[i].ts >= ShortestWindow
                    \/ seen'[accepts[i].id] >= accepts[i].ts
      <3>1. accepts[i].id \in Keys /\ accepts[i].ts \in Nat
        BY <1>0, AcceptanceType
      <3>2. /\ accepts[i].ts <= clock
            /\ \/ clock - accepts[i].ts >= ShortestWindow
               \/ seen[accepts[i].id] >= accepts[i].ts
        BY DEF CacheInv, Covered
      <3> QED BY <1>0, <1>2, <3>1, <3>2
    <2> QED BY <1>1, <2>1 DEF Covered
  <1>5. Recorded'
    BY <1>1, <1>2 DEF CacheInv, Recorded, Absent
  <1> QED BY <1>1, <1>3, <1>4, <1>5 DEF CacheInv, Allowed

(* An id that passes the check was accepted a shortest window ago, if ever. *)
LEMMA CheckStep ==
  ASSUME CacheInv, NEW t \in Threads, Check(t)
  PROVE  CacheInv'
  <1>0. /\ CacheTypeOK /\ window \in Nat /\ clock \in Nat
        /\ ShortestWindow \in Nat /\ ShortestWindow <= window
    BY Bounds DEF CacheInv, CacheTypeOK
  <1>1. /\ step.at = "check" /\ step \in [at : {"check", "record"}, id : Keys]
        /\ UNCHANGED <<clock, window, seen, accepts>>
    BY <1>0 DEF Check, CacheTypeOK, Outside
  <1>2. CASE Duplicate(step.id)
    <2>1. holder' = Nobody /\ step' = Outside
      BY <1>2 DEF Check, Leave
    <2> QED BY <1>0, <1>1, <2>1
            DEF CacheInv, CacheTypeOK, Covered, Recorded, Outside
  <1>3. CASE ~Duplicate(step.id)
    <2>1. step' = [step EXCEPT !.at = "record"] /\ holder' = holder
      BY <1>3 DEF Check
    <2>2. step'.at = "record" /\ step'.id = step.id
          /\ step' \in [at : {"check", "record"}, id : Keys]
      BY <1>1, <2>1
    <2>3. ASSUME NEW i \in DOMAIN accepts, accepts[i].id = step.id
          PROVE  clock - accepts[i].ts >= ShortestWindow
      <3>1. accepts[i].ts \in Nat /\ step.id \in Keys
        BY <1>0, <1>1, AcceptanceType
      <3>2. \/ clock - accepts[i].ts >= ShortestWindow
            \/ seen[step.id] >= accepts[i].ts
        BY <2>3 DEF CacheInv, Covered
      <3>3. seen[step.id] \in Nat \cup {-1}
        BY <1>0, <3>1 DEF CacheTypeOK, Absent
      <3>4. seen[step.id] = -1 \/ clock - seen[step.id] >= window
        BY <1>0, <1>3, <3>3 DEF Duplicate, Absent
      <3> QED BY <1>0, <3>1, <3>2, <3>3, <3>4
    <2>4. Covered'
      BY <1>1, <2>2, <2>3 DEF CacheInv, Covered
    <2>5. CacheTypeOK' /\ Recorded' /\ window' \in Allowed
      BY <1>0, <1>1, <2>1, <2>2 DEF CacheInv, CacheTypeOK, Recorded
    <2> QED BY <2>4, <2>5 DEF CacheInv, Allowed
  <1> QED BY <1>2, <1>3

LEMMA RecordStep ==
  ASSUME CacheInv, NEW t \in Threads, Record(t)
  PROVE  CacheInv'
  <1> DEFINE id == step.id
  <1>0. CacheTypeOK /\ clock \in Nat /\ ShortestWindow \in Nat
    BY Bounds DEF CacheInv, CacheTypeOK
  <1>1. /\ id \in Keys /\ step.at = "record"
        /\ step' = Outside /\ holder' = Nobody
        /\ seen' = [seen EXCEPT ![id] = clock]
        /\ accepts' = Append(accepts, [id |-> id, ts |-> clock])
        /\ UNCHANGED <<clock, window>>
    BY <1>0 DEF Record, Leave, CacheTypeOK, Outside
  <1> HIDE DEF id
  <1>2. seen'[id] = clock /\ \A k \in Keys \ {id} : seen'[k] = seen[k]
    BY <1>0, <1>1 DEF CacheTypeOK
  <1>3. CacheTypeOK'
    BY <1>0, <1>1, Appended DEF CacheTypeOK
  <1>4. /\ Len(accepts) \in Nat /\ DOMAIN accepts = 1..Len(accepts)
        /\ DOMAIN accepts' = 1..(Len(accepts) + 1)
        /\ \A i \in DOMAIN accepts : accepts'[i] = accepts[i]
        /\ accepts'[Len(accepts) + 1] = [id |-> id, ts |-> clock]
    BY <1>0, <1>1, Appended
  <1>5. Covered'
    <2>1. ASSUME NEW i \in DOMAIN accepts'
          PROVE  /\ accepts'[i].ts <= clock
                 /\ \/ clock - accepts'[i].ts >= ShortestWindow
                    \/ seen'[accepts'[i].id] >= accepts'[i].ts
      <3>1. CASE i = Len(accepts) + 1
        BY <1>0, <1>2, <1>4, <3>1
      <3>2. CASE i \in DOMAIN accepts
        <4>1. accepts[i].id \in Keys /\ accepts[i].ts \in Nat /\ accepts[i].ts <= clock
          BY <1>0, <3>2, AcceptanceType DEF CacheInv, Covered
        <4>2. \/ clock - accepts[i].ts >= ShortestWindow
              \/ seen[accepts[i].id] >= accepts[i].ts
          BY <3>2 DEF CacheInv, Covered
        <4> QED BY <1>0, <1>2, <1>4, <3>2, <4>1, <4>2
      <3> QED BY <1>4, <2>1, <3>1, <3>2
    <2> QED BY <1>1, <2>1 DEF Covered, Outside
  <1>6. Recorded'
    <2>1. ASSUME NEW k \in Keys, seen'[k] # Absent
          PROVE  \E i \in DOMAIN accepts' : accepts'[i].id = k /\ accepts'[i].ts = seen'[k]
      <3>1. CASE k = id
        <4>1. Len(accepts) + 1 \in DOMAIN accepts'
          BY <1>4
        <4> QED BY <1>2, <1>4, <3>1, <4>1
      <3>2. CASE k # id
        <4>1. PICK i \in DOMAIN accepts : accepts[i].id = k /\ accepts[i].ts = seen[k]
          BY <1>2, <2>1, <3>2 DEF CacheInv, Recorded
        <4>2. i \in DOMAIN accepts' /\ accepts'[i] = accepts[i]
          BY <1>4
        <4> QED BY <1>2, <3>2, <4>1, <4>2
      <3> QED BY <3>1, <3>2
    <2> QED BY <2>1 DEF Recorded
  <1> QED BY <1>1, <1>3, <1>5, <1>6 DEF CacheInv, Allowed

LEMMA CacheStep == CacheInv /\ [CacheNext]_cacheVars => CacheInv'
  <1> SUFFICES ASSUME CacheInv, [CacheNext]_cacheVars PROVE CacheInv'
    OBVIOUS
  <1>1. CASE Tick
    <2>1. /\ CacheTypeOK /\ clock \in Nat /\ clock' = clock + 1 /\ ShortestWindow \in Nat
          /\ UNCHANGED <<window, seen, holder, step, accepts>>
      BY <1>1, Bounds DEF Tick, CacheInv, CacheTypeOK
    <2>2. \A i \in DOMAIN accepts : accepts[i].ts \in Nat
      BY <2>1, AcceptanceType
    <2>3. Covered'
      BY <2>1, <2>2 DEF CacheInv, Covered
    <2>4. CacheTypeOK' /\ Recorded'
      BY <2>1 DEF CacheInv, CacheTypeOK, Recorded
    <2> QED BY <2>1, <2>3, <2>4 DEF CacheInv, Allowed
  <1>2. CASE SetWindowSeconds
    <2>1. window' \in Allowed /\ UNCHANGED <<clock, seen, holder, step, accepts>>
      BY <1>2 DEF SetWindowSeconds, Allowed
    <2>2. window' \in Nat \ {0}
      BY <2>1, Bounds
    <2>3. CacheTypeOK' /\ Covered' /\ Recorded'
      BY <2>1, <2>2 DEF CacheInv, CacheTypeOK, Covered, Recorded
    <2> QED BY <2>1, <2>3 DEF CacheInv, Allowed
  <1>3. ASSUME NEW t \in Threads, NEW id \in Keys, Enter(t, id) PROVE CacheInv'
    BY <1>3, EnterStep
  <1>4. ASSUME NEW t \in Threads, Check(t) PROVE CacheInv'
    BY <1>4, CheckStep
  <1>5. ASSUME NEW t \in Threads, Record(t) PROVE CacheInv'
    BY <1>5, RecordStep
  <1>6. CASE UNCHANGED cacheVars
    BY <1>6 DEF cacheVars, CacheInv, CacheTypeOK, Covered, Recorded, Allowed
  <1> QED BY <1>1, <1>2, <1>3, <1>4, <1>5, <1>6 DEF CacheNext

(* What the listener's cache has forgotten is a shortest window old, what   *)
(* it remembers was accepted, in every behaviour of any threads, ids and    *)
(* windows.                                                                 *)
THEOREM CacheInvariant == CacheSpec => []CacheInv
  BY CacheInitHolds, CacheStep, PTL DEF CacheSpec

LEMMA CacheRefines ==
  CacheInv /\ [CacheNext]_cacheVars => [Promise!Next]_<<clock, accepts>>
  <1> SUFFICES ASSUME CacheInv, [CacheNext]_cacheVars
               PROVE  Promise!Next \/ UNCHANGED <<clock, accepts>>
    OBVIOUS
  <1>0. CacheTypeOK /\ clock \in Nat
    BY DEF CacheInv, CacheTypeOK
  <1>1. CASE Tick
    <2>1. clock' > clock /\ clock' \in Nat /\ UNCHANGED accepts
      BY <1>0, <1>1 DEF Tick
    <2> QED BY <2>1 DEF Promise!Next, Promise!Tick
  <1>2. ASSUME NEW t \in Threads, Record(t) PROVE Promise!Next
    <2>1. /\ step.at = "record" /\ step.id \in Keys
          /\ accepts' = Append(accepts, [id |-> step.id, ts |-> clock])
          /\ UNCHANGED clock
      BY <1>0, <1>2 DEF Record, CacheTypeOK, Outside
    <2>2. Promise!Window = ShortestWindow
      <3>1. ShortestWindow \in Nat \ {0}
        BY Bounds
      <3> QED BY <3>1 DEF Promise!Window
    <2>3. \A i \in DOMAIN accepts :
            accepts[i].id = step.id => clock - accepts[i].ts >= Promise!Window
      BY <2>1, <2>2 DEF CacheInv, Covered
    <2>4. Promise!Accept(step.id, clock)
      BY <1>0, <2>1, <2>3 DEF Promise!Accept
    <2>5. clock \in 0..clock
      BY <1>0
    <2> QED BY <2>1, <2>4, <2>5 DEF Promise!Next
  <1>3. ASSUME NEW t \in Threads,
               Check(t) \/ \E id \in Keys : Enter(t, id)
        PROVE  UNCHANGED <<clock, accepts>>
    BY <1>3 DEF Check, Enter
  <1>4. CASE SetWindowSeconds \/ UNCHANGED cacheVars
    BY <1>4 DEF SetWindowSeconds, cacheVars
  <1> QED BY <1>1, <1>2, <1>3, <1>4 DEF CacheNext

(* The listener's cache implements the promise of CommandDedupe for the     *)
(* shortest window it was ever given: SetWindowSeconds may run between any  *)
(* two of TryAccept's looks at the clock.                                   *)
THEOREM CacheImplementsPromise == CacheSpec => AtMostOncePerWindow
  <1>1. CacheInit => Promise!Init
    BY DEF CacheInit, Promise!Init
  <1> QED
    BY <1>1, CacheInitHolds, CacheStep, CacheRefines, PTL
    DEF CacheSpec, AtMostOncePerWindow, Promise!Spec

(* No false duplicate: TryAccept turns an id away only for an acceptance of *)
(* it less than the longest window ago, at the moment of its comparison.    *)
THEOREM CacheRejectsOnlyDuplicates == CacheSpec => RejectsOnlyDuplicates
  <1>1. ASSUME CacheInv, [CacheNext]_cacheVars, step.at = "check", step' = Outside
        PROVE  \E i \in DOMAIN accepts :
                  accepts[i].id = step.id /\ clock - accepts[i].ts < LongestWindow
    <2>0. CacheTypeOK /\ clock \in Nat /\ window \in Nat /\ window <= LongestWindow
          /\ LongestWindow \in Nat /\ step.id \in Keys
      BY <1>1, Bounds DEF CacheInv, CacheTypeOK, Outside
    <2>1. PICK t \in Threads : Check(t)
      <3>1. step # step' /\ step.at # "record"
        BY <1>1 DEF Outside
      <3>2. ASSUME NEW t \in Threads, NEW id \in Keys, Enter(t, id) PROVE FALSE
        BY <1>1, <3>2 DEF Enter, Outside
      <3> QED BY <1>1, <3>1, <3>2 DEF CacheNext, Tick, SetWindowSeconds, Record, cacheVars
    <2>2. Duplicate(step.id)
      BY <1>1, <2>0, <2>1 DEF Check, CacheTypeOK, Outside
    <2>3. PICK i \in DOMAIN accepts : accepts[i].id = step.id /\ accepts[i].ts = seen[step.id]
      BY <1>1, <2>0, <2>2 DEF CacheInv, Recorded, Duplicate
    <2>4. accepts[i].ts \in Nat /\ clock - accepts[i].ts < window
      BY <2>0, <2>2, <2>3, AcceptanceType DEF Duplicate
    <2> QED BY <2>0, <2>3, <2>4
  <1>2. CacheInv /\ [CacheNext]_cacheVars =>
          [ (step.at = "check" /\ step' = Outside)
            => \E i \in DOMAIN accepts :
                  accepts[i].id = step.id /\ clock - accepts[i].ts < LongestWindow ]_cacheVars
    BY <1>1
  <1> QED BY <1>2, CacheInvariant, PTL DEF CacheSpec, RejectsOnlyDuplicates
=============================================================================
