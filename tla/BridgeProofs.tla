---------------------------- MODULE BridgeProofs ----------------------------
(* Proofs about Bridge, for any number of commands and ids: the caches of   *)
(* the receiver and the add-on back each other up.                          *)
EXTENDS Bridge, TLAPS

LEMMA InitCaches == Init => CacheInv
  <1> SUFFICES ASSUME Init PROVE CacheInv
    OBVIOUS
  <1>1. TypeOK
    <2>1. /\ listening \in BOOLEAN /\ dropped \in BOOLEAN
          /\ overlapped \in BOOLEAN /\ crossed \in BOOLEAN
      BY Zenon DEF Init
    <2> QED BY <2>1 DEF Init, TypeOK
  <1>2. \A c \in Msgs : msg[c].at = "unused"
    BY DEF Init, Unused
  <1> QED BY <1>1, <1>2 DEF Init, CacheInv, OneOrderWhileRemembered, Owned, InHand

-----------------------------------------------------------------------------
(* Types.                                                                   *)
LEMMA MsgType ==
  ASSUME TypeOK, NEW c \in Msgs
  PROVE  /\ msg[c].at \in {"wire", "decide", "submit", "working"} => msg[c] \in Msg
         /\ msg[c] \in Msg => msg[c].at \in {"wire", "decide", "submit", "working"}
  BY DEF TypeOK, Msg, Unused, Gone

LEMMA CountedType ==
  ASSUME TypeOK, NEW r, NEW s
  PROVE  /\ Counted(r, s) \in [Ids -> Nat]
         /\ \A id \in Ids : /\ Counted(r, s)[id] \in {orders[id], 0}
                            /\ Counted(r, s)[id] > 0 => id \in r \cup s
  BY DEF TypeOK, Counted

LEMMA TypeReceiver ==
  ASSUME TypeOK,
         \/ \E c \in Msgs, id \in Ids, action \in Actions : Accept(c, id, action)
         \/ \E id \in Ids, action \in Entries : Refuse(id, action)
         \/ \E side \in Entries : CoolOff(side)
         \/ \E id \in Ids : ForgetsAtReceiver(id)
         \/ ReceiverRestarts
  PROVE  TypeOK'
  <1>1. ASSUME NEW c \in Msgs, NEW id \in Ids, NEW action \in Actions,
               Accept(c, id, action)
        PROVE  TypeOK'
    <2>1. /\ recent' \subseteq Ids /\ cooling' \subseteq Entries
          /\ UNCHANGED <<seen, listening, position, orders, dropped>>
      BY <1>1 DEF TypeOK, Accept, Entered, Entries
    <2>2. overlapped' \in BOOLEAN /\ crossed' \in BOOLEAN
      BY <1>1, Zenon DEF TypeOK, Accept
    <2>3. Asked(action, expected) \in Int
      BY DEF TypeOK, Asked, Actions, Entries
    <2>4. expected' \in Int
      BY <1>1, <2>3 DEF TypeOK, Accept
    <2>5. [at |-> "wire", id |-> id, action |-> action, size |-> 0] \in Msg
      BY DEF Msg
    <2>6. msg' \in [Msgs -> {Unused, Gone} \cup Msg]
      BY <1>1, <2>5 DEF TypeOK, Accept
    <2> QED BY <2>1, <2>2, <2>4, <2>6 DEF TypeOK
  <1>2. ASSUME NEW id \in Ids, NEW action \in Entries, Refuse(id, action)
        PROVE  TypeOK'
    BY <1>2 DEF TypeOK, Refuse, history
  <1>3. ASSUME NEW side \in Entries, CoolOff(side) PROVE TypeOK'
    BY <1>3 DEF TypeOK, CoolOff, history
  <1>4. ASSUME NEW id \in Ids, ForgetsAtReceiver(id) PROVE TypeOK'
    <2>1. orders' \in [Ids -> Nat]
      BY <1>4, CountedType DEF ForgetsAtReceiver
    <2> QED BY <1>4, <2>1 DEF TypeOK, ForgetsAtReceiver
  <1>5. CASE ReceiverRestarts
    <2>1. orders' \in [Ids -> Nat]
      BY <1>5, CountedType DEF ReceiverRestarts
    <2>2. crossed' \in BOOLEAN
      BY <1>5, Zenon DEF ReceiverRestarts
    <2> QED BY <1>5, <2>1, <2>2 DEF TypeOK, ReceiverRestarts
  <1> QED BY <1>1, <1>2, <1>3, <1>4, <1>5

LEMMA TypeListener ==
  ASSUME TypeOK,
         \/ \E c \in Msgs : Take(c) \/ Decide(c) \/ Flatten(c) \/ Submit(c)
                            \/ SubmitFails(c) \/ Fill(c)
         \/ \E id \in Ids : ForgetsAtListener(id)
         \/ Toggle \/ ListenerRestarts
  PROVE  TypeOK'
  <1>1. ASSUME NEW c \in Msgs, Take(c) PROVE TypeOK'
    <2>1. msg[c] \in Msg /\ msg[c].id \in Ids
      BY <1>1, MsgType DEF Take, Msg
    <2>2. [msg[c] EXCEPT !.at = "decide"] \in Msg
      BY <2>1 DEF Msg
    <2>3. msg' \in [Msgs -> {Unused, Gone} \cup Msg]
      BY <1>1, <2>2 DEF TypeOK, Take, Drops
    <2>4. dropped' \in BOOLEAN
      BY <1>1 DEF TypeOK, Take, Drops
    <2> QED BY <1>1, <2>1, <2>3, <2>4 DEF TypeOK, Take, receiver
  <1>2. ASSUME NEW c \in Msgs, Decide(c) PROVE TypeOK'
    <2> DEFINE size == OrderFor(msg[c].action, position)
               next == [msg[c] EXCEPT !.at = "submit", !.size = size]
    <2>1. msg[c] \in Msg
      BY <1>2, MsgType DEF Decide
    <2>2. size \in Int
      BY <2>1 DEF TypeOK, OrderFor
    <2> HIDE DEF size
    <2>3. next \in Msg
      BY <2>1, <2>2 DEF Msg
    <2>4. msg' = [msg EXCEPT ![c] = IF size = 0 THEN Gone ELSE next]
      BY <1>2 DEF Decide, size
    <2> HIDE DEF next
    <2>5. msg' \in [Msgs -> {Unused, Gone} \cup Msg]
      BY <2>3, <2>4 DEF TypeOK
    <2> QED BY <1>2, <2>5 DEF TypeOK, Decide, receiver, history
  <1>3. ASSUME NEW c \in Msgs, Flatten(c) PROVE TypeOK'
    <2> DEFINE close == [msg[c] EXCEPT !.at = "working", !.size = -position]
    <2>1a. msg[c] \in Msg
      BY <1>3, MsgType DEF Flatten
    <2>1b. msg[c].id \in Ids
      BY <2>1a DEF Msg
    <2>1c. -position \in Int
      BY DEF TypeOK
    <2>1. msg[c] \in Msg /\ msg[c].id \in Ids /\ -position \in Int
      BY <2>1a, <2>1b, <2>1c
    <2>2. close \in Msg
      BY <2>1 DEF Msg
    <2>3. msg' = [d \in Msgs |-> IF d = c /\ position # 0 THEN close
                                 ELSE IF d = c \/ msg[d].at = "working" THEN Gone ELSE msg[d]]
      BY <1>3 DEF Flatten
    <2> HIDE DEF close
    <2>4. msg' \in [Msgs -> {Unused, Gone} \cup Msg]
      BY <2>2, <2>3 DEF TypeOK
    <2>5a. \/ orders' = [orders EXCEPT ![msg[c].id] = @ + 1]
           \/ orders' = orders
      BY <1>3 DEF Flatten
    <2>5. orders' \in [Ids -> Nat]
      BY <2>1b, <2>5a DEF TypeOK
    <2> QED BY <1>3, <2>4, <2>5 DEF TypeOK, Flatten, receiver
  <1>4. ASSUME NEW c \in Msgs, Submit(c) PROVE TypeOK'
    <2>1. msg[c] \in Msg /\ msg[c].id \in Ids
      BY <1>4, MsgType DEF Submit, Msg
    <2>2. [msg[c] EXCEPT !.at = "working"] \in Msg
      BY <2>1 DEF Msg
    <2>3. msg' \in [Msgs -> {Unused, Gone} \cup Msg]
      BY <1>4, <2>2 DEF TypeOK, Submit
    <2>4. orders' \in [Ids -> Nat]
      BY <1>4, <2>1 DEF TypeOK, Submit
    <2> QED BY <1>4, <2>3, <2>4 DEF TypeOK, Submit, receiver
  <1>5. ASSUME NEW c \in Msgs, SubmitFails(c) PROVE TypeOK'
    BY <1>5 DEF TypeOK, SubmitFails, Drops, receiver
  <1>6. ASSUME NEW c \in Msgs, Fill(c) PROVE TypeOK'
    <2>1. msg[c].size \in Int
      BY <1>6, MsgType DEF Fill, Msg
    <2>2. position' \in Int /\ msg' \in [Msgs -> {Unused, Gone} \cup Msg]
      BY <1>6, <2>1 DEF TypeOK, Fill
    <2> QED BY <1>6, <2>2 DEF TypeOK, Fill, receiver, history
  <1>7. ASSUME NEW id \in Ids, ForgetsAtListener(id) PROVE TypeOK'
    <2>1. orders' \in [Ids -> Nat]
      BY <1>7, CountedType DEF ForgetsAtListener
    <2> QED BY <1>7, <2>1 DEF TypeOK, ForgetsAtListener, receiver
  <1>8. CASE Toggle
    <2>1. dropped' \in BOOLEAN /\ listening' \in BOOLEAN
      BY <1>8, Zenon DEF Toggle
    <2>2. msg' \in [Msgs -> {Unused, Gone} \cup Msg]
      BY <1>8 DEF TypeOK, Toggle
    <2> QED BY <1>8, <2>1, <2>2 DEF TypeOK, Toggle, receiver
  <1>9. CASE ListenerRestarts
    <2>1. dropped' \in BOOLEAN
      BY <1>9, Zenon DEF ListenerRestarts
    <2>2. msg' \in [Msgs -> {Unused, Gone} \cup Msg]
      BY <1>9 DEF TypeOK, ListenerRestarts
    <2>3. orders' \in [Ids -> Nat]
      BY <1>9, CountedType DEF ListenerRestarts
    <2> QED BY <1>9, <2>1, <2>2, <2>3 DEF TypeOK, ListenerRestarts, receiver
  <1> QED BY <1>1, <1>2, <1>3, <1>4, <1>5, <1>6, <1>7, <1>8, <1>9

LEMMA TypeStep == ASSUME TypeOK, Next PROVE TypeOK'
  BY TypeReceiver, TypeListener DEF Next

-----------------------------------------------------------------------------
(* A step that takes no command past the add-on's cache and counts no order *)
(* keeps the rest, as long as it forgets no id with a command on its way.   *)
LEMMA FadeStep ==
  ASSUME CacheInv, TypeOK',
         \A id \in Ids : /\ orders'[id] \in {orders[id], 0}
                         /\ orders'[id] > 0 => id \in recent' \cup seen',
         \A c \in Msgs :
            /\ msg'[c].at = "wire" => msg[c].at = "wire"
            /\ msg'[c].at \in {"decide", "submit"} => InHand(c)
            /\ msg'[c].at \in {"wire", "decide", "submit"} =>
                  /\ msg'[c].id = msg[c].id
                  /\ msg[c].id \in seen => msg[c].id \in seen'
  PROVE  CacheInv'
  <1>1. OneOrderWhileRemembered'
    BY DEF CacheInv, OneOrderWhileRemembered
  <1>2. \A c \in Msgs : msg[c].at \in {"wire", "decide", "submit"} => msg[c].id \in Ids
    BY MsgType DEF CacheInv, Msg
  <1>3. \A c \in Msgs : (msg'[c].at = "wire" /\ msg'[c].id \notin seen')
                        => orders'[msg'[c].id] = 0
    BY <1>2 DEF CacheInv, Owned
  <1>4. \A c \in Msgs : InHand(c)' => /\ InHand(c) /\ msg'[c].id = msg[c].id
                                      /\ msg'[c].id \in seen' /\ orders'[msg'[c].id] = 0
    BY <1>2 DEF CacheInv, Owned, InHand
  <1>5. \A c, d \in Msgs : InHand(c)' /\ InHand(d)' /\ msg'[d].id = msg'[c].id => d = c
    BY <1>4 DEF CacheInv, Owned
  <1> QED BY <1>1, <1>3, <1>4, <1>5 DEF CacheInv, Owned

(* A new command has an id that the receiver has forgotten: if the add-on   *)
(* has forgotten it too, nothing counts for it any more.                    *)
LEMMA AcceptStep ==
  ASSUME CacheInv, TypeOK', NEW c \in Msgs, NEW id \in Ids, NEW action \in Actions,
         Accept(c, id, action)
  PROVE  CacheInv'
  <1> DEFINE next == [at |-> "wire", id |-> id, action |-> action, size |-> 0]
  <1>0. TypeOK /\ id \notin recent /\ recent' = recent \cup {id}
        /\ UNCHANGED <<seen, orders>>
    BY DEF CacheInv, Accept
  <1>1. \A d \in Msgs \ {c} : msg'[d] = msg[d]
    BY <1>0 DEF TypeOK, Accept
  <1>2. msg'[c] = next \/ msg'[c] = Gone
    BY <1>0 DEF TypeOK, Accept
  <1>3. ~InHand(c)' /\ (msg'[c].at = "wire" => msg'[c].id = id)
    BY <1>2 DEF InHand, Gone
  <1> HIDE DEF next
  <1>4. id \notin seen => orders[id] = 0
    BY <1>0 DEF CacheInv, Owned, TypeOK
  <1>5. \A d \in Msgs : (msg'[d].at = "wire" /\ msg'[d].id \notin seen)
                        => orders[msg'[d].id] = 0
    BY <1>1, <1>3, <1>4 DEF CacheInv, Owned
  <1>6. \A d \in Msgs : InHand(d)' => d # c /\ InHand(d) /\ msg'[d] = msg[d]
    BY <1>1, <1>3 DEF InHand
  <1>7. \A x \in Ids : orders[x] > 0 => x \in recent' \cup seen
    BY <1>0 DEF CacheInv, Owned
  <1>8. \A d \in Msgs : InHand(d)' =>
          /\ msg'[d].id \in seen /\ orders[msg'[d].id] = 0
          /\ \A e \in Msgs : InHand(e)' /\ msg'[e].id = msg'[d].id => e = d
    BY <1>6 DEF CacheInv, Owned
  <1>9. OneOrderWhileRemembered' /\ Owned'
    BY <1>0, <1>5, <1>7, <1>8 DEF CacheInv, Owned, OneOrderWhileRemembered
  <1> QED BY <1>9 DEF CacheInv

(* The check of the add-on's cache: a copy that passes is the first since   *)
(* the add-on forgot the id.                                                *)
LEMMA TakeStep == ASSUME CacheInv, TypeOK', NEW c \in Msgs, Take(c) PROVE CacheInv'
  <1> DEFINE id == msg[c].id
  <1>0. /\ TypeOK /\ msg[c].at = "wire" /\ id \in Ids
        /\ seen' = seen \cup {id} /\ UNCHANGED <<recent, orders>>
    BY MsgType DEF CacheInv, Take, Msg, receiver
  <1>1. CASE listening /\ id \notin seen
    <2>1. msg' = [msg EXCEPT ![c].at = "decide"]
      BY <1>1 DEF Take, Seen
    <2>2. msg[c] \in Msg
      BY <1>0, MsgType
    <2>3. msg'[c].at = "decide" /\ msg'[c].id = id
      BY <1>0, <2>1, <2>2 DEF TypeOK, Msg
    <2>4. \A d \in Msgs \ {c} : msg'[d] = msg[d]
      BY <1>0, <2>1 DEF TypeOK
    <2>5. orders[id] = 0
      BY <1>0, <1>1 DEF CacheInv, Owned
    <2>6. \A d \in Msgs \ {c} : InHand(d) => msg[d].id # id
      BY <1>1 DEF CacheInv, Owned
    <2> HIDE DEF id
    <2>7. \A d \in Msgs : (msg'[d].at = "wire" /\ msg'[d].id \notin seen')
                          => orders[msg'[d].id] = 0
      BY <1>0, <2>3, <2>4 DEF CacheInv, Owned
    <2>8. \A d \in Msgs : InHand(d)' =>
            /\ msg'[d].id \in seen' /\ orders[msg'[d].id] = 0
            /\ \A e \in Msgs : InHand(e)' /\ msg'[e].id = msg'[d].id => e = d
      BY <1>0, <2>3, <2>4, <2>5, <2>6 DEF CacheInv, Owned, InHand
    <2>9. OneOrderWhileRemembered' /\ Owned'
      BY <1>0, <2>7, <2>8 DEF CacheInv, Owned, OneOrderWhileRemembered
    <2> QED BY <2>9 DEF CacheInv
  <1>2. CASE ~(listening /\ id \notin seen)
    <2>1. msg' = [msg EXCEPT ![c] = Gone]
      BY <1>2 DEF Take, Seen, Drops
    <2>2. \A d \in Msgs : msg'[d] = IF d = c THEN Gone ELSE msg[d]
      BY <1>0, <2>1 DEF TypeOK
    <2>3. \A x \in Ids : orders[x] > 0 => x \in recent' \cup seen'
      BY <1>0 DEF CacheInv, Owned
    <2> QED BY <1>0, <2>2, <2>3, FadeStep DEF Gone, InHand
  <1> QED BY <1>1, <1>2

(* The order of a command is counted for an id that has had none; a flatten *)
(* cancels others besides.                                                  *)
LEMMA PlacesStep ==
  ASSUME CacheInv, TypeOK', NEW c \in Msgs, InHand(c), UNCHANGED <<recent, seen>>,
         orders' = [orders EXCEPT ![msg[c].id] = @ + 1],
         msg'[c].at \in {"working", "gone"},
         \A d \in Msgs \ {c} : msg'[d] = msg[d] \/ msg'[d] = Gone
  PROVE  CacheInv'
  <1> DEFINE id == msg[c].id
  <1>0. TypeOK /\ msg[c] \in Msg /\ id \in Ids
    BY MsgType DEF CacheInv, InHand, Msg
  <1>1. id \in seen /\ orders[id] = 0
    BY <1>0 DEF CacheInv, Owned
  <1>2. \A x \in Ids : orders'[x] = IF x = id THEN 1 ELSE orders[x]
    BY <1>0, <1>1 DEF TypeOK
  <1>4. \A d \in Msgs \ {c} : InHand(d) => msg[d].id # id /\ msg[d].id \in Ids
    BY <1>0, <1>1, MsgType DEF CacheInv, Owned, InHand, Msg
  <1>5. \A d \in Msgs \ {c} : msg[d].at = "wire" => msg[d].id \in Ids
    BY <1>0, MsgType DEF Msg
  <1> HIDE DEF id
  <1>6. OneOrderWhileRemembered'
    BY <1>2 DEF CacheInv, OneOrderWhileRemembered
  <1>7. \A x \in Ids : orders'[x] > 0 => x \in recent' \cup seen'
    BY <1>0, <1>1, <1>2 DEF CacheInv, Owned
  <1>8. \A d \in Msgs : (msg'[d].at = "wire" /\ msg'[d].id \notin seen')
                        => orders'[msg'[d].id] = 0
    BY <1>0, <1>1, <1>2, <1>5 DEF CacheInv, Owned, Gone
  <1>9. \A d \in Msgs : InHand(d)' => d # c /\ InHand(d) /\ msg'[d] = msg[d]
    BY DEF InHand, Gone
  <1>10. \A d \in Msgs : InHand(d)' =>
          /\ msg'[d].id \in seen' /\ orders'[msg'[d].id] = 0
          /\ \A e \in Msgs : InHand(e)' /\ msg'[e].id = msg'[d].id => e = d
    BY <1>0, <1>2, <1>4, <1>9 DEF CacheInv, Owned
  <1> QED BY <1>6, <1>7, <1>8, <1>10 DEF CacheInv, Owned

LEMMA CacheStep == CacheInv /\ [Next]_vars => CacheInv'
  <1> SUFFICES ASSUME CacheInv, [Next]_vars PROVE CacheInv'
    OBVIOUS
  <1>0. TypeOK
    BY DEF CacheInv
  <1>1. CASE UNCHANGED vars
    BY <1>1 DEF CacheInv, TypeOK, OneOrderWhileRemembered, Owned, InHand, vars
  <1>2. CASE Next
    <2>0. TypeOK'
      BY <1>0, <1>2, TypeStep
    <2>k. \A id \in Ids : orders[id] > 0 => id \in recent \cup seen
      BY DEF CacheInv, Owned
    <2>1. ASSUME NEW c \in Msgs, NEW id \in Ids, NEW action \in Actions,
                 Accept(c, id, action)
          PROVE  CacheInv'
      BY <2>0, <2>1, AcceptStep
    <2>2. ASSUME NEW id \in Ids, NEW action \in Entries, Refuse(id, action)
          PROVE  CacheInv'
      BY <2>0, <2>k, <2>2, FadeStep DEF Refuse, history, InHand
    <2>3. ASSUME NEW side \in Entries, CoolOff(side) PROVE CacheInv'
      BY <2>0, <2>k, <2>3, FadeStep DEF CoolOff, history, InHand
    <2>4. ASSUME NEW id \in Ids, ForgetsAtReceiver(id) PROVE CacheInv'
      <3>1. /\ msg' = msg /\ seen' = seen /\ orders' = Counted(recent', seen')
        BY <2>4 DEF ForgetsAtReceiver
      <3> QED BY <1>0, <2>0, <3>1, CountedType, FadeStep DEF InHand
    <2>5. ASSUME NEW id \in Ids, ForgetsAtListener(id) PROVE CacheInv'
      <3>1. /\ msg' = msg /\ recent' = recent /\ orders' = Counted(recent', seen')
            /\ seen' = seen \ {id}
        BY <2>5 DEF ForgetsAtListener, receiver
      <3>2. \A c \in Msgs : msg[c].at \in {"wire", "decide", "submit"} => msg[c].id # id
        BY <2>5 DEF ForgetsAtListener, Idle, OnItsWay, Unused, Gone
      <3> QED BY <1>0, <2>0, <3>1, <3>2, CountedType, FadeStep DEF InHand
    <2>6. ASSUME NEW c \in Msgs, Take(c) PROVE CacheInv'
      BY <2>0, <2>6, TakeStep
    <2>7. ASSUME NEW c \in Msgs, Decide(c) PROVE CacheInv'
      <3> DEFINE size == OrderFor(msg[c].action, position)
                 next == [msg[c] EXCEPT !.at = "submit", !.size = size]
      <3>1. /\ msg' = [msg EXCEPT ![c] = IF size = 0 THEN Gone ELSE next]
            /\ UNCHANGED <<recent, seen, orders>> /\ InHand(c) /\ msg[c] \in Msg
        BY <1>0, <2>7, MsgType DEF Decide, receiver, history, InHand
      <3>2. next.at = "submit" /\ next.id = msg[c].id
        BY <3>1 DEF Msg
      <3> HIDE DEF size, next
      <3>3. \A d \in Msgs : msg'[d] = IF d = c THEN IF size = 0 THEN Gone ELSE next
                                      ELSE msg[d]
        BY <1>0, <3>1 DEF TypeOK
      <3> QED BY <2>0, <2>k, <3>1, <3>2, <3>3, FadeStep DEF InHand, Gone
    <2>8. ASSUME NEW c \in Msgs, Flatten(c) PROVE CacheInv'
      <3>1. msg[c] \in Msg /\ msg[c].at = "decide"
        BY <1>0, <2>8, MsgType DEF Flatten
      <3>2. [msg[c] EXCEPT !.at = "working", !.size = -position].at = "working"
        BY <3>1 DEF Msg
      <3>3. /\ msg'[c].at \in {"working", "gone"}
            /\ \A d \in Msgs \ {c} : msg'[d] = msg[d] \/ msg'[d] = Gone
        BY <2>8, <3>2 DEF Flatten, Gone
      <3> QED BY <2>0, <2>8, <3>1, <3>3, PlacesStep DEF Flatten, receiver, InHand
    <2>9. ASSUME NEW c \in Msgs, Submit(c) PROVE CacheInv'
      <3>1. msg[c] \in Msg /\ msg[c].at = "submit"
        BY <1>0, <2>9, MsgType DEF Submit
      <3>2. msg'[c].at = "working" /\ \A d \in Msgs \ {c} : msg'[d] = msg[d]
        BY <1>0, <2>9, <3>1 DEF Submit, TypeOK, Msg
      <3> QED BY <2>0, <2>9, <3>1, <3>2, PlacesStep DEF Submit, receiver, InHand
    <2>10. ASSUME NEW c \in Msgs, SubmitFails(c) \/ Fill(c) PROVE CacheInv'
      <3>1. /\ msg' = [msg EXCEPT ![c] = Gone]
            /\ UNCHANGED <<recent, seen, orders>>
        BY <2>10 DEF SubmitFails, Fill, Drops, receiver, history
      <3>2. \A d \in Msgs : msg'[d] = IF d = c THEN Gone ELSE msg[d]
        BY <1>0, <3>1 DEF TypeOK
      <3> QED BY <2>0, <2>k, <3>1, <3>2, FadeStep DEF InHand, Gone
    <2>11. CASE Toggle
      <3>1. /\ \A d \in Msgs : msg'[d] = Gone \/ msg'[d] = msg[d]
            /\ UNCHANGED <<recent, seen, orders>>
        BY <2>11 DEF Toggle, receiver
      <3> QED BY <2>0, <2>k, <3>1, FadeStep DEF InHand, Gone
    <2>12. CASE ReceiverRestarts
      <3>1. /\ msg' = msg /\ seen' = seen /\ recent' = {} /\ orders' = Counted({}, seen)
        BY <2>12 DEF ReceiverRestarts
      <3>2. orders' = Counted(recent', seen')
        BY <3>1
      <3> QED BY <1>0, <2>0, <3>1, <3>2, CountedType, FadeStep DEF InHand
    <2>13. CASE ListenerRestarts
      <3>1. /\ recent' = recent /\ seen' = {} /\ orders' = Counted(recent, {})
            /\ \A d \in Msgs : msg'[d] = IF OnItsWay(d) /\ msg[d].at # "working"
                                         THEN Gone ELSE msg[d]
        BY <2>13 DEF ListenerRestarts, receiver
      <3>2. \A d \in Msgs : msg'[d].at \notin {"wire", "decide", "submit"}
        BY <3>1 DEF OnItsWay, Unused, Gone
      <3>3. orders' = Counted(recent', seen')
        BY <3>1
      <3> QED BY <1>0, <2>0, <3>2, <3>3, CountedType, FadeStep
    <2> QED BY <1>2, <2>1, <2>2, <2>3, <2>4, <2>5, <2>6, <2>7, <2>8, <2>9, <2>10, <2>11,
               <2>12, <2>13 DEF Next
  <1> QED BY <1>1, <1>2

-----------------------------------------------------------------------------
(* The order the add-on decides on takes the account where the action asks. *)
LEMMA OrderDoesWhatIsAsked ==
  ASSUME NEW action \in Actions \ {"FLATTEN"}, NEW at \in Int
  PROVE  at + OrderFor(action, at) = Asked(action, at)
  BY DEF Actions, Entries, OrderFor, Asked

LEMMA OnItsWayMsg ==
  ASSUME TypeOK, NEW c \in Msgs
  PROVE  /\ OnItsWay(c) <=> msg[c] \in Msg
         /\ OnItsWay(c) <=> msg[c].at \in {"wire", "decide", "submit", "working"}
  BY DEF TypeOK, OnItsWay, Msg, Unused, Gone

(* A step after which the same commands are on their way, to come to the    *)
(* same.                                                                    *)
LEMMA FollowedKept ==
  ASSUME Followed, ~overlapped' => ~overlapped, ~dropped' => ~dropped,
         UNCHANGED <<position, expected>>,
         \A d \in Msgs : /\ OnItsWay(d)' <=> OnItsWay(d)
                         /\ OnItsWay(d) => ComesTo(d)' = ComesTo(d)
  PROVE  Followed'
  <1>1. Quiet' <=> Quiet
    BY DEF Quiet
  <1> QED BY <1>1 DEF Followed

(* The one command that was on its way is done, and has come to what it was *)
(* to come to.                                                              *)
LEMMA FollowedDone ==
  ASSUME Followed, UNCHANGED <<overlapped, dropped, expected>>,
         NEW c \in Msgs, OnItsWay(c), position' = ComesTo(c), ~OnItsWay(c)',
         \A d \in Msgs : OnItsWay(d)' => OnItsWay(d)
  PROVE  Followed'
  <1> SUFFICES ASSUME ~overlapped, ~dropped PROVE Followed'
    BY DEF Followed
  <1>1. \A d \in Msgs : ~OnItsWay(d)'
    BY DEF Followed
  <1> QED BY <1>1 DEF Followed

LEMMA FollowedStep == ASSUME TypeOK, TypeOK', Followed, Next PROVE Followed'
  <1>1. ASSUME NEW c \in Msgs, NEW id \in Ids, NEW action \in Actions,
               Accept(c, id, action)
        PROVE  Followed'
    <2>1. msg[c] = Unused /\ ~OnItsWay(c) /\ UNCHANGED <<position, dropped>>
      BY <1>1 DEF Accept, OnItsWay
    <2>2. CASE listening
      <3> DEFINE next == [at |-> "wire", id |-> id, action |-> action, size |-> 0]
      <3>1. /\ msg' = [msg EXCEPT ![c] = next] /\ expected' = Asked(action, expected)
            /\ overlapped' = (overlapped \/ ~Quiet)
        BY <1>1, <2>2 DEF Accept
      <3>2. msg'[c] = next /\ \A d \in Msgs \ {c} : msg'[d] = msg[d]
        BY <3>1 DEF TypeOK
      <3> SUFFICES ASSUME ~overlapped', ~dropped' PROVE Followed'
        BY DEF Followed
      <3>3. Quiet /\ position = expected
        BY <2>1, <3>1 DEF Followed
      <3>4. \A d \in Msgs : OnItsWay(d)' <=> d = c
        BY <3>2, <3>3 DEF OnItsWay, Quiet, Unused, Gone
      <3>5. ComesTo(c)' = expected'
        BY <2>1, <3>1, <3>2, <3>3 DEF ComesTo
      <3>6. ~Quiet'
        BY <3>4 DEF Quiet
      <3> QED BY <3>4, <3>5, <3>6 DEF Followed
    <2>3. CASE ~listening
      <3>1. msg' = [msg EXCEPT ![c] = Gone] /\ UNCHANGED <<expected, overlapped>>
        BY <1>1, <2>3 DEF Accept
      <3>2. msg'[c] = Gone /\ \A d \in Msgs \ {c} : msg'[d] = msg[d]
        BY <3>1 DEF TypeOK
      <3> QED BY <2>1, <3>1, <3>2, FollowedKept DEF OnItsWay, ComesTo
    <2> QED BY <2>2, <2>3
  <1>2. ASSUME UNCHANGED <<msg, position, expected, overlapped, dropped>>
        PROVE  Followed'
    BY <1>2, FollowedKept DEF OnItsWay, ComesTo
  <1>3. ASSUME NEW c \in Msgs, Take(c) PROVE Followed'
    <2>1. CASE listening /\ ~Seen(msg[c].id)
      <3>1. msg[c] \in Msg /\ msg[c].at = "wire"
        BY <1>3, MsgType DEF Take
      <3>2. msg' = [msg EXCEPT ![c].at = "decide"]
        BY <1>3, <2>1 DEF Take
      <3>3. /\ msg'[c].at = "decide" /\ msg'[c].action = msg[c].action
            /\ \A d \in Msgs \ {c} : msg'[d] = msg[d]
        BY <3>1, <3>2 DEF TypeOK, Msg
      <3>4. UNCHANGED <<position, expected, overlapped, dropped>>
        BY <1>3, <2>1 DEF Take
      <3>5. OnItsWay(c)' /\ OnItsWay(c) /\ ComesTo(c)' = ComesTo(c)
        BY <3>1, <3>3, <3>4, OnItsWayMsg DEF ComesTo, OnItsWay, Unused, Gone
      <3>6. \A d \in Msgs \ {c} : (OnItsWay(d)' <=> OnItsWay(d)) /\ ComesTo(d)' = ComesTo(d)
        BY <3>3, <3>4 DEF ComesTo, OnItsWay
      <3> QED BY <3>4, <3>5, <3>6, FollowedKept
    <2>2. CASE ~(listening /\ ~Seen(msg[c].id))
      BY <1>3, <2>2 DEF Take, Drops, Followed
    <2> QED BY <2>1, <2>2
  <1>4. ASSUME NEW c \in Msgs, Decide(c) PROVE Followed'
    <2> DEFINE size == OrderFor(msg[c].action, position)
               next == [msg[c] EXCEPT !.at = "submit", !.size = size]
    <2>1. /\ msg[c] \in Msg /\ msg[c].at = "decide" /\ msg[c].action # "FLATTEN"
          /\ UNCHANGED <<position, expected, overlapped, dropped>> /\ OnItsWay(c)
      BY <1>4, MsgType, OnItsWayMsg DEF Decide, history
    <2>2. msg[c].action \in Actions \ {"FLATTEN"}
      BY <2>1 DEF Msg
    <2>3. position + size = ComesTo(c)
      BY <2>1, <2>2, OrderDoesWhatIsAsked DEF ComesTo, TypeOK
    <2>4. msg' = [msg EXCEPT ![c] = IF size = 0 THEN Gone ELSE next]
      BY <1>4 DEF Decide
    <2>5. next.at = "submit" /\ next.size = size
      BY <2>1 DEF Msg
    <2> HIDE DEF size, next
    <2>6. /\ msg'[c] = IF size = 0 THEN Gone ELSE next
          /\ \A d \in Msgs \ {c} : msg'[d] = msg[d]
      BY <2>4 DEF TypeOK
    <2>7. \A d \in Msgs \ {c} : (OnItsWay(d)' <=> OnItsWay(d)) /\ ComesTo(d)' = ComesTo(d)
      BY <2>1, <2>6 DEF ComesTo, OnItsWay
    <2>8. CASE size = 0
      <3>1. ~OnItsWay(c)'
        BY <2>6, <2>8 DEF OnItsWay
      <3>2. position' = ComesTo(c)
        BY <2>1, <2>3, <2>8 DEF TypeOK
      <3> QED BY <2>1, <2>7, <3>1, <3>2, FollowedDone
    <2>9. CASE size # 0
      <3>1. OnItsWay(c)' /\ ComesTo(c)' = ComesTo(c)
        BY <2>1, <2>3, <2>5, <2>6, <2>9 DEF OnItsWay, ComesTo, Unused, Gone
      <3> QED BY <2>1, <2>7, <3>1, FollowedKept
    <2> QED BY <2>8, <2>9
  <1>5. ASSUME NEW c \in Msgs, Flatten(c) PROVE Followed'
    <2> DEFINE close == [msg[c] EXCEPT !.at = "working", !.size = -position]
    <2>0. UNCHANGED <<position, expected, overlapped, dropped>>
      BY <1>5 DEF Flatten
    <2> SUFFICES ASSUME ~overlapped, ~dropped PROVE Followed'
      BY <2>0 DEF Followed
    <2>1. /\ msg[c] \in Msg /\ OnItsWay(c) /\ ComesTo(c) = 0 /\ position \in Int
      BY <1>5, MsgType, OnItsWayMsg DEF Flatten, ComesTo, Asked, TypeOK
    <2>2. \A d \in Msgs \ {c} : ~OnItsWay(d)
      BY <2>1 DEF Followed
    <2>3. close.at = "working" /\ close.size = -position
      BY <2>1 DEF Msg
    <2>4. msg' = [d \in Msgs |-> IF d = c /\ position # 0 THEN close
                                 ELSE IF d = c \/ msg[d].at = "working" THEN Gone ELSE msg[d]]
      BY <1>5 DEF Flatten
    <2> HIDE DEF close
    <2>5. \A d \in Msgs \ {c} : ~OnItsWay(d)'
      BY <2>2, <2>4 DEF OnItsWay
    <2>6. CASE position = 0
      <3>1. ~OnItsWay(c)' /\ position' = ComesTo(c)
        BY <2>0, <2>1, <2>4, <2>6 DEF OnItsWay
      <3> QED BY <2>0, <2>1, <2>5, <3>1, FollowedDone
    <2>7. CASE position # 0
      <3>1. msg'[c] = close
        BY <2>4, <2>7
      <3>2. OnItsWay(c)' /\ ComesTo(c)' = ComesTo(c)
        BY <2>0, <2>1, <2>3, <3>1 DEF OnItsWay, ComesTo, Unused, Gone
      <3> QED BY <2>0, <2>1, <2>2, <2>5, <3>2, FollowedKept
    <2> QED BY <2>6, <2>7
  <1>6. ASSUME NEW c \in Msgs, Submit(c) PROVE Followed'
    <2>1. /\ msg[c] \in Msg /\ msg[c].at = "submit" /\ OnItsWay(c)
          /\ UNCHANGED <<position, expected, overlapped, dropped>>
      BY <1>6, MsgType, OnItsWayMsg DEF Submit
    <2>2. /\ msg'[c].at = "working" /\ msg'[c].size = msg[c].size
          /\ \A d \in Msgs \ {c} : msg'[d] = msg[d]
      BY <1>6, <2>1 DEF Submit, TypeOK, Msg
    <2>3. OnItsWay(c)' /\ ComesTo(c)' = ComesTo(c)
      BY <2>1, <2>2 DEF OnItsWay, ComesTo, Unused, Gone
    <2>4. \A d \in Msgs \ {c} : (OnItsWay(d)' <=> OnItsWay(d)) /\ ComesTo(d)' = ComesTo(d)
      BY <2>1, <2>2 DEF ComesTo, OnItsWay
    <2> QED BY <2>1, <2>3, <2>4, FollowedKept
  <1>7. ASSUME NEW c \in Msgs, SubmitFails(c) PROVE Followed'
    BY <1>7 DEF SubmitFails, Drops, Followed
  <1>8. ASSUME NEW c \in Msgs, Fill(c) PROVE Followed'
    <2>1. /\ OnItsWay(c) /\ position' = ComesTo(c)
          /\ UNCHANGED <<expected, overlapped, dropped>>
      BY <1>8, OnItsWayMsg DEF Fill, ComesTo, history
    <2>2. msg'[c] = Gone /\ \A d \in Msgs \ {c} : msg'[d] = msg[d]
      BY <1>8 DEF Fill, TypeOK
    <2> QED BY <2>1, <2>2, FollowedDone DEF OnItsWay
  <1>9. CASE Toggle
    <2>1. PICK lost \in SUBSET {c \in Msgs : msg[c].at = "wire"} :
            /\ msg' = [c \in Msgs |-> IF c \in lost THEN Gone ELSE msg[c]]
            /\ dropped' = (dropped \/ lost # {})
      BY <1>9 DEF Toggle
    <2>2. CASE lost = {}
      <3>1. \A d \in Msgs : msg'[d] = msg[d]
        BY <2>1, <2>2
      <3> QED BY <1>9, <2>1, <3>1, FollowedKept DEF Toggle, OnItsWay, ComesTo
    <2>3. CASE lost # {}
      BY <2>1, <2>3 DEF Followed
    <2> QED BY <2>2, <2>3
  <1>10. CASE ListenerRestarts
    <2>1. dropped' = (dropped \/ msg' # msg) /\ UNCHANGED <<position, expected, overlapped>>
      BY <1>10 DEF ListenerRestarts
    <2>2. CASE msg' = msg
      BY <2>1, <2>2, FollowedKept DEF OnItsWay, ComesTo
    <2>3. CASE msg' # msg
      BY <2>1, <2>3 DEF Followed
    <2> QED BY <2>2, <2>3
  <1>11. ASSUME \/ \E id \in Ids : \/ \E action \in Entries : Refuse(id, action)
                                   \/ ForgetsAtReceiver(id) \/ ForgetsAtListener(id)
                \/ \E side \in Entries : CoolOff(side)
                \/ ReceiverRestarts
         PROVE  Followed'
    <2>1. UNCHANGED <<msg, position, expected, overlapped, dropped>>
      BY <1>11 DEF Refuse, ForgetsAtReceiver, ForgetsAtListener, CoolOff,
                   ReceiverRestarts, history
    <2> QED BY <2>1, <1>2
  <1> QED BY <1>1, <1>3, <1>4, <1>5, <1>6, <1>7, <1>8, <1>9, <1>10, <1>11 DEF Next

-----------------------------------------------------------------------------
(* The order of an entry is one contract, at a position not on its side.    *)
LEMMA EntryOrder ==
  ASSUME NEW action \in Entries, NEW at \in Int, OrderFor(action, at) # 0
  PROVE  \/ OrderFor(action, at) = 1 /\ at <= 0
         \/ OrderFor(action, at) = -1 /\ at >= 0
  BY DEF Entries, Actions, OrderFor

(* A step that puts nothing on its way and decides on no order, at the same *)
(* position, and ends no cooldown of a command on its way.                  *)
LEMMA SpacedKept ==
  ASSUME Spaced, ~crossed' => ~crossed, position' = position,
         \A d \in Msgs : OnItsWay(d)' =>
            /\ OnItsWay(d) /\ msg'[d].action = msg[d].action
            /\ msg[d].action \in cooling => msg[d].action \in cooling'
            /\ msg'[d].at \in {"submit", "working"} =>
                  msg[d].at \in {"submit", "working"} /\ msg'[d].size = msg[d].size
  PROVE  Spaced'
  BY DEF Spaced

(* Where a command that is no entry was on its way, no entry was.           *)
LEMMA SpacedByOther ==
  ASSUME Spaced, crossed' = crossed,
         NEW c \in Msgs, OnItsWay(c), ~OnItsWay(c)' \/ msg'[c].action \notin Entries,
         \A d \in Msgs : OnItsWay(d)' => OnItsWay(d),
         \A d \in Msgs \ {c} : OnItsWay(d)' => msg'[d] = msg[d]
  PROVE  Spaced'
  <1>1. \A d \in Msgs : ~crossed /\ OnItsWay(d)' /\ msg'[d].action \in Entries => FALSE
    BY DEF Spaced
  <1> QED BY <1>1 DEF Spaced

LEMMA SpacedAccept ==
  ASSUME TypeOK, TypeOK', Spaced, NEW c \in Msgs, NEW id \in Ids,
         NEW action \in Actions, Accept(c, id, action)
  PROVE  Spaced'
  <1> SUFFICES ASSUME ~crossed' PROVE Spaced'
    BY DEF Spaced
  <1>1. /\ msg[c] = Unused /\ ~OnItsWay(c) /\ UNCHANGED position
        /\ action \notin cooling /\ cooling' = Entered(action)
    BY DEF Accept, OnItsWay
  <1>2. ~crossed /\ \A d \in Msgs : OnItsWay(d) => msg[d].action = action
    BY DEF Accept
  <1>3. \A d \in Msgs : OnItsWay(d) => msg[d].action \notin Entries
    BY <1>1, <1>2 DEF Spaced
  <1>4. \A d \in Msgs \ {c} : msg'[d] = msg[d]
    BY DEF Accept, TypeOK
  <1>5. \A d \in Msgs \ {c} : OnItsWay(d)' => OnItsWay(d) /\ msg'[d].action \notin Entries
    BY <1>3, <1>4 DEF OnItsWay
  <1>6. \/ msg'[c] = Gone
        \/ msg'[c].at = "wire" /\ msg'[c].action = action
    BY DEF Accept, TypeOK
  <1>7. CASE action \in Entries
    <2>1. \A d \in Msgs \ {c} : ~OnItsWay(d)'
      BY <1>2, <1>3, <1>5, <1>7
    <2>2. action \in cooling'
      BY <1>1, <1>7 DEF Entered
    <2> QED BY <1>6, <2>1, <2>2 DEF Spaced, OnItsWay, Gone
  <1>8. CASE action \notin Entries
    <2>1. OnItsWay(c)' => msg'[c].action \notin Entries
      BY <1>6, <1>8 DEF OnItsWay
    <2> QED BY <1>5, <2>1 DEF Spaced
  <1> QED BY <1>7, <1>8

LEMMA SpacedStep == ASSUME TypeOK, TypeOK', Spaced, Next PROVE Spaced'
  <1>1. ASSUME NEW c \in Msgs, NEW id \in Ids, NEW action \in Actions,
               Accept(c, id, action)
        PROVE  Spaced'
    BY <1>1, SpacedAccept
  <1>2. ASSUME NEW id \in Ids,
               \/ \E action \in Entries : Refuse(id, action)
               \/ ForgetsAtReceiver(id) \/ ForgetsAtListener(id)
        PROVE  Spaced'
    <2>1. UNCHANGED <<cooling, msg, position, crossed>>
      BY <1>2 DEF Refuse, ForgetsAtReceiver, ForgetsAtListener, receiver, history
    <2> QED BY <2>1, SpacedKept DEF OnItsWay
  <1>3. ASSUME NEW side \in Entries, CoolOff(side) PROVE Spaced'
    BY <1>3, SpacedKept DEF CoolOff, OnItsWay, history
  <1>4. CASE ReceiverRestarts
    <2>1. UNCHANGED <<msg, position>> /\ crossed' = (crossed \/ ~Quiet)
      BY <1>4 DEF ReceiverRestarts
    <2> QED BY <2>1 DEF Spaced, Quiet, OnItsWay
  <1>5. ASSUME NEW c \in Msgs, Take(c) PROVE Spaced'
    <2>1. /\ msg[c] \in Msg /\ OnItsWay(c)
          /\ UNCHANGED <<cooling, position, crossed>>
      BY <1>5, MsgType, OnItsWayMsg DEF Take, receiver
    <2>2. CASE msg' = [msg EXCEPT ![c].at = "decide"]
      <3>1. /\ msg'[c].at = "decide" /\ msg'[c].action = msg[c].action
            /\ \A d \in Msgs \ {c} : msg'[d] = msg[d]
        BY <2>1, <2>2 DEF TypeOK, Msg
      <3> QED BY <2>1, <3>1, SpacedKept DEF OnItsWay
    <2>3. CASE msg' = [msg EXCEPT ![c] = Gone]
      <3>1. msg'[c] = Gone /\ \A d \in Msgs \ {c} : msg'[d] = msg[d]
        BY <2>3 DEF TypeOK
      <3> QED BY <2>1, <3>1, SpacedKept DEF OnItsWay
    <2> QED BY <1>5, <2>2, <2>3 DEF Take, Drops
  <1>6. ASSUME NEW c \in Msgs, Decide(c) PROVE Spaced'
    <2> DEFINE size == OrderFor(msg[c].action, position)
               next == [msg[c] EXCEPT !.at = "submit", !.size = size]
    <2>1. /\ msg[c] \in Msg /\ OnItsWay(c)
          /\ UNCHANGED <<cooling, position, crossed>>
      BY <1>6, MsgType, OnItsWayMsg DEF Decide, receiver, history
    <2>a. position \in Int
      BY DEF TypeOK
    <2>2. ASSUME msg[c].action \in Entries, size # 0
          PROVE  (size = 1 /\ position <= 0) \/ (size = -1 /\ position >= 0)
      BY <2>a, <2>2, EntryOrder
    <2>3. msg' = [msg EXCEPT ![c] = IF size = 0 THEN Gone ELSE next]
      BY <1>6 DEF Decide
    <2>4. next.at = "submit" /\ next.size = size /\ next.action = msg[c].action
      BY <2>1 DEF Msg
    <2> HIDE DEF size, next
    <2>5. /\ msg'[c] = IF size = 0 THEN Gone ELSE next
          /\ \A d \in Msgs \ {c} : msg'[d] = msg[d]
      BY <2>3 DEF TypeOK
    <2>6. \A d \in Msgs : OnItsWay(d)' => OnItsWay(d) /\ msg'[d].action = msg[d].action
      BY <2>1, <2>4, <2>5 DEF OnItsWay
    <2> SUFFICES ASSUME ~crossed, NEW e \in Msgs, OnItsWay(e)', msg'[e].action \in Entries
                 PROVE  /\ \A d \in Msgs : OnItsWay(d)' => d = e
                        /\ msg'[e].action \in cooling'
                        /\ msg'[e].at \in {"submit", "working"} =>
                              \/ msg'[e].size = 1 /\ position' <= 0
                              \/ msg'[e].size = -1 /\ position' >= 0
      BY <2>1 DEF Spaced
    <2>7. OnItsWay(e) /\ msg[e].action \in Entries /\ e = c
      BY <2>1, <2>6 DEF Spaced
    <2>8. msg'[c] = next /\ size # 0
      BY <2>5, <2>7 DEF OnItsWay
    <2> QED BY <2>1, <2>2, <2>4, <2>6, <2>7, <2>8 DEF Spaced
  <1>7. ASSUME NEW c \in Msgs, Flatten(c) PROVE Spaced'
    <2> DEFINE close == [msg[c] EXCEPT !.at = "working", !.size = -position]
    <2>1. /\ msg[c].action \notin Entries /\ OnItsWay(c) /\ crossed' = crossed
          /\ msg[c] \in Msg
      BY <1>7, OnItsWayMsg DEF Flatten, Entries
    <2>2. close.action = msg[c].action
      BY <2>1 DEF Msg
    <2>3. \A d \in Msgs : msg'[d] = IF d = c /\ position # 0 THEN close
                                    ELSE IF d = c \/ msg[d].at = "working" THEN Gone ELSE msg[d]
      BY <1>7 DEF Flatten
    <2> HIDE DEF close
    <2>4. ~OnItsWay(c)' \/ msg'[c].action \notin Entries
      BY <2>1, <2>2, <2>3 DEF OnItsWay
    <2>5. \A d \in Msgs \ {c} : msg'[d] = Gone \/ msg'[d] = msg[d]
      BY <2>3
    <2>6. /\ \A d \in Msgs : OnItsWay(d)' => OnItsWay(d)
          /\ \A d \in Msgs \ {c} : OnItsWay(d)' => msg'[d] = msg[d]
      BY <2>1, <2>5 DEF OnItsWay
    <2> QED BY <2>1, <2>4, <2>6, SpacedByOther
  <1>8. ASSUME NEW c \in Msgs, Submit(c) PROVE Spaced'
    <2>1. /\ msg[c] \in Msg /\ msg[c].at = "submit" /\ OnItsWay(c)
          /\ UNCHANGED <<cooling, position, crossed>>
      BY <1>8, MsgType, OnItsWayMsg DEF Submit, receiver
    <2>2. /\ msg'[c].at = "working" /\ msg'[c].size = msg[c].size
          /\ msg'[c].action = msg[c].action
          /\ \A d \in Msgs \ {c} : msg'[d] = msg[d]
      BY <1>8, <2>1 DEF Submit, TypeOK, Msg
    <2> QED BY <2>1, <2>2, SpacedKept DEF OnItsWay
  <1>9. ASSUME NEW c \in Msgs, SubmitFails(c) \/ Fill(c) PROVE Spaced'
    <2>1. /\ OnItsWay(c) /\ crossed' = crossed
          /\ msg' = [msg EXCEPT ![c] = Gone]
      BY <1>9, OnItsWayMsg DEF SubmitFails, Fill, Drops, history
    <2>2. msg'[c] = Gone /\ \A d \in Msgs \ {c} : msg'[d] = msg[d]
      BY <2>1 DEF TypeOK
    <2> QED BY <2>1, <2>2, SpacedByOther DEF OnItsWay
  <1>10. CASE Toggle \/ ListenerRestarts
    <2>1. /\ \A d \in Msgs : msg'[d] = Gone \/ msg'[d] = msg[d]
          /\ UNCHANGED <<cooling, position, crossed>>
      BY <1>10 DEF Toggle, ListenerRestarts, receiver
    <2> QED BY <2>1, SpacedKept DEF OnItsWay
  <1> QED BY <1>1, <1>2, <1>3, <1>4, <1>5, <1>6, <1>7, <1>8, <1>9, <1>10 DEF Next

-----------------------------------------------------------------------------
LEMMA InitHolds == Init => IInv
  <1> SUFFICES ASSUME Init PROVE IInv
    OBVIOUS
  <1>1. \A c \in Msgs : ~OnItsWay(c)
    BY DEF Init, OnItsWay
  <1>2. position = expected
    BY DEF Init
  <1> QED BY <1>1, <1>2, InitCaches DEF IInv, Followed, Spaced

LEMMA Step == IInv /\ [Next]_vars => IInv'
  <1> SUFFICES ASSUME IInv, [Next]_vars PROVE IInv'
    OBVIOUS
  <1>1. CacheInv'
    BY CacheStep DEF IInv
  <1>2. TypeOK /\ TypeOK'
    BY <1>1 DEF IInv, CacheInv
  <1>3. CASE Next
    BY <1>1, <1>2, <1>3, FollowedStep, SpacedStep DEF IInv
  <1>4. CASE UNCHANGED vars
    <2>1. UNCHANGED <<msg, cooling, position, expected, overlapped, crossed, dropped>>
      BY <1>4 DEF vars
    <2>2. Followed' /\ Spaced'
      BY <2>1, FollowedKept, SpacedKept DEF IInv, OnItsWay, ComesTo
    <2> QED BY <1>1, <2>2 DEF IInv
  <1> QED BY <1>3, <1>4

(* The inductive invariant: an id that has led to an order is known to one  *)
(* of the two caches, and the add-on has one command at most of an id past  *)
(* its own; a command that had the way to itself brings the account to what *)
(* was asked for; an entry that no other action crossed was decided on at   *)
(* the position the account still has.                                      *)
THEOREM Invariant == Spec => []IInv
  BY InitHolds, Step, PTL DEF Spec

(* The caches back each other up.  The receiver or the add-on may restart   *)
(* with an empty cache, and a client may repeat its command: while either   *)
(* side remembers the id, TryAccept of the one or try_accept of the other   *)
(* keeps a second order away.                                               *)
THEOREM OneOrder == Spec => []OneOrderWhileRemembered
  <1>1. IInv => OneOrderWhileRemembered
    BY DEF IInv, CacheInv
  <1> QED BY <1>1, Invariant, PTL

(* Commands that have the way to themselves (ExecuteCommand of the add-on   *)
(* reads a position no other order is about to change) leave the account    *)
(* where they ask it to be, for any number of them, either side restarting  *)
(* in between.                                                              *)
THEOREM AccountFollows == Spec => []AccountFollowsCommands
  <1>1. IInv => AccountFollowsCommands
    BY DEF IInv, Followed, AccountFollowsCommands
  <1> QED BY <1>1, Invariant, PTL

(* The receiver's cooldown stands in for what the add-on cannot see: the    *)
(* entry that fills never adds to a position on its own side, unless        *)
(* another kind of command crossed it or the receiver restarted with it on  *)
(* its way.                                                                 *)
THEOREM NoStacking == Spec => CooldownPreventsStacking
  <1>1. ASSUME IInv, NEW c \in Msgs, ~crossed,
               msg[c].at = "working", msg[c].action \in Entries
        PROVE  msg[c].size * position <= 0
    <2>1. position \in Int /\ OnItsWay(c)
      BY <1>1, OnItsWayMsg DEF IInv, CacheInv, TypeOK
    <2>2. \/ msg[c].size = 1 /\ position <= 0
          \/ msg[c].size = -1 /\ position >= 0
      BY <1>1, <2>1 DEF IInv, Spaced
    <2> QED BY <2>1, <2>2
  <1>2. IInv /\ [Next]_vars =>
          [\A c \in Msgs :
             msg[c] # Unused /\ msg[c].at = "working" /\ position' # position
             /\ msg[c].action \in Entries /\ msg'[c] = Gone
             => crossed \/ msg[c].size * position <= 0]_vars
    BY <1>1
  <1> QED BY <1>2, Invariant, PTL DEF Spec, CooldownPreventsStacking
=============================================================================
