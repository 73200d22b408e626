-------------------------- MODULE SierraDtcProofs --------------------------
(* Proofs about SierraDtc, for any waits and any amount of chatter: what    *)
(* submit_market returns or raises of its own is true of the order, unless  *)
(* the server leaves out the id of another one.                             *)
EXTENDS SierraDtc, SequenceTheorems, TLAPS

LEMMA InitHolds == Init => IInv
  <1> SUFFICES ASSUME Init PROVE IInv
    OBVIOUS
  <1>1. TypeOK
    <2>1. <<>> \in Seq(Message)
      OBVIOUS
    <2> QED BY <2>1, SierraAssumption DEF Init, TypeOK, Results, SierraAssumption
  <1>2. UpdatesAreTrue /\ ResultsAreTrue
    BY DEF Init, UpdatesAreTrue, ResultsAreTrue, UpdatesAreOurs
  <1> QED BY <1>1, <1>2 DEF IInv

-----------------------------------------------------------------------------
(* What is left of the inbox after a chunk was there before, or is garbage. *)
LEMMA RestFacts ==
  ASSUME inbox \in Seq(Message), NEW k \in 1..Len(inbox), NEW cut \in BOOLEAN,
         cut => k < Len(inbox)
  PROVE  /\ Rest(k, cut) \in Seq(Message)
         /\ \A i \in DOMAIN Rest(k, cut) :
              \/ Rest(k, cut)[i] = "garbage"
              \/ \E j \in DOMAIN inbox : Rest(k, cut)[i] = inbox[j]
  <1> DEFINE tail(a) == SubSeq(inbox, a, Len(inbox))
  <1>1. Len(inbox) \in Nat /\ DOMAIN inbox = 1..Len(inbox) /\ "garbage" \in Message
    BY DEF Message
  <1>2. \A a \in 1..(Len(inbox) + 1) :
          /\ tail(a) \in Seq(Message)
          /\ \A i \in DOMAIN tail(a) : \E j \in DOMAIN inbox : tail(a)[i] = inbox[j]
    <2> SUFFICES ASSUME NEW a \in 1..(Len(inbox) + 1)
                 PROVE  /\ tail(a) \in Seq(Message)
                        /\ \A i \in DOMAIN tail(a) :
                             \E j \in DOMAIN inbox : tail(a)[i] = inbox[j]
      OBVIOUS
    <2>1. \A i \in a..Len(inbox) : inbox[i] \in Message
      BY <1>1
    <2>2. /\ tail(a) \in Seq(Message)
          /\ Len(tail(a)) = IF a <= Len(inbox) THEN Len(inbox) - a + 1 ELSE 0
          /\ \A i \in 1..(Len(inbox) - a + 1) : tail(a)[i] = inbox[a + i - 1]
      BY <1>1, <2>1, SubSeqProperties
    <2>3. \A i \in DOMAIN tail(a) : a + i - 1 \in DOMAIN inbox /\ tail(a)[i] = inbox[a + i - 1]
      BY <1>1, <2>2
    <2> QED BY <2>2, <2>3
  <1> HIDE DEF tail
  <1>3. CASE ~cut
    <2>1. Rest(k, cut) = tail(k + 1)
      BY <1>3 DEF Rest, tail
    <2> QED BY <1>1, <1>2, <2>1
  <1>4. CASE cut
    <2>1. Rest(k, cut) = <<"garbage">> \o tail(k + 2)
      BY <1>4 DEF Rest, tail
    <2>2. /\ tail(k + 2) \in Seq(Message)
          /\ \A i \in DOMAIN tail(k + 2) : \E j \in DOMAIN inbox : tail(k + 2)[i] = inbox[j]
      BY <1>1, <1>2, <1>4
    <2> DEFINE t == tail(k + 2)
    <2> HIDE DEF t
    <2>3. /\ <<"garbage">> \o t \in Seq(Message)
          /\ \A i \in DOMAIN (<<"garbage">> \o t) :
               \/ (<<"garbage">> \o t)[i] = "garbage"
               \/ \E j \in DOMAIN t : (<<"garbage">> \o t)[i] = t[j]
      <3>1. t \in Seq(Message) /\ <<"garbage">> \in Seq(Message)
        BY <1>1, <2>2 DEF t
      <3>2. <<"garbage">> \o t \in Seq(Message) /\ Len(<<"garbage">> \o t) = 1 + Len(t)
        BY <3>1
      <3>3. \A i \in 1..(1 + Len(t)) :
              (<<"garbage">> \o t)[i] = IF i = 1 THEN "garbage" ELSE t[i - 1]
        BY <3>1
      <3>4. \A i \in 2..(1 + Len(t)) : i - 1 \in DOMAIN t
        BY <3>1
      <3> QED BY <3>1, <3>2, <3>3, <3>4
    <2> QED BY <2>1, <2>2, <2>3 DEF t
  <1> QED BY <1>3, <1>4

(* A receive leaves a true inbox, and hands over a true message.            *)
LEMMA ReceiveFacts ==
  ASSUME IInv, NEW m \in Message, Receive(m)
  PROVE  /\ inbox' \in Seq(Message) /\ UpdatesAreTrue'
         /\ UNCHANGED <<clock, link, order, strangers>>
         /\ m \in Acks => (strangers /\ m \notin Named) \/ order = "working"
         /\ m \in Rejects => (strangers /\ m \notin Named) \/ order = "rejected"
  <1>1. /\ UNCHANGED <<clock, link, order, strangers>>
        /\ inbox \in Seq(Message) /\ inbox # <<>> /\ m = inbox[1]
    BY DEF Receive, IInv, TypeOK
  <1>2. 1 \in DOMAIN inbox
    BY <1>1
  <1>3. PICK k \in 1..Len(inbox), cut \in BOOLEAN :
          (cut => k < Len(inbox)) /\ inbox' = Rest(k, cut)
    BY DEF Receive
  <1>4. /\ inbox' \in Seq(Message)
        /\ \A i \in DOMAIN inbox' : \/ inbox'[i] = "garbage"
                                    \/ \E j \in DOMAIN inbox : inbox'[i] = inbox[j]
    BY <1>1, <1>3, RestFacts
  <1>5. UpdatesAreTrue'
    BY <1>1, <1>4 DEF IInv, UpdatesAreTrue, Acks, Rejects
  <1> QED BY <1>1, <1>2, <1>4, <1>5 DEF IInv, UpdatesAreTrue, Acks, Rejects, Named

(* A message appended to the inbox keeps it true if it is true.             *)
LEMMA SaysFacts ==
  ASSUME IInv, NEW m \in Message, Says(m),
         order' = order \/ order = "sent",
         strangers => strangers',
         order' = order /\ m \in Anonymous => strangers',
         (order' # order /\ m \in Acks) \/ m = "ack" => order' = "working",
         (order' # order /\ m \in Rejects) \/ m = "reject" => order' = "rejected"
  PROVE  inbox' \in Seq(Message) /\ UpdatesAreTrue'
  <1>1. inbox \in Seq(Message) /\ inbox' = Append(inbox, m)
    BY DEF IInv, TypeOK, Says
  <1>2. /\ inbox' \in Seq(Message) /\ DOMAIN inbox' = 1..(Len(inbox) + 1)
        /\ \A i \in 1..(Len(inbox) + 1) :
             inbox'[i] = IF i = Len(inbox) + 1 THEN m ELSE inbox[i]
    BY <1>1
  <1>3. \A i \in DOMAIN inbox' : inbox'[i] = m \/ \E j \in DOMAIN inbox : inbox'[i] = inbox[j]
    BY <1>1, <1>2
  <1>4. \A j \in DOMAIN inbox : 
          /\ inbox[j] \in (IF strangers THEN {"ack"} ELSE Acks) => order = "working"
          /\ inbox[j] \in (IF strangers THEN {"reject"} ELSE Rejects) => order = "rejected"
    BY DEF IInv, UpdatesAreTrue
  <1>5. ~strangers' => ~strangers /\ (m \in Anonymous => order' # order)
    OBVIOUS
  <1> QED BY <1>2, <1>3, <1>4, <1>5 DEF UpdatesAreTrue, Acks, Rejects, Anonymous

-----------------------------------------------------------------------------
(* The steps of the client.                                                 *)
LEMMA LogonStep == ASSUME IInv, Logon PROVE IInv'
  <1>0. TypeOK /\ pc = "logon" /\ order = "none" /\ result = "none" /\ deadline' = deadline
    BY DEF IInv, Logon, ResultsAreTrue
  <1>1. /\ inbox' \in Seq(Message) /\ UpdatesAreTrue'
        /\ UNCHANGED <<clock, link, order, strangers>>
    <2>1. CASE \E m \in Message : Receive(m)
      BY <2>1, ReceiveFacts
    <2>2. CASE UNCHANGED <<clock, server>>
      BY <1>0, <2>2 DEF server, IInv, UpdatesAreTrue, TypeOK
    <2> QED BY <2>1, <2>2 DEF Logon, Message, Replies, Named, Chatter, Noise, Anonymous
  <1>2. \/ pc' \in {"logon", "submit"} /\ result' = "none"
        \/ pc' = "done" /\ result' \in {"dtc error", "value error", "os error"}
    BY <1>0 DEF Logon, Fail
  <1>3. TypeOK'
    BY <1>0, <1>1, <1>2 DEF TypeOK, Results, Raised
  <1>4. ResultsAreTrue'
    BY <1>0, <1>1, <1>2 DEF ResultsAreTrue, UpdatesAreOurs
  <1> QED BY <1>1, <1>3, <1>4 DEF IInv

LEMMA SubmitStep == ASSUME IInv, Submit PROVE IInv'
  <1>0. TypeOK /\ pc = "submit" /\ order = "none" /\ result = "none"
    BY DEF IInv, Submit, ResultsAreTrue
  <1>1. /\ UNCHANGED <<clock, inbox, link, strangers>> /\ order' \in {"none", "sent"}
        /\ \/ pc' = "await" /\ result' = "none"
           \/ pc' = "logoff" /\ result' = "os error"
        /\ deadline' \in {deadline, clock + AckWait}
    BY <1>0 DEF Submit, Leave, AckDeadline
  <1>2. clock + AckWait \in Nat
    BY <1>0, SierraAssumption DEF TypeOK, SierraAssumption
  <1>3. TypeOK'
    BY <1>0, <1>1, <1>2 DEF TypeOK, Results, Raised
  <1>4. UpdatesAreTrue'
    BY <1>0, <1>1 DEF IInv, UpdatesAreTrue
  <1>5. ResultsAreTrue'
    BY <1>0, <1>1 DEF ResultsAreTrue, UpdatesAreOurs
  <1> QED BY <1>3, <1>4, <1>5 DEF IInv

LEMMA AwaitStep == ASSUME IInv, AwaitAck PROVE IInv'
  <1>0. TypeOK /\ pc = "await" /\ result = "none" /\ deadline' = deadline
    BY DEF IInv, AwaitAck, ResultsAreTrue
  <1>1. /\ inbox' \in Seq(Message) /\ UpdatesAreTrue'
        /\ UNCHANGED <<clock, link, order, strangers>>
    <2>1. CASE \E m \in Message : Receive(m)
      BY <2>1, ReceiveFacts
    <2>2. CASE UNCHANGED <<clock, server>>
      BY <1>0, <2>2 DEF server, IInv, UpdatesAreTrue, TypeOK
    <2> QED BY <2>1, <2>2
            DEF AwaitAck, Taken, Acks, Rejects, Message, Replies, Named, Chatter, Noise, Anonymous
  <1>2. \/ pc' = "await" /\ result' = "none"
        \/ pc' = "logoff" /\ result' \in {"assumed", "value error", "os error"}
        \/ pc' = "logoff" /\ result' = "acked" /\ (strangers \/ order = "working")
        \/ pc' = "logoff" /\ result' = "rejected" /\ (strangers \/ order = "rejected")
    <2>1. \A m \in Acks : Receive(m) => strangers \/ order = "working"
      BY ReceiveFacts DEF Message, Named, Chatter, Anonymous, Acks
    <2>2. \A m \in Rejects : Receive(m) => strangers \/ order = "rejected"
      BY ReceiveFacts DEF Message, Named, Chatter, Anonymous, Rejects
    <2> QED BY <1>0, <2>1, <2>2 DEF AwaitAck, Taken, Leave, Unanswered
  <1>3. TypeOK'
    BY <1>0, <1>1, <1>2 DEF TypeOK, Results, Raised, Returned
  <1>4. ResultsAreTrue'
    BY <1>0, <1>1, <1>2 DEF ResultsAreTrue, UpdatesAreOurs
  <1> QED BY <1>1, <1>3, <1>4 DEF IInv

LEMMA OtherClientStep == ASSUME IInv, Connect \/ Negotiate \/ Logoff PROVE IInv'
  <1>0. TypeOK /\ UNCHANGED <<clock, deadline, inbox, link, order, strangers>>
    BY DEF IInv, Connect, Negotiate, Logoff, server
  <1>1. \/ /\ pc \in {"connect", "negotiate"} /\ pc' \in {"negotiate", "logon"}
           /\ result' = result
        \/ /\ pc \in {"connect", "negotiate"} /\ pc' = "done"
           /\ result' \in {"os error", "dtc error"}
        \/ pc = "logoff" /\ pc' = "done" /\ result' = result
    BY DEF Connect, Negotiate, Logoff, Fail
  <1>2. TypeOK'
    BY <1>0, <1>1 DEF TypeOK, Results, Raised
  <1>3. UpdatesAreTrue' /\ ResultsAreTrue'
    BY <1>0, <1>1 DEF IInv, UpdatesAreTrue, ResultsAreTrue, UpdatesAreOurs
  <1> QED BY <1>2, <1>3 DEF IInv

-----------------------------------------------------------------------------
(* The steps of the server, and time.                                       *)
LEMMA ServerStep == ASSUME IInv, Server PROVE IInv'
  <1>0. TypeOK /\ strangers \in BOOLEAN /\ UNCHANGED <<clock, pc, deadline, result>>
    BY DEF IInv, TypeOK, Server, ServerLogon, ServerOrder, ServerChatter, ServerDrops
  <1>1. /\ order' = order \/ (order = "sent" /\ order' \in {"working", "rejected"})
        /\ link' \in {"open", "closed", "reset"} /\ strangers' \in BOOLEAN
        /\ strangers => strangers'
    BY <1>0 DEF TypeOK, Server, ServerLogon, ServerOrder, ServerChatter, ServerDrops
  <1>2. inbox' \in Seq(Message) /\ UpdatesAreTrue'
    <2>1. CASE ServerLogon
      BY <2>1, SaysFacts DEF ServerLogon, Message, Replies, Acks, Rejects, Anonymous
    <2>2. CASE ServerChatter
      BY <2>2, SaysFacts DEF ServerChatter, Message, Chatter, Noise, Anonymous
    <2>3. CASE ServerDrops
      BY <1>0, <2>3 DEF ServerDrops, IInv, TypeOK, UpdatesAreTrue
    <2>4. CASE ServerOrder
      <3>1. CASE order' = "working" /\ \E m \in Acks : Says(m)
        BY <2>4, <3>1, SaysFacts
           DEF ServerOrder, Message, Named, Chatter, Anonymous, Acks, Rejects
      <3>2. CASE order' = "rejected" /\ \E m \in Rejects : Says(m)
        BY <2>4, <3>2, SaysFacts
           DEF ServerOrder, Message, Named, Chatter, Anonymous, Acks, Rejects
      <3>3. CASE inbox' = inbox
        BY <1>0, <2>4, <3>3 DEF ServerOrder, IInv, TypeOK, UpdatesAreTrue
      <3> QED BY <2>4, <3>1, <3>2, <3>3 DEF ServerOrder, Update
    <2> QED BY <2>1, <2>2, <2>3, <2>4 DEF Server
  <1>3. TypeOK'
    BY <1>0, <1>1, <1>2 DEF TypeOK
  <1>4. ResultsAreTrue'
    BY <1>0, <1>1 DEF IInv, ResultsAreTrue, UpdatesAreOurs
  <1> QED BY <1>2, <1>3, <1>4 DEF IInv

LEMMA Step == IInv /\ [Next]_vars => IInv'
  <1> SUFFICES ASSUME IInv, [Next]_vars PROVE IInv'
    OBVIOUS
  <1>1. CASE Client
    BY <1>1, LogonStep, SubmitStep, AwaitStep, OtherClientStep DEF Client
  <1>2. CASE Server
    BY <1>2, ServerStep
  <1>3. CASE Tick
    <2>1. /\ UNCHANGED <<pc, deadline, result, inbox, link, order, strangers>>
          /\ clock' = clock + 1
      BY <1>3 DEF Tick, server
    <2>2. TypeOK'
      BY <2>1 DEF IInv, TypeOK
    <2>3. UpdatesAreTrue' /\ ResultsAreTrue'
      BY <2>1 DEF IInv, UpdatesAreTrue, ResultsAreTrue, UpdatesAreOurs
    <2> QED BY <2>2, <2>3 DEF IInv
  <1>4. CASE UNCHANGED vars
    BY <1>4 DEF vars, IInv, TypeOK, UpdatesAreTrue, ResultsAreTrue,
                   UpdatesAreOurs
  <1> QED BY <1>1, <1>2, <1>3, <1>4 DEF Next, Finished

(* The inductive invariant: updates on their way are true, and so is what   *)
(* the client has made of them.                                             *)
THEOREM Invariant == Spec => []IInv
  BY InitHolds, Step, PTL DEF Spec

(* A SierraDtcError of submit_market means that no order works at the       *)
(* server, however its messages were late, grouped, cut or mixed with       *)
(* others: the dispatch may release the slot and answer with the error.     *)
(* Only an update of another order that bears no ClientOrderID can bring    *)
(* about another one.                                                       *)
THEOREM ErrorsAreHonest == Spec => []DtcErrorMeansNoOrder
  <1>1. IInv => DtcErrorMeansNoOrder
    BY DEF IInv, ResultsAreTrue, UpdatesAreOurs, DtcErrorMeansNoOrder
  <1> QED BY <1>1, Invariant, PTL

(* What _await_order_ack takes for the acknowledgement of this order is     *)
(* one, with the same exception: an update with another id or a piece of a  *)
(* cut message is never taken for it.                                       *)
THEOREM AcksAreHonest == Spec => []AckMeansWorking
  <1>1. IInv => AckMeansWorking
    BY DEF IInv, ResultsAreTrue, UpdatesAreOurs, AckMeansWorking
  <1> QED BY <1>1, Invariant, PTL
=============================================================================
