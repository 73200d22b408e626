-------------------------- MODULE FlowEngineProofs --------------------------
(* Proofs about FlowEngine, for any set of signals, any thresholds, any     *)
(* number of days and orders: the type invariant, the reservation invariant *)
(* and the refinement of FlowReservations.  What the rules say matters only *)
(* through one fact: a signal passes when no rule objects, and so when its  *)
(* slot is free, it has a direction and the session trades.                 *)
EXTENDS FlowEngine, WellFoundedInduction, TLAPS

(* A set of rule positions that is not empty has a first element.           *)
LEMMA FirstExists ==
  ASSUME NEW S \in SUBSET (1..13), S # {}
  PROVE  \E i \in S : \A j \in S : i <= j
  <1> DEFINE R == {ss \in Nat \X Nat : ss[1] < ss[2]}
  <1>1. R = OpToRel(<, Nat)
    BY DEF OpToRel
  <1>2. IsWellFoundedOn(R, Nat)
    BY <1>1, NatLessThanWellFounded
  <1>3. S \subseteq Nat
    OBVIOUS
  <1>4. \A i, j \in S : <<j, i>> \in R <=> j < i
    BY <1>3
  <1> HIDE DEF R
  <1>5. \E i \in S : \A j \in S : ~(<<j, i>> \in R)
    BY <1>2, <1>3, WFMin, Zenon
  <1> QED BY <1>3, <1>4, <1>5

LEMMA RuleNames ==
  /\ DOMAIN Rules = 1..13
  /\ \A i \in 1..13 : Rules[i] # "allowed"
  /\ Rules[6] = "After hours" /\ Rules[7] = "No direction" /\ Rules[11] = "Rule 11"
  BY DEF Rules

LEMMA VerdictCases ==
  ASSUME NEW st, NEW sig
  PROVE  /\ Verdict(st, sig) \in {Rules[i] : i \in DOMAIN Rules} \cup {"allowed"}
         /\ Verdict(st, sig) = "allowed" => Objections(st, sig) = {}
  <1>1. Objections(st, sig) \in SUBSET (1..13)
    BY RuleNames DEF Objections
  <1>2. CASE Objections(st, sig) = {}
    BY <1>2 DEF Verdict
  <1>3. CASE Objections(st, sig) # {}
    <2> DEFINE i == CHOOSE i \in Objections(st, sig) : \A j \in Objections(st, sig) : i <= j
    <2>1. i \in Objections(st, sig)
      BY <1>1, <1>3, FirstExists
    <2>2. Verdict(st, sig) = Rules[i]
      BY <1>3 DEF Verdict
    <2> QED BY <1>1, <2>1, <2>2, RuleNames
  <1> QED BY <1>2, <1>3

(* A signal that passes names a free slot of a trading session.             *)
LEMMA PassesMeansFree ==
  ASSUME NEW st, NEW sig \in Signals, minute \in Int,
         Verdict(st, sig) = "allowed"
  PROVE  /\ Session(minute) \in TradedSessions
         /\ sig.dir \in Directions
         /\ <<Session(minute), sig.dir>> \notin st.taken
  <1>1. Objections(st, sig) = {}
    BY VerdictCases
  <1>2. /\ ~ObjectsTo("After hours", st, sig)
        /\ ~ObjectsTo("No direction", st, sig)
        /\ ~ObjectsTo("Rule 11", st, sig)
    <2>1. \A i \in 1..13 : ~ObjectsTo(Rules[i], st, sig)
      BY <1>1, RuleNames DEF Objections
    <2>2. /\ ~ObjectsTo(Rules[6], st, sig)
          /\ ~ObjectsTo(Rules[7], st, sig)
          /\ ~ObjectsTo(Rules[11], st, sig)
      BY <2>1
    <2> QED BY <2>2, RuleNames, Zenon
  <1>3. /\ Session(minute) # "AFTER"
        /\ sig.dir # "none"
        /\ <<Session(minute), sig.dir>> \notin st.taken
    <2>1. Session(minute) = "AFTER" => ObjectsTo("After hours", st, sig)
      BY SMT DEF ObjectsTo
    <2>2. sig.dir = "none" => ObjectsTo("No direction", st, sig)
      BY Zenon DEF ObjectsTo
    <2>3. <<Session(minute), sig.dir>> \in st.taken => ObjectsTo("Rule 11", st, sig)
      BY Zenon DEF ObjectsTo
    <2> QED BY <1>2, <2>1, <2>2, <2>3
  <1>4. sig.dir \in Directions \cup {"none"}
    BY FlowAssumption DEF FlowAssumption, Signal
  <1>5. Session(minute) \in {"ETH", "RTH", "AFTER"}
    BY DEF Session
  <1> QED BY <1>3, <1>4, <1>5 DEF TradedSessions

(* Sessions follow one another as the minutes do.                           *)
LEMMA SessionMonotone ==
  ASSUME NEW m \in Int, NEW k \in Int, m <= k
  PROVE  Rank(Session(m)) <= Rank(Session(k))
  BY DEF Session, Rank

LEMMA RankFacts ==
  /\ \A s \in {"none", "ETH", "RTH", "AFTER"} : Rank(s) \in 0..3
  /\ \A s, u \in TradedSessions : Rank(s) = Rank(u) => s = u
  /\ \A m \in Int : Session(m) \in {"ETH", "RTH", "AFTER"} /\ Rank(Session(m)) \in 1..3
  <1>1. \A s \in {"none", "ETH", "RTH", "AFTER"} : Rank(s) \in 0..3
    BY DEF Rank
  <1>2. \A s, u \in TradedSessions : Rank(s) = Rank(u) => s = u
    BY DEF Rank, TradedSessions
  <1>3. \A m \in Int : Session(m) \in {"ETH", "RTH", "AFTER"}
    BY DEF Session
  <1>4. \A s \in {"ETH", "RTH", "AFTER"} : Rank(s) \in 1..3
    BY DEF Rank
  <1> QED BY <1>1, <1>2, <1>3, <1>4

LEMMA MinuteType == TypeOK => minute \in Int /\ day \in Nat
  BY FlowAssumption DEF TypeOK, FlowAssumption

LEMMA HandlerType ==
  ASSUME TypeOK, handler.at = "dispatching"
  PROVE  handler \in InFlight /\ handler.sess \in TradedSessions
         /\ handler.dir \in Directions /\ handler.n \in Nat
  BY DEF TypeOK, InFlight, Idle

(* What the state is after a reset check.                                   *)
LEMMA CurrentFacts ==
  ASSUME TypeOK
  PROVE  /\ Current \in FlowState
         /\ Current.tradingDate = day
         /\ Current.session = Session(minute)
         /\ Current.taken = IF state.tradingDate = day THEN state.taken ELSE {}
  <1> DEFINE st == IF state.tradingDate = day THEN state ELSE FreshState(day)
  <1>1. st \in FlowState /\ st.tradingDate = day
    BY MinuteType DEF TypeOK, FreshState, FlowState
  <1>2. st.taken = IF state.tradingDate = day THEN state.taken ELSE {}
    BY DEF FreshState
  <1>3. Current = [st EXCEPT !.session = Session(minute)]
    BY DEF Current
  <1>4. Session(minute) \in {"none", "ETH", "RTH", "AFTER"}
    BY MinuteType, RankFacts
  <1> HIDE DEF st
  <1>5. /\ Current \in FlowState /\ Current.tradingDate = day
        /\ Current.session = Session(minute) /\ Current.taken = st.taken
    BY <1>1, <1>3, <1>4 DEF FlowState
  <1> QED BY <1>2, <1>5

-----------------------------------------------------------------------------
LEMMA InitReservations == Init => ReservationInv
  <1> SUFFICES ASSUME Init PROVE ReservationInv
    OBVIOUS
  <1>1. TypeOK
    BY DEF Init, TypeOK, FreshState, FlowState
  <1>2. LiveIsTaken /\ SessionsInOrder /\ InFlightIsNewest /\ OpenSlotsBacked
    BY DEF Init, LiveIsTaken, SessionsInOrder, InFlightIsNewest, OpenSlotsBacked,
           FreshState, Idle
  <1> QED BY <1>1, <1>2 DEF ReservationInv

(* The state a signal leaves behind.                                        *)
LEMMA DecidedFacts ==
  ASSUME TypeOK, NEW sig \in Signals, NEW v, NEW w,
         v = Verdict(Observed(Current, sig), sig),
         w = Decided(Observed(Current, sig), sig, v)
  PROVE  /\ w \in FlowState
         /\ w.tradingDate = day /\ w.session = Session(minute)
         /\ w.taken = IF v = "allowed"
                      THEN Current.taken \cup {<<Session(minute), sig.dir>>}
                      ELSE Current.taken
         /\ v = "allowed" => /\ Session(minute) \in TradedSessions
                             /\ sig.dir \in Directions
                             /\ <<Session(minute), sig.dir>> \notin Current.taken
  <1> DEFINE st == Observed(Current, sig)
  <1>1. sig \in Signal /\ Color(sig.retail) \in Colors /\ sig.inst \in Int
    BY FlowAssumption DEF FlowAssumption, Signal, Color, Colors
  <1>2. /\ st \in FlowState /\ st.tradingDate = day
        /\ st.session = Session(minute) /\ st.taken = Current.taken
    BY <1>1, CurrentFacts DEF Observed, FlowState
  <1>3. v = "allowed" => /\ Session(minute) \in TradedSessions
                         /\ sig.dir \in Directions
                         /\ <<Session(minute), sig.dir>> \notin st.taken
    BY PassesMeansFree, MinuteType
  <1>4. /\ w.tradingDate = day /\ w.session = Session(minute)
        /\ w.taken = IF v = "allowed"
                     THEN Current.taken \cup {<<Session(minute), sig.dir>>}
                     ELSE Current.taken
    BY <1>2 DEF Decided, FlowState
  <1>5. w \in FlowState
    <2>1. w.taken \in SUBSET (TradedSessions \X Directions)
      BY <1>2, <1>3, <1>4 DEF FlowState
    <2> QED BY <1>2, <2>1 DEF Decided, FlowState
  <1> QED BY <1>2, <1>3, <1>4, <1>5

(* A state brought up to date keeps the invariant, whatever slots of the    *)
(* current session a manual reset takes from it.                            *)
LEMMA RefreshKeeps ==
  ASSUME ReservationInv
  PROVE  /\ \A o \in live : /\ <<o.sess, o.dir>> \in Current.taken
                            /\ Rank(o.sess) <= Rank(Session(minute))
                            /\ Rank(state.session) <= Rank(Session(minute))
         /\ \A slot \in Current.taken :
              \/ Rank(slot[1]) < Rank(Session(minute))
              \/ \E o \in live : o.sess = slot[1] /\ o.dir = slot[2]
  <1>1. \A o \in live : o.sess \in TradedSessions /\ o.n \in Nat /\ o.dir \in Directions
    BY DEF ReservationInv, TypeOK
  <1>2. minute \in Int /\ Rank(Session(minute)) \in 1..3
    BY MinuteType, RankFacts DEF ReservationInv
  <1>3. state.session \in {"none", "ETH", "RTH", "AFTER"} /\ Rank(state.session) \in 0..3
    BY RankFacts DEF ReservationInv, TypeOK, FlowState
  <1>4. \A o \in live : Rank(o.sess) \in 0..3
    BY <1>1, RankFacts DEF TradedSessions
  <1>5. Current.taken = IF state.tradingDate = day THEN state.taken ELSE {}
    BY CurrentFacts DEF ReservationInv
  <1>6. \A o \in live : /\ <<o.sess, o.dir>> \in Current.taken
                        /\ Rank(o.sess) <= Rank(Session(minute))
                        /\ Rank(state.session) <= Rank(Session(minute))
    <2> SUFFICES ASSUME NEW o \in live
                 PROVE  /\ <<o.sess, o.dir>> \in Current.taken
                        /\ Rank(o.sess) <= Rank(Session(minute))
                        /\ Rank(state.session) <= Rank(Session(minute))
      OBVIOUS
    <2>1. state.tradingDate = day /\ <<o.sess, o.dir>> \in state.taken
      BY DEF ReservationInv, LiveIsTaken
    <2>2. /\ Rank(o.sess) <= Rank(state.session)
          /\ Rank(state.session) <= Rank(Session(minute))
      BY <2>1 DEF ReservationInv, SessionsInOrder
    <2> HIDE DEF ReservationInv
    <2>3. Rank(o.sess) \in Int /\ Rank(state.session) \in Int /\ Rank(Session(minute)) \in Int
      BY <1>2, <1>3, <1>4
    <2> QED BY <1>5, <2>1, <2>2, <2>3
  <1>7. \A slot \in Current.taken :
              \/ Rank(slot[1]) < Rank(Session(minute))
              \/ \E o \in live : o.sess = slot[1] /\ o.dir = slot[2]
    BY <1>5 DEF ReservationInv, OpenSlotsBacked
  <1> QED BY <1>6, <1>7

LEMMA EvaluateKeeps ==
  ASSUME ReservationInv, NEW sig \in Signals, Evaluate(sig)
  PROVE  ReservationInv'
  <1> DEFINE v == Verdict(Observed(Current, sig), sig)
             sess == Session(minute)
             order == [n |-> sent + 1, sess |-> sess, dir |-> sig.dir]
  <1>0. TypeOK
    BY DEF ReservationInv
  <1>1. /\ handler = Idle
        /\ state' = Decided(Observed(Current, sig), sig, v)
        /\ UNCHANGED <<day, minute>>
        /\ decision' = [rule |-> v, warning |-> Warning(Observed(Current, sig), v),
                        color |-> Color(sig.retail), day |-> day,
                        warnings |-> StreakWarnings(Color(sig.retail),
                                                    Warning(Observed(Current, sig), v)),
                        contracts |-> IF v = "allowed" THEN Contracts(sig) ELSE 0]
    BY DEF Evaluate
  <1>2. /\ state' \in FlowState
        /\ state'.tradingDate = day /\ state'.session = sess
        /\ state'.taken = IF v = "allowed"
                          THEN Current.taken \cup {<<sess, sig.dir>>}
                          ELSE Current.taken
        /\ v = "allowed" => /\ sess \in TradedSessions /\ sig.dir \in Directions
                            /\ <<sess, sig.dir>> \notin Current.taken
    BY <1>0, <1>1, DecidedFacts
  <1>3. /\ minute \in Int /\ day \in Nat /\ sent \in Nat
        /\ sess \in {"ETH", "RTH", "AFTER"} /\ Rank(sess) \in 1..3
    BY <1>0, MinuteType, RankFacts DEF TypeOK
  <1>r. \A o \in live : <<o.sess, o.dir>> \in Current.taken /\ Rank(o.sess) <= Rank(sess)
    BY RefreshKeeps
  <1>b. \A slot \in Current.taken :
           \/ Rank(slot[1]) < Rank(sess)
           \/ \E o \in live : o.sess = slot[1] /\ o.dir = slot[2]
    BY RefreshKeeps
  <1>4. decision' \in {NoDecision} \cup Decision
    <2>1. sig \in Signal
      BY FlowAssumption DEF FlowAssumption
    <2>2. Color(sig.retail) \in Colors
      BY <2>1 DEF Signal, Color, Colors
    <2>3. Contracts(sig) \in Int
      <3>1. BaseContracts \in Int
        BY FlowAssumption DEF FlowAssumption
      <3>2. \A n \in Int : Halved(n) \in Int
        BY DEF Halved
      <3> QED BY <3>1, <3>2 DEF Contracts
    <2>4. Warning(Observed(Current, sig), v) \in {"none", "yellow", "wait", "no fade"}
      BY Zenon DEF Warning
    <2>5. v \in {Rules[i] : i \in DOMAIN Rules} \cup {"allowed"}
      BY VerdictCases
    <2> DEFINE size == IF v = "allowed" THEN Contracts(sig) ELSE 0
    <2>6. size \in Int
      BY <2>3
    <2> DEFINE warned == Warning(Observed(Current, sig), v)
               count == StreakWarnings(Color(sig.retail), warned)
    <2>c. count \in Nat
      <3> HIDE DEF warned
      <3>1. InStreak => decision.warnings \in Nat
        BY <1>0 DEF InStreak, TypeOK, Decision
      <3> QED BY <3>1 DEF StreakWarnings
    <2> HIDE DEF size, v, count
    <2>7. decision' \in Decision
      <3>1. decision' = [rule |-> v, warning |-> Warning(Observed(Current, sig), v),
                         color |-> Color(sig.retail), day |-> day,
                         warnings |-> count, contracts |-> size]
        BY <1>1 DEF size, count, warned
      <3> QED BY <1>3, <2>2, <2>4, <2>5, <2>6, <2>c, <3>1 DEF Decision
    <2> QED BY <2>7
  <1>d. day' = day /\ minute' = minute /\ Session(minute') = sess
    BY <1>1
  <1>e. IF v = "allowed"
        THEN /\ handler' = [at |-> "dispatching", n |-> sent + 1, sess |-> sess, dir |-> sig.dir]
             /\ sent' = sent + 1
             /\ live' = live \cup {order}
        ELSE UNCHANGED <<handler, sent, live>>
    BY DEF Evaluate
  <1>o. order.n = sent + 1 /\ order.sess = sess /\ order.dir = sig.dir
    OBVIOUS
  <1> HIDE DEF v, sess, order
  <1>5. CASE v # "allowed"
    <2>1. UNCHANGED <<handler, sent, live>>
      BY <1>5, <1>e
    <2>2. TypeOK'
      <3> HIDE DEF v
      <3> QED BY <1>0, <1>1, <1>2, <1>4, <2>1 DEF TypeOK
    <2>3. LiveIsTaken'
      BY <1>d, <1>2, <1>5, <2>1, <1>r DEF LiveIsTaken
    <2>6. SessionsInOrder'
      <3>1. \A o \in live : o.n <= sent
        BY DEF ReservationInv, SessionsInOrder
      <3>2. state'.tradingDate <= day'
        BY <1>d, <1>2, <1>3
      <3>3. Rank(state'.session) <= Rank(Session(minute'))
        BY <1>d, <1>2, <1>3
      <3>4. \A o \in live' : o.n <= sent' /\ Rank(o.sess) <= Rank(state'.session)
        BY <1>2, <2>1, <1>r, <3>1
      <3> QED BY <3>2, <3>3, <3>4 DEF SessionsInOrder
    <2>4. InFlightIsNewest'
      BY <1>1, <2>1 DEF InFlightIsNewest, Idle
    <2>5. OpenSlotsBacked'
      BY <1>d, <1>2, <1>5, <2>1, <1>b DEF OpenSlotsBacked
    <2> QED BY <2>2, <2>3, <2>4, <2>5, <2>6 DEF ReservationInv
  <1>6. CASE v = "allowed"
    <2>1. /\ handler' = [at |-> "dispatching", n |-> sent + 1, sess |-> sess, dir |-> sig.dir]
          /\ sent' = sent + 1
          /\ live' = live \cup {order}
      BY <1>6, <1>e
    <2>2. sess \in TradedSessions /\ sig.dir \in Directions
          /\ <<sess, sig.dir>> \notin Current.taken
      BY <1>2, <1>6
    <2>3. \A o \in live : o.n \in Nat /\ o.n <= sent /\ o.sess \in TradedSessions
                          /\ Rank(o.sess) \in 0..3
      BY <1>0, RankFacts DEF TypeOK, ReservationInv, SessionsInOrder, TradedSessions
    <2>4. TypeOK'
      <3>1. handler' \in InFlight
        BY <1>3, <2>1, <2>2 DEF InFlight
      <3>2. order \in [n : Nat, sess : TradedSessions, dir : Directions]
        BY <1>3, <2>2 DEF order
      <3> QED BY <1>0, <1>1, <1>2, <1>3, <1>4, <2>1, <3>1, <3>2 DEF TypeOK
    <2>5. LiveIsTaken'
      BY <1>d, <1>o, <1>2, <1>6, <2>1, <1>r DEF LiveIsTaken
    <2>6. SessionsInOrder'
      <3>1. ASSUME NEW o \in live'
            PROVE  o.n <= sent' /\ Rank(o.sess) <= Rank(sess)
        <4>1. CASE o \in live
          <5>1. o.n \in Nat /\ o.n <= sent /\ Rank(o.sess) <= Rank(sess)
            BY <4>1, <2>3, <1>r
          <5> QED BY <1>3, <2>1, <5>1
        <4>2. CASE o = order
          BY <1>3, <1>o, <2>1, <4>2
        <4> QED BY <2>1, <4>1, <4>2
      <3>2. state'.tradingDate <= day'
        BY <1>d, <1>2, <1>3
      <3>3. Rank(state'.session) <= Rank(Session(minute'))
        BY <1>d, <1>2, <1>3
      <3> QED BY <1>2, <3>1, <3>2, <3>3 DEF SessionsInOrder
    <2>7. InFlightIsNewest'
      <3>1. ASSUME NEW o \in live
            PROVE  /\ o.n # sent + 1
                   /\ o.dir = sig.dir => Rank(o.sess) < Rank(sess)
        <4>1. o.n # sent + 1
          BY <1>3, <2>3
        <4>2. ASSUME o.dir = sig.dir PROVE o.sess # sess
          BY <2>2, <4>2, <1>r
        <4>3. o.dir = sig.dir => Rank(o.sess) # Rank(sess)
          BY <2>2, <2>3, <4>2, RankFacts
        <4>4. Rank(o.sess) <= Rank(sess) /\ Rank(o.sess) \in 0..3
          BY <2>3, <1>r
        <4> QED BY <1>3, <4>1, <4>3, <4>4
      <3> QED BY <1>d, <1>o, <1>2, <1>3, <2>1, <3>1 DEF InFlightIsNewest
    <2>8. OpenSlotsBacked'
      <3>1. ASSUME NEW slot \in state'.taken
            PROVE  \/ Rank(slot[1]) < Rank(sess)
                   \/ \E o \in live' : o.sess = slot[1] /\ o.dir = slot[2]
        <4>1. CASE slot \in Current.taken
          BY <2>1, <4>1, <1>b
        <4>2. CASE slot = <<sess, sig.dir>>
          <5>1. order \in live' /\ order.sess = slot[1] /\ order.dir = slot[2]
            BY <1>o, <2>1, <4>2
          <5> QED BY <5>1
        <4> QED BY <1>2, <1>6, <4>1, <4>2
      <3> QED BY <1>d, <3>1 DEF OpenSlotsBacked
    <2> QED BY <2>4, <2>5, <2>6, <2>7, <2>8 DEF ReservationInv
  <1> QED BY <1>5, <1>6

(* Status, Alert: the state is brought up to date and nothing else.         *)
LEMMA RefreshStep ==
  ASSUME ReservationInv, state' = Current, UNCHANGED <<day, minute, decision, sent, live>>,
         handler' \in {handler, Idle}
  PROVE  ReservationInv'
  <1>0. TypeOK
    BY DEF ReservationInv
  <1>1. /\ Current \in FlowState /\ Current.tradingDate = day
        /\ Current.session = Session(minute)
    BY <1>0, CurrentFacts
  <1>2. TypeOK'
    BY <1>0, <1>1 DEF TypeOK
  <1>3. /\ day \in Nat /\ Rank(Session(minute)) \in 1..3
        /\ \A o \in live : o.n <= sent
    BY <1>0, MinuteType, RankFacts DEF ReservationInv, SessionsInOrder
  <1>4. \A o \in live : /\ <<o.sess, o.dir>> \in Current.taken
                        /\ Rank(o.sess) <= Rank(Session(minute))
                        /\ Rank(state.session) <= Rank(Session(minute))
    BY RefreshKeeps
  <1>5. LiveIsTaken'
    BY <1>1, <1>4 DEF LiveIsTaken
  <1>6. SessionsInOrder'
    <2>1. Current.tradingDate <= day /\ Rank(Current.session) <= Rank(Session(minute))
      BY <1>1, <1>3
    <2>2. \A o \in live : o.n <= sent /\ Rank(o.sess) <= Rank(Current.session)
      BY <1>1, <1>3, <1>4
    <2> QED BY <2>1, <2>2 DEF SessionsInOrder
  <1>7. InFlightIsNewest'
    <2>1. SUFFICES ASSUME handler' = handler, handler.at = "dispatching"
                   PROVE  InFlightIsNewest'
      BY DEF InFlightIsNewest, Idle
    <2>2. handler.sess \in TradedSessions /\ state.session \in {"none", "ETH", "RTH", "AFTER"}
      BY <1>0, <2>1, HandlerType DEF TypeOK, FlowState
    <2>3. Rank(handler.sess) \in Int /\ Rank(state.session) \in Int
      BY <2>2, RankFacts DEF TradedSessions
    <2>4. ASSUME NEW o \in live PROVE Rank(handler.sess) <= Rank(Current.session)
      <3>1. Rank(handler.sess) <= Rank(state.session)
        BY <2>1 DEF ReservationInv, InFlightIsNewest
      <3>2. Rank(state.session) <= Rank(Current.session)
        BY <1>1, <1>4
      <3> QED BY <1>1, <1>3, <2>3, <3>1, <3>2
    <2>5. /\ handler.n \in 1..sent
          /\ \A o \in live :
               /\ o.n = handler.n => o.sess = handler.sess /\ o.dir = handler.dir
               /\ o.n # handler.n /\ o.dir = handler.dir
                  => Rank(o.sess) < Rank(handler.sess)
      BY <2>1 DEF ReservationInv, InFlightIsNewest
    <2> QED BY <2>1, <2>4, <2>5 DEF InFlightIsNewest
  <1>8. OpenSlotsBacked'
    BY RefreshKeeps DEF OpenSlotsBacked
  <1> QED BY <1>2, <1>5, <1>6, <1>7, <1>8 DEF ReservationInv

(* A manual reset takes the flags and the live orders of one session alike. *)
LEMMA ResetKeeps ==
  ASSUME ReservationInv, ResetSession
  PROVE  ReservationInv'
  <1> DEFINE sess == Session(minute)
  <1>0. TypeOK
    BY DEF ReservationInv
  <1>1. /\ Current \in FlowState /\ Current.tradingDate = day
        /\ Current.session = sess
    BY <1>0, CurrentFacts
  <1>2. /\ state' = [Current EXCEPT !.taken = @ \ ({sess} \X Directions)]
        /\ live' = {o \in live : o.sess # sess}
        /\ UNCHANGED <<day, minute, handler, decision, sent>>
    BY DEF ResetSession
  <1>3. /\ state' \in FlowState /\ state'.tradingDate = day /\ state'.session = sess
        /\ state'.taken = Current.taken \ ({sess} \X Directions)
    BY <1>1, <1>2 DEF FlowState
  <1>4. TypeOK'
    BY <1>0, <1>2, <1>3 DEF TypeOK
  <1>5. /\ day \in Nat /\ Rank(sess) \in 1..3
        /\ \A o \in live : o.n <= sent
    BY <1>0, MinuteType, RankFacts DEF ReservationInv, SessionsInOrder
  <1>6. \A o \in live : /\ <<o.sess, o.dir>> \in Current.taken
                        /\ Rank(o.sess) <= Rank(sess)
                        /\ Rank(state.session) <= Rank(sess)
    BY RefreshKeeps
  <1>s. Session(minute') = sess
    BY <1>2
  <1>b. \A slot \in Current.taken :
           \/ Rank(slot[1]) < Rank(sess)
           \/ \E o \in live : o.sess = slot[1] /\ o.dir = slot[2]
    BY RefreshKeeps
  <1> HIDE DEF sess
  <1>7. LiveIsTaken'
    BY <1>2, <1>3, <1>6 DEF LiveIsTaken
  <1>8. SessionsInOrder'
    <2>1. state'.tradingDate <= day' /\ Rank(state'.session) <= Rank(Session(minute'))
      BY <1>2, <1>3, <1>5, <1>s
    <2>2. \A o \in live' : o.n <= sent' /\ Rank(o.sess) <= Rank(state'.session)
      BY <1>2, <1>3, <1>5, <1>6
    <2> QED BY <2>1, <2>2 DEF SessionsInOrder
  <1>9. InFlightIsNewest'
    <2>1. SUFFICES ASSUME handler' = handler, handler.at = "dispatching"
                   PROVE  InFlightIsNewest'
      BY <1>2 DEF InFlightIsNewest
    <2>2. handler.sess \in TradedSessions /\ state.session \in {"none", "ETH", "RTH", "AFTER"}
      BY <1>0, <2>1, HandlerType DEF TypeOK, FlowState
    <2>3. Rank(handler.sess) \in Int /\ Rank(state.session) \in Int
      BY <2>2, RankFacts DEF TradedSessions
    <2>4. ASSUME NEW o \in live PROVE Rank(handler.sess) <= Rank(sess)
      <3>1. Rank(handler.sess) <= Rank(state.session)
        BY <2>1 DEF ReservationInv, InFlightIsNewest
      <3>2. Rank(state.session) <= Rank(sess)
        BY <1>6
      <3> QED BY <1>5, <2>3, <3>1, <3>2
    <2>5. /\ handler.n \in 1..sent
          /\ \A o \in live :
               /\ o.n = handler.n => o.sess = handler.sess /\ o.dir = handler.dir
               /\ o.n # handler.n /\ o.dir = handler.dir
                  => Rank(o.sess) < Rank(handler.sess)
      BY <2>1 DEF ReservationInv, InFlightIsNewest
    <2> QED BY <1>2, <1>3, <2>1, <2>4, <2>5 DEF InFlightIsNewest
  <1>10. OpenSlotsBacked'
    <2>1. ASSUME NEW slot \in state'.taken
          PROVE  \/ Rank(slot[1]) < Rank(sess)
                 \/ \E o \in live' : o.sess = slot[1] /\ o.dir = slot[2]
      <3>1. slot \in Current.taken /\ slot \in TradedSessions \X Directions
        BY <1>1, <1>3 DEF FlowState
      <3>2. slot[1] # sess
        BY <1>3, <3>1
      <3> QED BY <1>2, <1>b, <3>1, <3>2
    <2> QED BY <1>2, <1>s, <2>1 DEF OpenSlotsBacked
  <1> QED BY <1>4, <1>7, <1>8, <1>9, <1>10 DEF ReservationInv

(* The release by the state's session: no other live order's flag goes.     *)
LEMMA FailedKeeps ==
  ASSUME ReservationInv, DispatchFailed
  PROVE  ReservationInv'
  <1>0. TypeOK
    BY DEF ReservationInv
  <1>1. /\ handler.at = "dispatching" /\ handler' = [at |-> "alerting"]
        /\ state' = [state EXCEPT !.taken = @ \ {<<state.session, handler.dir>>}]
        /\ live' = {o \in live : o.n # handler.n}
        /\ UNCHANGED <<day, minute, decision, sent>>
    BY DEF DispatchFailed, Released
  <1>2. /\ state \in FlowState /\ state' \in FlowState
        /\ state'.tradingDate = state.tradingDate /\ state'.session = state.session
        /\ state'.taken = state.taken \ {<<state.session, handler.dir>>}
    BY <1>0, <1>1 DEF TypeOK, FlowState
  <1>3. TypeOK'
    BY <1>0, <1>1, <1>2 DEF TypeOK
  <1>4. handler.sess \in TradedSessions /\ handler.dir \in Directions
    BY <1>0, <1>1, HandlerType
  <1>5. /\ Rank(handler.sess) \in 0..3 /\ Rank(state.session) \in 0..3
        /\ Rank(Session(minute)) \in 0..3
        /\ \A o \in live : o.sess \in TradedSessions /\ Rank(o.sess) \in 0..3
    BY <1>0, <1>2, <1>4, MinuteType, RankFacts DEF TypeOK, TradedSessions, FlowState
  <1>6. ASSUME NEW o \in live, o.n # handler.n
        PROVE  <<o.sess, o.dir>> # <<state.session, handler.dir>>
    <2>1. Rank(handler.sess) <= Rank(state.session)
      BY <1>1 DEF ReservationInv, InFlightIsNewest
    <2>2. o.dir = handler.dir => Rank(o.sess) < Rank(handler.sess)
      BY <1>1, <1>6 DEF ReservationInv, InFlightIsNewest
    <2> QED BY <1>5, <2>1, <2>2
  <1>7. LiveIsTaken'
    BY <1>1, <1>2, <1>6 DEF ReservationInv, LiveIsTaken
  <1>8. SessionsInOrder'
    <2>1. state'.tradingDate <= day'
          /\ (state'.tradingDate = day' => Rank(state'.session) <= Rank(Session(minute')))
      BY <1>1, <1>2 DEF ReservationInv, SessionsInOrder
    <2>2. \A o \in live' : o.n <= sent' /\ Rank(o.sess) <= Rank(state'.session)
      BY <1>1, <1>2 DEF ReservationInv, SessionsInOrder
    <2> QED BY <2>1, <2>2 DEF SessionsInOrder
  <1>9. InFlightIsNewest'
    BY <1>1 DEF InFlightIsNewest
  <1>10. OpenSlotsBacked'
    <2>1. ASSUME state.tradingDate = day, NEW slot \in state'.taken
          PROVE  \/ Rank(slot[1]) < Rank(Session(minute))
                 \/ \E o \in live' : o.sess = slot[1] /\ o.dir = slot[2]
      <3>1. slot \in state.taken /\ slot # <<state.session, handler.dir>>
            /\ slot = <<slot[1], slot[2]>>
        BY <1>2, <2>1 DEF FlowState
      <3>2. Rank(state.session) <= Rank(Session(minute))
        BY <2>1 DEF ReservationInv, SessionsInOrder
      <3>3. CASE Rank(slot[1]) < Rank(Session(minute))
        BY <3>3
      <3>4. ASSUME NEW o \in live, o.sess = slot[1], o.dir = slot[2]
            PROVE  \/ Rank(slot[1]) < Rank(Session(minute))
                   \/ \E p \in live' : p.sess = slot[1] /\ p.dir = slot[2]
        <4>1. CASE o.n # handler.n
          BY <1>1, <3>4, <4>1
        <4>2. CASE o.n = handler.n
          <5>1. /\ o.sess = handler.sess /\ o.dir = handler.dir
                /\ Rank(handler.sess) <= Rank(state.session)
            BY <1>1, <4>2 DEF ReservationInv, InFlightIsNewest
          <5>2. o.sess # state.session
            BY <3>1, <3>4, <5>1
          <5>3. state.session \in {"none", "ETH", "RTH", "AFTER"} /\ o.sess \in {"ETH", "RTH"}
            BY <1>2, <1>5 DEF FlowState, TradedSessions
          <5>4. Rank(o.sess) # Rank(state.session)
            BY <5>2, <5>3 DEF Rank
          <5> QED BY <1>5, <3>2, <3>4, <5>1, <5>4
        <4> QED BY <4>1, <4>2
      <3> QED BY <2>1, <3>1, <3>3, <3>4 DEF ReservationInv, OpenSlotsBacked
    <2> QED BY <1>1, <1>2, <2>1 DEF OpenSlotsBacked
  <1> QED BY <1>3, <1>7, <1>8, <1>9, <1>10 DEF ReservationInv

(* Within a day the clock only moves sessions forward.                      *)
LEMMA SameDayKeeps ==
  ASSUME ReservationInv, NEW m \in Minutes, SameDay(m)
  PROVE  ReservationInv'
  <1>0. TypeOK
    BY DEF ReservationInv
  <1>1. /\ m > minute /\ minute' = m
        /\ UNCHANGED <<day, state, handler, decision, sent, live>>
    BY DEF SameDay
  <1>2. minute \in Int /\ m \in Int
    BY <1>0, MinuteType, FlowAssumption DEF FlowAssumption
  <1>3. Rank(Session(minute)) <= Rank(Session(m))
    BY <1>1, <1>2, SessionMonotone
  <1>4. /\ Rank(Session(minute)) \in Int /\ Rank(Session(m)) \in Int
        /\ Rank(state.session) \in Int
        /\ \A slot \in state.taken : Rank(slot[1]) \in Int
    <2>1. /\ state.session \in {"none", "ETH", "RTH", "AFTER"}
          /\ \A slot \in state.taken : slot[1] \in {"ETH", "RTH"}
      BY <1>0 DEF TypeOK, FlowState, TradedSessions
    <2> QED BY <1>2, <2>1, RankFacts
  <1>5. TypeOK'
    BY <1>0, <1>1 DEF TypeOK
  <1>6. LiveIsTaken' /\ InFlightIsNewest'
    BY <1>1 DEF ReservationInv, LiveIsTaken, InFlightIsNewest
  <1>7. SessionsInOrder'
    <2>1. state.tradingDate = day => Rank(state.session) <= Rank(Session(m))
      BY <1>3, <1>4 DEF ReservationInv, SessionsInOrder
    <2>2. /\ state.tradingDate <= day
          /\ \A o \in live : o.n <= sent /\ Rank(o.sess) <= Rank(state.session)
      BY DEF ReservationInv, SessionsInOrder
    <2> QED BY <1>1, <2>1, <2>2 DEF SessionsInOrder
  <1>8. OpenSlotsBacked'
    <2>1. ASSUME state.tradingDate = day, NEW slot \in state.taken
          PROVE  \/ Rank(slot[1]) < Rank(Session(m))
                 \/ \E o \in live : o.sess = slot[1] /\ o.dir = slot[2]
      <3>1. \/ Rank(slot[1]) < Rank(Session(minute))
            \/ \E o \in live : o.sess = slot[1] /\ o.dir = slot[2]
        BY <2>1 DEF ReservationInv, OpenSlotsBacked
      <3> QED BY <1>3, <1>4, <3>1
    <2> QED BY <1>1, <2>1 DEF OpenSlotsBacked
  <1> QED BY <1>5, <1>6, <1>7, <1>8 DEF ReservationInv

(* A new day ends the round; the state is still yesterday's.                *)
LEMMA NextDayKeeps ==
  ASSUME ReservationInv, NEW m \in Minutes, NextDay(m)
  PROVE  ReservationInv'
  <1>0. TypeOK
    BY DEF ReservationInv
  <1>1. /\ day' = day + 1 /\ minute' = m /\ live' = {}
        /\ UNCHANGED <<state, handler, decision, sent>>
    BY DEF NextDay
  <1>2. state.tradingDate \in Nat /\ day \in Nat /\ state.tradingDate <= day
    BY <1>0 DEF TypeOK, FlowState, ReservationInv, SessionsInOrder
  <1>3. TypeOK'
    BY <1>0, <1>1, <1>2 DEF TypeOK
  <1>4. LiveIsTaken'
    BY <1>1 DEF LiveIsTaken
  <1>5. SessionsInOrder' /\ OpenSlotsBacked'
    BY <1>1, <1>2 DEF SessionsInOrder, OpenSlotsBacked
  <1>6. InFlightIsNewest'
    BY <1>1 DEF ReservationInv, InFlightIsNewest
  <1> QED BY <1>3, <1>4, <1>5, <1>6 DEF ReservationInv

LEMMA StepReservations == ReservationInv /\ [Next]_vars => ReservationInv'
  <1> SUFFICES ASSUME ReservationInv, [Next]_vars PROVE ReservationInv'
    OBVIOUS
  <1>1. ASSUME NEW sig \in Signals, Evaluate(sig) PROVE ReservationInv'
    BY <1>1, EvaluateKeeps
  <1>2. CASE DispatchOk \/ DispatchRaises
    <2>1. /\ handler' \in {Idle, [at |-> "alerting"]}
          /\ UNCHANGED <<day, minute, state, decision, sent, live>>
      BY <1>2 DEF DispatchOk, DispatchRaises
    <2>2. handler'.at # "dispatching"
      BY <2>1 DEF Idle
    <2>3. TypeOK'
      BY <2>1 DEF ReservationInv, TypeOK
    <2> QED BY <2>1, <2>2, <2>3
            DEF ReservationInv, LiveIsTaken, SessionsInOrder, InFlightIsNewest, OpenSlotsBacked
  <1>3. CASE DispatchFailed
    BY <1>3, FailedKeeps
  <1>4. CASE Alert \/ Status
    BY <1>4, RefreshStep DEF Alert, Status
  <1>5. CASE ResetSession
    BY <1>5, ResetKeeps
  <1>6. ASSUME NEW m \in Minutes, SameDay(m) \/ NextDay(m) PROVE ReservationInv'
    BY <1>6, SameDayKeeps, NextDayKeeps
  <1>7. CASE UNCHANGED vars
    BY <1>7 DEF vars, ReservationInv, TypeOK, LiveIsTaken, SessionsInOrder, InFlightIsNewest,
                OpenSlotsBacked
  <1> QED BY <1>1, <1>2, <1>3, <1>4, <1>5, <1>6, <1>7 DEF Next

-----------------------------------------------------------------------------
(* PM-1 is the first rule: it decides whenever the signal is yellow.        *)
LEMMA YellowDecides ==
  ASSUME NEW st, NEW sig \in Signals
  PROVE  Verdict(st, sig) = "PM-1" <=> Color(sig.retail) = "yellow"
  <1>1. /\ DOMAIN Rules = 1..13 /\ Rules[1] = "PM-1"
        /\ \A i \in 1..13 : Rules[i] = "PM-1" => i = 1
    BY DEF Rules
  <1>2. Objections(st, sig) \in SUBSET (1..13)
    BY <1>1 DEF Objections
  <1>a. ObjectsTo("PM-1", st, sig) <=> Color(sig.retail) = "yellow"
    BY Zenon DEF ObjectsTo
  <1>3. 1 \in Objections(st, sig) <=> Color(sig.retail) = "yellow"
    BY <1>1, <1>a DEF Objections
  <1>4. CASE Objections(st, sig) = {}
    BY <1>3, <1>4 DEF Verdict
  <1>5. CASE Objections(st, sig) # {}
    <2> DEFINE i == CHOOSE i \in Objections(st, sig) : \A j \in Objections(st, sig) : i <= j
    <2>1. i \in Objections(st, sig) /\ \A j \in Objections(st, sig) : i <= j
      BY <1>2, <1>5, FirstExists
    <2>2. Verdict(st, sig) = Rules[i]
      BY <1>5 DEF Verdict
    <2> HIDE DEF i
    <2>3. 1 \in Objections(st, sig) => i = 1
      BY <1>2, <2>1
    <2>4. i \in 1..13
      BY <1>2, <2>1
    <2> QED BY <1>1, <1>3, <2>1, <2>2, <2>3, <2>4
  <1> QED BY <1>4, <1>5

(* What a signal leaves of the flag, and what it says about it.             *)
LEMMA EvaluateYellow ==
  ASSUME TypeOK, NEW sig \in Signals, Evaluate(sig)
  PROVE  /\ state'.tradingDate = day
         /\ state'.yellowWarned <=> decision'.rule = "PM-1"
         /\ decision' # NoDecision /\ decision'.day = day /\ day' = day
         /\ decision'.rule = "PM-1" <=> decision'.color = "yellow"
         /\ decision'.rule = "PM-1" =>
               /\ decision'.warning = "yellow" <=> ~Current.yellowWarned
               /\ decision'.warnings = StreakWarnings("yellow", decision'.warning)
  <1> DEFINE st == Observed(Current, sig)
             v == Verdict(st, sig)
  <1>1. sig \in Signal /\ Color(sig.retail) \in Colors /\ sig.inst \in Int
    BY FlowAssumption DEF FlowAssumption, Signal, Color, Colors
  <1>2. st \in FlowState /\ st.tradingDate = day /\ st.yellowWarned = Current.yellowWarned
    BY <1>1, CurrentFacts DEF Observed, FlowState
  <1>3. v = "PM-1" <=> Color(sig.retail) = "yellow"
    BY YellowDecides
  <1>4. state' = Decided(st, sig, v)
    BY DEF Evaluate
  <1>5. /\ decision'.rule = v /\ decision'.warning = Warning(st, v)
        /\ decision'.color = Color(sig.retail) /\ decision'.day = day /\ day' = day
        /\ decision'.warnings = StreakWarnings(Color(sig.retail), Warning(st, v))
    BY DEF Evaluate
  <1>6. v # "none"
    <2>1. DOMAIN Rules = 1..13 /\ \A i \in 1..13 : Rules[i] # "none"
      BY DEF Rules
    <2> QED BY <2>1, VerdictCases
  <1> HIDE DEF st, v
  <1>7. state'.tradingDate = day /\ (state'.yellowWarned <=> v = "PM-1")
    BY <1>2, <1>4 DEF Decided, FlowState
  <1>8. decision' # NoDecision
    BY <1>5, <1>6 DEF NoDecision
  <1>9. v = "PM-1" => (Warning(st, v) = "yellow" <=> ~st.yellowWarned)
    BY DEF Warning
  <1> QED BY <1>2, <1>3, <1>5, <1>7, <1>8, <1>9

LEMMA CurrentYellow ==
  ASSUME TypeOK
  PROVE  /\ Current.yellowWarned <=> (state.tradingDate = day /\ state.yellowWarned)
         /\ Current.tradingDate = day
  BY CurrentFacts, MinuteType DEF Current, FreshState, TypeOK, FlowState

LEMMA YellowStep ==
  ASSUME ReservationInv, YellowRemembered, [Next]_vars
  PROVE  YellowRemembered'
  <1>0. TypeOK /\ day \in Nat /\ state.tradingDate \in Nat /\ state.tradingDate <= day
    BY MinuteType DEF ReservationInv, SessionsInOrder, TypeOK, FlowState
  <1>1. ASSUME NEW sig \in Signals, Evaluate(sig) PROVE YellowRemembered'
    BY <1>0, <1>1, EvaluateYellow DEF YellowRemembered, InStreak
  <1>2. CASE DispatchOk \/ DispatchRaises \/ UNCHANGED vars
    BY <1>2 DEF DispatchOk, DispatchRaises, vars, YellowRemembered, InStreak
  <1>3. CASE Alert \/ Status \/ ResetSession \/ DispatchFailed
    <2>1. UNCHANGED <<day, decision>>
      BY <1>3 DEF Alert, Status, ResetSession, DispatchFailed
    <2>2. (state'.tradingDate = day /\ state'.yellowWarned)
          <=> (state.tradingDate = day /\ state.yellowWarned)
      <3>1. CASE Alert \/ Status
        BY <1>0, <3>1, CurrentYellow DEF Alert, Status
      <3>2. CASE ResetSession
        BY <1>0, <3>2, CurrentYellow, CurrentFacts DEF ResetSession, FlowState
      <3>3. CASE DispatchFailed
        BY <1>0, <3>3 DEF DispatchFailed, Released, TypeOK, FlowState
      <3> QED BY <1>3, <3>1, <3>2, <3>3
    <2> QED BY <2>1, <2>2 DEF YellowRemembered, InStreak
  <1>4. ASSUME NEW m \in Minutes, SameDay(m) PROVE YellowRemembered'
    BY <1>4 DEF SameDay, YellowRemembered, InStreak
  <1>5. ASSUME NEW m \in Minutes, NextDay(m) PROVE YellowRemembered'
    <2>1. UNCHANGED <<state, decision>> /\ day' = day + 1
      BY <1>5 DEF NextDay
    <2>2. decision # NoDecision => decision.day \in Nat
      BY <1>0 DEF TypeOK, Decision
    <2> QED BY <1>0, <2>1, <2>2 DEF YellowRemembered, InStreak
  <1> QED BY <1>1, <1>2, <1>3, <1>4, <1>5 DEF Next

LEMMA InitHolds == Init => IInv
  <1>1. Init => YellowRemembered
    BY DEF Init, FreshState, YellowRemembered, InStreak
  <1> QED BY <1>1, InitReservations DEF IInv

LEMMA Step == IInv /\ [Next]_vars => IInv'
  BY StepReservations, YellowStep DEF IInv

(* Type correctness, the reservation invariant and the yellow flag's, in    *)
(* every behaviour.                                                         *)
THEOREM Invariant == Spec => []IInv
  BY InitHolds, Step, PTL DEF Spec

(* A yellow streak is announced once and not again: the flag                *)
(* _evaluate_locked keeps survives status polls, manual resets, released    *)
(* reservations and the change of session, and ends with the day or the     *)
(* first signal of another color.                                           *)
THEOREM YellowOnce == Spec => []YellowWarnsOncePerStreak
  <1>1. Init => YellowWarnsOncePerStreak
    BY DEF Init, YellowWarnsOncePerStreak
  <1>2. IInv /\ YellowWarnsOncePerStreak /\ [Next]_vars => YellowWarnsOncePerStreak'
    <2> SUFFICES ASSUME IInv, YellowWarnsOncePerStreak, [Next]_vars
                 PROVE  YellowWarnsOncePerStreak'
      OBVIOUS
    <2>1. CASE decision' = decision
      BY <2>1 DEF YellowWarnsOncePerStreak
    <2>2. CASE decision' # decision
      <3>1. PICK sig \in Signals : Evaluate(sig)
        BY <2>2 DEF Next, DispatchOk, DispatchFailed, DispatchRaises, Alert, Status,
                    ResetSession, SameDay, NextDay, vars
      <3>2. TypeOK /\ (Current.yellowWarned <=> InStreak)
        BY CurrentYellow DEF IInv, ReservationInv, YellowRemembered
      <3>3. ASSUME decision'.color = "yellow"
            PROVE  /\ decision'.warning = "yellow" <=> ~InStreak
                   /\ decision'.warnings = StreakWarnings("yellow", decision'.warning)
        BY <3>1, <3>2, <3>3, EvaluateYellow
      <3>4. InStreak => decision.warnings = 1
        BY DEF InStreak, YellowWarnsOncePerStreak
      <3>5. decision'.color = "yellow" => decision'.warnings = 1
        BY <3>3, <3>4 DEF StreakWarnings
      <3> QED BY <3>5 DEF YellowWarnsOncePerStreak
    <2> QED BY <2>1, <2>2
  <1> QED BY <1>1, <1>2, InitHolds, Step, PTL DEF Spec

(* However often a size is halved (Rule 10 and the zero zone), a signal     *)
(* that passes trades a contract at least and the base size at most.  The   *)
(* configuration does not check flow.base_contracts; the theorem is about   *)
(* the values that name a size.                                             *)
THEOREM SizesHold == BaseContracts >= 1 => (Spec => []SizeWithinBase)
  <1> SUFFICES ASSUME BaseContracts >= 1 PROVE Spec => []SizeWithinBase
    OBVIOUS
  <1>1. BaseContracts \in Nat
    BY FlowAssumption DEF FlowAssumption
  <1>2. ASSUME NEW n \in 1..BaseContracts PROVE Halved(n) \in 1..BaseContracts
    BY <1>1 DEF Halved
  <1>3. \A sig : Contracts(sig) \in 1..BaseContracts
    BY <1>1, <1>2 DEF Contracts
  <1>4. Init => SizeWithinBase
    BY DEF Init, NoDecision, SizeWithinBase
  <1>5. SizeWithinBase /\ [Next]_vars => SizeWithinBase'
    <2> SUFFICES ASSUME SizeWithinBase, [Next]_vars PROVE SizeWithinBase'
      OBVIOUS
    <2>1. CASE decision' = decision
      BY <2>1 DEF SizeWithinBase
    <2>2. CASE decision' # decision
      <3>1. PICK sig \in Signals : Evaluate(sig)
        BY <2>2 DEF Next, DispatchOk, DispatchFailed, DispatchRaises, Alert, Status,
                    ResetSession, SameDay, NextDay, vars
      <3>2. decision'.rule = "allowed" => decision'.contracts = Contracts(sig)
        BY <3>1 DEF Evaluate
      <3> QED BY <1>3, <3>2 DEF SizeWithinBase
    <2> QED BY <2>1, <2>2
  <1> QED BY <1>4, <1>5, PTL DEF Spec

-----------------------------------------------------------------------------
(* No phantom reservation: what Rule 11 would refuse now is held by an      *)
(* order that was sent and did not fail.                                    *)
THEOREM Backed == Spec => []TakenIsBacked
  <1>1. ReservationInv => TakenIsBacked
    <2> SUFFICES ASSUME ReservationInv, NEW d \in Directions,
                        <<Session(minute), d>> \in Current.taken
                 PROVE  \E o \in live : o.sess = Session(minute) /\ o.dir = d
      BY DEF TakenIsBacked
    <2>1. Rank(Session(minute)) \in Int
      BY MinuteType, RankFacts DEF ReservationInv
    <2>2. \A slot \in Current.taken :
             \/ Rank(slot[1]) < Rank(Session(minute))
             \/ \E o \in live : o.sess = slot[1] /\ o.dir = slot[2]
      BY RefreshKeeps
    <2> QED BY <2>1, <2>2
  <1> QED BY <1>1, InitReservations, StepReservations, PTL DEF Spec

-----------------------------------------------------------------------------
(* Every step of the engine is one FlowReservations allows.                 *)
LEMMA StepRefines == ReservationInv /\ [Next]_vars => [Promise!Next]_<<day, sent, live>>
  <1> SUFFICES ASSUME ReservationInv, [Next]_vars
               PROVE  Promise!Next \/ UNCHANGED <<day, sent, live>>
    OBVIOUS
  <1>0. TypeOK
    BY DEF ReservationInv
  <1>1. ASSUME NEW sig \in Signals, Evaluate(sig)
        PROVE  Promise!Next \/ UNCHANGED <<day, sent, live>>
    <2> DEFINE v == Verdict(Observed(Current, sig), sig)
               sess == Session(minute)
    <2>1. CASE v # "allowed"
      BY <1>1, <2>1 DEF Evaluate
    <2>2. CASE v = "allowed"
      <3>1. /\ sent' = sent + 1
            /\ live' = live \cup {[n |-> sent + 1, sess |-> sess, dir |-> sig.dir]}
            /\ UNCHANGED day
        BY <1>1, <2>2 DEF Evaluate
      <3>2. /\ sess \in TradedSessions /\ sig.dir \in Directions
            /\ <<sess, sig.dir>> \notin Current.taken
        BY <1>0, <2>2, DecidedFacts
      <3>3. ~Promise!Holds(sess, sig.dir)
        BY <3>2, RefreshKeeps DEF Promise!Holds
      <3>4. Promise!Send(sess, sig.dir)
        BY <3>1, <3>3 DEF Promise!Send
      <3> QED BY <3>2, <3>4 DEF Promise!Next
    <2> QED BY <2>1, <2>2
  <1>2. CASE DispatchOk \/ DispatchRaises \/ Alert \/ Status
    BY <1>2 DEF DispatchOk, DispatchRaises, Alert, Status
  <1>3. CASE DispatchFailed
    <2>1. handler.n \in 1..sent
      BY <1>3 DEF DispatchFailed, ReservationInv, InFlightIsNewest
    <2>2. Promise!Fail(handler.n)
      BY <1>3 DEF DispatchFailed, Promise!Fail
    <2> QED BY <2>1, <2>2 DEF Promise!Next
  <1>4. CASE ResetSession
    <2>1. /\ live' = {o \in live : o.sess # Session(minute)}
          /\ UNCHANGED <<day, sent>>
      BY <1>4 DEF ResetSession
    <2>2. CASE Session(minute) \in TradedSessions
      BY <2>1, <2>2 DEF Promise!Next, Promise!Reset
    <2>3. CASE Session(minute) \notin TradedSessions
      BY <1>0, <2>1, <2>3 DEF TypeOK
    <2> QED BY <2>2, <2>3
  <1>5. ASSUME NEW m \in Minutes, SameDay(m) \/ NextDay(m)
        PROVE  Promise!Next \/ UNCHANGED <<day, sent, live>>
    <2>1. CASE SameDay(m)
      BY <2>1 DEF SameDay
    <2>2. CASE NextDay(m)
      <3>1. Promise!NewDay
        BY <1>0, <2>2 DEF NextDay, Promise!NewDay, TypeOK
      <3> QED BY <3>1 DEF Promise!Next
    <2> QED BY <1>5, <2>1, <2>2
  <1>6. CASE UNCHANGED vars
    BY <1>6 DEF vars
  <1> QED BY <1>1, <1>2, <1>3, <1>4, <1>5, <1>6 DEF Next

(* The engine implements FlowReservations: per day, session and direction   *)
(* no order is sent while an earlier one has not failed, for any signals,   *)
(* thresholds, status polls, resets and delays of the target.               *)
THEOREM ImplementsReservations == Spec => OneOrderPerSlot
  <1>1. Init => Promise!Init
    BY DEF Init, Promise!Init
  <1> QED
    BY <1>1, InitReservations, StepReservations, StepRefines, PTL
    DEF Spec, OneOrderPerSlot, Promise!Spec
=============================================================================
