------------------------ MODULE EntryCooldownProofs ------------------------
(* Proofs about what a command passes on its way through the receiver: the  *)
(* cooldown of EntryCooldown, for any threads and any positive cooldown, and*)
(* the checks and conversions of CommandPath, for any commands, payloads,   *)
(* configurations and lengths of the day.                                   *)
EXTENDS EntryCooldown, CommandPath, SequenceTheorems, TLAPS

(* SameSideSpaced is inductive once the map is known to hold exactly the    *)
(* newest entry.                                                            *)
IInv == TypeOK /\ RemembersNewest /\ SameSideSpaced

(* The history is a sequence of entries.                                    *)
LEMMA EntriesTyped ==
  ASSUME TypeOK, NEW i \in DOMAIN entries
  PROVE  /\ entries[i].side \in Sides /\ entries[i].ts \in Nat
         /\ i \in Nat /\ i <= Len(entries) /\ Len(entries) \in Nat
  <1>1. entries \in Seq(Entry) /\ i \in 1..Len(entries) /\ Len(entries) \in Nat
    BY DEF TypeOK
  <1>2. entries[i] \in Entry
    BY <1>1, ElementOfSeq
  <1> QED BY <1>1, <1>2 DEF Entry

(* A history that is not empty has a newest entry.                          *)
LEMMA NewestExists ==
  ASSUME TypeOK, entries # <<>>
  PROVE  Len(entries) \in DOMAIN entries
  <1>1. entries \in Seq(Entry)
    BY DEF TypeOK
  <1>2. Len(entries) \in Nat /\ Len(entries) # 0
    BY <1>1, EmptySeq
  <1> QED BY <1>1, <1>2

LEMMA TypeStep == TypeOK /\ [Next]_vars => TypeOK'
  <1> SUFFICES ASSUME TypeOK, [Next]_vars PROVE TypeOK'
    OBVIOUS
  <1>1. CASE Tick
    BY <1>1 DEF Tick, TypeOK
  <1>2. ASSUME NEW t \in Threads, NEW side \in Sides, ReadClock(t, side)
        PROVE  TypeOK'
    <2>1. [at |-> "locking", side |-> side, now |-> clock] \in Call
      BY DEF Call, TypeOK
    <2> QED BY <1>2, <2>1 DEF ReadClock, TypeOK
  <1>3. ASSUME NEW t \in Threads, Locked(t)
        PROVE  TypeOK'
    <2> DEFINE side == call[t].side
               time == call[t].now
    <2>1. side \in Sides /\ time \in Nat
      BY <1>3 DEF Locked, TypeOK, Call, Idle
    <2>2. Recorded(side, time) \in [Sides -> Nat \cup {Absent}]
      BY <2>1 DEF Recorded, TypeOK
    <2>3. Append(entries, [side |-> side, ts |-> time]) \in Seq(Entry)
      <3>1. [side |-> side, ts |-> time] \in Entry
        BY <2>1 DEF Entry
      <3> QED BY <3>1, AppendProperties DEF TypeOK
    <2>4. lastEntry' \in [Sides -> Nat \cup {Absent}] /\ entries' \in Seq(Entry)
      BY <1>3, <2>2, <2>3 DEF Locked, TypeOK
    <2>5. clock' \in Nat /\ call' \in [Threads -> Call]
      BY <1>3 DEF Locked, TypeOK, Call
    <2> QED BY <2>4, <2>5 DEF TypeOK
  <1>4. CASE UNCHANGED vars
    BY <1>4 DEF vars, TypeOK
  <1> QED BY <1>1, <1>2, <1>3, <1>4 DEF Next

(* Appending an entry that was not cooling down keeps the invariant.        *)
LEMMA AcceptKeepsIInv ==
  ASSUME IInv, TypeOK', NEW side \in Sides, NEW time \in Nat,
         ~CoolingDown(side, time),
         lastEntry' = Recorded(side, time),
         entries' = Append(entries, [side |-> side, ts |-> time])
  PROVE  RemembersNewest' /\ SameSideSpaced'
  <1> DEFINE n == Len(entries)
  <1>0. /\ entries \in Seq(Entry) /\ [side |-> side, ts |-> time] \in Entry
        /\ n \in Nat
    BY DEF IInv, TypeOK, Entry
  <1>1. /\ Len(entries') = n + 1
        /\ \A i \in 1..n : entries'[i] = entries[i]
        /\ entries'[n + 1] = [side |-> side, ts |-> time]
        /\ entries' # <<>>
        /\ DOMAIN entries' = 1..(n + 1)
        /\ DOMAIN entries = 1..n
    BY <1>0, AppendProperties
  <1>2. RemembersNewest'
    <2>1. \A s \in Sides : lastEntry'[s] = IF s = side THEN time ELSE Absent
      BY DEF IInv, TypeOK, Recorded, Opposite, Sides
    <2> QED BY <1>1, <2>1 DEF RemembersNewest
  <1>3. ASSUME NEW i \in DOMAIN entries', NEW j \in DOMAIN entries',
               i < j, NoReversal(i, j)'
        PROVE  entries'[j].ts - entries'[i].ts >= CooldownSeconds
    <2>1. i \in 1..n /\ entries'[i] = entries[i] /\ entries[i].ts \in Nat
      BY <1>0, <1>1, <1>3, EntriesTyped DEF IInv
    <2>2. CASE j \in 1..n
      <3>1. entries'[j] = entries[j] /\ i \in DOMAIN entries /\ j \in DOMAIN entries
        BY <1>1, <2>1, <2>2
      <3>2. NoReversal(i, j)
        BY <1>0, <1>1, <1>3, <2>1, <2>2 DEF NoReversal
      <3>3. entries[j].ts - entries[i].ts >= CooldownSeconds
        BY <1>3, <3>1, <3>2 DEF IInv, SameSideSpaced
      <3> QED BY <2>1, <3>1, <3>3
    <2>3. CASE j = n + 1
      <3>1. entries[i].side = side
        BY <1>1, <1>3, <2>1, <2>3 DEF NoReversal
      <3>2. n \in DOMAIN entries /\ entries # <<>> /\ n >= i
        BY <1>0, <1>1, <2>1
      <3>3. entries[n].side = side /\ entries[n].ts \in Nat
        <4>1. CASE n = i
          BY <3>1, <3>2, <4>1, EntriesTyped DEF IInv
        <4>2. CASE i < n
          <5>1. entries'[n].side = entries'[i].side
            BY <1>0, <1>1, <1>3, <2>1, <2>3, <3>2, <4>2 DEF NoReversal
          <5> QED BY <1>1, <2>1, <3>1, <3>2, <5>1, EntriesTyped DEF IInv
        <4> QED BY <1>0, <2>1, <3>2, <4>1, <4>2
      <3>4. lastEntry[side] = entries[n].ts
        BY <3>2, <3>3 DEF IInv, RemembersNewest
      <3>5. time - entries[n].ts >= CooldownSeconds
        BY <3>3, <3>4, CooldownAssumption DEF CoolingDown, Absent, CooldownAssumption
      <3>6. i = n \/ entries[n].ts - entries[i].ts >= CooldownSeconds
        <4>1. SUFFICES ASSUME i < n
                       PROVE  entries[n].ts - entries[i].ts >= CooldownSeconds
          BY <1>0, <2>1, <3>2
        <4>2. NoReversal(i, n)
          BY <1>0, <1>1, <1>3, <2>1, <2>3 DEF NoReversal
        <4> QED BY <1>1, <2>1, <3>2, <4>1, <4>2 DEF IInv, SameSideSpaced
      <3> QED
        BY <1>1, <2>1, <2>3, <3>3, <3>5, <3>6, CooldownAssumption
        DEF CooldownAssumption
    <2> QED BY <1>1, <2>2, <2>3
  <1> QED BY <1>2, <1>3 DEF SameSideSpaced

LEMMA StepIInv == IInv /\ [Next]_vars => IInv'
  <1> SUFFICES ASSUME IInv, [Next]_vars PROVE IInv'
    OBVIOUS
  <1>t. TypeOK'
    BY TypeStep DEF IInv
  <1>s. ASSUME UNCHANGED <<lastEntry, entries>> PROVE IInv'
    BY <1>s, <1>t DEF IInv, RemembersNewest, SameSideSpaced, NoReversal
  <1>1. CASE Tick
    BY <1>1, <1>s DEF Tick
  <1>2. ASSUME NEW t \in Threads, NEW side \in Sides, ReadClock(t, side)
        PROVE  IInv'
    BY <1>2, <1>s DEF ReadClock
  <1>3. ASSUME NEW t \in Threads, Locked(t)
        PROVE  IInv'
    <2> DEFINE side == call[t].side
               time == call[t].now
    <2>1. side \in Sides /\ time \in Nat
      BY <1>3 DEF Locked, IInv, TypeOK, Call, Idle
    <2>2. CASE CoolingDown(side, time)
      BY <1>3, <1>s, <2>2 DEF Locked
    <2>3. CASE ~CoolingDown(side, time)
      <3>1. /\ lastEntry' = Recorded(side, time)
            /\ entries' = Append(entries, [side |-> side, ts |-> time])
        BY <1>3, <2>3 DEF Locked
      <3>2. RemembersNewest' /\ SameSideSpaced'
        BY <1>t, <2>1, <2>3, <3>1, AcceptKeepsIInv
      <3> QED BY <1>t, <3>2 DEF IInv
    <2> QED BY <2>2, <2>3
  <1>4. CASE UNCHANGED vars
    BY <1>4, <1>s DEF vars
  <1> QED BY <1>1, <1>2, <1>3, <1>4 DEF Next

LEMMA InitIInv == Init => IInv
  BY EmptySeq DEF Init, IInv, TypeOK, Call, Idle, RemembersNewest, SameSideSpaced, Absent, Sides

(* Two accepted entries on one side with no reversal between them are a     *)
(* cooldown apart, for any number of threads and any cooldown.              *)
THEOREM Spaced == Spec => []SameSideSpaced
  <1>1. IInv => SameSideSpaced
    BY DEF IInv
  <1> QED BY <1>1, InitIInv, StepIInv, PTL DEF Spec

(* A side is turned away only while the newest accepted entry is on that    *)
(* side and younger than the cooldown: a reverse signal always passes.      *)
THEOREM ReversePasses == Spec => ReverseNeverBlocked
  <1> DEFINE Turned(t) ==
        (call[t] # Idle /\ call'[t] = Idle /\ entries' = entries)
        => /\ entries # <<>>
           /\ entries[Len(entries)].side = call[t].side
           /\ call[t].now - entries[Len(entries)].ts < CooldownSeconds
  <1>1. ASSUME IInv, [Next]_vars, NEW t \in Threads
        PROVE  Turned(t)
    <2>1. CASE Tick \/ UNCHANGED vars
      BY <1>1, <2>1 DEF Tick, vars
    <2>2. ASSUME NEW u \in Threads, NEW side \in Sides, ReadClock(u, side)
          PROVE  Turned(t)
      BY <1>1, <2>2 DEF ReadClock, Idle, IInv, TypeOK
    <2>3. ASSUME NEW u \in Threads, Locked(u)
          PROVE  Turned(t)
      <3>0. SUFFICES ASSUME t = u, entries' = entries
                     PROVE  Turned(t)
        BY <1>1, <2>3 DEF Locked, IInv, TypeOK
      <3>1. call[t].side \in Sides /\ call[t].now \in Nat
        BY <1>1, <2>3, <3>0 DEF Locked, IInv, TypeOK, Call, Idle
      <3>2. CoolingDown(call[t].side, call[t].now)
        <4>1. SUFFICES ASSUME ~CoolingDown(call[t].side, call[t].now) PROVE FALSE
          OBVIOUS
        <4>2. entries' = Append(entries, [side |-> call[t].side, ts |-> call[t].now])
          BY <2>3, <3>0, <4>1 DEF Locked
        <4>3. entries \in Seq(Entry) /\ [side |-> call[t].side, ts |-> call[t].now] \in Entry
          BY <1>1, <3>1 DEF IInv, TypeOK, Entry
        <4>4. Len(entries') = Len(entries) + 1 /\ Len(entries) \in Nat
          BY <4>2, <4>3, AppendProperties
        <4> QED BY <3>0, <4>4
      <3> QED BY <1>1, <3>1, <3>2 DEF CoolingDown, IInv, RemembersNewest
    <2> QED BY <1>1, <2>1, <2>2, <2>3 DEF Next
  <1>2. IInv /\ [Next]_vars => [\A t \in Threads : Turned(t)]_vars
    BY <1>1
  <1> QED BY <1>2, InitIInv, StepIInv, PTL DEF Spec, ReverseNeverBlocked

-----------------------------------------------------------------------------
(* CommandPath: the operators it is made of.                                *)
LEMMA TextFacts ==
  ASSUME NEW text
  PROVE  /\ Strip(Strip(text)) = Strip(text)
         /\ Strip(text) \in {"", text}
         /\ NormToken(NormToken(text)) = NormToken(text)
  <1>1. Strip(Strip(text)) = Strip(text) /\ Strip(text) \in {"", text}
    BY DEF Strip, Blank
  <1>2. /\ DOMAIN Uppers = {"buy", "hold", "market", "limit"}
        /\ Uppers["buy"] = "BUY" /\ Uppers["hold"] = "HOLD"
        /\ Uppers["market"] = "MARKET" /\ Uppers["limit"] = "LIMIT"
    BY DEF Uppers
  <1>3. NormToken(NormToken(text)) = NormToken(text)
    BY <1>2 DEF NormToken, Strip, Blank
  <1> QED BY <1>1, <1>3

LEMMA TokenFacts ==
  /\ NormToken("MARKET") = "MARKET" /\ NormToken("BUY") = "BUY" /\ NormToken("SELL") = "SELL"
  BY DEF NormToken, Uppers, Strip, Blank

(* The remainder of a difference of two times of the day.                   *)
LEMMA Remainder ==
  ASSUME NEW d \in Nat \ {0}, NEW x \in Int, -d < x, x < d
  PROVE  x % d = IF x >= 0 THEN x ELSE x + d
  <1>1. x % d \in 0..(d - 1) /\ x = d * (x \div d) + (x % d)
    OBVIOUS
  <1> DEFINE q == x \div d
             r == x % d
  <1>2. q \in Int
    OBVIOUS
  <1> HIDE DEF q, r
  <1>3. q \in {0, -1}
    <2>1. q > 0 => d * q >= d
      BY <1>2
    <2>2. q < -1 => d * q <= -2 * d
      BY <1>2
    <2> QED BY <1>1, <1>2, <2>1, <2>2 DEF q, r
  <1> QED BY <1>1, <1>3 DEF q, r

(* Which of them are there is told apart by their fields.                   *)
LEMMA Presence ==
  /\ \A b \in Commands : b # NoCommand /\ b.ticks.n \in Int /\ b.quantity.n \in Int
  /\ \A p, c, n : FlowCommand(p, c, n) # NoCommand
  /\ \A b, c : Normalized(b, c) # NoCommand
  /\ \A c : Heard(c) # NoCommand
  /\ \A p \in Payloads : p # NoPayload /\ p \in SignalBodies
  <1>1. DOMAIN NoCommand = {"id"}
    BY DEF NoCommand
  <1>2. ASSUME NEW b \in Commands
        PROVE  b # NoCommand /\ b.ticks.n \in Int /\ b.quantity.n \in Int
    <2>1. b \in Bodies
      BY PathAssumption DEF PathAssumption
    <2>2. "action" \in DOMAIN b
      BY <2>1 DEF Bodies
    <2> QED BY <1>1, <2>1, <2>2 DEF Bodies, JsonNumbers
  <1>3. ASSUME NEW p, NEW c, NEW n PROVE FlowCommand(p, c, n) # NoCommand
    <2>1. "action" \in DOMAIN FlowCommand(p, c, n)
      BY DEF FlowCommand
    <2> QED BY <1>1, <2>1
  <1>4. ASSUME NEW b, NEW c PROVE Normalized(b, c) # NoCommand
    <2>1. "action" \in DOMAIN Normalized(b, c)
      BY DEF Normalized
    <2> QED BY <1>1, <2>1
  <1>5. ASSUME NEW c PROVE Heard(c) # NoCommand
    <2>1. "action" \in DOMAIN Heard(c)
      BY DEF Heard
    <2> QED BY <1>1, <2>1
  <1>6. ASSUME NEW p \in Payloads PROVE p # NoPayload /\ p \in SignalBodies
    <2>1. p \in SignalBodies
      BY PathAssumption DEF PathAssumption
    <2>2. p.type # "none" /\ NoPayload.type = "none"
      BY <2>1 DEF SignalBodies, NoPayload
    <2> QED BY <2>1, <2>2
  <1> QED BY <1>2, <1>3, <1>4, <1>5, <1>6

LEMMA AskedBody == Asked => body # NoCommand /\ body.ticks.n \in Int
  <1> SUFFICES ASSUME Asked PROVE body # NoCommand /\ body.ticks.n \in Int
    OBVIOUS
  <1>1. CASE payload = NoPayload
    BY <1>1, Presence DEF Asked
  <1>2. CASE payload # NoPayload
    <2>1. PICK n \in 1..MaxContracts : body = FlowCommand(payload, config, n)
      BY <1>2 DEF Asked
    <2>2. body.ticks.n = 1
      BY <2>1 DEF FlowCommand
    <2> QED BY <2>1, <2>2, Presence
  <1> QED BY <1>1, <1>2

-----------------------------------------------------------------------------
(* CommandPath: the steps.                                                  *)
LEMMA PathInitHolds == PathInit => PathInv
  BY DEF PathInit, PathInv, AtRest

LEMMA ArriveStep ==
  ASSUME PathInv,
         \/ \E b \in Commands : Webhook(b)
         \/ \E p \in Payloads, n \in 1..MaxContracts : Signal(p, n)
  PROVE  PathInv'
  <1>1. at = "idle" /\ AtRest /\ config \in Configs /\ now \in 0..(Day - 1)
    BY DEF PathInv, Webhook, Signal
  <1>2. ASSUME NEW b \in Commands, Webhook(b) PROVE PathInv'
    BY <1>1, <1>2 DEF Webhook, PathInv, AtRest, Asked
  <1>3. ASSUME NEW p \in Payloads, NEW n \in 1..MaxContracts, Signal(p, n) PROVE PathInv'
    <2>1. /\ payload' = p /\ p # NoPayload /\ body = NoCommand /\ answer = ""
          /\ UNCHANGED <<config, now, command, heard, sierra, envelope>>
          /\ command = NoCommand /\ heard = NoCommand /\ sierra = "" /\ envelope = NoEnvelope
      BY <1>1, <1>3, Presence DEF Signal, AtRest
    <2>2. CASE Parses(p) /\ Direction(p) # ""
      <3>1. at' = "validate" /\ body' = FlowCommand(p, config, n) /\ answer' = ""
        BY <1>3, <2>1, <2>2 DEF Signal
      <3>2. Asked'
        BY <2>1, <2>2, <3>1 DEF Asked
      <3> QED BY <1>1, <2>1, <3>1, <3>2 DEF PathInv
    <2>3. CASE ~(Parses(p) /\ Direction(p) # "")
      <3>1. at' = "done" /\ body' = NoCommand /\ answer' \in {"invalid", "blocked"}
        BY <1>3, <2>1, <2>3 DEF Signal, Answered
      <3> QED BY <1>1, <2>1, <3>1 DEF PathInv
    <2> QED BY <2>2, <2>3
  <1> QED BY <1>2, <1>3

LEMMA ValidateStep == ASSUME PathInv, Validate PROVE PathInv'
  <1>1. /\ at = "validate" /\ Asked /\ config \in Configs /\ now \in 0..(Day - 1)
        /\ command = NoCommand /\ heard = NoCommand /\ sierra = ""
        /\ envelope = NoEnvelope /\ answer = ""
    BY DEF PathInv, Validate
  <1>2. UNCHANGED <<config, now, payload, body, heard, sierra, envelope>>
    BY DEF Validate
  <1>3. Asked'
    BY <1>1, <1>2 DEF Asked
  <1>4. CASE Valid(body, config, now)
    <2>1. at' = "forward" /\ command' = Normalized(body, config) /\ answer' = ""
      BY <1>1, <1>4 DEF Validate
    <2>2. Passed'
      BY <1>2, <1>4, <2>1 DEF Passed
    <2> QED BY <1>1, <1>2, <1>3, <2>1, <2>2 DEF PathInv
  <1>5. CASE ~Valid(body, config, now)
    <2>1. at' = "done" /\ answer' \in {"invalid", "server error"} /\ command' = NoCommand
      BY <1>1, <1>5 DEF Validate, Answered
    <2>2. ~Valid(body, config, now)'
      BY <1>2, <1>5
    <2> QED BY <1>1, <1>2, <1>3, <2>1, <2>2 DEF PathInv
  <1> QED BY <1>4, <1>5

LEMMA ForwardStep == ASSUME PathInv, Forward PROVE PathInv'
  <1>1. /\ at = "forward" /\ Asked /\ Passed /\ config \in Configs /\ now \in 0..(Day - 1)
        /\ envelope = NoEnvelope
    BY DEF PathInv, Forward
  <1>2. UNCHANGED <<config, now, payload, body, command, envelope>>
    BY DEF Forward
  <1>3. Asked' /\ Passed'
    BY <1>1, <1>2 DEF Asked, Passed
  <1>4. Forwarded'
    BY <1>2 DEF Forward, Forwarded
  <1>5. at' = "done" \/ (at' = "options" /\ payload # NoPayload)
    BY DEF Forward
  <1> QED BY <1>1, <1>2, <1>3, <1>4, <1>5 DEF PathInv

LEMMA OptionsStep == ASSUME PathInv, Options PROVE PathInv'
  <1>1. /\ at = "options" /\ Asked /\ Passed /\ Forwarded /\ payload # NoPayload
        /\ config \in Configs /\ now \in 0..(Day - 1)
    BY DEF PathInv, Options
  <1>2. /\ UNCHANGED <<config, now, payload, body, command, heard, sierra, answer>>
        /\ at' = "done" /\ envelope' \in {Envelope(payload), NoEnvelope}
    BY DEF Options
  <1>3. Asked' /\ Passed' /\ Forwarded'
    BY <1>1, <1>2 DEF Asked, Passed, Forwarded
  <1> QED BY <1>1, <1>2, <1>3 DEF PathInv

LEMMA PathStep == PathInv /\ [PathNext]_pathVars => PathInv'
  <1> SUFFICES ASSUME PathInv, [PathNext]_pathVars PROVE PathInv'
    OBVIOUS
  <1>1. CASE Done
    BY <1>1 DEF Done, PathInv, AtRest
  <1>2. CASE UNCHANGED pathVars
    BY <1>2 DEF pathVars, PathInv, AtRest, Asked, Passed, Forwarded
  <1> QED BY <1>1, <1>2, ArriveStep, ValidateStep, ForwardStep, OptionsStep DEF PathNext

(* What each point of the way has established, for any commands, payloads   *)
(* and configurations.                                                      *)
THEOREM WayInvariant == PathSpec => []PathInv
  BY PathInitHolds, PathStep, PTL DEF PathSpec

-----------------------------------------------------------------------------
(* CommandPath: what holds on the way.                                      *)
LEMMA SentFacts ==
  ASSUME PathInv, Sent
  PROVE  Asked /\ Passed /\ heard = Heard(command)
  BY DEF PathInv, Sent, AtRest, Forwarded

(* A command that the receiver lets pass is one the add-on accepts, with    *)
(* its action and its bracket, for any command and any int: but for an id   *)
(* of white space, an action of the configuration's own, a panel without an *)
(* instrument and ticks that fit no int.                                    *)
THEOREM AcceptedByBoth == PathSpec => []AcceptedIsAccepted
  <1>1. ASSUME PathInv, Sent
        PROVE  /\ \/ ListenerAccepts(heard, config.panel)
                  \/ command.id = "" \/ Strip(config.panel) = ""
                  \/ command.action \notin {"BUY", "SELL", "EXIT_LONG", "EXIT_SHORT", "FLATTEN"}
               /\ heard.action = NormToken(body.action)
               /\ heard.ticks = body.ticks.n \/ ~FitsInt(body.ticks.n)
    <2>1. Valid(body, config, now) /\ command = Normalized(body, config) /\ heard = Heard(command)
      BY <1>1, SentFacts DEF Passed
    <2>2. /\ heard.id = Strip(command.id) /\ heard.action = NormToken(command.action)
          /\ heard.orderType = Or(NormToken(command.orderType), "MARKET")
          /\ heard.ticks = Int32(command.ticks)
      BY <2>1 DEF Heard
    <2>3. /\ command.id = Strip(Or(body.id, Fresh)) /\ command.action = NormToken(body.action)
          /\ command.orderType = Or(NormToken(body.orderType), "MARKET")
          /\ command.ticks = body.ticks.n
      BY <2>1 DEF Normalized
    <2>4. heard.id = command.id /\ heard.action = command.action
      BY <2>2, <2>3, TextFacts
    <2>5. command.orderType = "MARKET"
      BY <2>1, <2>3 DEF Valid, Gates, OrderTypeOk
    <2>6. heard.orderType = "MARKET"
      BY <2>2, <2>5, TokenFacts DEF Or
    <2> QED BY <2>2, <2>3, <2>4, <2>6 DEF ListenerAccepts, Int32
  <1>2. PathInv => AcceptedIsAccepted
    BY <1>1 DEF AcceptedIsAccepted
  <1> QED BY <1>2, WayInvariant, PTL

(* within_trading_hours, for days of any length and any two times of one.   *)
THEOREM RoundTheClock == PathSpec => []HoursGoRoundTheClock
  <1>1. PathInv => HoursGoRoundTheClock
    <2> SUFFICES ASSUME PathInv
                 PROVE  OpenNow(config.hours, now)
                        <=> (now - config.hours.start) % Day
                            <= (config.hours.end - config.hours.start) % Day
      BY DEF HoursGoRoundTheClock
    <2> DEFINE s == config.hours.start
               e == config.hours.end
    <2>1. Day \in Nat \ {0} /\ s \in 0..(Day - 1) /\ e \in 0..(Day - 1) /\ now \in 0..(Day - 1)
      BY ValidationAssumption, PathAssumption
      DEF ValidationAssumption, PathAssumption, PathInv
    <2>2. OpenNow(config.hours, now) <=>
            IF s <= e THEN s <= now /\ now <= e ELSE now >= s \/ now <= e
      BY DEF OpenNow
    <2> HIDE DEF s, e
    <2>3. /\ now - s \in Int /\ -Day < now - s /\ now - s < Day
          /\ e - s \in Int /\ -Day < e - s /\ e - s < Day
      BY <2>1
    <2>4. (now - s) % Day = IF now - s >= 0 THEN now - s ELSE now - s + Day
      BY <2>1, <2>3, Remainder
    <2>5. (e - s) % Day = IF e - s >= 0 THEN e - s ELSE e - s + Day
      BY <2>1, <2>3, Remainder
    <2> DEFINE fromStart == (now - s) % Day
               length == (e - s) % Day
    <2> HIDE DEF fromStart, length
    <2>6. OpenNow(config.hours, now) <=> fromStart <= length
      BY <2>1, <2>2, <2>4, <2>5 DEF fromStart, length
    <2> QED BY <2>6 DEF fromStart, length, s, e
  <1> QED BY <1>1, WayInvariant, PTL

(* What the engine's order says is valid: only the switch, the hours, the   *)
(* limits of the configuration and its lists refuse it.                     *)
THEOREM FlowOrdersPass == PathSpec => []FlowOrdersAreValid
  <1>1. ASSUME PathInv, payload # NoPayload, body # NoCommand,
               answer \in {"invalid", "server error"},
               config.trading, ~config.hours.on, body.action \in config.actions,
               "MARKET" \in config.orderTypes, body.quantity.n <= config.maxQuantity,
               config.symbols = {} \/ Allows(Strip(config.flowSymbol))
        PROVE  FALSE
    <2>1. Asked /\ ~Valid(body, config, now)
      BY <1>1 DEF PathInv, AtRest, Forwarded
    <2>2. PICK n \in 1..MaxContracts : body = FlowCommand(payload, config, n)
      BY <1>1, <2>1 DEF Asked
    <2>3. /\ body.action \in {"BUY", "SELL"} /\ body.orderType = "MARKET"
          /\ body.symbol = config.flowSymbol /\ body.ntSymbol = ""
          /\ body.quantity.is = "int" /\ body.quantity.n = n
          /\ body.ticks.is = "int"
      BY <2>2 DEF FlowCommand
    <2>4. Gates(body, config, now)
      BY <1>1, <2>3, TokenFacts
      DEF Gates, WithinTradingHours, ActionOk, OrderTypeOk, Or
    <2>5. QuantityOk(body, config) /\ Converts(body.ticks)
      <3>1. n > 0
        BY PathAssumption DEF PathAssumption
      <3> QED BY <1>1, <2>3, <3>1 DEF QuantityOk, Converts
    <2>6. SymbolOk(body, config)
      <3>1. CASE Strip(body.symbol) = ""
        <4>1. NtSymbol(body, config) = ""
          BY <2>3, <3>1, TextFacts DEF NtSymbol, Or, Mapped
        <4> QED BY <3>1, <4>1 DEF SymbolOk
      <3>2. CASE Strip(body.symbol) # ""
        <4>1. config.symbols = {} \/ Allows(Strip(body.symbol))
          BY <1>1, <2>3
        <4> QED BY <3>2, <4>1 DEF SymbolOk, Allows
      <3> QED BY <3>1, <3>2
    <2> QED BY <2>1, <2>4, <2>5, <2>6 DEF Valid
  <1>2. ASSUME PathInv, payload # NoPayload, body # NoCommand,
               answer \in {"invalid", "server error"}
        PROVE  \/ ~config.trading \/ config.hours.on
               \/ body.action \notin config.actions \/ "MARKET" \notin config.orderTypes
               \/ body.quantity.n > config.maxQuantity
               \/ config.symbols # {} /\ ~Allows(Strip(config.flowSymbol))
    <2>1. config.maxQuantity \in Int
      BY <1>2, PathAssumption DEF PathInv, PathAssumption
    <2>2. body.quantity.n \in Int
      <3>1. PICK n \in 1..MaxContracts : body = FlowCommand(payload, config, n)
        BY <1>2 DEF PathInv, AtRest, Forwarded, Asked
      <3>2. body.quantity.n = n
        BY <3>1 DEF FlowCommand
      <3>3. n \in Int
        BY PathAssumption DEF PathAssumption
      <3> QED BY <3>2, <3>3
    <2>3. body.quantity.n > config.maxQuantity \/ body.quantity.n <= config.maxQuantity
      BY <2>1, <2>2
    <2> QED BY <1>1, <1>2, <2>3
  <1>3. PathInv => FlowOrdersAreValid
    BY <1>2 DEF FlowOrdersAreValid
  <1> QED BY <1>3, WayInvariant, PTL

(* What is looked up under a symbol is an entry of the map under one of its *)
(* cases; nothing is found where there is none but blank ones.              *)
LEMMA MappedFacts ==
  ASSUME NEW map, NEW symbol
  PROVE  /\ Mapped(map, symbol) # "" =>
              /\ symbol # ""
              /\ \E k \in DOMAIN map : LowerOf(k) = LowerOf(symbol) /\ Mapped(map, symbol) = map[k]
         /\ Mapped(map, symbol) = "" /\ symbol # "" =>
              \/ \A k \in DOMAIN map : LowerOf(k) # LowerOf(symbol)
              \/ \E k \in DOMAIN map : LowerOf(k) = LowerOf(symbol) /\ map[k] = ""
  <1> DEFINE keys == {k \in DOMAIN map : LowerOf(k) = LowerOf(symbol)}
             first == CHOOSE k \in keys : TRUE
  <1>1. keys # {} => first \in keys
    OBVIOUS
  <1>2. \A k : k \in keys <=> k \in DOMAIN map /\ LowerOf(k) = LowerOf(symbol)
    OBVIOUS
  <1>3. Mapped(map, symbol) = IF symbol = "" \/ keys = {} THEN ""
                              ELSE IF symbol \in keys /\ map[symbol] # "" THEN map[symbol]
                              ELSE map[first]
    BY DEF Mapped
  <1> HIDE DEF keys, first
  <1> QED BY <1>1, <1>2, <1>3

LEMMA SierraMapFacts ==
  ASSUME NEW symbol
  PROVE  /\ Mapped(config.sierraMap, symbol) # "" =>
              symbol # "" /\ Mapped(config.sierraMap, symbol) \in SierraEntries(symbol)
         /\ Mapped(config.sierraMap, symbol) = "" => Unmapped(symbol)
  <1> DEFINE map == config.sierraMap
             mapped == Mapped(map, symbol)
  <1>1. \A s : s \in SierraEntries(symbol)
                <=> \E k \in DOMAIN map : LowerOf(k) = LowerOf(symbol) /\ s = map[k]
    BY DEF SierraEntries
  <1>2. /\ mapped # "" =>
              /\ symbol # ""
              /\ \E k \in DOMAIN map : LowerOf(k) = LowerOf(symbol) /\ mapped = map[k]
        /\ mapped = "" /\ symbol # "" =>
              \/ \A k \in DOMAIN map : LowerOf(k) # LowerOf(symbol)
              \/ \E k \in DOMAIN map : LowerOf(k) = LowerOf(symbol) /\ map[k] = ""
    BY MappedFacts
  <1> HIDE DEF map, mapped
  <1>3. mapped = "" => Unmapped(symbol)
    <2>1. (\A k \in DOMAIN map : LowerOf(k) # LowerOf(symbol)) => SierraEntries(symbol) = {}
      BY <1>1
    <2> QED BY <1>1, <1>2, <2>1 DEF Unmapped
  <1>4. mapped # "" => symbol # "" /\ mapped \in SierraEntries(symbol)
    BY <1>1, <1>2
  <1> QED BY <1>3, <1>4 DEF mapped, map

(* resolve_sierra_symbol picks what the checked alert names, for any lists  *)
(* and maps.                                                                *)
THEOREM SierraSymbolChecked == PathSpec => []SierraTradesWhatIsAllowed
  <1>1. ASSUME PathInv, sierra # "", NEW symbol, symbol = Strip(body.symbol),
               NEW ntName, ntName = NtSymbol(body, config)
        PROVE  /\ config.symbols # {} /\ {symbol, ntName} # {""} =>
                     (symbol # "" /\ Allows(symbol)) \/ (ntName # "" /\ Allows(ntName))
               /\ \/ symbol # "" /\ \E s \in SierraEntries(symbol) : sierra = Strip(s)
                  \/ /\ Unmapped(symbol)
                     /\ sierra = IF symbol \in config.sierraStyle THEN symbol
                                 ELSE Strip(config.sierraSymbol)
    <2>1. Valid(body, config, now) /\ command = Normalized(body, config)
          /\ sierra = Strip(SierraSymbol(command, config))
      BY <1>1 DEF PathInv, AtRest, Passed, Forwarded
    <2>2. command.symbol = symbol /\ Strip(symbol) = symbol
      BY <1>1, <2>1, TextFacts DEF Normalized
    <2>3. config.symbols # {} /\ {symbol, ntName} # {""} =>
             (symbol # "" /\ Allows(symbol)) \/ (ntName # "" /\ Allows(ntName))
      <3>1. SymbolOk(body, config)
        BY <2>1 DEF Valid
      <3> QED BY <1>1, <3>1 DEF SymbolOk, Allows
    <2> DEFINE mapped == Mapped(config.sierraMap, symbol)
    <2>4. SierraSymbol(command, config) =
             IF mapped # "" THEN mapped
             ELSE IF symbol \in config.sierraStyle THEN symbol
             ELSE config.sierraSymbol
      BY <2>2 DEF SierraSymbol
    <2>5. CASE mapped # ""
      <3>1. symbol # "" /\ mapped \in SierraEntries(symbol)
        BY <2>5, SierraMapFacts
      <3> HIDE DEF mapped
      <3> QED BY <2>1, <2>3, <2>4, <2>5, <3>1
    <2>6. CASE mapped = ""
      <3>1. Unmapped(symbol)
        BY <2>6, SierraMapFacts
      <3> HIDE DEF mapped
      <3> QED BY <2>1, <2>2, <2>3, <2>4, <2>6, <3>1
    <2> QED BY <2>5, <2>6
  <1>2. PathInv => SierraTradesWhatIsAllowed
    BY <1>1 DEF SierraTradesWhatIsAllowed
  <1> QED BY <1>2, WayInvariant, PTL

(* The price _number finds is a number, a text or the 0 of its default.     *)
LEMMA ParsedPriceFacts ==
  ASSUME NEW p \in SignalBodies
  PROVE  /\ ParsedPrice(p) \in JsonPrices
         /\ \/ ParsedPrice(p) \in {p.top.price, p.signal.price, p.context.price, p.top.spx}
            \/ ParsedPrice(p).n = 0
  <1> DEFINE first == DefaultPrice(p.top.price, p.signal.price)
             prices == <<first, p.context.price, p.top.spx>>
             there == {i \in 1..3 : prices[i].is \in {"num", "text"}}
             found == CHOOSE i \in there : \A j \in there : i <= j
  <1>1. /\ p.top.price \in JsonPrices /\ p.top.spx \in JsonPrices
        /\ p.signal.price \in JsonPrices /\ p.context.price \in JsonPrices
    BY DEF SignalBodies, Fields
  <1>2. first \in {p.top.price, p.signal.price}
    BY DEF DefaultPrice
  <1>3. \A i \in 1..3 :
          prices[i] \in {p.top.price, p.signal.price, p.context.price, p.top.spx}
    BY <1>2
  <1>4. ASSUME there # {} PROVE found \in 1..3
    <2>1. there \subseteq 1..3
      OBVIOUS
    <2> HIDE DEF there
    <2>2. \E i \in there : \A j \in there : i <= j
      <3>1. \A i \in there : i \in {1, 2, 3}
        BY <2>1
      <3>2. CASE 1 \in there
        BY <3>1, <3>2
      <3>3. CASE 1 \notin there /\ 2 \in there
        BY <3>1, <3>3
      <3>4. CASE there \subseteq {3}
        <4>1. \A j \in there : j = 3
          BY <3>4
        <4> QED BY <1>4, <4>1
      <3> QED BY <3>1, <3>2, <3>3, <3>4
    <2> QED BY <2>1, <2>2
  <1>5. ParsedPrice(p) = IF there = {} THEN [is |-> "num", n |-> 0] ELSE prices[found]
    BY DEF ParsedPrice
  <1>6. [is |-> "num", n |-> 0] \in JsonPrices
    BY DEF JsonPrices
  <1> HIDE DEF prices, there, found
  <1>7. CASE there = {}
    BY <1>5, <1>6, <1>7
  <1>8. CASE there # {}
    <2>1. ParsedPrice(p) \in {p.top.price, p.signal.price, p.context.price, p.top.spx}
      BY <1>3, <1>4, <1>5, <1>8
    <2> QED BY <1>1, <2>1
  <1> QED BY <1>7, <1>8

LEMMA EnvelopePriceFacts ==
  ASSUME NEW p \in SignalBodies, EnvelopePrice(p) # 0
  PROVE  /\ EnvelopePrice(p) > 0
         /\ \E price \in {p.top.price, p.top.spx, p.signal.price, p.context.price} :
               price.is = "num" /\ price.n = EnvelopePrice(p)
  <1>1. ASSUME NEW a, NEW b, NEW c, FirstPositive(a, b, c) # 0
        PROVE  \E price \in {a, b, c} : Positive(price) /\ price.n = FirstPositive(a, b, c)
    BY <1>1 DEF FirstPositive
  <1>2. PICK price \in {p.signal.price, p.context.price, NoPrice,
                        p.top.price, p.top.spx, ParsedPrice(p)} :
          Positive(price) /\ price.n = EnvelopePrice(p)
    <2>1. CASE IsFull(p)
      <3>1. EnvelopePrice(p) = FirstPositive(p.signal.price, p.context.price, NoPrice)
        BY <2>1 DEF EnvelopePrice
      <3>2. \E price \in {p.signal.price, p.context.price, NoPrice} :
              Positive(price) /\ price.n = EnvelopePrice(p)
        BY <1>1, <3>1
      <3> QED BY <3>2
    <2>2. CASE ~IsFull(p)
      <3>1. EnvelopePrice(p) = FirstPositive(p.top.price, p.top.spx, ParsedPrice(p))
        BY <2>2 DEF EnvelopePrice
      <3>2. \E price \in {p.top.price, p.top.spx, ParsedPrice(p)} :
              Positive(price) /\ price.n = EnvelopePrice(p)
        BY <1>1, <3>1
      <3> QED BY <3>2
    <2> QED BY <2>1, <2>2
  <1>3. price # NoPrice /\ price.n > 0 /\ price.is = "num"
    BY <1>2 DEF Positive, NoPrice
  <1>4. price = ParsedPrice(p) =>
          price \in {p.top.price, p.signal.price, p.context.price, p.top.spx}
    BY <1>3, ParsedPriceFacts
  <1> QED BY <1>2, <1>3, <1>4

(* White space says nothing.                                                *)
LEMMA SaysStripped ==
  ASSUME NEW a, NEW b, NEW c
  PROVE  Says(Strip(a), Strip(b), Strip(c)) = Says(a, b, c)
  BY DEF Says, Strip, Blank

(* A full envelope's signal says what the payload says, when no key outside *)
(* it bears on the direction.                                               *)
LEMMA FullSaysTheSame ==
  ASSUME NEW p, ~Hints(p.top), ~Hints(p.context)
  PROVE  Direction(p) = Says(Given(p.signal.side), Given(p.signal.color), Given(p.signal.kind))
  <1>1. /\ p.top.side = Missing /\ p.top.color = Missing /\ p.top.kind = Missing
        /\ p.context.side = Missing /\ p.context.color = Missing /\ p.context.kind = Missing
    BY DEF Hints
  <1>2. /\ MergedField(p, "side") = Strip(Given(p.signal.side))
        /\ MergedField(p, "color") = Strip(Given(p.signal.color))
        /\ MergedField(p, "kind") = Strip(Given(p.signal.kind))
    BY <1>1 DEF MergedField, Default
  <1> QED BY <1>2, SaysStripped DEF Direction

(* A flat envelope says the decision: its kind is the payload's own, which  *)
(* the decision has looked at, or made of the decision.                     *)
LEMMA FlatSaysTheDecision ==
  ASSUME NEW p, Direction(p) # ""
  PROVE  Says(Direction(p), IF Direction(p) = "long" THEN "green" ELSE "red",
              Strip(Or(Given(p.top.kind), SignalType(p)))) = Direction(p)
  <1> DEFINE kind == MergedField(p, "kind")
             sent == Strip(Or(Given(p.top.kind), SignalType(p)))
  <1>1. Direction(p) \in {"long", "short"}
    BY DEF Direction, Says
  <1>2. CASE Direction(p) = "long"
    BY <1>2 DEF Says
  <1>3. CASE Direction(p) = "short"
    <2>1. kind # "cross_long"
      BY <1>3 DEF Direction, Says
    <2>2. SignalType(p) # "cross_long"
      <3>1. [long |-> "cross_long", short |-> "cross_short"]["short"] = "cross_short"
        OBVIOUS
      <3>2. SignalType(p) = IF kind \in {"cross_long", "cross_short"} THEN "cross_short"
                            ELSE Or(kind, "unknown")
        BY <1>3, <3>1 DEF SignalType
      <3> HIDE DEF kind
      <3> QED BY <2>1, <3>2 DEF Or
    <2>3. Given(p.top.kind) # "" => kind = Strip(Given(p.top.kind))
      BY DEF MergedField, Default, Given
    <2>4. sent # "cross_long"
      <3>1. CASE Given(p.top.kind) = ""
        BY <2>2, <3>1 DEF Or, Strip
      <3>2. CASE Given(p.top.kind) # ""
        BY <2>1, <2>3, <3>2 DEF Or
      <3> QED BY <3>1, <3>2
    <2> HIDE DEF sent
    <2> QED BY <1>3, <2>4 DEF Says, sent
  <1> QED BY <1>1, <1>2, <1>3

(* build_options_envelope, for any payload: the order's id and direction,   *)
(* and a positive price of the payload.                                     *)
THEOREM EnvelopeFollowsOrder == PathSpec => []EnvelopeFitsOrder
  <1>1. ASSUME PathInv, envelope # NoEnvelope
        PROVE  /\ envelope.id = command.id \/ (IsFull(payload) /\ Strip(Given(payload.signal.id)) = "")
               /\ \/ (command.action = "BUY")
                        = (Says(envelope.side, envelope.color, envelope.kind) = "long")
                  \/ IsFull(payload) /\ (Hints(payload.top) \/ Hints(payload.context))
               /\ envelope.price > 0
               /\ \E price \in {payload.top.price, payload.top.spx,
                                 payload.signal.price, payload.context.price} :
                     price.is = "num" /\ price.n = envelope.price
    <2>1. Asked /\ Passed /\ payload # NoPayload /\ envelope = Envelope(payload)
      BY <1>1 DEF PathInv, AtRest
    <2>2. /\ payload \in SignalBodies /\ Direction(payload) # ""
          /\ \E n \in 1..MaxContracts : body = FlowCommand(payload, config, n)
      BY <2>1, Presence DEF Asked
    <2>3. /\ body.id = StableId(payload)
          /\ body.action = IF Direction(payload) = "long" THEN "BUY" ELSE "SELL"
      <3>1. PICK n \in 1..MaxContracts : body = FlowCommand(payload, config, n)
        BY <2>2
      <3> QED BY <3>1 DEF FlowCommand
    <2>4. /\ command.id = Strip(Or(body.id, Fresh)) /\ command.action = NormToken(body.action)
      BY <2>1 DEF Passed, Normalized
    <2>5. command.action = "BUY" <=> Direction(payload) = "long"
      BY <2>3, <2>4, TokenFacts
    <2>6. /\ command.id = StableId(payload)
          /\ Strip(Given(payload.signal.id)) # "" => command.id = Given(payload.signal.id)
      BY <2>3, <2>4 DEF StableId, Or, Strip, Fresh, Blank
    <2>7. EnvelopePrice(payload) # 0
      BY <1>1, <2>1 DEF Envelope
    <2>8. /\ envelope.price = EnvelopePrice(payload) /\ envelope.price > 0
          /\ \E price \in {payload.top.price, payload.top.spx,
                            payload.signal.price, payload.context.price} :
                price.is = "num" /\ price.n = envelope.price
      <3>1. envelope.price = EnvelopePrice(payload)
        BY <2>1, <2>7 DEF Envelope
      <3> QED BY <2>2, <2>7, <3>1, EnvelopePriceFacts
    <2>9. CASE IsFull(payload)
      <3>1. /\ envelope.id = Given(payload.signal.id)
            /\ envelope.side = Given(payload.signal.side)
            /\ envelope.color = Given(payload.signal.color)
            /\ envelope.kind = Given(payload.signal.kind)
        BY <2>1, <2>7, <2>9 DEF Envelope
      <3>2. ~(Hints(payload.top) \/ Hints(payload.context)) =>
               Says(envelope.side, envelope.color, envelope.kind) = Direction(payload)
        BY <3>1, FullSaysTheSame
      <3> QED BY <2>5, <2>6, <2>8, <2>9, <3>1, <3>2
    <2>10. CASE ~IsFull(payload)
      <3>1. /\ envelope.id = StableId(payload) /\ envelope.side = Direction(payload)
            /\ envelope.color = IF Direction(payload) = "long" THEN "green" ELSE "red"
            /\ envelope.kind = Strip(Or(Given(payload.top.kind), SignalType(payload)))
        BY <2>1, <2>7, <2>10 DEF Envelope
      <3>2. Says(envelope.side, envelope.color, envelope.kind) = Direction(payload)
        BY <2>2, <3>1, FlatSaysTheDecision
      <3> QED BY <2>5, <2>6, <2>8, <3>1, <3>2
    <2> QED BY <2>9, <2>10
  <1>2. PathInv => EnvelopeFitsOrder
    BY <1>1 DEF EnvelopeFitsOrder
  <1> QED BY <1>2, WayInvariant, PTL
=============================================================================
