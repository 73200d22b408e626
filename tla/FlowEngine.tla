----------------------------- MODULE FlowEngine -----------------------------
(* FlowRuleEngine of webhook_receiver/flow_rules.py and the part of the     *)
(* POST /signal handler of main.py that uses it.                            *)
(*                                                                          *)
(* The handler is one coroutine that does not await between evaluate and    *)
(* its response, so one signal is in flight at a time.  GET /status and     *)
(* POST /reset are plain functions: they run on pool threads and interleave *)
(* with it, each call being one critical section of the engine's lock.      *)
EXTENDS Integers, FiniteSets

CONSTANTS Signals,        \* parsed signals: [dir, kind, inst, retail]
          Minutes,        \* bound: the minutes of a day at which things happen
          MaxDay,         \* bound: the last day
          MaxOrders,      \* bound: orders sent in a behaviour
          ExtremeBand, ZoneMin, GreenMin, RedMax, ZeroZone, DeeplyAligned,
          MuteStart, MuteEnd, NoEntriesHour, BaseContracts   \* FlowConfig

Directions == {"long", "short"}
Kinds == {"extreme", "cross", "other"}  \* never both, see parse_flow_signal

Signal == [dir : Directions \cup {"none"}, kind : Kinds, inst : Int, retail : Int]

ASSUME FlowAssumption ==
    /\ Signals \subseteq Signal
    /\ Minutes \subseteq 0..1439
    /\ MaxDay \in Nat /\ MaxOrders \in Nat
    /\ {ExtremeBand, ZoneMin, GreenMin, RedMax, ZeroZone, DeeplyAligned,
        MuteStart, MuteEnd, NoEntriesHour, BaseContracts} \subseteq Int

VARIABLES day, minute,    \* the clock, in the configured timezone
          state,          \* self._state
          handler,        \* the signal in flight, or Idle
          decision,       \* the last FlowDecision, with its signal's color,
                          \* its day and its streak's history
          sent, live      \* history: orders sent, and this round's live ones

vars == <<day, minute, state, handler, decision, sent, live>>

-----------------------------------------------------------------------------
(* _session: before 9:30, from 16:00, and in between.                       *)
Session(m) ==
    IF m < 570 THEN "ETH" ELSE IF m >= 960 THEN "AFTER" ELSE "RTH"

TradedSessions == {"ETH", "RTH"}

Color(retail) ==
    IF retail > GreenMin THEN "green"
    ELSE IF retail < RedMax THEN "red" ELSE "yellow"

Colors == {"green", "red", "yellow"}

FlowState ==
    [tradingDate : Nat, session : {"none", "ETH", "RTH", "AFTER"},
     colors : SUBSET Colors, instAtOpen : Int,
     taken : SUBSET (TradedSessions \X Directions),
     pm3Warned : BOOLEAN, yellowWarned : BOOLEAN, alignedWarned : BOOLEAN]

(* FlowState(trading_date=date).  institutional_at_open is None exactly     *)
(* while no color has been seen; retail_color_at_open and warned_no_entries *)
(* are never read.                                                          *)
FreshState(date) ==
    [tradingDate |-> date, session |-> "none", colors |-> {}, instAtOpen |-> 0,
     taken |-> {}, pm3Warned |-> FALSE, yellowWarned |-> FALSE,
     alignedWarned |-> FALSE]

(* _check_resets, which every entry point but release_reservation runs.     *)
Current ==
    LET st == IF state.tradingDate = day THEN state ELSE FreshState(day)
    IN  [st EXCEPT !.session = Session(minute)]

-----------------------------------------------------------------------------
(* _evaluate_locked.  The signal's color and the first INST of the day are  *)
(* recorded before any rule is looked at.                                   *)
Observed(st, sig) ==
    [st EXCEPT !.colors = @ \cup {Color(sig.retail)},
               !.instAtOpen = IF st.colors = {} THEN sig.inst ELSE @]

AbsVal(n) == IF n < 0 THEN -n ELSE n

CounterTrend(sig) ==
    \/ Color(sig.retail) = "green" /\ sig.dir = "short"
    \/ Color(sig.retail) = "red" /\ sig.dir = "long"

MixedFlow(st) == Cardinality(st.colors) > 1

Aligned(sig) ==
    /\ AbsVal(sig.inst) > DeeplyAligned
    /\ AbsVal(sig.retail) > DeeplyAligned
    /\ (sig.inst > 0) = (sig.retail > 0)

(* Mutant of Rules: Rule 11 is forgotten.                                   *)
RulesSlotForgotten ==
    <<"PM-1", "PM-2", "PM-3", "Rule 7", "Rule 22", "After hours",
      "No direction", "Rule 2", "Rule 8", "Rule 9", "Rule 16", "Rule 20">>

(* The rules in the order the code tries them.                              *)
Rules == <<"PM-1", "PM-2", "PM-3", "Rule 7", "Rule 22", "After hours",
           "No direction", "Rule 2", "Rule 8", "Rule 9", "Rule 11",
           "Rule 16", "Rule 20">>

(* The rules that object to sig, whether or not an earlier one hides them.  *)
ObjectsTo(rule, st, sig) ==
    LET extreme == sig.kind = "extreme"
        sess    == Session(minute)
    IN  \/ rule = "PM-1" /\ Color(sig.retail) = "yellow"
        \/ rule = "PM-2" /\ AbsVal(st.instAtOpen) > ExtremeBand + 5
        \/ rule = "PM-3" /\ Color(sig.retail) = "green" /\ st.instAtOpen > 0
        \/ rule = "Rule 7" /\ MuteStart <= minute /\ minute < MuteEnd
        \/ rule = "Rule 22" /\ sess = "RTH" /\ minute \div 60 >= NoEntriesHour
        \/ rule = "After hours" /\ sess = "AFTER"
        \/ rule = "No direction" /\ sig.dir = "none"
        \/ rule = "Rule 2" /\ CounterTrend(sig)
                           /\ ~(MixedFlow(st) /\ sess = "RTH" /\ extreme)
        \/ rule = "Rule 8" /\ sig.kind = "cross"
                           /\ \/ sig.dir = "long" /\ sig.inst >= sig.retail
                              \/ sig.dir = "short" /\ sig.inst <= sig.retail
        \/ rule = "Rule 9" /\ AbsVal(sig.inst) < ZoneMin
        \/ rule = "Rule 11" /\ <<sess, sig.dir>> \in st.taken
        \/ rule = "Rule 16" /\ ~MixedFlow(st) /\ extreme /\ CounterTrend(sig)
        \/ rule = "Rule 20" /\ Aligned(sig) /\ extreme

Objections(st, sig) == {i \in DOMAIN Rules : ObjectsTo(Rules[i], st, sig)}

Verdict(st, sig) ==
    LET objections == Objections(st, sig)
    IN  IF objections = {} THEN "allowed"
        ELSE Rules[CHOOSE i \in objections : \A j \in objections : i <= j]

(* Mutant of Halved: without the floor.                                     *)
HalvedToNothing(n) == n \div 2

(* max(1, n // 2)                                                           *)
Halved(n) == IF n \div 2 < 1 THEN 1 ELSE n \div 2

Contracts(sig) ==
    LET against == Color(sig.retail) = "red" /\ sig.inst > 0 /\ sig.dir = "long"
        once    == IF against THEN Halved(BaseContracts) ELSE BaseContracts
    IN  IF AbsVal(sig.retail) < ZeroZone THEN Halved(once) ELSE once

(* The warning a verdict sends, unless its flag says it was sent before.    *)
Warning(st, verdict) ==
    CASE verdict = "PM-1" /\ ~st.yellowWarned -> "yellow"
      [] verdict = "PM-3" /\ ~st.pm3Warned -> "wait"
      [] verdict = "Rule 20" /\ ~st.alignedWarned -> "no fade"
      [] OTHER -> "none"

(* Mutant of Decided: yellow_warned is not set by the warning.              *)
DecidedNeverWarned(st, sig, verdict) ==
    [st EXCEPT !.yellowWarned = FALSE,
               !.pm3Warned = @ \/ verdict = "PM-3",
               !.alignedWarned = @ \/ verdict = "Rule 20",
               !.taken = IF verdict = "allowed"
                         THEN @ \cup {<<Session(minute), sig.dir>>} ELSE @]

(* yellow_warned lasts for a streak of yellow signals, the others a day; a  *)
(* signal that passes takes its slot.                                       *)
Decided(st, sig, verdict) ==
    [st EXCEPT !.yellowWarned = verdict = "PM-1",
               !.pm3Warned = @ \/ verdict = "PM-3",
               !.alignedWarned = @ \/ verdict = "Rule 20",
               !.taken = IF verdict = "allowed"
                         THEN @ \cup {<<Session(minute), sig.dir>>} ELSE @]

-----------------------------------------------------------------------------
Idle == [at |-> "idle"]
NoDecision == [rule |-> "none"]

InFlight == [at : {"dispatching"}, n : Nat, sess : TradedSessions, dir : Directions]

Decision == [rule : {Rules[i] : i \in DOMAIN Rules} \cup {"allowed"},
             warning : {"none", "yellow", "wait", "no fade"},
             color : Colors, contracts : Int, day : Nat, warnings : Nat]

(* A streak: yellow signals in succession on one day.                       *)
InStreak ==
    decision # NoDecision /\ decision.day = day /\ decision.color = "yellow"

(* History: the yellow warnings sent in the streak that a signal of this    *)
(* color belongs to, its own included.                                      *)
StreakWarnings(color, warning) ==
    IF color # "yellow" THEN 0
    ELSE (IF InStreak THEN decision.warnings ELSE 0)
         + (IF warning = "yellow" THEN 1 ELSE 0)

TypeOK ==
    /\ day \in Nat /\ minute \in Minutes
    /\ state \in FlowState
    /\ handler \in {Idle, [at |-> "alerting"]} \cup InFlight
    /\ decision \in {NoDecision} \cup Decision
    /\ sent \in Nat
    /\ live \subseteq [n : Nat, sess : TradedSessions, dir : Directions]

Init ==
    /\ day = 1 /\ minute \in Minutes
    /\ state = FreshState(0)
    /\ handler = Idle
    /\ decision = NoDecision
    /\ sent = 0 /\ live = {}

-----------------------------------------------------------------------------
(* POST /signal up to the dispatch: a signal that passes takes its slot and *)
(* its order is on its way; one that is blocked is answered at once.        *)
Evaluate(sig) ==
    LET st      == Observed(Current, sig)
        verdict == Verdict(st, sig)
        passes  == verdict = "allowed"
        order   == [n |-> sent + 1, sess |-> Session(minute), dir |-> sig.dir]
    IN  /\ handler = Idle
        /\ sent < MaxOrders
        /\ state' = Decided(st, sig, verdict)
        /\ decision' = [rule |-> verdict, warning |-> Warning(st, verdict),
                        color |-> Color(sig.retail), day |-> day,
                        warnings |-> StreakWarnings(Color(sig.retail),
                                                    Warning(st, verdict)),
                        contracts |-> IF passes THEN Contracts(sig) ELSE 0]
        /\ IF passes
           THEN /\ handler' = [at |-> "dispatching", n |-> order.n,
                               sess |-> order.sess, dir |-> sig.dir]
                /\ sent' = order.n
                /\ live' = live \cup {order}
           ELSE UNCHANGED <<handler, sent, live>>
        /\ UNCHANGED <<day, minute>>

(* The target took the order, or part of it.                                *)
DispatchOk ==
    /\ handler.at = "dispatching"
    /\ handler' = [at |-> "alerting"]
    /\ UNCHANGED <<day, minute, state, decision, sent, live>>

(* Mutants of Released: nothing, or the direction in every session.         *)
ReleasedNothing(st, dir) == st
ReleasedEverySession(st, dir) ==
    [st EXCEPT !.taken = {slot \in @ : slot[2] # dir}]

(* release_reservation: the flag of the session the STATE was last brought  *)
(* up to, which need not be the session the order was sent in.              *)
Released(st, dir) == [st EXCEPT !.taken = @ \ {<<st.session, dir>>}]

(* Status >= 400 or dry_run: the reservation is released.                   *)
DispatchFailed ==
    /\ handler.at = "dispatching"
    /\ handler' = [at |-> "alerting"]
    /\ state' = Released(state, handler.dir)
    /\ live' = {o \in live : o.n # handler.n}
    /\ UNCHANGED <<day, minute, decision, sent>>

(* An exception the dispatch does not catch ends the handler with HTTP 500: *)
(* nothing is released and the order's fate is unknown.                     *)
DispatchRaises ==
    /\ handler.at = "dispatching"
    /\ handler' = Idle
    /\ UNCHANGED <<day, minute, state, decision, sent, live>>

(* The trade alert reads status(); then the response goes out.              *)
Alert ==
    /\ handler.at = "alerting"
    /\ handler' = Idle
    /\ state' = Current
    /\ UNCHANGED <<day, minute, decision, sent, live>>

(* GET /status, on a pool thread.                                           *)
Status ==
    /\ state' = Current
    /\ UNCHANGED <<day, minute, handler, decision, sent, live>>

(* POST /reset, on a pool thread: the flags of the session it is now.       *)
ResetSession ==
    LET sess == Session(minute)
    IN  /\ state' = [Current EXCEPT !.taken = @ \ ({sess} \X Directions)]
        /\ live' = {o \in live : o.sess # sess}
        /\ UNCHANGED <<day, minute, handler, decision, sent>>

(* Time passes, at any point of anything that is in progress.               *)
SameDay(m) ==
    /\ m > minute
    /\ minute' = m
    /\ UNCHANGED <<day, state, handler, decision, sent, live>>

NextDay(m) ==
    /\ day < MaxDay
    /\ day' = day + 1 /\ minute' = m
    /\ live' = {}
    /\ UNCHANGED <<state, handler, decision, sent>>

Next ==
    \/ \E sig \in Signals : Evaluate(sig)
    \/ DispatchOk \/ DispatchFailed \/ DispatchRaises \/ Alert
    \/ Status \/ ResetSession
    \/ \E m \in Minutes : SameDay(m) \/ NextDay(m)

Spec == Init /\ [][Next]_vars

-----------------------------------------------------------------------------
Promise == INSTANCE FlowReservations WITH Sessions <- TradedSessions

(* One order per day, session and direction: however status polls, manual   *)
(* resets, failures and the passing of time interleave with an order that   *)
(* is being sent, no second one is sent for a slot whose order has not      *)
(* failed, and a failure frees no slot but its own order's.                 *)
OneOrderPerSlot == Promise!Spec

(* The invariant behind it: a live order's slot is taken in today's state.  *)
LiveIsTaken ==
    \A o \in live : state.tradingDate = day /\ <<o.sess, o.dir>> \in state.taken

(* No phantom reservation: a slot the engine would refuse now (Rule 11) is  *)
(* held by an order that was sent and did not fail, even when the release   *)
(* came after a session change, a reset or a status poll.                   *)
TakenIsBacked ==
    \A d \in Directions :
        <<Session(minute), d>> \in Current.taken
        => \E o \in live : o.sess = Session(minute) /\ o.dir = d

(* The order of the sessions in a day.                                      *)
Rank(sess) == CASE sess = "none" -> 0 [] sess = "ETH" -> 1
                [] sess = "RTH" -> 2 [] sess = "AFTER" -> 3

(* The state never runs ahead of the clock, nor live orders of the state.   *)
SessionsInOrder ==
    /\ state.tradingDate <= day
    /\ state.tradingDate = day => Rank(state.session) <= Rank(Session(minute))
    /\ \A o \in live : o.n <= sent /\ Rank(o.sess) <= Rank(state.session)

(* An order in flight belongs to no later session than the state's, and any *)
(* other live order on its side belongs to an earlier session than it: what *)
(* makes a release by the state's session harmless.                         *)
InFlightIsNewest ==
    handler.at = "dispatching" =>
        /\ handler.n \in 1..sent
        /\ \A o \in live :
             /\ Rank(handler.sess) <= Rank(state.session)
             /\ o.n = handler.n => o.sess = handler.sess /\ o.dir = handler.dir
             /\ o.n # handler.n /\ o.dir = handler.dir
                => Rank(o.sess) < Rank(handler.sess)

(* TakenIsBacked for every session that is not over yet.                    *)
OpenSlotsBacked ==
    state.tradingDate = day =>
        \A slot \in state.taken :
            \/ Rank(slot[1]) < Rank(Session(minute))
            \/ \E o \in live : o.sess = slot[1] /\ o.dir = slot[2]

(* The flag of the yellow warning says what the last decision was: a yellow *)
(* one, and today's.  A reset, a poll or a release in between leaves it.    *)
YellowRemembered ==
    /\ decision # NoDecision => decision.day <= day
    /\ (state.tradingDate = day /\ state.yellowWarned) <=> InStreak

(* The inductive invariant of the proofs.                                   *)
ReservationInv == TypeOK /\ LiveIsTaken /\ SessionsInOrder /\ InFlightIsNewest
                  /\ OpenSlotsBacked
IInv == ReservationInv /\ YellowRemembered

(* A streak of yellow signals is announced exactly once: after each of its  *)
(* signals, whatever polls, resets, releases and changes of session came    *)
(* between them, one warning has gone out and not a second                  *)
(* (test_yellow_discord_notifies_once_per_streak).                          *)
YellowWarnsOncePerStreak ==
    decision # NoDecision /\ decision.color = "yellow" => decision.warnings = 1

(* A signal that passes is sized between one contract and the base size,    *)
(* however often the size was halved.                                       *)
SizeWithinBase ==
    decision.rule = "allowed" => decision.contracts \in 1..BaseContracts
=============================================================================
