--------------------------- MODULE EntryCooldown ---------------------------
(* EntryCooldown of webhook_receiver/config.py, called by any number of     *)
(* threads.  As in DedupeCache the clock is read before the lock is taken.  *)
(* Actions other than BUY and SELL, and every action while the cooldown is  *)
(* zero, pass without touching the state: they are not steps of this module.*)
EXTENDS Integers, Sequences

CONSTANTS Threads,          \* callers of try_accept
          CooldownSeconds,  \* dedupe.entry_cooldown_seconds, as configured
          MaxTime           \* bound: the clock stops here

ASSUME CooldownAssumption ==
    /\ CooldownSeconds \in Int /\ CooldownSeconds > 0
    /\ MaxTime \in Nat

VARIABLES clock,      \* time.time()
          lastEntry,  \* _last_entry: side -> time of its last entry, or Absent
          call,       \* per thread: the try_accept in progress, or Idle
          entries     \* history: every accepted entry, oldest first

vars == <<clock, lastEntry, call, entries>>

Sides == {"BUY", "SELL"}
Absent == -1
Idle == [at |-> "idle"]

Opposite(side) == IF side = "BUY" THEN "SELL" ELSE "BUY"

Call == {Idle} \cup [at : {"locking"}, side : Sides, now : Nat]
Entry == [side : Sides, ts : Nat]

TypeOK ==
    /\ clock \in Nat
    /\ lastEntry \in [Sides -> Nat \cup {Absent}]
    /\ call \in [Threads -> Call]
    /\ entries \in Seq(Entry)

Init ==
    /\ clock = 0
    /\ lastEntry = [s \in Sides |-> Absent]
    /\ call = [t \in Threads |-> Idle]
    /\ entries = <<>>

(* Mutant of CoolingDown: a second short.                                   *)
CoolingDownShort(side, now) ==
    lastEntry[side] # Absent /\ now - lastEntry[side] < CooldownSeconds - 1

CoolingDown(side, now) ==
    lastEntry[side] # Absent /\ now - lastEntry[side] < CooldownSeconds

(* Mutant of Recorded: the opposite side is not forgotten.                  *)
RecordedOneSide(side, now) == [lastEntry EXCEPT ![side] = now]

(* The new entry is recorded and the opposite side forgotten.               *)
Recorded(side, now) ==
    [lastEntry EXCEPT ![side] = now, ![Opposite(side)] = Absent]

-----------------------------------------------------------------------------
(* now = time.time(), before the lock.                                      *)
ReadClock(t, side) ==
    /\ call[t] = Idle
    /\ call' = [call EXCEPT ![t] = [at |-> "locking", side |-> side, now |-> clock]]
    /\ UNCHANGED <<clock, lastEntry, entries>>

(* The locked part.                                                         *)
Locked(t) ==
    LET side == call[t].side
        now  == call[t].now
    IN  /\ call[t] # Idle
        /\ call' = [call EXCEPT ![t] = Idle]
        /\ IF CoolingDown(side, now)
           THEN UNCHANGED <<lastEntry, entries>>
           ELSE /\ lastEntry' = Recorded(side, now)
                /\ entries' = Append(entries, [side |-> side, ts |-> now])
        /\ UNCHANGED clock

Tick == clock < MaxTime /\ clock' = clock + 1
        /\ UNCHANGED <<lastEntry, call, entries>>

Next == \/ Tick
        \/ \E t \in Threads : Locked(t) \/ \E side \in Sides : ReadClock(t, side)

Spec == Init /\ [][Next]_vars

-----------------------------------------------------------------------------
(* No opposite entry after position i and up to position j.                 *)
NoReversal(i, j) ==
    \A k \in DOMAIN entries : i < k /\ k <= j => entries[k].side = entries[i].side

(* Two entries on one side with no reversal between them are a cooldown     *)
(* apart, whatever times the racing threads carried into the lock.          *)
SameSideSpaced ==
    \A i, j \in DOMAIN entries :
        (i < j /\ NoReversal(i, j))
        => entries[j].ts - entries[i].ts >= CooldownSeconds

(* "Opposite side clears so a reverse signal is not blocked": a side is     *)
(* turned away only while the newest accepted entry is on that very side    *)
(* and younger than the cooldown.                                           *)
ReverseNeverBlocked ==
    [][ \A t \in Threads :
          (call[t] # Idle /\ call'[t] = Idle /\ entries' = entries)
          => /\ entries # <<>>
             /\ entries[Len(entries)].side = call[t].side
             /\ call[t].now - entries[Len(entries)].ts < CooldownSeconds ]_vars

(* What _last_entry knows of the history: exactly the newest entry.         *)
RemembersNewest ==
    \A s \in Sides :
        lastEntry[s] =
            IF entries # <<>> /\ entries[Len(entries)].side = s
            THEN entries[Len(entries)].ts ELSE Absent
=============================================================================
