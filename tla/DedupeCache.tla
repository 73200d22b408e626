---------------------------- MODULE DedupeCache ----------------------------
(* DuplicateCommandCache of webhook_receiver/config.py, called by any       *)
(* number of threads.  try_accept reads the clock BEFORE it takes the lock, *)
(* so a thread may enter the locked part with a time that other threads     *)
(* have already overtaken; one action reads the clock, the next is the      *)
(* whole locked part, prune included.                                       *)
EXTENDS Integers, Sequences

CONSTANTS Threads,        \* callers of try_accept
          Ids,            \* command ids
          WindowSeconds,  \* dedupe.window_seconds, as configured
          PruneEvery,     \* seconds between two prunes (30 in the code)
          Epoch,          \* the time the process starts at
          MaxTime         \* bound: the clock stops here

ASSUME DedupeAssumption ==
    /\ WindowSeconds \in Int
    /\ PruneEvery \in Nat
    /\ Epoch \in Nat /\ Epoch >= PruneEvery   \* seconds since 1970
    /\ MaxTime \in Nat

VARIABLES clock,          \* time.time()
          seen,           \* _seen: id -> time of its acceptance, or Absent
          lastPrune,      \* _last_prune
          call,           \* per thread: the try_accept in progress, or Idle
          accepts         \* history: every acceptance, oldest first

vars == <<clock, seen, lastPrune, call, accepts>>

Absent == -1
Idle == [at |-> "idle"]
Window == IF WindowSeconds < 1 THEN 1 ELSE WindowSeconds

Call == {Idle} \cup [at : {"locking"}, id : Ids, now : Nat]

TypeOK ==
    /\ clock \in Nat
    /\ seen \in [Ids -> Nat \cup {Absent}]
    /\ lastPrune \in Nat
    /\ call \in [Threads -> Call]
    /\ accepts \in Seq([id : Ids, ts : Nat])

Init ==
    /\ clock = Epoch
    /\ seen = [id \in Ids |-> Absent]
    /\ lastPrune = 0
    /\ call = [t \in Threads |-> Idle]
    /\ accepts = <<>>

PruneDue(now) == now - lastPrune >= PruneEvery

(* Mutant of Expired: a second early.                                       *)
ExpiredEarly(id, now) == seen[id] # Absent /\ now - seen[id] >= Window - 1

Expired(id, now) == seen[id] # Absent /\ now - seen[id] >= Window

(* The cache as _prune_if_needed leaves it.                                 *)
Pruned(now) ==
    IF PruneDue(now)
    THEN [id \in Ids |-> IF Expired(id, now) THEN Absent ELSE seen[id]]
    ELSE seen

(* Mutants of Duplicate: a window too short, and one too long.              *)
DuplicateShort(cache, id, now) ==
    cache[id] # Absent /\ now - cache[id] < Window - 1
DuplicateLong(cache, id, now) ==
    cache[id] # Absent /\ now - cache[id] <= Window

Duplicate(cache, id, now) == cache[id] # Absent /\ now - cache[id] < Window

-----------------------------------------------------------------------------
(* now = time.time(), before the lock.                                      *)
ReadClock(t, id) ==
    /\ call[t] = Idle
    /\ call' = [call EXCEPT ![t] = [at |-> "locking", id |-> id, now |-> clock]]
    /\ UNCHANGED <<clock, seen, lastPrune, accepts>>

(* The locked part: prune, then reject a duplicate or record the id.        *)
Locked(t) ==
    LET id  == call[t].id
        now == call[t].now
    IN  /\ call[t] # Idle
        /\ call' = [call EXCEPT ![t] = Idle]
        /\ lastPrune' = IF PruneDue(now) THEN now ELSE lastPrune
        /\ IF Duplicate(Pruned(now), id, now)
           THEN seen' = Pruned(now) /\ UNCHANGED accepts
           ELSE /\ seen' = [Pruned(now) EXCEPT ![id] = now]
                /\ accepts' = Append(accepts, [id |-> id, ts |-> now])
        /\ UNCHANGED clock

Tick == clock < MaxTime /\ clock' = clock + 1
        /\ UNCHANGED <<seen, lastPrune, call, accepts>>

Next == \/ Tick
        \/ \E t \in Threads : Locked(t) \/ \E id \in Ids : ReadClock(t, id)

Spec == Init /\ [][Next]_vars

-----------------------------------------------------------------------------
Promise == INSTANCE CommandDedupe

(* At most once per window: however the threads interleave, however stale   *)
(* the time a thread carries into the lock and whichever thread's time the  *)
(* cache was pruned with, every acceptance is one CommandDedupe allows.     *)
AtMostOncePerWindow == Promise!Spec

(* No false duplicate: try_accept turns an id away only when an acceptance  *)
(* of that same id is less than a window older than the caller's time.      *)
RejectsOnlyDuplicates ==
    [][ \A t \in Threads :
          (call[t] # Idle /\ call'[t] = Idle /\ accepts' = accepts)
          => \E i \in DOMAIN accepts :
                /\ accepts[i].id = call[t].id
                /\ call[t].now - accepts[i].ts < Window ]_vars

(* The inductive core of AtMostOncePerWindow: an acceptance the cache has   *)
(* forgotten, or has overwritten with an earlier time, is a window old; one *)
(* it remembers is covered by the recorded time.                            *)
Covered ==
    \A i \in DOMAIN accepts :
        \/ clock - accepts[i].ts >= Window
        \/ seen[accepts[i].id] >= accepts[i].ts

(* What the cache has recorded was accepted, at that time.                  *)
Recorded ==
    \A id \in Ids : seen[id] # Absent =>
        \E i \in DOMAIN accepts : accepts[i].id = id /\ accepts[i].ts = seen[id]

(* No thread carries a time from the future.                                *)
TimesArePast ==
    /\ \A t \in Threads : call[t] # Idle => call[t].now <= clock
    /\ \A i \in DOMAIN accepts : accepts[i].ts <= clock

(* The inductive invariant of the proofs.                                   *)
CoveredInv == TypeOK /\ TimesArePast /\ Covered
IInv == CoveredInv /\ Recorded
=============================================================================
