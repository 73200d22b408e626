--------------------------- MODULE ListenerDedupe ---------------------------
(* WebhookDuplicateCache of the NinjaTrader add-on, called by one thread    *)
(* per client connection.  The whole of TryAccept is inside the lock, but   *)
(* it looks at the clock three times - to prune, to compare and to record - *)
(* and StartListener may change the window at any point, without the lock.  *)
EXTENDS Integers, Sequences

CONSTANTS Threads,     \* client threads
          Keys,        \* command ids, the keys of _seen
          Windows,     \* what SetWindowSeconds is called with
          MaxTime      \* bound: the clock stops here

MaxValue == 2147483647     \* of an int of C#

ASSUME ListenerDedupeAssumption ==
    /\ Windows \subseteq (-MaxValue - 1)..MaxValue
    /\ Windows # {}
    /\ MaxTime \in Nat

VARIABLES clock,       \* DateTime.UtcNow
          window,      \* _window
          seen,        \* _seen: id -> time of its acceptance, or Absent
          holder,      \* the thread inside the lock, or Nobody
          step,        \* what the holder does next: [at, id]
          accepts      \* history: every acceptance, oldest first

cacheVars == <<clock, window, seen, holder, step, accepts>>

Absent == -1
Nobody == "nobody"
Outside == [at |-> "outside"]

CacheTypeOK ==
    /\ clock \in Nat /\ window \in Nat \ {0}
    /\ seen \in [Keys -> Nat \cup {Absent}]
    /\ holder \in Threads \cup {Nobody}
    /\ step \in {Outside} \cup [at : {"check", "record"}, id : Keys]
    /\ accepts \in Seq([id : Keys, ts : Nat])

(* A window is at least a second.                                           *)
Clamped(w) == IF w < 1 THEN 1 ELSE w

CacheInit ==
    /\ clock = 0 /\ window \in {Clamped(w) : w \in Windows}
    /\ seen = [id \in Keys |-> Absent]
    /\ holder = Nobody /\ step = Outside
    /\ accepts = <<>>

Expired(id) == seen[id] # Absent /\ clock - seen[id] >= window

(* PruneUnlocked, on every call.                                            *)
Pruned == [id \in Keys |-> IF Expired(id) THEN Absent ELSE seen[id]]

(* The lock is taken and the cache pruned.                                  *)
Enter(t, id) ==
    /\ holder = Nobody
    /\ holder' = t /\ step' = [at |-> "check", id |-> id]
    /\ seen' = Pruned
    /\ UNCHANGED <<clock, window, accepts>>

(* Mutants of Duplicate: a window too short, and every id the cache lists.  *)
DuplicateShort(id) == seen[id] # Absent /\ clock - seen[id] < window - 1
DuplicateListed(id) == seen[id] # Absent

Duplicate(id) == seen[id] # Absent /\ clock - seen[id] < window

Leave == holder' = Nobody /\ step' = Outside

Check(t) ==
    /\ holder = t /\ step.at = "check"
    /\ IF Duplicate(step.id) THEN Leave
       ELSE step' = [step EXCEPT !.at = "record"] /\ UNCHANGED holder
    /\ UNCHANGED <<clock, window, seen, accepts>>

Record(t) ==
    /\ holder = t /\ step.at = "record"
    /\ seen' = [seen EXCEPT ![step.id] = clock]
    /\ accepts' = Append(accepts, [id |-> step.id, ts |-> clock])
    /\ Leave
    /\ UNCHANGED <<clock, window>>

SetWindowSeconds ==
    /\ window' \in {Clamped(w) : w \in Windows} \ {window}
    /\ UNCHANGED <<clock, seen, holder, step, accepts>>

Tick == clock < MaxTime /\ clock' = clock + 1
        /\ UNCHANGED <<window, seen, holder, step, accepts>>

CacheNext ==
    \/ Tick \/ SetWindowSeconds
    \/ \E t \in Threads : Check(t) \/ Record(t) \/ \E id \in Keys : Enter(t, id)

CacheSpec == CacheInit /\ [][CacheNext]_cacheVars

-----------------------------------------------------------------------------
Allowed == {Clamped(w) : w \in Windows}
ShortestWindow == CHOOSE w \in Allowed : \A v \in Allowed : w <= v
LongestWindow == CHOOSE w \in Allowed : \A v \in Allowed : w >= v

Promise == INSTANCE CommandDedupe WITH Ids <- Keys, WindowSeconds <- ShortestWindow

(* At most once per window: with client threads racing, the clock moving    *)
(* between the looks at it and the window being changed under the lock's    *)
(* holder, an id is accepted at most once in the shortest window that was   *)
(* ever set.                                                                *)
AtMostOncePerWindow == Promise!Spec

(* No false duplicate: an id is turned away only when it was accepted less  *)
(* than the longest window ago.                                             *)
RejectsOnlyDuplicates ==
    [][ (step.at = "check" /\ step' = Outside)
        => \E i \in DOMAIN accepts :
              accepts[i].id = step.id /\ clock - accepts[i].ts < LongestWindow ]_cacheVars

(* What the shortest window's promise rests on: an acceptance the cache has *)
(* forgotten is that old, one it remembers is no later than it says, and no *)
(* acceptance is younger for which a thread is about to record another.     *)
Covered ==
    /\ \A i \in DOMAIN accepts :
          /\ accepts[i].ts <= clock
          /\ \/ clock - accepts[i].ts >= ShortestWindow
             \/ seen[accepts[i].id] >= accepts[i].ts
    /\ step.at = "record" =>
          \A i \in DOMAIN accepts :
              accepts[i].id = step.id => clock - accepts[i].ts >= ShortestWindow

(* What the cache has recorded was accepted, at that time.                  *)
Recorded ==
    \A id \in Keys : seen[id] # Absent =>
        \E i \in DOMAIN accepts : accepts[i].id = id /\ accepts[i].ts = seen[id]

(* The inductive invariant of the proofs.                                   *)
CacheInv == CacheTypeOK /\ window \in Allowed /\ Covered /\ Recorded
=============================================================================
