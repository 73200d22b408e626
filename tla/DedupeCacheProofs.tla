------------------------- MODULE DedupeCacheProofs -------------------------
(* Proofs about DedupeCache, for any threads, ids, window, prune interval   *)
(* and clock.                                                               *)
EXTENDS DedupeCache, SequenceTheorems, TLAPS

LEMMA WindowPositive == Window \in Nat /\ Window >= 1
  BY DedupeAssumption DEF DedupeAssumption, Window

(* The history is a sequence of acceptances.                                *)
LEMMA AcceptsTyped ==
  ASSUME TypeOK, NEW i \in DOMAIN accepts
  PROVE  accepts[i].id \in Ids /\ accepts[i].ts \in Nat
  <1>1. accepts \in Seq([id : Ids, ts : Nat]) /\ i \in 1..Len(accepts)
    BY DEF TypeOK
  <1>2. accepts[i] \in [id : Ids, ts : Nat]
    BY <1>1, ElementOfSeq
  <1> QED BY <1>2

(* What a prune leaves: every entry as it was, or Absent and then expired.  *)
LEMMA PrunedCases ==
  ASSUME TypeOK, NEW now \in Nat, NEW id \in Ids
  PROVE  /\ Pruned(now) \in [Ids -> Nat \cup {Absent}]
         /\ \/ Pruned(now)[id] = seen[id]
            \/ Pruned(now)[id] = Absent /\ now - seen[id] >= Window
  BY DEF TypeOK, Pruned, Expired

(* When the locked part lets an id through, every earlier acceptance of it  *)
(* is a window old.                                                         *)
LEMMA FreeIdIsOld ==
  ASSUME CoveredInv, NEW now \in Nat, now <= clock, NEW id \in Ids,
         ~Duplicate(Pruned(now), id, now),
         NEW i \in DOMAIN accepts, accepts[i].id = id
  PROVE  clock - accepts[i].ts >= Window
  <1>1. accepts[i].ts \in Nat /\ clock \in Nat /\ Window \in Nat
    BY WindowPositive, AcceptsTyped DEF CoveredInv, TypeOK
  <1>2. seen[id] \in Nat \cup {-1}
    BY DEF CoveredInv, TypeOK, Absent
  <1>3. seen[id] >= accepts[i].ts \/ clock - accepts[i].ts >= Window
    BY DEF CoveredInv, Covered
  <1>4. \/ Pruned(now)[id] = seen[id]
        \/ Pruned(now)[id] = Absent /\ now - seen[id] >= Window
    BY PrunedCases DEF CoveredInv
  <1>5. Pruned(now)[id] = Absent \/ now - Pruned(now)[id] >= Window
    BY <1>1, <1>2, <1>4 DEF Duplicate, Absent
  <1> QED
    BY <1>1, <1>2, <1>3, <1>4, <1>5 DEF Absent

LEMMA InitCovered == Init => CoveredInv
  <1> SUFFICES ASSUME Init PROVE CoveredInv
    OBVIOUS
  <1>1. TypeOK
    BY DedupeAssumption DEF Init, TypeOK, Call, Idle, Absent, DedupeAssumption
  <1>2. TimesArePast /\ Covered
    BY DEF Init, TimesArePast, Covered, Idle
  <1> QED BY <1>1, <1>2 DEF CoveredInv

LEMMA TypeStep == TypeOK /\ [Next]_vars => TypeOK'
  <1> SUFFICES ASSUME TypeOK, [Next]_vars PROVE TypeOK'
    OBVIOUS
  <1>1. CASE Tick
    BY <1>1 DEF Tick, TypeOK
  <1>2. ASSUME NEW t \in Threads, NEW id \in Ids, ReadClock(t, id)
        PROVE  TypeOK'
    <2>1. [at |-> "locking", id |-> id, now |-> clock] \in Call
      BY DEF Call, TypeOK
    <2> QED BY <1>2, <2>1 DEF ReadClock, TypeOK
  <1>3. ASSUME NEW t \in Threads, Locked(t)
        PROVE  TypeOK'
    <2> DEFINE id == call[t].id
               now == call[t].now
    <2>1. id \in Ids /\ now \in Nat
      BY <1>3 DEF Locked, TypeOK, Call, Idle
    <2>2. Pruned(now) \in [Ids -> Nat \cup {Absent}]
      BY <2>1, PrunedCases
    <2>3. seen' \in [Ids -> Nat \cup {Absent}]
      BY <1>3, <2>1, <2>2 DEF Locked
    <2>4. accepts' \in Seq([id : Ids, ts : Nat])
      <3>1. [id |-> id, ts |-> now] \in [id : Ids, ts : Nat]
        BY <2>1
      <3>2. Append(accepts, [id |-> id, ts |-> now]) \in Seq([id : Ids, ts : Nat])
        BY <3>1, AppendProperties DEF TypeOK
      <3> QED BY <1>3, <3>2 DEF Locked, TypeOK
    <2>5. clock' \in Nat /\ lastPrune' \in Nat /\ call' \in [Threads -> Call]
      BY <1>3, <2>1 DEF Locked, TypeOK, Call
    <2> QED BY <2>3, <2>4, <2>5 DEF TypeOK
  <1>4. CASE UNCHANGED vars
    BY <1>4 DEF vars, TypeOK
  <1> QED BY <1>1, <1>2, <1>3, <1>4 DEF Next

LEMMA StepCovered == CoveredInv /\ [Next]_vars => CoveredInv'
  <1> SUFFICES ASSUME CoveredInv, [Next]_vars PROVE CoveredInv'
    OBVIOUS
  <1>t. TypeOK'
    BY TypeStep DEF CoveredInv
  <1>w. Window \in Nat
    BY WindowPositive
  <1> USE DEF CoveredInv
  <1>1. CASE Tick
    <2>1. clock \in Nat /\ clock' = clock + 1 /\ UNCHANGED <<seen, call, accepts>>
      BY <1>1 DEF Tick, TypeOK
    <2>2. \A i \in DOMAIN accepts : accepts[i].ts \in Nat
      BY AcceptsTyped
    <2>3. \A t \in Threads : call[t] # Idle => call[t].now \in Nat
      BY DEF TypeOK, Call
    <2>4. TimesArePast'
      BY <2>1, <2>2, <2>3 DEF TimesArePast
    <2>5. Covered'
      BY <2>1, <2>2, <1>w DEF Covered
    <2> QED BY <1>t, <2>4, <2>5
  <1>2. ASSUME NEW t \in Threads, NEW id \in Ids, ReadClock(t, id)
        PROVE  CoveredInv'
    <2>1. TimesArePast'
      BY <1>2 DEF ReadClock, TimesArePast, TypeOK
    <2>2. Covered'
      BY <1>2 DEF ReadClock, Covered
    <2> QED BY <1>t, <2>1, <2>2
  <1>3. ASSUME NEW t \in Threads, Locked(t)
        PROVE  CoveredInv'
    <2> DEFINE id == call[t].id
               now == call[t].now
    <2>1. id \in Ids /\ now \in Nat /\ now <= clock /\ clock \in Nat /\ clock' = clock
      BY <1>3 DEF Locked, TypeOK, Call, Idle, TimesArePast
    <2>2. \A u \in Threads : call'[u] # Idle => call[u] # Idle /\ call'[u] = call[u]
      BY <1>3 DEF Locked, TypeOK
    <2>3. \A u \in Threads : call'[u] # Idle => call'[u].now <= clock'
      BY <2>1, <2>2 DEF TimesArePast
    <2>4. CASE Duplicate(Pruned(now), id, now)
      <3>1. seen' = Pruned(now) /\ accepts' = accepts
        BY <1>3, <2>4 DEF Locked
      <3>2. TimesArePast'
        BY <2>1, <2>3, <3>1 DEF TimesArePast
      <3>3. ASSUME NEW i \in DOMAIN accepts
            PROVE  \/ clock - accepts[i].ts >= Window
                   \/ Pruned(now)[accepts[i].id] >= accepts[i].ts
        <4>1. accepts[i].ts \in Nat /\ accepts[i].id \in Ids
          BY AcceptsTyped
        <4>2. seen[accepts[i].id] \in Nat \cup {-1}
          BY <4>1 DEF TypeOK, Absent
        <4>3. \/ Pruned(now)[accepts[i].id] = seen[accepts[i].id]
              \/ now - seen[accepts[i].id] >= Window
          BY <2>1, <4>1, PrunedCases
        <4> QED BY <2>1, <4>1, <4>2, <4>3, <1>w DEF Covered
      <3>4. Covered'
        BY <2>1, <3>1, <3>3 DEF Covered
      <3> QED BY <1>t, <3>2, <3>4
    <2>5. CASE ~Duplicate(Pruned(now), id, now)
      <3>1. /\ seen' = [Pruned(now) EXCEPT ![id] = now]
            /\ accepts' = Append(accepts, [id |-> id, ts |-> now])
        BY <1>3, <2>5 DEF Locked
      <3>2. accepts \in Seq([id : Ids, ts : Nat])
        BY DEF TypeOK
      <3>3. /\ DOMAIN accepts' = 1..(Len(accepts) + 1)
            /\ DOMAIN accepts = 1..Len(accepts)
            /\ Len(accepts) \in Nat
            /\ \A i \in DOMAIN accepts : accepts'[i] = accepts[i]
            /\ accepts'[Len(accepts) + 1] = [id |-> id, ts |-> now]
        BY <3>1, <3>2
      <3>4. TimesArePast'
        <4>1. ASSUME NEW i \in DOMAIN accepts' PROVE accepts'[i].ts <= clock'
          <5>1. CASE i \in DOMAIN accepts
            BY <5>1, <3>3, <2>1 DEF TimesArePast
          <5>2. CASE i = Len(accepts) + 1
            BY <5>2, <3>3, <2>1
          <5> QED BY <3>3, <5>1, <5>2
        <4> QED BY <4>1, <2>3 DEF TimesArePast
      <3>5. ASSUME NEW i \in DOMAIN accepts'
            PROVE  \/ clock' - accepts'[i].ts >= Window
                   \/ seen'[accepts'[i].id] >= accepts'[i].ts
        <4>0. Pruned(now) \in [Ids -> Nat \cup {Absent}]
          BY <2>1, PrunedCases
        <4>1. CASE i = Len(accepts) + 1
          BY <4>0, <4>1, <3>1, <3>3, <2>1
        <4>2. CASE i \in DOMAIN accepts /\ accepts[i].id = id
          <5>1. clock - accepts[i].ts >= Window
            BY <4>2, <2>1, <2>5, FreeIdIsOld
          <5> QED BY <5>1, <4>2, <3>3, <2>1
        <4>3. CASE i \in DOMAIN accepts /\ accepts[i].id # id
          <5>1. accepts[i].ts \in Nat /\ accepts[i].id \in Ids
            BY <4>3, AcceptsTyped
          <5>2. seen[accepts[i].id] \in Nat \cup {-1}
            BY <5>1 DEF TypeOK, Absent
          <5>3. \/ Pruned(now)[accepts[i].id] = seen[accepts[i].id]
                \/ now - seen[accepts[i].id] >= Window
            BY <2>1, <5>1, PrunedCases
          <5>4. seen'[accepts[i].id] = Pruned(now)[accepts[i].id]
            BY <4>0, <4>3, <3>1, <5>1
          <5>5. accepts'[i] = accepts[i]
            BY <4>3, <3>3
          <5>6. \/ clock - accepts[i].ts >= Window
                \/ seen[accepts[i].id] >= accepts[i].ts
            BY <4>3 DEF Covered
          <5> QED BY <5>1, <5>2, <5>3, <5>4, <5>5, <5>6, <2>1, <1>w
        <4> QED BY <4>1, <4>2, <4>3, <3>3
      <3>6. Covered'
        BY <3>5 DEF Covered
      <3> QED BY <1>t, <3>4, <3>6
    <2> QED BY <2>4, <2>5
  <1>4. CASE UNCHANGED vars
    BY <1>4, <1>t DEF vars, TimesArePast, Covered
  <1> QED BY <1>1, <1>2, <1>3, <1>4 DEF Next

-----------------------------------------------------------------------------
(* A prune and an acceptance record what was accepted.                      *)
LEMMA RecordedStep == TypeOK /\ Recorded /\ [Next]_vars => Recorded'
  <1> SUFFICES ASSUME TypeOK, Recorded, [Next]_vars PROVE Recorded'
    OBVIOUS
  <1>1. CASE UNCHANGED <<seen, accepts>>
    BY <1>1 DEF Recorded
  <1>2. ASSUME NEW t \in Threads, Locked(t)
        PROVE  Recorded'
    <2> DEFINE id == call[t].id
               now == call[t].now
    <2>1. id \in Ids /\ now \in Nat
      BY <1>2 DEF Locked, TypeOK, Call, Idle
    <2>2. /\ Pruned(now) \in [Ids -> Nat \cup {Absent}]
          /\ \A x \in Ids : Pruned(now)[x] \in {seen[x], Absent}
      BY <2>1, PrunedCases
    <2>3. CASE Duplicate(Pruned(now), id, now)
      <3>1. seen' = Pruned(now) /\ accepts' = accepts
        BY <1>2, <2>3 DEF Locked
      <3> QED BY <2>2, <3>1 DEF Recorded
    <2>4. CASE ~Duplicate(Pruned(now), id, now)
      <3>1. /\ seen' = [Pruned(now) EXCEPT ![id] = now]
            /\ accepts' = Append(accepts, [id |-> id, ts |-> now])
        BY <1>2, <2>4 DEF Locked
      <3>2. accepts \in Seq([id : Ids, ts : Nat])
        BY DEF TypeOK
      <3>3. /\ DOMAIN accepts' = 1..(Len(accepts) + 1)
            /\ DOMAIN accepts = 1..Len(accepts)
            /\ Len(accepts) \in Nat
            /\ \A i \in DOMAIN accepts : accepts'[i] = accepts[i]
            /\ accepts'[Len(accepts) + 1] = [id |-> id, ts |-> now]
        BY <3>1, <3>2
      <3>4. /\ seen'[id] = now
            /\ \A x \in Ids \ {id} : seen'[x] = Pruned(now)[x]
        BY <2>1, <2>2, <3>1
      <3>5. ASSUME NEW x \in Ids, seen'[x] # Absent
            PROVE  \E i \in DOMAIN accepts' : accepts'[i].id = x /\ accepts'[i].ts = seen'[x]
        <4>1. CASE x = id
          <5>1. Len(accepts) + 1 \in DOMAIN accepts'
            BY <3>3
          <5> QED BY <3>3, <3>4, <4>1, <5>1
        <4>2. CASE x # id
          <5>1. seen'[x] = seen[x] /\ seen[x] # Absent
            BY <2>2, <3>4, <3>5, <4>2
          <5>2. PICK i \in DOMAIN accepts : accepts[i].id = x /\ accepts[i].ts = seen[x]
            BY <5>1 DEF Recorded
          <5>3. i \in DOMAIN accepts' /\ accepts'[i] = accepts[i]
            BY <3>3
          <5> QED BY <5>1, <5>2, <5>3
        <4> QED BY <4>1, <4>2
      <3> QED BY <3>5 DEF Recorded
    <2> QED BY <2>3, <2>4
  <1> QED BY <1>1, <1>2 DEF Next, Tick, ReadClock, vars

LEMMA InitHolds == Init => IInv
  <1>1. Init => Recorded
    BY DEF Init, Recorded
  <1> QED BY <1>1, InitCovered DEF IInv

LEMMA Step == IInv /\ [Next]_vars => IInv'
  BY StepCovered, RecordedStep DEF IInv, CoveredInv

(* What the cache has forgotten is a window old, and what it remembers was  *)
(* accepted at the recorded time, in every behaviour.  Covered alone is not *)
(* inductive: the age of an entry is measured with the time a thread        *)
(* carries into the lock, which must not be ahead of the clock.             *)
THEOREM Invariant == Spec => []IInv
  BY InitHolds, Step, PTL DEF Spec

(* No false duplicate: whatever time a thread carries into the lock and     *)
(* however late, try_accept turns its id away only for an acceptance of     *)
(* that id less than a window before that time.                             *)
THEOREM NoFalseDuplicates == Spec => RejectsOnlyDuplicates
  <1>2. ASSUME TypeOK, Recorded, [Next]_vars, NEW t \in Threads,
               call[t] # Idle, call'[t] = Idle, accepts' = accepts
        PROVE  \E i \in DOMAIN accepts :
                  accepts[i].id = call[t].id /\ call[t].now - accepts[i].ts < Window
    <2> DEFINE id == call[t].id
               now == call[t].now
    <2>1. Locked(t)
      <3>1. ASSUME NEW u \in Threads, Locked(u) PROVE u = t
        BY <1>2, <3>1 DEF Locked, TypeOK
      <3>2. ASSUME NEW u \in Threads, NEW x \in Ids, ReadClock(u, x) PROVE FALSE
        BY <1>2, <3>2 DEF ReadClock, TypeOK, Idle
      <3> QED BY <1>2, <3>1, <3>2 DEF Next, Tick, vars
    <2>2. id \in Ids /\ now \in Nat
      BY <1>2 DEF TypeOK, Call, Idle
    <2>3. Duplicate(Pruned(now), id, now)
      <3>1. accepts \in Seq([id : Ids, ts : Nat])
        BY <1>2 DEF TypeOK
      <3>2. accepts # Append(accepts, [id |-> id, ts |-> now])
        BY <3>1
      <3> QED BY <1>2, <2>1, <3>2 DEF Locked
    <2>4. seen[id] # Absent /\ now - seen[id] < Window
      BY <2>2, <2>3, <1>2, PrunedCases DEF Duplicate
    <2>5. PICK i \in DOMAIN accepts : accepts[i].id = id /\ accepts[i].ts = seen[id]
      BY <1>2, <2>2, <2>4 DEF Recorded
    <2> QED BY <2>4, <2>5
  <1>3. IInv /\ [Next]_vars =>
          [ \A t \in Threads :
              (call[t] # Idle /\ call'[t] = Idle /\ accepts' = accepts)
              => \E i \in DOMAIN accepts :
                    /\ accepts[i].id = call[t].id
                    /\ call[t].now - accepts[i].ts < Window ]_vars
    BY <1>2 DEF IInv, CoveredInv
  <1> QED BY <1>3, Invariant, PTL DEF Spec, RejectsOnlyDuplicates

-----------------------------------------------------------------------------
LEMMA StepRefines ==
  CoveredInv /\ [Next]_vars => [Promise!Next]_<<clock, accepts>>
  <1> SUFFICES ASSUME CoveredInv, [Next]_vars
               PROVE  Promise!Next \/ UNCHANGED <<clock, accepts>>
    BY DEF CoveredInv
  <1>1. CASE Tick
    <2>1. clock' > clock /\ clock' \in Nat /\ UNCHANGED accepts
      BY <1>1 DEF Tick, CoveredInv, TypeOK
    <2> QED BY <2>1 DEF Promise!Next, Promise!Tick
  <1>2. ASSUME NEW t \in Threads, NEW id \in Ids, ReadClock(t, id)
        PROVE  UNCHANGED <<clock, accepts>>
    BY <1>2 DEF ReadClock
  <1>3. ASSUME NEW t \in Threads, Locked(t)
        PROVE  Promise!Next \/ UNCHANGED <<clock, accepts>>
    <2> DEFINE id == call[t].id
               now == call[t].now
    <2>1. id \in Ids /\ now \in Nat /\ now <= clock /\ clock \in Nat /\ clock' = clock
      BY <1>3 DEF CoveredInv, Locked, TypeOK, Call, Idle, TimesArePast
    <2>2. CASE Duplicate(Pruned(now), id, now)
      BY <1>3, <2>2 DEF Locked
    <2>3. CASE ~Duplicate(Pruned(now), id, now)
      <3>1. accepts' = Append(accepts, [id |-> id, ts |-> now])
        BY <1>3, <2>3 DEF Locked
      <3>2. \A i \in DOMAIN accepts :
              accepts[i].id = id => clock - accepts[i].ts >= Promise!Window
        BY <2>1, <2>3, FreeIdIsOld DEF Window, Promise!Window
      <3>3. Promise!Accept(id, now)
        BY <2>1, <3>1, <3>2 DEF Promise!Accept
      <3>4. now \in 0..clock
        BY <2>1
      <3> QED BY <2>1, <3>3, <3>4 DEF Promise!Next
    <2> QED BY <2>2, <2>3
  <1>4. CASE UNCHANGED vars
    BY <1>4 DEF vars
  <1> QED BY <1>1, <1>2, <1>3, <1>4 DEF Next

(* The receiver's cache implements the promise of CommandDedupe: no id is   *)
(* accepted twice within a window, for any number of threads, any window    *)
(* and any prune interval.                                                  *)
THEOREM ImplementsPromise == Spec => AtMostOncePerWindow
  <1>1. Init => Promise!Init
    BY DedupeAssumption DEF Init, Promise!Init, DedupeAssumption
  <1> QED
    BY <1>1, InitCovered, StepCovered, StepRefines, PTL
    DEF Spec, AtMostOncePerWindow, Promise!Spec
=============================================================================
