-------------------------- MODULE FlowReservations --------------------------
(* What the flow engine promises the trader: within a day, and until the    *)
(* session is reset by hand, at most one order per session and direction is *)
(* sent and not known to have failed ("Rule 11").                           *)
EXTENDS Integers

CONSTANTS Directions,  \* directions a signal can have
          Sessions     \* sessions in which orders are sent

VARIABLES day,         \* trading day
          sent,        \* number of orders sent so far
          live         \* orders of this round that are not known to have failed

Order == [n : Nat, sess : Sessions, dir : Directions]

TypeOK == day \in Nat /\ sent \in Nat /\ live \subseteq Order

Init == day \in Nat /\ sent = 0 /\ live = {}

Holds(s, d) == \E o \in live : o.sess = s /\ o.dir = d

(* An order may only be sent for a slot no live order holds.                *)
Send(s, d) ==
    /\ ~Holds(s, d)
    /\ sent' = sent + 1
    /\ live' = live \cup {[n |-> sent', sess |-> s, dir |-> d]}
    /\ UNCHANGED day

(* An order that failed frees its own slot and no other.                    *)
Fail(n) ==
    /\ live' = {o \in live : o.n # n}
    /\ UNCHANGED <<day, sent>>

(* A manual reset opens a new round for one session.                        *)
Reset(s) ==
    /\ live' = {o \in live : o.sess # s}
    /\ UNCHANGED <<day, sent>>

NewDay == day' > day /\ day' \in Nat /\ live' = {} /\ UNCHANGED sent

Next == \/ NewDay
        \/ \E s \in Sessions : Reset(s) \/ \E d \in Directions : Send(s, d)
        \/ \E n \in 1..sent : Fail(n)

Spec == Init /\ [][Next]_<<day, sent, live>>
=============================================================================
