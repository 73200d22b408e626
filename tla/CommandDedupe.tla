--------------------------- MODULE CommandDedupe ---------------------------
(* What a duplicate-command cache promises its callers, whatever structure  *)
(* and locking it uses: an id is accepted at most once per window.  The     *)
(* receiver's DuplicateCommandCache (config.py) and the listener's          *)
(* WebhookDuplicateCache are shown to implement it.                         *)
(*                                                                          *)
(* Every acceptance is stamped with the time the caller had read, which may *)
(* be older than the clock at the moment of the acceptance.                 *)
EXTENDS Integers, Sequences

CONSTANTS Ids,            \* command ids
          WindowSeconds   \* dedupe.window_seconds, as configured

VARIABLES clock,          \* wall clock, in seconds
          accepts         \* every acceptance so far, oldest first

(* max(1, window_seconds): a window is never empty.                         *)
Window == IF WindowSeconds < 1 THEN 1 ELSE WindowSeconds

Acceptance == [id : Ids, ts : Nat]

Init == clock \in Nat /\ accepts = <<>>

(* An id may be accepted once every earlier acceptance of it is at least a  *)
(* window old on the clock.                                                 *)
Accept(id, ts) ==
    /\ ts <= clock
    /\ \A i \in DOMAIN accepts :
          accepts[i].id = id => clock - accepts[i].ts >= Window
    /\ accepts' = Append(accepts, [id |-> id, ts |-> ts])
    /\ UNCHANGED clock

Tick == clock' > clock /\ clock' \in Nat /\ UNCHANGED accepts

Next == Tick \/ \E id \in Ids, ts \in 0..clock : Accept(id, ts)

Spec == Init /\ [][Next]_<<clock, accepts>>
=============================================================================
