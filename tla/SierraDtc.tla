----------------------------- MODULE SierraDtc -----------------------------
(* SierraDtcClient of webhook_receiver/sierra_dtc.py: one submit_market, a  *)
(* whole short-lived DTC session - connect, negotiate, log on, submit, wait *)
(* for an ORDER_UPDATE, log off - against a server that may answer late,    *)
(* in any grouping, or not at all, and may drop the connection at any point.*)
(* The server is external: it does what the client is written to survive.   *)
EXTENDS Integers, Sequences

CONSTANTS SessionWait,   \* max(connect_timeout, response_wait) + 2
          AckWait,       \* response_wait_sec
          MaxPending     \* bound: messages on their way when the server chatters

ASSUME SierraAssumption ==
    /\ SessionWait \in Nat /\ AckWait \in Nat /\ MaxPending \in Nat

VARIABLES clock,         \* time.monotonic()
          pc,            \* where the client is
          deadline,      \* the deadline of the wait in progress
          result,        \* how submit_market ended: returned or raised
          inbox,         \* messages on their way to the client, in order
          link,          \* what the server did to the connection
          order,         \* what the server did with the order
          strangers      \* history: the server sent an update of another
                         \* order without its ClientOrderID

vars == <<clock, pc, deadline, result, inbox, link, order, strangers>>

Replies == {"logon ok", "logon refused"}
Named == {"ack", "reject"}               \* ORDER_UPDATEs of this order
Anonymous == {"anonymous ack", "anonymous reject"}   \* without an id
Acks == {"ack", "anonymous ack"}
Rejects == {"reject", "anonymous reject"}
Noise == {"heartbeat", "foreign update"} \* with another ClientOrderID
Chatter == Noise \cup Anonymous \cup {"malformed"}  \* Type is no integer
Message == Replies \cup Named \cup Chatter \cup {"garbage"}

(* acked, assumed: submit_market returned, on an update or without one.     *)
(* The others: it raised SierraDtcError ("Order rejected", or dtc error for *)
(* any other text), OSError or ValueError.                                  *)
Returned == {"acked", "assumed"}
Raised == {"rejected", "dtc error", "os error", "value error"}
Results == {"none"} \cup Returned \cup Raised

TypeOK ==
    /\ clock \in Nat /\ deadline \in Nat /\ strangers \in BOOLEAN
    /\ pc \in {"connect", "negotiate", "logon", "submit", "await", "logoff", "done"}
    /\ result \in Results
    /\ inbox \in Seq(Message)
    /\ link \in {"open", "closed", "reset"}
    /\ order \in {"none", "sent", "working", "rejected"}

Init ==
    /\ clock = 0 /\ pc = "connect" /\ deadline = SessionWait
    /\ result = "none" /\ inbox = <<>> /\ link = "open"
    /\ order = "none" /\ strangers = FALSE

server == <<inbox, link, order, strangers>>

-----------------------------------------------------------------------------
(* The session.  An exception before the work leaves without a logoff.      *)
Fail(how) == pc' = "done" /\ result' = how

Connect ==
    /\ pc = "connect"
    /\ \/ pc' = "negotiate" /\ UNCHANGED result
       \/ Fail("os error")                      \* refused or timed out
    /\ UNCHANGED <<clock, deadline, server>>

(* _negotiate_json reads exactly the 16 bytes of the binary answer.         *)
Negotiate ==
    /\ pc = "negotiate"
    /\ \/ link = "open" /\ pc' = "logon" /\ UNCHANGED result
       \/ Fail("dtc error")                     \* closed, or not JSON
       \/ Fail("os error")                      \* reset, or recv timed out
    /\ UNCHANGED <<clock, deadline, server>>

(* recv hands over the pending messages in a chunk of any size, which may   *)
(* end inside a message.  _recv_json_message returns the first and forgets  *)
(* the rest of the chunk; what is left of a message it cut is garbage.      *)
Rest(k, cut) ==
    IF cut THEN <<"garbage">> \o SubSeq(inbox, k + 2, Len(inbox))
    ELSE SubSeq(inbox, k + 1, Len(inbox))

Receive(msg) ==
    /\ link # "reset"
    /\ clock <= deadline
    /\ inbox # <<>> /\ msg = inbox[1]
    /\ \E k \in 1..Len(inbox), cut \in BOOLEAN :
          /\ cut => k < Len(inbox)
          /\ inbox' = Rest(k, cut)
    /\ UNCHANGED <<clock, link, order, strangers>>

(* The ways a receive ends without a message: SierraDtcError or OSError.    *)
TimedOut == clock >= deadline
Closed   == link = "closed" /\ inbox = <<>>
WasReset == link = "reset"

Logon ==
    /\ pc = "logon"
    /\ \/ /\ Receive("logon ok")
          /\ pc' = "submit" /\ UNCHANGED result
       \/ \E msg \in {"logon refused", "garbage"} :
             Receive(msg) /\ Fail("dtc error")
       \/ Receive("malformed") /\ Fail("value error")
       \/ \E msg \in Noise \cup Anonymous \cup Named :
             Receive(msg) /\ UNCHANGED <<pc, result>>
       \/ (TimedOut \/ Closed) /\ Fail("dtc error") /\ UNCHANGED <<clock, server>>
       \/ WasReset /\ Fail("os error") /\ UNCHANGED <<clock, server>>
    /\ UNCHANGED deadline

(* The work ends: logoff follows, whether it returned or raised.            *)
Leave(how) == pc' = "logoff" /\ result' = how

AckDeadline == clock + AckWait

(* sendall of the order.  On a connection the server has dropped it may     *)
(* still succeed locally.                                                   *)
Submit ==
    /\ pc = "submit"
    /\ \/ /\ pc' = "await" /\ deadline' = AckDeadline
          /\ order' = IF link = "open" THEN "sent" ELSE order
          /\ UNCHANGED result
       \/ link # "open" /\ Leave("os error") /\ UNCHANGED <<deadline, order>>
    /\ UNCHANGED <<clock, inbox, link, strangers>>

(* The updates taken for this order's: by its ClientOrderID, and those that *)
(* have none.  Mutant of Taken: the id is not compared.                     *)
TakenAnyId(kinds) == kinds \cup {"foreign update"}
Taken(kinds) == kinds

(* A wait that ends without an update.  Mutants of Unanswered: the error of *)
(* the receive is passed on; the wait goes on.                              *)
UnansweredRaises == Leave("dtc error")
UnansweredWaits == UNCHANGED <<pc, result>>
Unanswered == Leave("assumed")

(* _await_order_ack: the first update with this order's id or with none     *)
(* decides; a SierraDtcError from the receive - a timeout, a closed         *)
(* connection, bad JSON - counts as "submitted"; others pass through.       *)
AwaitAck ==
    /\ pc = "await"
    /\ \/ \E msg \in Taken(Acks) : Receive(msg) /\ Leave("acked")
       \/ \E msg \in Rejects : Receive(msg) /\ Leave("rejected")
       \/ Receive("garbage") /\ Unanswered
       \/ Receive("malformed") /\ Leave("value error")
       \/ \E msg \in (Noise \cup Replies) \ Taken(Acks) :
             Receive(msg) /\ UNCHANGED <<pc, result>>
       \/ (TimedOut \/ Closed) /\ Unanswered /\ UNCHANGED <<clock, server>>
       \/ WasReset /\ Leave("os error") /\ UNCHANGED <<clock, server>>
    /\ UNCHANGED deadline

(* _logoff swallows OSError; the socket is closed after it.                 *)
Logoff ==
    /\ pc = "logoff" /\ pc' = "done"
    /\ UNCHANGED <<clock, deadline, result, server>>

Client == Connect \/ Negotiate \/ Logon \/ Submit \/ AwaitAck \/ Logoff

-----------------------------------------------------------------------------
(* The server, and time.                                                    *)
Says(msg) == inbox' = Append(inbox, msg)

ServerLogon ==
    /\ pc = "logon" /\ link = "open"
    /\ \A i \in DOMAIN inbox : inbox[i] \notin Replies \cup {"garbage"}
    /\ \E msg \in Replies : Says(msg)
    /\ UNCHANGED <<clock, pc, deadline, result, link, order, strangers>>

(* The order that reached the server is worked or rejected, once for all,   *)
(* and an update goes out, with or without its id, unless the connection is *)
(* gone.                                                                    *)
Update(kinds) ==
    IF link = "open" THEN \E msg \in kinds : Says(msg) ELSE UNCHANGED inbox

ServerOrder ==
    /\ order = "sent"
    /\ \/ order' = "working" /\ Update(Acks)
       \/ order' = "rejected" /\ Update(Rejects)
    /\ UNCHANGED <<clock, pc, deadline, result, link, strangers>>

(* Messages about other things keep coming for as long as the server likes. *)
ServerChatter ==
    /\ link = "open" /\ pc \in {"logon", "submit", "await"}
    /\ Len(inbox) < MaxPending
    /\ \E msg \in Chatter :
          Says(msg) /\ strangers' = (strangers \/ msg \in Anonymous)
    /\ UNCHANGED <<clock, pc, deadline, result, link, order>>

ServerDrops ==
    /\ link = "open" /\ pc \notin {"connect", "done"}
    /\ link' \in {"closed", "reset"}
    /\ UNCHANGED <<clock, pc, deadline, result, inbox, order, strangers>>

(* Time passes while the client has a wait to time out of, and past its     *)
(* deadline: a client that is still served then finds out at its next look. *)
Tick ==
    /\ pc \in {"logon", "submit", "await"}
    /\ clock <= deadline
    /\ clock' = clock + 1
    /\ UNCHANGED <<pc, deadline, result, server>>

Server == ServerLogon \/ ServerOrder \/ ServerChatter \/ ServerDrops

Finished == pc = "done" /\ UNCHANGED vars

Next == Client \/ Server \/ Tick \/ Finished

(* The client runs and time passes; the server owes nothing.                *)
Spec == Init /\ [][Next]_vars /\ WF_vars(Client) /\ WF_vars(Tick)

-----------------------------------------------------------------------------
(* When submit_market raises SierraDtcError - which is reported as a failed *)
(* order - the server is not working the order: such an error is raised     *)
(* before the order is sent or because it was rejected, unless the server   *)
(* has spoken of another order and left out its id (see UpdatesAreOurs).    *)
DtcErrorMeansNoOrder ==
    ~strangers /\ pc = "done" /\ result \in {"dtc error", "rejected"} =>
        order \in {"none", "rejected"}

(* An acknowledgement is never invented: "acked" is returned for an order   *)
(* the server works, whatever else it was talking about, with the same      *)
(* exception.                                                               *)
AckMeansWorking == ~strangers /\ result = "acked" => order = "working"

(* An update the client takes for the answer is about its own order: what   *)
(* it calls "Order rejected" (sierra_dtc.py:291) was rejected and what it   *)
(* returns as the acknowledgement (sierra_dtc.py:292) is at work.  False of *)
(* the code: an anonymous update of another order passes for the answer.    *)
UpdatesAreOurs ==
    /\ result = "rejected" => order = "rejected"
    /\ result = "acked" => order = "working"

(* An update in the inbox tells the truth, and what the client knows fits   *)
(* what the server has done: nothing before the order is sent, no order     *)
(* where an error is the client's own.                                      *)
UpdatesAreTrue ==
    \A i \in DOMAIN inbox :
        /\ inbox[i] \in (IF strangers THEN {"ack"} ELSE Acks) => order = "working"
        /\ inbox[i] \in (IF strangers THEN {"reject"} ELSE Rejects) => order = "rejected"

ResultsAreTrue ==
    /\ pc \in {"connect", "negotiate", "logon", "submit"} => order = "none"
    /\ pc \in {"connect", "negotiate", "logon", "submit", "await"} => result = "none"
    /\ ~strangers => UpdatesAreOurs
    /\ result = "dtc error" => order = "none" /\ pc = "done"

(* The inductive invariant of the proofs.                                   *)
IInv == TypeOK /\ UpdatesAreTrue /\ ResultsAreTrue

(* The session ends, with a result, though the server stays silent, goes    *)
(* away or keeps chattering without an end: every wait has a deadline.      *)
SessionEnds == <>(pc = "done" /\ result # "none")

(* main.py answers 502 "Failed to reach trading target" to an OSError of    *)
(* submit_market; then the target should not be working the order.          *)
FailureMeansNoOrder == result = "os error" => order # "working"
=============================================================================
