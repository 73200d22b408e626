------------------------------ MODULE TrayApp ------------------------------
(* ReceiverTrayApp of webhook_receiver/tray_app.py: the tray thread with    *)
(* its Restart and Quit, and the thread of each uvicorn server it starts.   *)
(*                                                                          *)
(* Stopping a server is asking it to exit and waiting five seconds.  Its    *)
(* event loop sees the request when no handler blocks it; it then closes    *)
(* its socket and waits, for as long as it takes, for open requests and     *)
(* background tasks (a Discord post may last eight seconds).                *)
EXTENDS Integers

CONSTANTS Ports,        \* ports the configuration may name
          MaxServers    \* bound: servers started in a behaviour

ASSUME TrayAssumption == Ports # {} /\ MaxServers \in Nat \ {0}

Servers == 1..MaxServers
NoHandler == -1

VARIABLES tray,         \* where the tray thread is
          quitting,     \* the callback in progress is Quit
          status,       \* _status, without its details
          current,      \* _server, 0 for None
          globals,      \* the server for which main's config, dedupe,
                        \*   entry_cooldown and flow_engine were made, 0
                        \*   for one that never came
          started,      \* servers created so far
          server,       \* per server: what its thread is at
          port,         \* per server: the port of its configuration
          told,         \* per server: should_exit
          busy,         \* per server: the globals with which the handler began
                        \*   that blocks its event loop, or NoHandler
          overran       \* history: a join timed out

vars == <<tray, quitting, status, current, globals, started,
          server, port, told, busy, overran>>

TypeOK ==
    /\ tray \in {"load", "started", "idle", "stop", "join", "label", "gone"}
    /\ quitting \in BOOLEAN
    /\ status \in {"Starting...", "Listening", "Error", "Restarting...",
                   "Stopped", "Stopped (error)"}
    /\ current \in 0..started /\ globals \in 0..started
    /\ started \in 0..MaxServers
    /\ server \in [Servers -> {"none", "starting", "serving", "draining",
                               "returned", "unlisting", "raised", "ended"}]
    /\ port \in [Servers -> Ports]
    /\ told \in [Servers -> BOOLEAN] /\ busy \in [Servers -> -1..started]
    /\ overran \in BOOLEAN

(* __init__ starts the first server.                                        *)
Init ==
    /\ tray = "load" /\ quitting = FALSE /\ status = "Starting..."
    /\ current = 0 /\ globals = 0 /\ started = 0
    /\ server = [s \in Servers |-> "none"]
    /\ port \in [Servers -> Ports]
    /\ told = [s \in Servers |-> FALSE] /\ busy = [s \in Servers |-> NoHandler]
    /\ overran = FALSE

threads == <<server, port, told, busy, overran>>

-----------------------------------------------------------------------------
(* The tray thread.  Its callbacks run one at a time.                       *)

(* _start_server: the configuration is read and main's globals replaced -   *)
(* under the feet of a handler an old server may still be running - and a   *)
(* thread is started for the new server.  Its own _stop_server_locked comes *)
(* first and finds no server: Restart has stopped the old one (TrayForgets).*)
LoadAndStart ==
    /\ tray = "load" /\ started < MaxServers
    /\ started' = started + 1
    /\ globals' = started + 1 /\ current' = started + 1
    /\ server' = [server EXCEPT ![started + 1] = "starting"]
    /\ tray' = "started"
    /\ UNCHANGED <<quitting, status, port, told, busy, overran>>

(* load_config raises, or what follows it does when some of the globals are *)
(* replaced already; what is raised is shown.                               *)
LoadFails ==
    /\ tray = "load"
    /\ status' = "Error" /\ tray' = "idle"
    /\ globals' \in {globals, 0}
    /\ UNCHANGED <<quitting, current, started, threads>>

(* The status follows the start of the thread, without a look at it.        *)
Announce ==
    /\ tray = "started"
    /\ status' = "Listening" /\ tray' = "idle"
    /\ UNCHANGED <<quitting, current, globals, started, threads>>

(* Mutant of Restart: the running server is not stopped first, neither here *)
(* nor in the _start_server that follows.                                   *)
RestartUnstopped ==
    /\ tray = "idle" /\ started < MaxServers
    /\ status' = "Restarting..." /\ tray' = "load"
    /\ UNCHANGED <<quitting, current, globals, started, threads>>

Restart ==
    /\ tray = "idle" /\ started < MaxServers
    /\ status' = "Restarting..." /\ tray' = "stop"
    /\ UNCHANGED <<quitting, current, globals, started, threads>>

Quit ==
    /\ tray = "idle"
    /\ quitting' = TRUE /\ tray' = "stop"
    /\ UNCHANGED <<status, current, globals, started, threads>>

(* Mutant of Told: a server that has not bound yet is not told.             *)
ToldIfServing ==
    [s \in Servers |-> told[s] \/ (s = current /\ server[s] = "serving")]

(* _stop_server_locked: should_exit, a join of five seconds, and the server *)
(* is forgotten, ended or not.                                              *)
Told == [s \in Servers |-> told[s] \/ s = current]

Stop ==
    /\ tray = "stop"
    /\ told' = Told
    /\ tray' = "join"
    /\ UNCHANGED <<quitting, status, current, globals, started,
                   server, port, busy, overran>>

(* The thread has ended, or five seconds have.                              *)
Joined ==
    /\ tray = "join"
    /\ overran' = (overran \/ (current # 0 /\ server[current] # "ended"))
    /\ current' = 0 /\ tray' = "label"
    /\ UNCHANGED <<quitting, status, globals, started, server, port, told, busy>>

(* The label; then a restart goes on, and a quit ends the process and with  *)
(* it the server threads, which are daemons.                                *)
Label ==
    /\ tray = "label"
    /\ status' = "Stopped"
    /\ IF quitting
       THEN /\ tray' = "gone"
            /\ server' = [s \in Servers |->
                             IF server[s] = "none" THEN "none" ELSE "ended"]
       ELSE tray' = "load" /\ UNCHANGED server
    /\ UNCHANGED <<quitting, current, globals, started, port, told, busy, overran>>

Tray == LoadAndStart \/ LoadFails \/ Announce \/ Stop \/ Joined \/ Label

-----------------------------------------------------------------------------
(* The thread of a server: _run_server around uvicorn's Server.run, which   *)
(* is external.                                                             *)
Holds(s) == server[s] = "serving"

At(s, where) == server' = [server EXCEPT ![s] = where]

own == <<tray, quitting, current, globals, started, port, told>>

(* The port is bound.  A server that was told to exit meanwhile returns.    *)
Bind(s) ==
    /\ server[s] = "starting"
    /\ \A r \in Servers \ {s} : Holds(r) => port[r] # port[s]
    /\ At(s, IF told[s] THEN "returned" ELSE "serving")
    /\ UNCHANGED <<own, status, busy, overran>>

(* The port is taken, by a predecessor or another program: uvicorn calls    *)
(* sys.exit, and SystemExit ends the thread past "except Exception".        *)
BindFails(s) ==
    /\ server[s] = "starting"
    /\ At(s, "ended")
    /\ UNCHANGED <<own, status, busy, overran>>

Raises(s) ==
    /\ server[s] = "starting"
    /\ At(s, "raised")
    /\ UNCHANGED <<own, status, busy, overran>>

(* A handler has its body and goes on without another await: it holds up    *)
(* the event loop, and takes main's globals as it finds them.  It may do so *)
(* while the server drains, if the body came late.                          *)
Handle(s) ==
    /\ server[s] \in {"serving", "draining"} /\ busy[s] = NoHandler
    /\ busy' = [busy EXCEPT ![s] = globals]
    /\ UNCHANGED <<own, status, server, overran>>

Handled(s) ==
    /\ server[s] \in {"serving", "draining"} /\ busy[s] # NoHandler
    /\ busy' = [busy EXCEPT ![s] = NoHandler]
    /\ UNCHANGED <<own, status, server, overran>>

(* should_exit is seen: the socket is closed.                               *)
Drain(s) ==
    /\ server[s] = "serving" /\ told[s] /\ busy[s] = NoHandler
    /\ At(s, "draining")
    /\ UNCHANGED <<own, status, busy, overran>>

Return(s) ==
    /\ server[s] = "draining" /\ busy[s] = NoHandler
    /\ At(s, "returned")
    /\ UNCHANGED <<own, status, busy, overran>>

(* "Listening" becomes "Stopped" - also when it is a successor's.           *)
LookAtStatus(s) ==
    /\ server[s] = "returned"
    /\ At(s, IF status = "Listening" THEN "unlisting" ELSE "ended")
    /\ UNCHANGED <<own, status, busy, overran>>

ShowStopped(s) ==
    /\ server[s] = "unlisting"
    /\ status' = "Stopped" /\ At(s, "ended")
    /\ UNCHANGED <<own, busy, overran>>

ShowError(s) ==
    /\ server[s] = "raised"
    /\ status' = "Stopped (error)" /\ At(s, "ended")
    /\ UNCHANGED <<own, busy, overran>>

(* What a thread does by itself.  Return is not among it: uvicorn waits for *)
(* the connections it drains as long as their clients like.                 *)
Run(s) == Bind(s) \/ BindFails(s) \/ Raises(s) \/ Handled(s)
             \/ LookAtStatus(s) \/ ShowStopped(s) \/ ShowError(s)

Gone == tray = "gone" /\ UNCHANGED vars

Next ==
    \/ Tray \/ Restart \/ Quit \/ Gone
    \/ \E s \in Servers : Run(s) \/ Handle(s) \/ Drain(s) \/ Return(s)

(* The tray thread runs.  A server thread runs, its handlers end by their   *)
(* timeouts, and its event loop looks at should_exit every tick, between    *)
(* two requests as well.                                                    *)
Fairness ==
    /\ WF_vars(Tray)
    /\ \A s \in Servers : WF_vars(Run(s)) /\ SF_vars(Drain(s))

Spec == Init /\ [][Next]_vars /\ Fairness

-----------------------------------------------------------------------------
(* No server is left behind: one that still takes requests and was not told *)
(* to exit is the one the tray would stop next, whatever was clicked while  *)
(* its thread was starting, blocked or draining.                            *)
NoneLeftBehind ==
    \A s \in Servers :
        server[s] \in {"starting", "serving"} /\ ~told[s] => s = current

(* A handler ends with the engine, the caches and the configuration it      *)
(* began with - a slot it gives back is one it took - unless a stop ran     *)
(* over its five seconds and the tray went on without the old server.       *)
HandlersKeepTheirGlobals ==
    [][ \A s \in Servers :
          busy[s] # NoHandler /\ busy'[s] = NoHandler => globals = busy[s] \/ overran ]_vars

(* The server a click stops gives its port back, or never takes it, though  *)
(* it may be starting or blocked at the click and the tray does not wait.   *)
StoppedServersLeave ==
    \A s \in Servers :
        (tray = "stop" /\ current = s) ~> (server[s] \notin {"starting", "serving"})

(* Between two servers there is no current one; a current one is told in    *)
(* the step before it is forgotten.                                         *)
TrayForgets ==
    /\ tray \in {"load", "label", "gone"} => current = 0
    /\ tray = "join" => \A s \in Servers : s = current => told[s]
    /\ tray = "gone" => \A s \in Servers : server[s] \in {"none", "ended"}

(* While no join has timed out, a server whose thread has not ended is the  *)
(* current one, and a handler runs with the globals there are.              *)
OneAtATime ==
    /\ \A s \in Servers :
          busy[s] # NoHandler => server[s] \in {"serving", "draining"} \/ tray = "gone"
    /\ ~overran => \A s \in Servers :
          /\ server[s] \notin {"none", "ended"} => s = current
          /\ busy[s] # NoHandler => busy[s] = globals \/ tray = "gone"

(* The inductive invariant of the proofs.                                   *)
IInv == /\ TypeOK /\ NoneLeftBehind /\ TrayForgets /\ OneAtATime
        /\ \A s \in Servers : s > started => server[s] = "none"
=============================================================================
