--------------------------- MODULE TrayAppProofs ---------------------------
(* Proofs about TrayApp, for any ports and any number of servers, and about *)
(* the file its starts complete and load, in ConfigFile, for any files of   *)
(* earlier versions and any number of edits and setups.                     *)
EXTENDS TrayApp, ConfigFile, TLAPS

LEMMA ServersAreNumbers ==
  /\ MaxServers \in Nat \ {0}
  /\ \A s \in Servers : s \in Nat /\ s # 0 /\ s <= MaxServers
  BY TrayAssumption DEF TrayAssumption, Servers

LEMMA StartedFacts ==
  TypeOK => started \in Nat /\ 0 \in 0..started /\ globals \in 0..started
  <1> SUFFICES ASSUME TypeOK PROVE started \in Nat /\ globals \in 0..started
    OBVIOUS
  <1>1. started \in 0..MaxServers /\ globals \in 0..started
    BY DEF TypeOK
  <1> QED BY <1>1, ServersAreNumbers

LEMMA InitHolds == Init => IInv
  <1> SUFFICES ASSUME Init PROVE IInv
    OBVIOUS
  <1>1. /\ 0 \in 0..0 /\ -1 \in -1..0 /\ 0 \in 0..MaxServers
        /\ [s \in Servers |-> "none"] \in
              [Servers -> {"none", "starting", "serving", "draining",
                           "returned", "unlisting", "raised", "ended"}]
    BY ServersAreNumbers
  <1>2. TypeOK
    BY <1>1 DEF Init, TypeOK, NoHandler
  <1> QED BY <1>2 DEF Init, IInv, NoneLeftBehind, TrayForgets, OneAtATime

-----------------------------------------------------------------------------
(* The steps of the tray thread.                                            *)
LEMMA StartStep == IInv /\ LoadAndStart => IInv'
  <1> SUFFICES ASSUME IInv, LoadAndStart PROVE IInv'
    OBVIOUS
  <1>0. TypeOK /\ started \in Nat /\ started + 1 \in Servers /\ current = 0
    <2>1. TypeOK /\ tray = "load" /\ started < MaxServers /\ started \in 0..MaxServers
      BY DEF IInv, TypeOK, LoadAndStart
    <2> QED BY <2>1, ServersAreNumbers DEF IInv, TrayForgets, Servers
  <1>1. /\ started' = started + 1 /\ globals' = started + 1 /\ current' = started + 1
        /\ server' = [server EXCEPT ![started + 1] = "starting"]
        /\ tray' = "started"
        /\ UNCHANGED <<quitting, status, port, told, busy, overran>>
    BY DEF LoadAndStart
  <1>2. \A s \in Servers : server'[s] = IF s = started + 1 THEN "starting" ELSE server[s]
    BY <1>0, <1>1 DEF TypeOK
  <1>3. \A s \in Servers : busy[s] # NoHandler => server[s] \in {"serving", "draining"}
    BY DEF IInv, OneAtATime, LoadAndStart
  <1>4. server[started + 1] = "none"
    BY <1>0 DEF IInv
  <1>5. TypeOK'
    <2>1. started + 1 \in 0..MaxServers /\ -1..started \subseteq -1..(started + 1)
      BY <1>0 DEF Servers
    <2>2. busy' \in [Servers -> -1..(started + 1)]
      BY <1>0, <1>1, <2>1 DEF TypeOK
    <2>3. server' \in [Servers -> {"none", "starting", "serving", "draining",
                                   "returned", "unlisting", "raised", "ended"}]
      BY <1>0, <1>1 DEF TypeOK
    <2>4. started' \in 0..MaxServers /\ current' \in 0..started' /\ globals' \in 0..started'
      BY <1>0, <1>1, <2>1
    <2>5. busy' \in [Servers -> -1..started']
      BY <1>1, <2>2
    <2> QED BY <1>0, <1>1, <2>3, <2>4, <2>5 DEF TypeOK
  <1>6. NoneLeftBehind'
    BY <1>0, <1>1, <1>2, ServersAreNumbers DEF IInv, NoneLeftBehind
  <1>7. TrayForgets'
    BY <1>1 DEF TrayForgets
  <1>8. OneAtATime'
    <2>1. \A s \in Servers : busy'[s] # NoHandler => server'[s] \in {"serving", "draining"}
      BY <1>1, <1>2, <1>3, <1>4
    <2>2. ASSUME ~overran', NEW s \in Servers
          PROVE  /\ server'[s] \notin {"none", "ended"} => s = current'
                 /\ busy'[s] # NoHandler => busy'[s] = globals'
      <3>1. server[s] \in {"none", "ended"}
        BY <1>0, <1>1, <2>2, ServersAreNumbers DEF IInv, OneAtATime
      <3> QED BY <1>0, <1>1, <1>2, <1>3, <3>1
    <2> QED BY <2>1, <2>2 DEF OneAtATime
  <1>9. \A s \in Servers : s > started' => server'[s] = "none"
    BY <1>0, <1>1, <1>2, ServersAreNumbers DEF IInv
  <1> QED BY <1>5, <1>6, <1>7, <1>8, <1>9 DEF IInv

(* The steps that touch neither the current server nor any server's thread. *)
LEMMA LabelOnlyStep ==
  ASSUME IInv, LoadFails \/ Announce \/ Restart \/ Quit
  PROVE  IInv'
  <1>1. /\ UNCHANGED <<current, started, threads>>
        /\ globals' = globals \/ (globals' = 0 /\ tray = "load")
        /\ tray' \in {"idle", "stop"} /\ tray # "gone"
        /\ status' \in {"Error", "Listening", "Restarting...", status}
        /\ quitting' \in BOOLEAN
    BY DEF LoadFails, Announce, Restart, Quit, IInv, TypeOK
  <1>2. TypeOK'
    <2>1. globals' \in 0..started
      BY <1>1, StartedFacts DEF IInv
    <2> QED BY <1>1, <2>1 DEF IInv, TypeOK, threads
  <1>3. OneAtATime'
    <2>1. CASE globals' = globals
      BY <1>1, <2>1 DEF IInv, OneAtATime, threads
    <2>2. CASE tray = "load"
      <3>1. ~overran => \A s \in Servers : busy[s] = NoHandler
        BY <2>2, ServersAreNumbers DEF IInv, OneAtATime, TrayForgets
      <3> QED BY <1>1, <3>1 DEF IInv, OneAtATime, threads
    <2> QED BY <1>1, <2>1, <2>2
  <1> QED
    BY <1>1, <1>2, <1>3 DEF IInv, NoneLeftBehind, TrayForgets, threads

LEMMA StopStep == IInv /\ Stop => IInv'
  <1> SUFFICES ASSUME IInv, Stop PROVE IInv'
    OBVIOUS
  <1>1. /\ told' = [s \in Servers |-> told[s] \/ s = current] /\ tray' = "join"
        /\ UNCHANGED <<quitting, status, current, globals, started, server, port,
                       busy, overran>>
        /\ tray = "stop"
    BY DEF Stop, Told
  <1>t. told' \in [Servers -> BOOLEAN]
    BY <1>1, Zenon
  <1>2. TypeOK'
    BY <1>1, <1>t DEF IInv, TypeOK
  <1> QED BY <1>1, <1>2 DEF IInv, NoneLeftBehind, TrayForgets, OneAtATime

LEMMA JoinedStep == IInv /\ Joined => IInv'
  <1> SUFFICES ASSUME IInv, Joined PROVE IInv'
    OBVIOUS
  <1>1. /\ tray = "join" /\ tray' = "label" /\ current' = 0
        /\ overran' = (overran \/ (current # 0 /\ server[current] # "ended"))
        /\ UNCHANGED <<quitting, status, globals, started, server, port, told, busy>>
    BY DEF Joined
  <1>o. overran' \in BOOLEAN
    BY <1>1, Zenon
  <1>2. TypeOK'
    <2>1. current' \in 0..started
      BY <1>1, StartedFacts DEF IInv
    <2> QED BY <1>1, <1>o, <2>1 DEF IInv, TypeOK
  <1>3. NoneLeftBehind'
    BY <1>1 DEF IInv, NoneLeftBehind, TrayForgets
  <1>4. OneAtATime'
    BY <1>1, ServersAreNumbers DEF IInv, OneAtATime
  <1> QED BY <1>1, <1>2, <1>3, <1>4 DEF IInv, TrayForgets

LEMMA LabelStep == IInv /\ Label => IInv'
  <1> SUFFICES ASSUME IInv, Label PROVE IInv'
    OBVIOUS
  <1>1. /\ tray = "label" /\ status' = "Stopped" /\ current = 0
        /\ UNCHANGED <<quitting, current, globals, started, port, told, busy, overran>>
    BY DEF Label, IInv, TrayForgets
  <1>2. CASE quitting
    <2>1. /\ tray' = "gone"
          /\ \A s \in Servers : server'[s] = IF server[s] = "none" THEN "none" ELSE "ended"
          /\ server' \in [Servers -> {"none", "ended"}]
      BY <1>2 DEF Label
    <2>2. TypeOK'
      BY <1>1, <2>1 DEF IInv, TypeOK
    <2> QED
      BY <1>1, <2>1, <2>2 DEF IInv, NoneLeftBehind, TrayForgets, OneAtATime
  <1>3. CASE ~quitting
    <2>1. tray' = "load" /\ server' = server
      BY <1>3 DEF Label
    <2>2. TypeOK'
      BY <1>1, <2>1 DEF IInv, TypeOK
    <2> QED
      BY <1>1, <2>1, <2>2 DEF IInv, NoneLeftBehind, TrayForgets, OneAtATime
  <1> QED BY <1>2, <1>3

-----------------------------------------------------------------------------
LEMMA InTime ==
  ASSUME IInv, UNCHANGED overran, ~overran', NEW r \in Servers
  PROVE  /\ server[r] \notin {"none", "ended"} => r = current
         /\ busy[r] # NoHandler => busy[r] = globals \/ tray = "gone"
  BY DEF IInv, OneAtATime

(* The steps of a server thread: s goes from one place to another, and      *)
(* starts to serve only from starting.                                      *)
LEMMA MoveStep ==
  ASSUME IInv, NEW s \in Servers, NEW where \in
           {"serving", "draining", "returned", "unlisting", "raised", "ended"},
         server[s] # "none", server[s] # "ended", At(s, where),
         where = "serving" => server[s] = "starting" /\ ~told[s],
         busy[s] # NoHandler => where \in {"serving", "draining"},
         UNCHANGED <<own, busy, overran>>,
         status' \in {status, "Stopped", "Stopped (error)"}
  PROVE  IInv'
  <1>1. /\ UNCHANGED <<tray, quitting, current, globals, started, port, told, busy>>
        /\ server' = [server EXCEPT ![s] = where]
    BY DEF own, At
  <1>o. overran' = overran
    OBVIOUS
  <1>2. \A r \in Servers : server'[r] = IF r = s THEN where ELSE server[r]
    BY <1>1 DEF IInv, TypeOK
  <1>3. TypeOK'
    BY <1>1, <1>o, <1>2 DEF IInv, TypeOK
  <1>4. NoneLeftBehind'
    BY <1>1, <1>2 DEF IInv, NoneLeftBehind
  <1>5. OneAtATime'
    <2>1. \A r \in Servers :
             busy'[r] # NoHandler => server'[r] \in {"serving", "draining"} \/ tray' = "gone"
      BY <1>1, <1>2 DEF IInv, OneAtATime
    <2>2. ASSUME ~overran', NEW r \in Servers
          PROVE  /\ server'[r] \notin {"none", "ended"} => r = current'
                 /\ busy'[r] # NoHandler => busy'[r] = globals' \/ tray' = "gone"
      <3>1. /\ server[r] \notin {"none", "ended"} => r = current
            /\ busy[r] # NoHandler => busy[r] = globals \/ tray = "gone"
        BY <1>o, <2>2, InTime
      <3> QED BY <1>1, <1>2, <3>1
    <2> QED BY <2>1, <2>2 DEF OneAtATime
  <1>6. TrayForgets' /\ \A r \in Servers : r > started' => server'[r] = "none"
    BY <1>1, <1>2 DEF IInv, TrayForgets
  <1> QED BY <1>3, <1>4, <1>5, <1>6 DEF IInv

(* A handler begins or ends.                                                *)
LEMMA HandlerStep ==
  ASSUME IInv, NEW s \in Servers, NEW b \in {NoHandler, globals},
         server[s] \in {"serving", "draining"},
         busy' = [busy EXCEPT ![s] = b],
         UNCHANGED <<own, status, server, overran>>
  PROVE  IInv'
  <1>1. UNCHANGED <<tray, quitting, current, globals, started, port, told, status,
                    server, overran>>
    BY DEF own
  <1>2. \A r \in Servers : busy'[r] = IF r = s THEN b ELSE busy[r]
    BY DEF IInv, TypeOK
  <1>3. TypeOK'
    <2>1. b \in -1..started
      BY StartedFacts DEF IInv, NoHandler
    <2>2. busy' \in [Servers -> -1..started]
      BY <2>1 DEF IInv, TypeOK
    <2> QED BY <1>1, <2>2 DEF IInv, TypeOK
  <1>4. OneAtATime'
    BY <1>1, <1>2 DEF IInv, OneAtATime
  <1> QED BY <1>1, <1>3, <1>4 DEF IInv, NoneLeftBehind, TrayForgets

(* IInv is inductive.                                                       *)
LEMMA Step == IInv /\ [Next]_vars => IInv'
  <1> SUFFICES ASSUME IInv, [Next]_vars PROVE IInv'
    OBVIOUS
  <1>1. CASE Tray
    BY <1>1, StartStep, LabelOnlyStep, StopStep, JoinedStep, LabelStep DEF Tray
  <1>2. CASE Restart \/ Quit
    BY <1>2, LabelOnlyStep
  <1>3. ASSUME NEW s \in Servers, Bind(s) \/ BindFails(s) \/ Raises(s)
        PROVE  IInv'
    <2> DEFINE where == IF Bind(s) THEN (IF told[s] THEN "returned" ELSE "serving")
                        ELSE IF BindFails(s) THEN "ended" ELSE "raised"
    <2>1. /\ server[s] = "starting" /\ At(s, where)
          /\ UNCHANGED <<own, status, busy, overran>>
      BY <1>3 DEF Bind, BindFails, Raises
    <2>2. busy[s] = NoHandler
      <3>1. busy[s] # NoHandler => tray = "gone"
        BY <2>1 DEF IInv, OneAtATime
      <3> QED BY <3>1, <2>1 DEF IInv, TrayForgets, TypeOK
    <2>3. where = "serving" => ~told[s]
      OBVIOUS
    <2>4. where \in {"serving", "returned", "raised", "ended"}
      OBVIOUS
    <2> HIDE DEF where
    <2> QED BY <2>1, <2>2, <2>3, <2>4, MoveStep
  <1>4. ASSUME NEW s \in Servers, Handle(s) \/ Handled(s)
        PROVE  IInv'
    <2>1. PICK b \in {NoHandler, globals} :
             /\ server[s] \in {"serving", "draining"}
             /\ busy' = [busy EXCEPT ![s] = b]
             /\ UNCHANGED <<own, status, server, overran>>
      BY <1>4 DEF Handle, Handled
    <2> QED BY <2>1, HandlerStep
  <1>5. ASSUME NEW s \in Servers, Drain(s) \/ Return(s)
        PROVE  IInv'
    <2>1. /\ server[s] \in {"serving", "draining"} /\ busy[s] = NoHandler
          /\ UNCHANGED <<own, status, busy, overran>>
          /\ At(s, "draining") \/ At(s, "returned")
      BY <1>5 DEF Drain, Return
    <2> QED BY <2>1, MoveStep
  <1>6. ASSUME NEW s \in Servers, LookAtStatus(s) \/ ShowStopped(s) \/ ShowError(s)
        PROVE  IInv'
    <2>1. /\ server[s] \in {"returned", "unlisting", "raised"}
          /\ UNCHANGED <<own, busy, overran>>
          /\ status' \in {status, "Stopped", "Stopped (error)"}
          /\ At(s, "unlisting") \/ At(s, "ended")
      BY <1>6 DEF LookAtStatus, ShowStopped, ShowError
    <2>2. busy[s] = NoHandler
      <3>1. busy[s] # NoHandler => tray = "gone"
        BY <2>1 DEF IInv, OneAtATime
      <3> QED BY <3>1, <2>1 DEF IInv, TrayForgets, TypeOK
    <2> QED BY <2>1, <2>2, MoveStep
  <1>7. CASE Gone \/ UNCHANGED vars
    BY <1>7 DEF Gone, vars, IInv, TypeOK, NoneLeftBehind, TrayForgets, OneAtATime
  <1> QED BY <1>1, <1>2, <1>3, <1>4, <1>5, <1>6, <1>7 DEF Next, Run

-----------------------------------------------------------------------------
(* The inductive invariant: TypeOK, NoneLeftBehind, and what a stop leaves  *)
(* behind it.                                                               *)
THEOREM Invariant == Spec => []IInv
  BY InitHolds, Step, PTL DEF Spec

(* No server that takes requests is forgotten without having been told to   *)
(* exit, for any number of restarts.                                        *)
THEOREM Behind == Spec => []NoneLeftBehind
  <1>1. IInv => NoneLeftBehind
    BY DEF IInv
  <1> QED BY <1>1, Invariant, PTL

(* A handler ends with the globals it began with, unless a stop ran over    *)
(* its five seconds.                                                        *)
THEOREM KeepTheirGlobals == Spec => HandlersKeepTheirGlobals
  <1> DEFINE Kept == \A s \in Servers :
                        busy[s] # NoHandler /\ busy'[s] = NoHandler => globals = busy[s] \/ overran
  <1>1. IInv /\ [Next]_vars => [Kept]_vars
    <2> SUFFICES ASSUME IInv, Next, NEW s \in Servers, busy[s] # NoHandler, busy'[s] = NoHandler
                 PROVE  globals = busy[s] \/ overran
      BY Zenon
    <2>1. tray # "gone"
      <3> SUFFICES ASSUME tray = "gone" PROVE FALSE
        OBVIOUS
      <3>1. \A r \in Servers : server[r] \in {"none", "ended"}
        BY DEF IInv, TrayForgets
      <3> QED
        BY <3>1 DEF Next, Tray, LoadAndStart, LoadFails, Announce, Stop, Joined,
             Label, Restart, Quit, Gone, vars, Run, Bind, BindFails, Raises, Handled,
             LookAtStatus, ShowStopped, ShowError, Handle, Drain, Return
    <2> QED BY <2>1 DEF IInv, OneAtATime
  <1> QED BY <1>1, Invariant, PTL DEF Spec, HandlersKeepTheirGlobals

-----------------------------------------------------------------------------
(* ConfigFile: the files and what the code makes of them.                   *)
LEMMA SettingsFacts ==
  /\ Settings = {"dry_run", "hours", "options", "url", "target"}
  /\ Values["dry_run"] = BOOLEAN /\ Values["hours"] = BOOLEAN
  /\ Values["options"] = BOOLEAN /\ Values["url"] = BOOLEAN
  /\ Values["target"] = {"nt", "ninjatrader", "both", "bogus"}
  BY DEF Settings, Values

LEMMA CompleteFacts ==
  ASSUME NEW f
  PROVE  f \in Complete <=> /\ f = [s \in Settings |-> f[s]]
                            /\ \A s \in Settings : f[s] \in Values[s]
  BY SettingsFacts DEF Complete

LEMMA FileFacts ==
  ASSUME NEW f \in Files
  PROVE  /\ DOMAIN f \subseteq Settings
         /\ f = [s \in DOMAIN f |-> f[s]]
         /\ \A s \in DOMAIN f : f[s] \in Values[s]
  <1>1. PICK D \in SUBSET Settings, g \in Complete : f = [s \in D |-> g[s]]
    BY DEF Files
  <1>2. DOMAIN f = D /\ \A s \in D : f[s] = g[s]
    BY <1>1
  <1>3. \A s \in Settings : g[s] \in Values[s]
    BY CompleteFacts
  <1> QED BY <1>1, <1>2, <1>3

LEMMA FileMade ==
  ASSUME NEW D \in SUBSET Settings, NEW f, f = [s \in D |-> f[s]],
         \A s \in D : f[s] \in Values[s]
  PROVE  f \in Files
  <1> DEFINE any == [s \in Settings |-> IF s = "target" THEN "nt" ELSE TRUE]
             g == [s \in Settings |-> IF s \in D THEN f[s] ELSE any[s]]
  <1>1. \A s \in Settings : any[s] \in Values[s]
    BY SettingsFacts
  <1> HIDE DEF any
  <1>2. g = [s \in Settings |-> g[s]] /\ \A s \in Settings : g[s] \in Values[s]
    BY <1>1
  <1>3. \A s \in D : g[s] = f[s]
    OBVIOUS
  <1> HIDE DEF g
  <1>4. g \in Complete
    BY <1>2, CompleteFacts
  <1>5. f = [s \in D |-> g[s]]
    BY <1>3
  <1> QED BY <1>4, <1>5 DEF Files

LEMMA CompleteAreFiles == \A f \in Complete : f \in Files /\ DOMAIN f = Settings
  <1> SUFFICES ASSUME NEW f \in Complete PROVE f \in Files /\ DOMAIN f = Settings
    OBVIOUS
  <1>1. f = [s \in Settings |-> f[s]] /\ \A s \in Settings : f[s] \in Values[s]
    BY CompleteFacts
  <1>2. DOMAIN f = Settings
    BY <1>1
  <1> QED BY <1>1, <1>2, FileMade

LEMMA NothingFacts == Nothing \in Files /\ DOMAIN Nothing = {}
  <1>1. Nothing = [s \in {} |-> Nothing[s]] /\ DOMAIN Nothing = {}
    BY DEF Nothing
  <1> QED BY <1>1, FileMade

LEMMA OverIsFile ==
  ASSUME NEW f \in Files, NEW g \in Files
  PROVE  Over(f, g) \in Files
  <1>1. /\ DOMAIN f \subseteq Settings /\ \A s \in DOMAIN f : f[s] \in Values[s]
        /\ DOMAIN g \subseteq Settings /\ \A s \in DOMAIN g : g[s] \in Values[s]
    BY FileFacts
  <1>2. \A s \in DOMAIN f \cup DOMAIN g : Over(f, g)[s] \in Values[s]
    BY <1>1 DEF Over
  <1>3. Over(f, g) = [s \in DOMAIN f \cup DOMAIN g |-> Over(f, g)[s]]
    BY DEF Over
  <1> QED BY <1>1, <1>2, <1>3, FileMade

LEMMA DefaultsFacts ==
  /\ Defaults \in Complete /\ Defaults \in Files /\ DOMAIN Defaults = Settings
  /\ LoadDefaults \in Complete /\ DOMAIN LoadDefaults = Settings
  /\ Defaults.url = FALSE /\ LoadDefaults.url = FALSE
  /\ Defaults # Nothing
  <1>1. Defaults \in Complete /\ LoadDefaults \in Complete
        /\ Defaults.url = FALSE /\ LoadDefaults.url = FALSE
    BY SettingsFacts DEF Defaults, LoadDefaults, Complete
  <1>2. DOMAIN Defaults # {}
    BY DEF Defaults
  <1> QED BY <1>1, <1>2, CompleteAreFiles, NothingFacts

(* _fill_missing: everything is there, and what was there is as it was.  A  *)
(* file that has everything is returned as it is.                           *)
LEMMA FillMissingFacts ==
  ASSUME NEW f \in Files
  PROVE  /\ FillMissing(f) \in Files
         /\ DOMAIN FillMissing(f) = Settings
         /\ \A s \in DOMAIN f : FillMissing(f)[s] = f[s]
         /\ "url" \notin DOMAIN f => FillMissing(f).url = FALSE
         /\ DOMAIN f = Settings => FillMissing(f) = f
  <1>1. DOMAIN f \subseteq Settings /\ f = [s \in DOMAIN f |-> f[s]]
    BY FileFacts
  <1>2. /\ DOMAIN FillMissing(f) = Settings /\ FillMissing(f) \in Files
        /\ \A s \in DOMAIN f : FillMissing(f)[s] = f[s]
        /\ \A s \in Settings \ DOMAIN f : FillMissing(f)[s] = Defaults[s]
    <2>1. DOMAIN f \cup DOMAIN Defaults = Settings
      BY <1>1, DefaultsFacts
    <2>2. FillMissing(f) = Over(f, Defaults) /\ Defaults \in Files
      BY DefaultsFacts DEF FillMissing
    <2>3. Over(f, Defaults) \in Files
      BY <2>2, OverIsFile
    <2>4. /\ DOMAIN Over(f, Defaults) = Settings
          /\ \A s \in DOMAIN f : Over(f, Defaults)[s] = f[s]
          /\ \A s \in Settings \ DOMAIN f : Over(f, Defaults)[s] = Defaults[s]
      BY <2>1, DefaultsFacts DEF Over
    <2> QED BY <2>2, <2>3, <2>4
  <1>3. "url" \notin DOMAIN f => FillMissing(f).url = FALSE
    BY <1>2, DefaultsFacts, SettingsFacts
  <1>4. FillMissing(f) = [s \in Settings |-> FillMissing(f)[s]]
    BY <1>2, FileFacts
  <1>5. DOMAIN f = Settings => FillMissing(f) = f
    BY <1>1, <1>2, <1>4
  <1> QED BY <1>2, <1>3, <1>5

LEMMA SetFacts ==
  ASSUME NEW f \in Files, NEW s \in Settings, NEW v \in Values[s]
  PROVE  /\ Set(f, s, v) \in Files
         /\ DOMAIN Set(f, s, v) = DOMAIN f \cup {s}
         /\ Set(f, s, v)[s] = v
         /\ \A t \in DOMAIN f \ {s} : Set(f, s, v)[t] = f[t]
  <1> DEFINE one == [t \in {s} |-> v]
  <1>1. one = [t \in {s} |-> one[t]] /\ DOMAIN one = {s} /\ one[s] = v
    OBVIOUS
  <1> HIDE DEF one
  <1>2. one \in Files
    BY <1>1, FileMade
  <1>3. Set(f, s, v) = Over(one, f)
    BY DEF Set, one
  <1>4. /\ DOMAIN Over(one, f) = {s} \cup DOMAIN f
        /\ Over(one, f)[s] = v
        /\ \A t \in DOMAIN f \ {s} : Over(one, f)[t] = f[t]
    BY <1>1 DEF Over
  <1>5. Over(one, f) \in Files
    BY <1>2, OverIsFile
  <1> QED BY <1>3, <1>4, <1>5

(* The setup program's URL keeps all but the switches.                      *)
LEMMA SetUrlFacts ==
  ASSUME NEW f \in Files
  PROVE  /\ SetUrl(f) \in Files /\ DOMAIN f \subseteq DOMAIN SetUrl(f)
         /\ \A s \in DOMAIN f \ Switches : SetUrl(f)[s] = f[s]
         /\ \A s \in DOMAIN SetUrl(f) \cap {"options", "url"} : SetUrl(f)[s] = TRUE
  <1>0. DOMAIN f \subseteq Settings /\ \A s \in DOMAIN f : f[s] \in Values[s]
    BY FileFacts
  <1>1. CASE "options" \notin DOMAIN f
    <2> DEFINE on == [options |-> TRUE, url |-> TRUE]
    <2>1. /\ DOMAIN on = {"options", "url"} /\ on = [s \in {"options", "url"} |-> on[s]]
          /\ on["options"] = TRUE /\ on["url"] = TRUE
      OBVIOUS
    <2>2. SetUrl(f) = Over(on, f)
      BY <1>1 DEF SetUrl
    <2> HIDE DEF on
    <2>3. on \in Files
      <3>1. \A s \in {"options", "url"} : s \in Settings /\ on[s] \in Values[s]
        BY <2>1, SettingsFacts
      <3>2. {"options", "url"} \in SUBSET Settings
        BY <3>1
      <3> QED BY <2>1, <3>1, <3>2, FileMade
    <2>4. /\ DOMAIN SetUrl(f) = {"options", "url"} \cup DOMAIN f
          /\ \A s \in {"options", "url"} : SetUrl(f)[s] = on[s]
          /\ \A s \in DOMAIN f \ {"options", "url"} : SetUrl(f)[s] = f[s]
      BY <2>1, <2>2 DEF Over
    <2>5. SetUrl(f) \in Files
      BY <2>2, <2>3, OverIsFile
    <2> QED BY <2>1, <2>4, <2>5 DEF Switches
  <1>2. CASE "options" \in DOMAIN f
    <2>1. SetUrl(f) = [s \in DOMAIN f |-> IF s \in {"hours", "options", "url"} THEN TRUE ELSE f[s]]
      BY <1>2 DEF SetUrl
    <2>2. /\ DOMAIN SetUrl(f) = DOMAIN f
          /\ \A s \in DOMAIN f \cap Switches : SetUrl(f)[s] = TRUE
          /\ \A s \in DOMAIN f \ Switches : SetUrl(f)[s] = f[s]
          /\ SetUrl(f) = [s \in DOMAIN f |-> SetUrl(f)[s]]
      BY <2>1 DEF Switches
    <2>3. \A s \in DOMAIN f : SetUrl(f)[s] \in Values[s]
      BY <1>0, <2>2, SettingsFacts DEF Switches
    <2>4. SetUrl(f) \in Files
      BY <1>0, <2>2, <2>3, FileMade
    <2> QED BY <2>2, <2>4 DEF Switches
  <1> QED BY <1>1, <1>2

(* load_config fills in what is missing and has every setting.              *)
LEMMA LoadedFacts ==
  ASSUME NEW h \in Files, NEW e \in Environments
  PROVE  LET raw == Over(h, LoadDefaults)
         IN  /\ Loaded(h, e) \in Running
             /\ Loaded(h, e).url = OptionsUrl(raw.url, e)
             /\ Loaded(h, e).options = (raw.options \/ OptionsUrl(raw.url, e) # "")
             /\ Loaded(h, e).target = ParsedTarget(raw.target)
             /\ \A s \in {"dry_run", "hours"} : Loaded(h, e)[s] = raw[s]
  <1> DEFINE raw == Over(h, LoadDefaults)
             url == OptionsUrl(raw.url, e)
  <1>1. raw \in Files /\ DOMAIN raw = Settings
    <2>1. DOMAIN h \subseteq Settings /\ LoadDefaults \in Files
      BY FileFacts, DefaultsFacts, CompleteAreFiles
    <2>2. raw \in Files
      BY <2>1, OverIsFile
    <2>3. DOMAIN raw = DOMAIN h \cup Settings
      BY DefaultsFacts DEF raw, Over
    <2> QED BY <2>1, <2>2, <2>3
  <1>2. raw = [s \in Settings |-> raw[s]] /\ \A s \in Settings : raw[s] \in Values[s]
    BY <1>1, FileFacts
  <1>3. Loaded(h, e) = [raw EXCEPT !.url = url, !.options = raw.options \/ url # "",
                                   !.target = ParsedTarget(raw.target)]
    BY DEF Loaded
  <1>4. url \in {"", "of the file", "of the environment"}
    BY <1>2, SettingsFacts DEF OptionsUrl, Environments
  <1>5. ParsedTarget(raw.target) \in Values["target"]
    BY <1>2, SettingsFacts DEF ParsedTarget
  <1> HIDE DEF raw, url
  <1>6. /\ DOMAIN Loaded(h, e) = Settings
        /\ Loaded(h, e) = [s \in Settings |-> Loaded(h, e)[s]]
        /\ Loaded(h, e).url = url
        /\ Loaded(h, e).options = (raw.options \/ url # "")
        /\ Loaded(h, e).target = ParsedTarget(raw.target)
        /\ \A s \in {"dry_run", "hours"} : Loaded(h, e)[s] = raw[s]
    BY <1>2, <1>3, SettingsFacts
  <1>7. Loaded(h, e) \in Running
    <2>1. /\ Loaded(h, e).dry_run \in BOOLEAN /\ Loaded(h, e).hours \in BOOLEAN
          /\ Loaded(h, e).options \in BOOLEAN
      BY <1>2, <1>6, SettingsFacts
    <2> QED BY <1>4, <1>5, <1>6, <2>1, SettingsFacts DEF Running
  <1> QED BY <1>6, <1>7 DEF raw, url

(* It makes of a file what it makes of the settings chosen in it, when the  *)
(* URL of the others is blank.                                              *)
LEMMA LoadedAsChosen ==
  ASSUME NEW f \in Files, NEW g \in Files, NEW e \in Environments,
         \A s \in DOMAIN g : s \in DOMAIN f /\ f[s] = g[s],
         "url" \in DOMAIN f \ DOMAIN g => f.url = FALSE,
         NEW s \in DOMAIN g
  PROVE  Loaded(f, e)[s] = Loaded(g, e)[s]
  <1> DEFINE raw == Over(f, LoadDefaults)
             few == Over(g, LoadDefaults)
  <1>0. DOMAIN f \subseteq Settings /\ DOMAIN g \subseteq Settings
    BY FileFacts
  <1>1. raw[s] = few[s]
    BY DEF raw, few, Over
  <1>2. raw.url = few.url
    <2>1. CASE "url" \in DOMAIN g
      BY <2>1 DEF raw, few, Over
    <2>2. CASE "url" \notin DOMAIN g
      <3>1. "url" \in DOMAIN LoadDefaults /\ LoadDefaults["url"] = FALSE
        BY DefaultsFacts, SettingsFacts
      <3>2. few["url"] = FALSE
        BY <2>2, <3>1 DEF few, Over
      <3>3. raw["url"] = FALSE
        BY <2>2, <3>1 DEF raw, Over
      <3> QED BY <3>2, <3>3
    <2> QED BY <2>1, <2>2
  <1>3. /\ Loaded(f, e).url = OptionsUrl(raw.url, e)
        /\ Loaded(g, e).url = OptionsUrl(few.url, e)
        /\ Loaded(f, e).options = (raw.options \/ OptionsUrl(raw.url, e) # "")
        /\ Loaded(g, e).options = (few.options \/ OptionsUrl(few.url, e) # "")
        /\ Loaded(f, e).target = ParsedTarget(raw.target)
        /\ Loaded(g, e).target = ParsedTarget(few.target)
        /\ \A t \in {"dry_run", "hours"} : Loaded(f, e)[t] = raw[t] /\ Loaded(g, e)[t] = few[t]
    BY LoadedFacts
  <1> HIDE DEF raw, few
  <1>4. s \in {"dry_run", "hours", "options", "url", "target"}
    BY <1>0, SettingsFacts
  <1> QED BY <1>1, <1>2, <1>3, <1>4

-----------------------------------------------------------------------------
(* ConfigFile: the steps.                                                   *)
LEMMA TypeFacts ==
  ASSUME FileTypeOK
  PROVE  /\ Readable <=> file \in Files
         /\ ~Readable <=> file \in {Missing, Torn}
         /\ Missing \notin Files /\ Torn \notin Files /\ Missing # Torn
         /\ MaxEdits \in Nat
  BY ConfigAssumption DEF FileTypeOK, Readable, ConfigAssumption

(* What a start decides to write is the file, completed; with no file there *)
(* is no choice to keep.                                                    *)
LEMMA MergedFacts ==
  ASSUME FileTypeOK
  PROVE  /\ Merged \in Files
         /\ Merged # Nothing /\ (raced \/ ChoicesKept) =>
               /\ file # Torn /\ (Readable => DOMAIN file # Settings)
               /\ raced \/ (Carries(Merged, DOMAIN chosen) /\ NoUrl(Merged))
  <1>1. CASE file = Missing
    <2>1. Merged = Defaults /\ ~Readable
      BY <1>1, TypeFacts DEF Merged, Readable
    <2>2. file # Torn
      BY <1>1, TypeFacts
    <2>3. ChoicesKept => raced \/ DOMAIN chosen = {}
      BY <2>1, <2>2 DEF ChoicesKept, ChoicesSurvive
    <2>4. Defaults \in Files /\ Defaults.url = FALSE
      BY DefaultsFacts
    <2> QED BY <2>1, <2>2, <2>3, <2>4 DEF Carries, NoUrl
  <1>2. CASE file = Torn
    <2>1. Merged = Nothing
      BY <1>2, TypeFacts DEF Merged, Readable
    <2> QED BY <2>1, NothingFacts
  <1>3. CASE file \in Files
    <2>1. Readable /\ file # Torn /\ file # Missing
      BY <1>3, TypeFacts
    <2>2. Merged = IF FillMissing(file) # file THEN FillMissing(file) ELSE Nothing
      BY <2>1 DEF Merged
    <2>3. /\ FillMissing(file) \in Files
          /\ \A s \in DOMAIN file : s \in DOMAIN FillMissing(file) /\ FillMissing(file)[s] = file[s]
          /\ "url" \notin DOMAIN file => FillMissing(file).url = FALSE
          /\ DOMAIN file = Settings => FillMissing(file) = file
      <3>1. DOMAIN file \subseteq Settings
        BY <1>3, FileFacts
      <3> QED BY <1>3, <3>1, FillMissingFacts
    <2>4. ASSUME ChoicesKept, ~raced
          PROVE  /\ \A s \in DOMAIN chosen : s \in DOMAIN file /\ file[s] = chosen[s]
                 /\ "url" \in DOMAIN file \ DOMAIN chosen => file.url = FALSE
      BY <2>1, <2>4 DEF ChoicesKept, ChoicesSurvive, NoUrl
    <2>5. ASSUME ChoicesKept, ~raced
          PROVE  Carries(FillMissing(file), DOMAIN chosen) /\ NoUrl(FillMissing(file))
      <3>1. Carries(FillMissing(file), DOMAIN chosen)
        BY <2>3, <2>4, <2>5 DEF Carries
      <3>2. ASSUME "url" \notin DOMAIN chosen PROVE FillMissing(file).url = FALSE
        <4>1. CASE "url" \in DOMAIN file
          BY <2>3, <2>4, <2>5, <3>2, <4>1
        <4>2. CASE "url" \notin DOMAIN file
          BY <2>3, <4>2
        <4> QED BY <4>1, <4>2
      <3> QED BY <3>1, <3>2 DEF NoUrl
    <2>6. Merged \in Files
      BY <2>2, <2>3, NothingFacts
    <2>7. Merged # Nothing => Merged = FillMissing(file) /\ FillMissing(file) # file
      BY <2>2
    <2> QED BY <2>1, <2>3, <2>5, <2>6, <2>7
  <1> QED BY <1>1, <1>2, <1>3 DEF FileTypeOK

LEMMA FileInitHolds == FileInit => ConfigInv
  <1> SUFFICES ASSUME FileInit PROVE ConfigInv
    OBVIOUS
  <1>0. file \in Files \cup {Missing} /\ Missing \notin Files /\ Torn \notin Files
        /\ Missing # Torn /\ MaxEdits \in Nat /\ Nothing \in Files
    BY ConfigAssumption, NothingFacts DEF FileInit, ConfigAssumption
  <1>1. /\ file = Missing => chosen = Nothing
        /\ file # Missing => chosen = file
        /\ start = [at |-> "off", held |-> Nothing]
        /\ setup = [at |-> "off", text |-> Nothing, withUrl |-> FALSE]
        /\ config = Nothing /\ raced = FALSE /\ edits = 0
    BY DEF FileInit
  <1>2. FileTypeOK
    <2>0. env \in Environments
      BY DEF FileInit
    <2>1. chosen \in Files
      BY <1>0, <1>1
    <2>2. start \in [at : {"off", "write", "truncated", "load", "up", "failed"}, held : Files]
      BY <1>0, <1>1
    <2>3. setup \in [at : {"off", "write", "truncated"}, text : Files \cup {Torn},
                     withUrl : BOOLEAN]
      BY <1>0, <1>1
    <2>4. raced \in BOOLEAN
      BY <1>1
    <2>5. edits \in 0..MaxEdits
      BY <1>0, <1>1
    <2> QED BY <1>0, <1>1, <2>0, <2>1, <2>2, <2>3, <2>4, <2>5 DEF FileTypeOK
  <1>3. ChoicesSurvive
    BY <1>0, <1>1, NothingFacts DEF ChoicesSurvive, Readable
  <1>4. StartCarries /\ SetupCarries
    BY <1>1 DEF StartCarries, SetupCarries, Writing
  <1>5. Readable => NoUrl(file)
    BY <1>1 DEF Readable, NoUrl
  <1>6. start.at # "write"
    BY <1>1
  <1> QED BY <1>2, <1>3, <1>4, <1>5, <1>6 DEF ConfigInv, ChoicesKept

LEMMA EnsureStep == ASSUME ConfigInv, Ensure PROVE ConfigInv'
  <1>0. FileTypeOK /\ Nothing \in Files
    BY NothingFacts DEF ConfigInv
  <1>1. /\ config' = Nothing
        /\ UNCHANGED <<file, env, setup, chosen, raced, edits>>
        /\ \/ start' = [at |-> IF Merged = Nothing THEN "load" ELSE "write", held |-> Merged]
           \/ start' = [at |-> "load", held |-> Nothing]
    BY DEF Ensure
  <1>2. Merged \in Files
    BY <1>0, MergedFacts
  <1>3. start' \in [at : {"load", "write"}, held : Files]
    BY <1>0, <1>1, <1>2
  <1>4. start'.at = "write" => start'.held = Merged /\ Merged # Nothing
    BY <1>1
  <1>5. FileTypeOK'
    BY <1>0, <1>1, <1>3 DEF FileTypeOK
  <1>6. ASSUME ~raced PROVE ChoicesKept'
    <2>1. ChoicesKept
      BY <1>6 DEF ConfigInv
    <2>2. start'.at # "truncated"
      BY <1>3
    <2>3. StartCarries'
      BY <1>0, <1>1, <1>4, <1>6, <2>1, <2>2, MergedFacts
      DEF StartCarries, Writing, Carries, NoUrl
    <2>4. start'.at = "write" /\ Readable => DOMAIN file # Settings
      BY <1>0, <1>4, <2>1, MergedFacts
    <2> QED BY <1>1, <2>1, <2>3, <2>4
            DEF ChoicesKept, ChoicesSurvive, Readable, NoUrl, SetupCarries, Writing, Carries
  <1> QED BY <1>1, <1>5, <1>6 DEF ConfigInv

(* The steps that leave what the choices are kept in, and do not begin to   *)
(* write.                                                                   *)
LEMMA ElsewhereStep ==
  ASSUME ConfigInv, FileTypeOK', UNCHANGED <<file, chosen, raced>>,
         ~Writing(start)' \/ UNCHANGED start,
         ~Writing(setup)' \/ UNCHANGED setup
  PROVE  ConfigInv'
  <1>1. ASSUME ~raced PROVE ChoicesKept'
    <2>1. ChoicesKept
      BY <1>1 DEF ConfigInv
    <2>2. ChoicesSurvive' /\ (Readable' => NoUrl(file)')
      BY <2>1 DEF ChoicesKept, ChoicesSurvive, Readable, NoUrl
    <2>3. StartCarries' /\ (start'.at = "write" /\ Readable => DOMAIN file # Settings)
      BY <2>1 DEF ChoicesKept, StartCarries, Writing, Carries, NoUrl
    <2>4. SetupCarries'
      BY <2>1 DEF ChoicesKept, SetupCarries, Writing, Carries, NoUrl
    <2> QED BY <2>2, <2>3, <2>4 DEF ChoicesKept, Readable
  <1> QED BY <1>1 DEF ConfigInv

LEMMA LoadStep == ASSUME ConfigInv, Load \/ Crash PROVE ConfigInv'
  <1>0. /\ FileTypeOK /\ Nothing \in Files
        /\ start \in [at : {"off", "write", "truncated", "load", "up", "failed"}, held : Files]
    BY NothingFacts DEF ConfigInv, FileTypeOK
  <1>1. UNCHANGED <<file, env, setup, chosen, raced, edits>>
    BY DEF Load, Crash
  <1>2. \/ start' = [start EXCEPT !.at = "up"]
        \/ start' = [start EXCEPT !.at = "failed"]
        \/ start' = [at |-> "off", held |-> Nothing]
    BY DEF Load, Crash
  <1>3. start' \in [at : {"up", "failed", "off"}, held : Files]
    BY <1>0, <1>2
  <1>4. config' \in Running \cup {Nothing}
    <2>0. \A h \in Files : Loaded(h, env) \in Running
      BY <1>0, LoadedFacts DEF FileTypeOK
    <2>1. CASE Crash
      BY <2>1 DEF Crash
    <2>2. CASE Load
      <3>1. CASE Readable
        BY <1>0, <2>0, <2>2, <3>1, TypeFacts DEF Load, FileTypeOK
      <3>2. CASE ~Readable
        BY <1>0, <2>0, <2>2, <3>2 DEF Load, FileTypeOK
      <3> QED BY <3>1, <3>2
    <2> QED BY <2>1, <2>2
  <1>5. FileTypeOK'
    BY <1>0, <1>1, <1>3, <1>4 DEF FileTypeOK
  <1>6. ~Writing(start)'
    BY <1>3 DEF Writing
  <1> QED BY <1>1, <1>5, <1>6, ElsewhereStep

LEMMA SetupDiesStep == ASSUME ConfigInv, SetupDies PROVE ConfigInv'
  <1>0. /\ FileTypeOK /\ Nothing \in Files
        /\ setup \in [at : {"off", "write", "truncated"}, text : Files \cup {Torn},
                      withUrl : BOOLEAN]
    BY NothingFacts DEF ConfigInv, FileTypeOK
  <1>1. /\ setup' = [setup EXCEPT !.at = "off", !.text = Nothing]
        /\ UNCHANGED <<file, env, start, config, chosen, raced, edits>>
    BY DEF SetupDies
  <1>2. setup' \in [at : {"off"}, text : Files \cup {Torn}, withUrl : BOOLEAN]
    BY <1>0, <1>1
  <1>3. FileTypeOK'
    BY <1>0, <1>1, <1>2 DEF FileTypeOK
  <1>4. ~Writing(setup)'
    BY <1>2 DEF Writing
  <1> QED BY <1>1, <1>3, <1>4, ElsewhereStep

(* A start's truncation, and the end of its write: with no other writer     *)
(* under way, what is written keeps the choices.                            *)
LEMMA WriteStep == ASSUME ConfigInv, Truncate \/ Finish PROVE ConfigInv'
  <1>0. /\ FileTypeOK /\ raced \in BOOLEAN /\ Torn \notin Files /\ Missing \notin Files
        /\ start \in [at : {"off", "write", "truncated", "load", "up", "failed"}, held : Files]
        /\ Missing # Torn
    BY TypeFacts DEF ConfigInv, FileTypeOK
  <1>1. /\ Writing(start) /\ raced' = (raced \/ Writing(setup))
        /\ UNCHANGED <<env, config, setup, chosen, edits>>
        /\ \/ start'.at = "truncated" /\ start'.held = start.held /\ file' = Torn
           \/ start'.at \in {"failed", "load"} /\ start'.held = start.held /\ file' = file
           \/ start'.at = "load" /\ start'.held = start.held /\ file' = start.held
        /\ start' \in [at : {"failed", "truncated", "load"}, held : Files]
    BY <1>0 DEF Truncate, Finish, Writing
  <1>2. FileTypeOK'
    <2>1. raced' \in BOOLEAN
      BY <1>1
    <2>2. file' \in Files \cup {Missing, Torn}
      BY <1>0, <1>1 DEF FileTypeOK
    <2> QED BY <1>0, <1>1, <2>1, <2>2 DEF FileTypeOK
  <1>3. ASSUME ~raced' PROVE ChoicesKept'
    <2>1. ~raced /\ ~Writing(setup)
      BY <1>1, <1>3
    <2>2. ChoicesKept /\ Carries(start.held, DOMAIN chosen) /\ NoUrl(start.held)
      BY <1>1, <2>1 DEF ConfigInv, ChoicesKept, StartCarries
    <2>3. ChoicesSurvive' /\ (Readable' => NoUrl(file)')
      <3>1. CASE file' = Torn
        BY <3>1 DEF ChoicesSurvive, Readable
      <3>2. CASE file' = file
        BY <1>1, <2>1, <2>2, <3>2 DEF ChoicesKept, ChoicesSurvive, Readable, NoUrl
      <3>3. CASE file' = start.held
        <4>1. file' # Torn /\ file' # Missing
          BY <1>0, <3>3
        <4> QED BY <1>1, <2>2, <3>3, <4>1 DEF ChoicesSurvive, Readable, NoUrl, Carries
      <3> QED BY <1>1, <3>1, <3>2, <3>3
    <2>4. StartCarries'
      BY <1>1, <2>2 DEF StartCarries, Writing, Carries, NoUrl
    <2>5. SetupCarries' /\ start'.at # "write"
      BY <1>1, <2>1 DEF SetupCarries, Writing
    <2> QED BY <2>3, <2>4, <2>5 DEF ChoicesKept
  <1> QED BY <1>2, <1>3 DEF ConfigInv

(* The person: with no writer under way, the file has the choices.          *)
LEMMA PersonStep ==
  ASSUME ConfigInv, NEW f \in Files \cup {Missing, Torn}, NEW c \in Files, Edits(f, c),
         ~raced => \/ f = Torn
                   \/ f = Missing /\ c = Nothing
                   \/ /\ f \in Files /\ \A s \in DOMAIN c : s \in DOMAIN f /\ f[s] = c[s]
                      /\ "url" \in DOMAIN f \ DOMAIN c => f.url = FALSE
  PROVE  ConfigInv'
  <1>0. /\ FileTypeOK /\ Torn \notin Files /\ Missing \notin Files /\ Missing # Torn
        /\ MaxEdits \in Nat /\ edits \in 0..MaxEdits
    BY TypeFacts DEF ConfigInv, FileTypeOK
  <1>1. /\ edits < MaxEdits /\ edits' = edits + 1 /\ file' = f /\ chosen' = c
        /\ raced' = (raced \/ Writing(start) \/ Writing(setup))
        /\ UNCHANGED <<env, start, config, setup>>
    BY DEF Edits
  <1>2. FileTypeOK'
    <2>1. raced' \in BOOLEAN
      BY <1>1
    <2>2. edits' \in 0..MaxEdits
      BY <1>0, <1>1
    <2> QED BY <1>0, <1>1, <2>1, <2>2 DEF FileTypeOK
  <1>3. ASSUME ~raced' PROVE ChoicesKept'
    <2>1. ~raced /\ ~Writing(start)' /\ ~Writing(setup)'
      BY <1>1, <1>3 DEF Writing
    <2>2. ChoicesSurvive' /\ (Readable' => NoUrl(file)')
      BY <1>0, <1>1, <2>1, NothingFacts DEF ChoicesSurvive, Readable, NoUrl
    <2>3. StartCarries' /\ SetupCarries' /\ start'.at # "write"
      BY <2>1 DEF StartCarries, SetupCarries, Writing
    <2> QED BY <2>2, <2>3 DEF ChoicesKept
  <1> QED BY <1>2, <1>3 DEF ConfigInv

LEMMA PersonSteps == ASSUME ConfigInv, Person PROVE ConfigInv'
  <1>0. FileTypeOK /\ chosen \in Files /\ (Readable <=> file \in Files) /\ Nothing \in Files
    BY TypeFacts, NothingFacts DEF ConfigInv, FileTypeOK
  <1>1. CASE Delete
    BY <1>0, <1>1, PersonStep DEF Delete
  <1>2. CASE Break
    BY <1>0, <1>2, PersonStep DEF Break
  <1>3. CASE Repair
    BY <1>0, <1>3, PersonStep DEF Repair
  <1>4. CASE Environ
    <2>1. UNCHANGED <<file, start, config, setup, chosen, raced, edits>> /\ env' \in Environments
      BY <1>4 DEF Environ
    <2>2. FileTypeOK'
      BY <1>0, <2>1 DEF FileTypeOK
    <2> QED BY <2>1, <2>2, ElsewhereStep
  <1>5. ASSUME NEW s \in Settings, NEW v \in Values[s], Change(s, v) PROVE ConfigInv'
    <2>1. file \in Files /\ Readable /\ file # Torn /\ Edits(Set(file, s, v), Set(chosen, s, v))
      BY <1>0, <1>5, TypeFacts DEF Change
    <2>2. /\ Set(file, s, v) \in Files
          /\ DOMAIN Set(file, s, v) = DOMAIN file \cup {s}
          /\ Set(file, s, v)[s] = v
          /\ \A t \in DOMAIN file \ {s} : Set(file, s, v)[t] = file[t]
      BY <2>1, SetFacts
    <2>3. /\ Set(chosen, s, v) \in Files
          /\ DOMAIN Set(chosen, s, v) = DOMAIN chosen \cup {s}
          /\ Set(chosen, s, v)[s] = v
          /\ \A t \in DOMAIN chosen \ {s} : Set(chosen, s, v)[t] = chosen[t]
      BY <1>0, SetFacts
    <2> DEFINE f == Set(file, s, v)
               c == Set(chosen, s, v)
    <2>4. ASSUME ~raced
          PROVE  /\ \A t \in DOMAIN chosen : t \in DOMAIN file /\ file[t] = chosen[t]
                 /\ "url" \in DOMAIN file \ DOMAIN chosen => file.url = FALSE
      BY <2>1, <2>4 DEF ConfigInv, ChoicesKept, ChoicesSurvive, NoUrl
    <2>5. ASSUME ~raced
          PROVE  /\ \A t \in DOMAIN c : t \in DOMAIN f /\ f[t] = c[t]
                 /\ "url" \in DOMAIN f \ DOMAIN c => f.url = FALSE
      BY <2>2, <2>3, <2>4, <2>5
    <2> HIDE DEF f, c
    <2>6. f \in Files /\ c \in Files /\ Edits(f, c)
      BY <2>1, <2>2, <2>3 DEF f, c
    <2> QED BY <2>5, <2>6, PersonStep
  <1> QED BY <1>1, <1>2, <1>3, <1>4, <1>5 DEF Person

(* The setup program reads: of a file that keeps the choices, or of none.   *)
LEMMA SetupReadsStep ==
  ASSUME ConfigInv, NEW u \in BOOLEAN, SetupReads(u)
  PROVE  ConfigInv'
  <1> DEFINE text == IF file = Missing THEN Defaults ELSE file
             new == IF u /\ text # Torn THEN SetUrl(text) ELSE text
  <1>0. /\ FileTypeOK /\ Torn \notin Files /\ Missing \notin Files /\ Missing # Torn
        /\ MaxEdits \in Nat /\ edits \in 0..MaxEdits
        /\ Defaults \in Files /\ Defaults.url = FALSE
    BY TypeFacts, DefaultsFacts DEF ConfigInv, FileTypeOK
  <1>1. /\ setup' = [at |-> "write", withUrl |-> u, text |-> new]
        /\ edits < MaxEdits /\ edits' = edits + 1
        /\ UNCHANGED <<file, env, start, config, chosen, raced>>
    BY DEF SetupReads
  <1>2. text \in Files \cup {Torn}
    BY <1>0 DEF FileTypeOK
  <1>3. ASSUME ~raced, text # Torn
        PROVE  /\ \A s \in DOMAIN chosen : s \in DOMAIN text /\ text[s] = chosen[s]
               /\ "url" \in DOMAIN text \ DOMAIN chosen => text.url = FALSE
    <2>1. ChoicesSurvive /\ (Readable => NoUrl(file))
      BY <1>3 DEF ConfigInv, ChoicesKept
    <2>2. CASE file = Missing
      <3>1. DOMAIN chosen = {}
        BY <1>0, <1>3, <2>1, <2>2 DEF ChoicesSurvive, Readable
      <3> QED BY <1>0, <2>2, <3>1
    <2>3. CASE file # Missing
      BY <1>3, <2>1, <2>3 DEF ChoicesSurvive, Readable, NoUrl
    <2> QED BY <2>2, <2>3
  <1> HIDE DEF text
  <1>4. u /\ text # Torn =>
          /\ new \in Files /\ DOMAIN text \subseteq DOMAIN new
          /\ \A s \in DOMAIN text \ Switches : new[s] = text[s]
          /\ \A s \in DOMAIN new \cap {"options", "url"} : new[s] = TRUE
    BY <1>2, SetUrlFacts
  <1>5. ~(u /\ text # Torn) => new = text
    OBVIOUS
  <1> HIDE DEF new
  <1>6. FileTypeOK'
    <2>1. setup' \in [at : {"off", "write", "truncated"}, text : Files \cup {Torn},
                      withUrl : BOOLEAN]
      BY <1>1, <1>2, <1>4, <1>5
    <2>2. edits' \in 0..MaxEdits
      BY <1>0, <1>1
    <2> QED BY <1>0, <1>1, <2>1, <2>2 DEF FileTypeOK
  <1>7. ASSUME ~raced PROVE ChoicesKept'
    <2>0. ChoicesKept
      BY <1>7 DEF ConfigInv
    <2>1. setup'.text = new /\ setup'.withUrl = u
      BY <1>1
    <2>2. ASSUME new # Torn, u PROVE SetupCarries'
      <3>1. text # Torn
        BY <1>5, <2>2
      <3>2. /\ DOMAIN chosen \subseteq DOMAIN new
            /\ \A s \in DOMAIN chosen \ Switches : s \in DOMAIN new /\ new[s] = chosen[s]
        BY <1>3, <1>4, <1>7, <2>2, <3>1
      <3> QED BY <1>1, <1>4, <2>1, <2>2, <3>1, <3>2 DEF SetupCarries, Carries
    <2>3. ASSUME new # Torn, ~u PROVE SetupCarries'
      <3>1. new = text
        BY <1>5, <2>3
      <3> QED BY <1>1, <1>3, <1>7, <2>1, <2>3, <3>1 DEF SetupCarries, Carries, NoUrl
    <2>4. SetupCarries'
      BY <2>1, <2>2, <2>3 DEF SetupCarries
    <2>5. ChoicesSurvive' /\ StartCarries' /\ (Readable' => NoUrl(file)')
          /\ (start'.at = "write" /\ Readable' => DOMAIN file' # Settings)
      BY <1>1, <2>0
      DEF ChoicesKept, ChoicesSurvive, StartCarries, Writing, Carries, Readable, NoUrl
    <2> QED BY <2>4, <2>5 DEF ChoicesKept
  <1> QED BY <1>1, <1>6, <1>7 DEF ConfigInv

LEMMA SetupTruncatesStep == ASSUME ConfigInv, SetupTruncates PROVE ConfigInv'
  <1>0. /\ FileTypeOK /\ Torn \notin Files
        /\ setup \in [at : {"off", "write", "truncated"}, text : Files \cup {Torn},
                      withUrl : BOOLEAN]
    BY TypeFacts DEF ConfigInv, FileTypeOK
  <1>1. /\ Writing(setup) /\ file' = Torn /\ raced' = (raced \/ Writing(start))
        /\ setup'.at = "truncated" /\ setup'.text = setup.text
        /\ setup'.withUrl = setup.withUrl
        /\ setup' \in [at : {"truncated"}, text : Files \cup {Torn}, withUrl : BOOLEAN]
        /\ UNCHANGED <<env, start, config, chosen, edits>>
    BY <1>0 DEF SetupTruncates, Writing
  <1>2. FileTypeOK'
    <2>1. raced' \in BOOLEAN
      BY <1>1
    <2> QED BY <1>0, <1>1, <2>1 DEF FileTypeOK
  <1>3. ASSUME ~raced' PROVE ChoicesKept'
    <2>1. ~raced /\ ~Writing(start)' /\ ChoicesKept
      BY <1>1, <1>3 DEF ConfigInv, Writing
    <2>2. SetupCarries'
      BY <1>1, <2>1 DEF ChoicesKept, SetupCarries, Carries, NoUrl
    <2>3. ChoicesSurvive' /\ ~Readable'
      BY <1>1 DEF ChoicesSurvive, Readable
    <2> QED BY <2>1, <2>2, <2>3 DEF ChoicesKept, StartCarries, Writing
  <1> QED BY <1>2, <1>3 DEF ConfigInv

(* What the person has chosen at the end of a setup with an options URL.    *)
LEMMA SetupFinishesStep == ASSUME ConfigInv, SetupFinishes PROVE ConfigInv'
  <1> DEFINE text == setup.text
             written == DOMAIN text \cap {"options", "url"}
             kept == DOMAIN chosen \ {"hours"}
  <1>0. /\ FileTypeOK /\ Torn \notin Files /\ Missing \notin Files /\ Missing # Torn
        /\ setup \in [at : {"off", "write", "truncated"}, text : Files \cup {Torn},
                      withUrl : BOOLEAN]
        /\ text \in Files \cup {Torn} /\ chosen \in Files /\ Nothing \in Files
    BY TypeFacts, NothingFacts DEF ConfigInv, FileTypeOK
  <1>1. /\ Writing(setup) /\ file' = text /\ raced' = (raced \/ Writing(start))
        /\ setup' \in [at : {"off"}, text : Files \cup {Torn}, withUrl : BOOLEAN]
        /\ UNCHANGED <<env, start, config, edits>>
        /\ chosen' = IF setup.withUrl /\ text # Torn
                     THEN [s \in kept \cup written |-> IF s \in written THEN TRUE ELSE chosen[s]]
                     ELSE chosen
    BY <1>0 DEF SetupFinishes, Writing
  <1>2. ASSUME setup.withUrl, text # Torn
        PROVE  /\ chosen' \in Files
               /\ DOMAIN chosen' = kept \cup written
               /\ \A s \in written : chosen'[s] = TRUE
               /\ \A s \in kept \ written : chosen'[s] = chosen[s]
    <2>1. /\ DOMAIN chosen' = kept \cup written
          /\ \A s \in written : chosen'[s] = TRUE
          /\ \A s \in kept \ written : chosen'[s] = chosen[s]
          /\ chosen' = [s \in kept \cup written |-> chosen'[s]]
      BY <1>1, <1>2
    <2>2. /\ DOMAIN chosen \subseteq Settings
          /\ \A s \in DOMAIN chosen : chosen[s] \in Values[s]
      BY <1>0, FileFacts
    <2>3. \A s \in written : s \in Settings /\ TRUE \in Values[s]
      BY SettingsFacts
    <2>4. \A s \in kept \cup written : chosen'[s] \in Values[s]
      BY <2>1, <2>2, <2>3
    <2>5. kept \cup written \in SUBSET Settings
      BY <2>2, <2>3
    <2> HIDE DEF kept, written
    <2> QED BY <2>1, <2>4, <2>5, FileMade
  <1>3. FileTypeOK'
    <2>1. raced' \in BOOLEAN
      BY <1>1
    <2>2. chosen' \in Files
      BY <1>0, <1>1, <1>2
    <2> QED BY <1>0, <1>1, <2>1, <2>2 DEF FileTypeOK
  <1>4. ASSUME ~raced' PROVE ChoicesKept'
    <2>1. ~raced /\ ~Writing(start)' /\ SetupCarries
      BY <1>1, <1>4 DEF ConfigInv, ChoicesKept, Writing
    <2>2. ASSUME text # Torn
          PROVE  /\ \A s \in DOMAIN chosen' : s \in DOMAIN text /\ text[s] = chosen'[s]
                 /\ "url" \in DOMAIN text \ DOMAIN chosen' => text.url = FALSE
      <3>1. CASE setup.withUrl
        <4>1. /\ DOMAIN chosen \subseteq DOMAIN text
              /\ \A s \in DOMAIN chosen \ Switches : text[s] = chosen[s]
              /\ \A s \in written : text[s] = TRUE
          BY <1>1, <2>1, <2>2, <3>1 DEF SetupCarries, Carries
        <4>2. \A s \in kept \ written : s \in DOMAIN chosen \ Switches
          BY <4>1 DEF Switches
        <4> QED BY <1>2, <2>2, <3>1, <4>1, <4>2
      <3>2. CASE ~setup.withUrl
        <4>1. Carries(text, DOMAIN chosen) /\ NoUrl(text) /\ chosen' = chosen
          BY <1>1, <2>1, <2>2, <3>2 DEF SetupCarries
        <4> QED BY <4>1 DEF Carries, NoUrl
      <3> QED BY <3>1, <3>2
    <2>3. text # Torn => Readable'
      BY <1>0, <1>1 DEF Readable
    <2>4. ChoicesSurvive' /\ (Readable' => NoUrl(file)')
      BY <1>1, <2>2, <2>3 DEF ChoicesSurvive, Readable, NoUrl
    <2>5. StartCarries' /\ SetupCarries' /\ start'.at # "write"
      BY <1>1, <2>1 DEF StartCarries, SetupCarries, Writing
    <2> QED BY <2>4, <2>5 DEF ChoicesKept
  <1> QED BY <1>3, <1>4 DEF ConfigInv

LEMMA FileStep == ConfigInv /\ [FileNext]_fileVars => ConfigInv'
  <1> SUFFICES ASSUME ConfigInv, [FileNext]_fileVars PROVE ConfigInv'
    OBVIOUS
  <1>1. CASE Receiver
    BY <1>1, EnsureStep, WriteStep, LoadStep DEF Receiver
  <1>2. CASE Setup
    BY <1>2, SetupReadsStep, SetupTruncatesStep, SetupFinishesStep, SetupDiesStep DEF Setup
  <1>3. CASE Person
    BY <1>3, PersonSteps
  <1>4. CASE UNCHANGED fileVars
    <2>1. FileTypeOK'
      BY <1>4 DEF fileVars, ConfigInv, FileTypeOK
    <2> QED BY <1>4, <2>1, ElsewhereStep DEF fileVars
  <1> QED BY <1>1, <1>2, <1>3, <1>4 DEF FileNext

(* In every behaviour, what is being written by one writer alone keeps what *)
(* the person has chosen.                                                   *)
THEOREM FileInvariant == FileSpec => []ConfigInv
  BY FileInitHolds, FileStep, PTL DEF FileSpec

(* A start's completion of the file, an upgrade and a death at any point of *)
(* either lose no choice, whatever the files of earlier versions have and   *)
(* however many edits and setups there are.                                 *)
THEOREM NoChoiceLost == FileSpec => []ChoicesSurvive
  <1>1. ConfigInv => ChoicesSurvive
    BY DEF ConfigInv, ChoicesKept, ChoicesSurvive
  <1> QED BY <1>1, FileInvariant, PTL

(* load_config starts the receiver on what the person has chosen, under the *)
(* environment of its process, or it fails: never on a default in place of  *)
(* a choice.                                                                *)
THEOREM RunsAsChosen == FileSpec => StartsAsChosen
  <1>1. ASSUME ConfigInv, [FileNext]_fileVars, config' # config, config' # Nothing, ~raced
        PROVE  \A s \in DOMAIN chosen : config'[s] = Loaded(chosen, env)[s]
    <2>0. FileTypeOK /\ ChoicesKept /\ chosen \in Files /\ env \in Environments
      BY <1>1 DEF ConfigInv, FileTypeOK
    <2>1. Load
      BY <1>1 DEF FileNext, Receiver, Setup, Person, Ensure, Truncate, Finish, Crash,
                  SetupReads, SetupTruncates, SetupFinishes, SetupDies,
                  Change, Delete, Break, Repair, Environ, Edits, fileVars
    <2>2. file # Torn /\ config' = Loaded(IF Readable THEN file ELSE Nothing, env)
      BY <1>1, <2>1 DEF Load, Loads
    <2>3. CASE Readable
      <3>1. /\ \A s \in DOMAIN chosen : s \in DOMAIN file /\ file[s] = chosen[s]
            /\ "url" \in DOMAIN file \ DOMAIN chosen => file.url = FALSE
        BY <1>1, <2>0, <2>2, <2>3 DEF ChoicesKept, ChoicesSurvive, NoUrl
      <3>2. file \in Files /\ config' = Loaded(file, env)
        BY <2>0, <2>2, <2>3, TypeFacts
      <3> QED BY <2>0, <3>1, <3>2, LoadedAsChosen
    <2>4. CASE ~Readable
      BY <1>1, <2>0, <2>2, <2>4 DEF ChoicesKept, ChoicesSurvive
    <2> QED BY <2>3, <2>4
  <1>2. ConfigInv /\ [FileNext]_fileVars =>
          [config' # config /\ config' # Nothing
           => raced \/ \A s \in DOMAIN chosen : config'[s] = Loaded(chosen, env)[s]]_fileVars
    BY <1>1
  <1> QED BY <1>2, FileInvariant, PTL DEF FileSpec, StartsAsChosen

(* ensure_config_file never truncates a file that has every setting.        *)
THEOREM LeavesCompleteFiles == FileSpec => CompleteFilesAreLeftAlone
  <1>1. ASSUME ConfigInv, [FileNext]_fileVars,
               start.at = "write", file' # file, Readable, ~raced'
        PROVE  DOMAIN file # Settings
    <2>1. Writing(start)
      BY <1>1 DEF Writing
    <2>2. ~raced
      BY <1>1, <2>1 DEF FileNext, Receiver, Setup, Person, Ensure, Truncate, Finish, Crash,
                  Load, SetupReads, SetupTruncates, SetupFinishes, SetupDies,
                  Change, Delete, Break, Repair, Environ, Edits, fileVars
    <2> QED BY <1>1, <2>2 DEF ConfigInv, ChoicesKept
  <1>2. ConfigInv /\ [FileNext]_fileVars =>
          [start.at = "write" /\ file' # file /\ Readable
           => raced' \/ DOMAIN file # Settings]_fileVars
    BY <1>1
  <1> QED BY <1>2, FileInvariant, PTL DEF FileSpec, CompleteFilesAreLeftAlone
=============================================================================
