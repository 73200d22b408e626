----------------------------- MODULE Receiver -----------------------------
(* The receiver process: POST /webhook and POST /signal of main.py, the     *)
(* dispatch they share, the forwarding of services.py, and a crash or       *)
(* restart between any two steps.                                           *)
(*                                                                          *)
(* Both handlers are coroutines whose only await is the read of the body,   *)
(* so a request, once read, runs to its response before the next one;       *)
(* POST /reset runs on a pool thread and interleaves with it.               *)
(*                                                                          *)
(* Time is abstracted by what DedupeCache and EntryCooldown prove: an id is *)
(* refused while it is in recent, an entry while its side is in cooling,    *)
(* and both forget by themselves.  The flow engine (FlowEngine) is the set  *)
(* of directions the current session has taken.                             *)
EXTENDS Integers, FiniteSets

CONSTANTS Ids,           \* command ids a client chooses
          Fresh,         \* an id the receiver makes up: uuid4
          Configs,       \* configurations the receiver may be started with
          MaxRequests    \* bound: requests in a behaviour

Targets == {"nt", "sc"}
Config == [targets : (SUBSET Targets) \ {{}}, dryRun : BOOLEAN,
           options : BOOLEAN, cooldown : BOOLEAN]

ASSUME ReceiverAssumption ==
    /\ Configs \subseteq Config /\ Configs # {}
    /\ Fresh \notin Ids
    /\ MaxRequests \in Nat

VARIABLES config,      \* config, as loaded by this process
          recent,      \* dedupe: ids accepted less than a window ago
          cooling,     \* entry_cooldown: sides entered less than a cooldown ago
          taken,       \* flow_engine: directions taken in this session
          handler,     \* the request in progress, or Idle
          requests,    \* requests read so far
          handed,      \* history: how often a target was given an id in this
                       \*   process and window
          answer       \* history: how the last flow order of a direction was
                       \*   answered in this process, session and round

vars == <<config, recent, cooling, taken, handler, requests, handed, answer>>

memory  == <<recent, cooling, taken>>
history == <<handed, answer>>

Sides == {"BUY", "SELL"}
Actions == Sides \cup {"FLATTEN"}     \* EXIT_LONG and EXIT_SHORT go its way
Directions == {"long", "short"}
Side(dir) == IF dir = "long" THEN "BUY" ELSE "SELL"
Opposite(side) == IF side = "BUY" THEN "SELL" ELSE "BUY"

(* How a request ends, by the response: 400, 409, 429, 502, 500, and three  *)
(* that are 200.                                                            *)
Refusals == {"invalid", "duplicate", "cooldown"}
Failures == {"unreachable", "server error"}
Successes == {"accepted", "partial"}
Statuses == Refusals \cup Failures \cup Successes \cup {"dry_run"}

Idle == [at |-> "idle"]

(* dir is "none" for /webhook.  returned, failed: the targets whose forward *)
(* returned, or raised what forward_command catches; reached: the targets   *)
(* that were given the command, whatever was raised; kept: no reset or new  *)
(* session came between; inWindow: the id has not been forgotten since (the *)
(* last three are history).                                                 *)
Request == [at : {"gates", "nt", "sc", "settle", "options", "reply"},
            dir : Directions \cup {"none"}, id : Ids \cup {Fresh},
            action : Actions, status : Statuses \cup {"none"},
            returned : SUBSET Targets, failed : SUBSET Targets,
            reached : SUBSET Targets, posted : BOOLEAN,
            kept : BOOLEAN, inWindow : BOOLEAN]

TypeOK ==
    /\ config \in Configs
    /\ recent \subseteq Ids /\ cooling \subseteq Sides
    /\ taken \subseteq Directions
    /\ handler \in {Idle} \cup Request
    /\ requests \in Nat
    /\ handed \in [Ids \X Targets -> Nat]
    /\ answer \in [Directions -> Statuses \cup {"none"}]

NoAnswer == [d \in Directions |-> "none"]
NoneHanded == [x \in Ids \X Targets |-> 0]

Init ==
    /\ config \in Configs
    /\ recent = {} /\ cooling = {} /\ taken = {}
    /\ handler = Idle /\ requests = 0
    /\ handed = NoneHanded /\ answer = NoAnswer

-----------------------------------------------------------------------------
(* A request is read.                                                       *)
Read(dir, id, action) ==
    /\ handler = Idle /\ requests < MaxRequests
    /\ requests' = requests + 1
    /\ handler' = [at |-> "gates", dir |-> dir, id |-> id, action |-> action,
                   status |-> "none", returned |-> {}, failed |-> {},
                   reached |-> {}, posted |-> FALSE,
                   kept |-> TRUE, inWindow |-> TRUE]
    /\ UNCHANGED <<config, recent, cooling, history>>

(* POST /webhook: a command without an id gets a fresh one.                 *)
Webhook(id, action) == Read("none", id, action) /\ UNCHANGED taken

(* POST /signal, when the engine lets the signal pass and takes its slot.   *)
(* A signal that is blocked or malformed changes nothing here.              *)
Signal(id, dir) ==
    /\ dir \notin taken
    /\ Read(dir, id, Side(dir))
    /\ taken' = taken \cup {dir}

-----------------------------------------------------------------------------
(* _dispatch_command up to the forwarding: one step, for no pool thread     *)
(* shares what it reads or writes.                                          *)
Refused(status) == [handler EXCEPT !.at = "settle", !.status = status]

Duplicate == handler.id \in recent

(* Mutant of Remembered: the id is not recorded.                            *)
RememberedNothing == recent

(* The id is spent from here on, whatever becomes of the command.           *)
Remembered == recent \cup ({handler.id} \ {Fresh})

(* An entry starts its side's cooldown and ends the other's.                *)
Entered ==
    IF handler.action \in Sides /\ config.cooldown
    THEN (cooling \ {Opposite(handler.action)}) \cup {handler.action}
    ELSE cooling

(* Mutant of Onward: the dry run is only looked at after the forwarding.    *)
OnwardAnyway ==
    [handler EXCEPT !.at = "nt", !.status = IF config.dryRun THEN "dry_run" ELSE "none"]

Onward == IF config.dryRun THEN Refused("dry_run") ELSE [handler EXCEPT !.at = "nt"]

Gates ==
    /\ handler.at = "gates"
    /\ \/ \* normalize_and_validate: trading disabled, hours, a bad command
          /\ handler' = Refused("invalid")
          /\ UNCHANGED memory
       \/ /\ Duplicate
          /\ handler' = Refused("duplicate")
          /\ UNCHANGED memory
       \/ /\ ~Duplicate /\ handler.action \in cooling
          /\ recent' = Remembered
          /\ handler' = Refused("cooldown")
          /\ UNCHANGED <<cooling, taken>>
       \/ /\ ~Duplicate /\ handler.action \notin cooling
          /\ recent' = Remembered
          /\ cooling' = Entered
          /\ handler' = Onward
          /\ UNCHANGED taken
    /\ UNCHANGED <<config, requests, history>>

-----------------------------------------------------------------------------
(* forward_command: NinjaTrader, then Sierra Chart, as configured.          *)
Reaches(target) ==
    /\ handed' = IF handler.id \in Ids /\ handler.inWindow
                 THEN [handed EXCEPT ![<<handler.id, target>>] = @ + 1] ELSE handed
    /\ UNCHANGED answer

(* What no handler catches: the response is a 500.                          *)
Escapes(req) == [req EXCEPT !.at = "reply", !.status = "server error"]

(* forward_to_ninjatrader: connect, send one line, close.  A command that   *)
(* cannot be encoded raises UnicodeEncodeError before anything is sent.     *)
ForwardNT ==
    /\ handler.at = "nt"
    /\ \/ /\ "nt" \in config.targets
          /\ handler' = [handler EXCEPT !.at = "sc", !.returned = {"nt"},
                                        !.reached = {"nt"}]
          /\ Reaches("nt")
       \/ /\ "nt" \in config.targets
          /\ \/ handler' = [handler EXCEPT !.at = "sc", !.failed = {"nt"}]
             \/ handler' = Escapes(handler)
          /\ UNCHANGED history
       \/ /\ "nt" \notin config.targets
          /\ handler' = [handler EXCEPT !.at = "sc"]
          /\ UNCHANGED history
    /\ UNCHANGED <<config, memory, requests>>

(* forward_to_sierrachart: however the session ends, the order may or may   *)
(* not have reached Sierra Chart (see SierraDtc: an update can be lost,     *)
(* assumed, or somebody else's).                                            *)
ForwardSC ==
    /\ handler.at = "sc"
    /\ \/ /\ "sc" \notin config.targets
          /\ handler' = [handler EXCEPT !.at = "settle"]
          /\ UNCHANGED history
       \/ /\ "sc" \in config.targets
          /\ \E reaches \in BOOLEAN :
               LET after == [handler EXCEPT !.at = "settle",
                               !.reached = @ \cup (IF reaches THEN {"sc"} ELSE {})]
               IN  /\ \/ handler' = [after EXCEPT !.returned = @ \cup {"sc"}]
                      \/ handler' = [after EXCEPT !.failed = @ \cup {"sc"}]
                      \/ handler' = Escapes(after)
                   /\ IF reaches THEN Reaches("sc") ELSE UNCHANGED history
    /\ UNCHANGED <<config, memory, requests>>

(* Mutant of Outcome: errors of the forwarding are dropped.                 *)
OutcomeOptimist == IF handler.status # "none" THEN handler.status ELSE "accepted"

(* The status of the dispatch: partial only for two targets one of which    *)
(* returned.                                                                *)
Outcome ==
    CASE handler.status # "none" -> handler.status
      [] handler.status = "none" /\ handler.failed = {} -> "accepted"
      [] handler.status = "none" /\ handler.failed # {} ->
            IF config.targets = Targets /\ handler.returned # {}
            THEN "partial" ELSE "unreachable"

-----------------------------------------------------------------------------
(* Mutant of Released: a partial order gives the slot back.                 *)
ReleasedIfPartial(status) ==
    IF handler.dir \in Directions /\ status # "accepted"
    THEN taken \ {handler.dir} ELSE taken

(* The rest of the /signal handler.  Everything but an order that was       *)
(* accepted, by one target or by all, gives the slot back.                  *)
Released(status) ==
    IF handler.dir \in Directions /\ status \notin Successes
    THEN taken \ {handler.dir} ELSE taken

(* Mutant of SendsOptions: a dry run is good enough.                        *)
SendsOptionsUnlessFailed ==
    handler.dir \in Directions /\ config.options
    /\ Outcome \notin Refusals \cup Failures

SendsOptions ==
    handler.dir \in Directions /\ config.options /\ Outcome \in Successes

Settle ==
    /\ handler.at = "settle"
    /\ taken' = Released(Outcome)
    /\ handler' = [handler EXCEPT
          !.status = Outcome,
          !.at = IF SendsOptions THEN "options" ELSE "reply"]
    /\ UNCHANGED <<config, recent, cooling, requests, history>>

(* forward_options_envelope.  Its errors are part of the response, and the  *)
(* order stands; anything else that is raised ends in a 500.                *)
PostOptions ==
    /\ handler.at = "options"
    /\ \/ \E sent \in BOOLEAN :
             handler' = [handler EXCEPT !.at = "reply", !.posted = sent]
       \/ handler' = Escapes([handler EXCEPT !.posted = TRUE])
    /\ UNCHANGED <<config, memory, requests, history>>

Reply ==
    /\ handler.at = "reply"
    /\ handler' = Idle
    /\ answer' = IF handler.dir \in Directions /\ handler.kept
                 THEN [answer EXCEPT ![handler.dir] = handler.status] ELSE answer
    /\ UNCHANGED <<config, memory, requests, handed>>

-----------------------------------------------------------------------------
(* A new round for the flow engine: POST /reset on a pool thread, or the    *)
(* next session.  It does not wait for a dispatch in progress.              *)
NewRound ==
    /\ taken' = {} /\ answer' = NoAnswer
    /\ handler' = IF handler = Idle THEN Idle ELSE [handler EXCEPT !.kept = FALSE]
    /\ UNCHANGED <<config, recent, cooling, requests, handed>>

(* Time passes: a window or a cooldown ends.                                *)
ForgetId(id) ==
    /\ recent' = recent \ {id}
    /\ handed' = [x \in Ids \X Targets |-> IF x[1] = id THEN 0 ELSE handed[x]]
    /\ handler' = IF handler # Idle /\ handler.at # "gates" /\ handler.id = id
                  THEN [handler EXCEPT !.inWindow = FALSE] ELSE handler
    /\ UNCHANGED <<config, cooling, taken, requests, answer>>

CoolOff(side) ==
    /\ cooling' = cooling \ {side}
    /\ UNCHANGED <<config, recent, taken, handler, requests, history>>

(* The process ends at any point and a new one starts, perhaps with another *)
(* configuration; nothing it remembered was written down.                   *)
Restart ==
    /\ config' \in Configs
    /\ recent' = {} /\ cooling' = {} /\ taken' = {}
    /\ handler' = Idle
    /\ handed' = NoneHanded /\ answer' = NoAnswer
    /\ UNCHANGED requests

Next ==
    \/ \E id \in Ids \cup {Fresh} :
          \/ \E action \in Actions : Webhook(id, action)
          \/ \E dir \in Directions : Signal(id, dir)
          \/ ForgetId(id)
    \/ Gates \/ ForwardNT \/ ForwardSC \/ Settle \/ PostOptions \/ Reply
    \/ NewRound \/ Restart
    \/ \E side \in Sides : CoolOff(side)

Spec == Init /\ [][Next]_vars

-----------------------------------------------------------------------------
(* No target is given a command id twice within a dedupe window, whichever  *)
(* of the two endpoints the id comes in by, and whatever the first attempt  *)
(* came to, as long as the process lives (a restart forgets: see Bridge).   *)
HandedOncePerWindow == \A x \in Ids \X Targets : handed[x] <= 1

(* A slot of the flow engine and the answer to the order that took it agree *)
(* once the handler is through: the slot is held by an order that was       *)
(* reported as accepted or partial - or by one whose dispatch ended in an   *)
(* exception nobody caught, and by nothing else.                            *)
SlotMatchesAnswer ==
    \A d \in Directions :
        (handler = Idle \/ handler.dir # d)
        => (d \in taken <=> answer[d] \in Successes \cup {"server error"})

(* Options follow futures: the envelope goes out only for a flow order that *)
(* at least one trading target has taken without an error, never for one    *)
(* that was refused, only simulated or unreachable everywhere.              *)
OptionsFollowFutures ==
    handler # Idle /\ (handler.posted \/ handler.at = "options")
    => handler.returned # {} /\ ~config.dryRun /\ handler.dir \in Directions

(* The answer is honest: a command that a gate refused, or that a dry run   *)
(* simulated, has reached nobody; and from a receiver with NinjaTrader      *)
(* alone, "accepted" means that the line is out, and nothing else does.     *)
AnswersAreHonest ==
    handler.at = "reply" =>
        /\ handler.status \in Refusals \cup {"dry_run"} => handler.reached = {}
        /\ config.targets = {"nt"} /\ ~config.options =>
              (handler.status = "accepted" <=> handler.reached = {"nt"})

(* What a request has been through by where it is.                          *)
Progress ==
    /\ handler.at \in {"gates", "nt"} =>
          handler.returned = {} /\ handler.failed = {} /\ handler.reached = {}
    /\ handler.at \in {"gates", "nt", "sc"} => handler.status = "none"
    /\ handler.at \in {"nt", "sc"} => ~config.dryRun
    /\ handler.at = "sc" =>
          /\ handler.returned \cup handler.failed = config.targets \cap {"nt"}
          /\ handler.returned \cap handler.failed = {}
          /\ handler.reached = handler.returned
    /\ handler.at = "settle" =>
          IF handler.status = "none"
          THEN /\ ~config.dryRun
               /\ handler.returned \cup handler.failed = config.targets
               /\ handler.returned \cap handler.failed = {}
               /\ "sc" \notin config.targets => handler.reached = handler.returned
          ELSE /\ handler.status \in Refusals \cup {"dry_run"}
               /\ handler.reached = {}
    /\ handler.at = "options" => handler.status \in Successes /\ config.options
    /\ handler # Idle /\ handler.posted => handler.at = "reply"

(* An id that was handed over is remembered, and the one being handled was  *)
(* handed to nobody whose turn is still to come.                            *)
IdsAreSpent ==
    /\ \A x \in Ids \X Targets : handed[x] > 0 => x[1] \in recent
    /\ handler.at \in {"nt", "sc"} /\ handler.id \in Ids /\ handler.inWindow =>
          /\ handler.id \in recent
          /\ handed[<<handler.id, "sc">>] = 0
          /\ handler.at = "nt" => handed[<<handler.id, "nt">>] = 0

(* The slot of the order being handled: held until it is settled, and gone  *)
(* with the round it belongs to.                                            *)
SlotInHand ==
    handler # Idle /\ handler.dir \in Directions =>
        IF handler.kept
        THEN handler.dir \in taken <=>
                (handler.at = "reply"
                 => handler.status \in Successes \cup {"server error"})
        ELSE handler.dir \notin taken /\ answer[handler.dir] = "none"

(* The inductive invariant of the proofs.                                   *)
IInv == TypeOK /\ Progress /\ IdsAreSpent /\ SlotInHand
        /\ HandedOncePerWindow /\ SlotMatchesAnswer
        /\ OptionsFollowFutures /\ AnswersAreHonest
=============================================================================
