---------------------------- MODULE CommandPath ----------------------------
(* One command on its way: a POST /webhook or POST /signal, the checks of   *)
(* the receiver, the line the add-on reads, the symbol Sierra Chart trades  *)
(* and the envelope for the options receiver.  The data only: what is       *)
(* refused as a duplicate or for a rule, and what fails, is in Receiver.    *)
EXTENDS SignalParsing

CONSTANTS Commands,     \* bodies of POST /webhook
          Payloads,     \* bodies of POST /signal
          Configs,      \* configurations, with the panel of the add-on
          MaxContracts  \* bound: contracts the flow engine may decide on

(* What JSON can hold in the fields the code looks at.                      *)
JsonNumbers == [is : {"none", "text", "inf", "float", "int"}, n : Int]
Bodies == [id : STRING, action : STRING, orderType : STRING, symbol : STRING,
           ntSymbol : STRING, quantity : JsonNumbers, ticks : JsonNumbers]
JsonPrices == [is : {"missing", "none", "text", "num"}, n : Int]
Fields == [id : STRING, side : STRING, color : STRING, kind : STRING,
           price : JsonPrices, spx : JsonPrices]
SignalBodies == [type : STRING \ {"none"}, nested : BOOLEAN,
                 top : Fields, context : Fields, signal : Fields]

ASSUME PathAssumption ==
    /\ Commands \subseteq Bodies
    /\ Payloads \subseteq SignalBodies
    /\ \A c \in Configs : /\ c.maxQuantity \in Int
                          /\ c.hours.start \in 0..(Day - 1) /\ c.hours.end \in 0..(Day - 1)
    /\ MaxContracts \in Nat

VARIABLES at,          \* "idle", "validate", "forward", "options" or "done"
          config, now, \* config; the time of the day
          payload,     \* the body of a /signal, or NoPayload
          body,        \* the command as _dispatch_command gets it
          command,     \* the normalized command, or NoCommand
          heard,       \* what the add-on made of its line, or NoCommand
          sierra,      \* the symbol Sierra Chart was given, or ""
          envelope,    \* the envelope that was posted, or NoEnvelope
          answer       \* the status of the response

pathVars == <<at, config, now, payload, body, command, heard, sierra, envelope, answer>>

NoPayload == [type |-> "none", nested |-> FALSE, top |-> NoFields, context |-> NoFields, signal |-> NoFields]
NoCommand == [id |-> ""]

PathInit ==
    /\ at = "idle" /\ config \in Configs /\ now \in 0..(Day - 1)
    /\ payload = NoPayload /\ body = NoCommand /\ command = NoCommand
    /\ heard = NoCommand /\ sierra = "" /\ envelope = NoEnvelope /\ answer = ""

Answered(status) == at' = "done" /\ answer' = status

(* POST /webhook.                                                           *)
Webhook(b) ==
    /\ at = "idle" /\ at' = "validate"
    /\ body' = b
    /\ UNCHANGED <<config, now, payload, command, heard, sierra, envelope, answer>>

(* POST /signal, for a signal that parses, has a direction and is let pass  *)
(* by the engine, with the contracts it decides on.                         *)
Signal(p, contracts) ==
    /\ at = "idle"
    /\ payload' = p
    /\ IF ~Parses(p) THEN Answered("invalid") /\ UNCHANGED body
       ELSE IF Direction(p) = "" THEN Answered("blocked") /\ UNCHANGED body
       ELSE /\ at' = "validate"
            /\ body' = FlowCommand(p, config, contracts)
            /\ UNCHANGED answer
    /\ UNCHANGED <<config, now, command, heard, sierra, envelope>>

(* normalize_and_validate.                                                  *)
Validate ==
    /\ at = "validate"
    /\ IF Valid(body, config, now)
       THEN /\ at' = "forward" /\ command' = Normalized(body, config)
            /\ UNCHANGED answer
       ELSE /\ Answered(IF Raises(body, config, now) THEN "server error" ELSE "invalid")
            /\ UNCHANGED command
    /\ UNCHANGED <<config, now, payload, body, heard, sierra, envelope>>

(* forward_command with target both: NinjaTrader takes the line, Sierra     *)
(* Chart the order, unless its settings do not do for one.                  *)
Forward ==
    /\ at = "forward"
    /\ heard' = Heard(command)
    /\ sierra' = IF SierraOk(command, config)
                 THEN Strip(SierraSymbol(command, config)) ELSE ""
    /\ answer' = IF SierraOk(command, config) THEN "accepted" ELSE "partial"
    /\ at' = IF payload # NoPayload /\ config.options.on THEN "options" ELSE "done"
    /\ UNCHANGED <<config, now, payload, body, command, envelope>>

(* build_options_envelope and forward_options_envelope, when it is posted;  *)
(* without a price, a URL or a key there is an error in the response.       *)
Options ==
    /\ at = "options" /\ at' = "done"
    /\ envelope' = IF config.options.url /\ config.options.key THEN Envelope(payload)
                   ELSE NoEnvelope
    /\ UNCHANGED <<config, now, payload, body, command, heard, sierra, answer>>

Done ==
    /\ at = "done" /\ at' = "idle"
    /\ payload' = NoPayload /\ body' = NoCommand /\ command' = NoCommand
    /\ heard' = NoCommand /\ sierra' = "" /\ envelope' = NoEnvelope /\ answer' = ""
    /\ UNCHANGED <<config, now>>

PathNext ==
    \/ \E b \in Commands : Webhook(b)
    \/ \E p \in Payloads, n \in 1..MaxContracts : Signal(p, n)
    \/ Validate \/ Forward \/ Options \/ Done

PathSpec == PathInit /\ [][PathNext]_pathVars

-----------------------------------------------------------------------------
Sent == heard # NoCommand

(* The receiver and the add-on check a command each for itself.  What the   *)
(* first lets pass the second accepts, for the same action and with the     *)
(* same bracket: the client was told "accepted" and nobody tells it         *)
(* otherwise.  Four ways out, all of them in the data: an id of white       *)
(* space (present for the one, missing for the other), an action only the   *)
(* configuration knows, a panel without an instrument, and ticks that do    *)
(* not fit an int.                                                          *)
AcceptedIsAccepted ==
    Sent => /\ ListenerAccepts(heard, config.panel)
               \/ command.id = "" \/ Strip(config.panel) = ""
               \/ command.action \notin {"BUY", "SELL", "EXIT_LONG", "EXIT_SHORT", "FLATTEN"}
            /\ heard.action = NormToken(body.action)
            /\ heard.ticks = body.ticks.n \/ ~FitsInt(body.ticks.n)

(* The trading hours go round the clock from their start to their end,      *)
(* both included, over midnight or not: the comparison of three times of    *)
(* the day in the code says the same as the distance from the start.        *)
HoursGoRoundTheClock ==
    config.hours.on =>
       (OpenNow(config.hours, now)
        <=> (now - config.hours.start) % Day <= (config.hours.end - config.hours.start) % Day)

Allows(symbol) == LowerOf(symbol) \in {LowerOf(s) : s \in config.symbols}

(* An order of the flow engine is never turned away for its contents, which *)
(* would give its slot back and let the signal through again: with BUY, SELL*)
(* and MARKET allowed, the flow symbol on the list of symbols if there is   *)
(* one, and "risk.max_quantity at or above flow.base_contracts", only the   *)
(* switch and the hours can refuse it, and nothing in it raises.            *)
FlowOrdersAreValid ==
    payload # NoPayload /\ body # NoCommand /\ answer \in {"invalid", "server error"} =>
       \/ ~config.trading \/ config.hours.on
       \/ body.action \notin config.actions \/ "MARKET" \notin config.orderTypes
       \/ body.quantity.n > config.maxQuantity
       \/ config.symbols # {} /\ ~Allows(Strip(config.flowSymbol))

(* The entries of the Sierra map under a symbol, in any case of it; a blank *)
(* one counts for none.                                                     *)
SierraEntries(symbol) ==
    {config.sierraMap[k] : k \in {k \in DOMAIN config.sierraMap : LowerOf(k) = LowerOf(symbol)}}
Unmapped(symbol) == symbol = "" \/ SierraEntries(symbol) = {} \/ "" \in SierraEntries(symbol)

(* Sierra Chart has no panel that fixes the instrument.  What it trades is  *)
(* what the checked alert names, never another alert's: without a symbol    *)
(* the configured one; otherwise the alert's own entry in Sierra's map, the *)
(* symbol itself if it is written in Sierra's style, or the configured one  *)
(* if neither is there - and with a list of symbols it is the alert's       *)
(* symbol, or the NinjaTrader name it brought or maps to, that is on it.    *)
SierraTradesWhatIsAllowed ==
    sierra # "" =>
       LET symbol == Strip(body.symbol)
           ntName == NtSymbol(body, config)
       IN  /\ config.symbols # {} /\ {symbol, ntName} # {""} =>
                 (symbol # "" /\ Allows(symbol)) \/ (ntName # "" /\ Allows(ntName))
           /\ \/ symbol # "" /\ \E s \in SierraEntries(symbol) : sierra = Strip(s)
              \/ /\ Unmapped(symbol)
                 /\ sierra = IF symbol \in config.sierraStyle THEN symbol
                             ELSE Strip(config.sierraSymbol)

(* A key that is there hides the signal's, whether or not it says anything. *)
Hints(fields) == {fields.side, fields.color, fields.kind} # {Missing}

(* Options follow futures in what they trade: the envelope has the order's  *)
(* id and its direction, and a price of the payload that is positive.  A    *)
(* full envelope goes out as it came, so it agrees as far as it speaks for  *)
(* itself: it has an id, and no key outside its signal, not even a blank    *)
(* one, bears on the direction.                                             *)
EnvelopeFitsOrder ==
    envelope # NoEnvelope =>
       /\ envelope.id = command.id \/ (IsFull(payload) /\ Strip(Given(payload.signal.id)) = "")
       /\ \/ (command.action = "BUY") = (Says(envelope.side, envelope.color, envelope.kind) = "long")
          \/ IsFull(payload) /\ (Hints(payload.top) \/ Hints(payload.context))
       /\ envelope.price > 0
       /\ \E price \in {payload.top.price, payload.top.spx,
                         payload.signal.price, payload.context.price} :
             price.is = "num" /\ price.n = envelope.price

(* What the variables hold at each point of the way: the inductive          *)
(* invariant of the proofs.                                                 *)
AtRest ==
    /\ payload = NoPayload /\ body = NoCommand /\ command = NoCommand
    /\ heard = NoCommand /\ sierra = "" /\ envelope = NoEnvelope /\ answer = ""

Asked ==
    IF payload = NoPayload THEN body \in Commands
    ELSE /\ payload \in Payloads /\ Parses(payload) /\ Direction(payload) # ""
         /\ \E n \in 1..MaxContracts : body = FlowCommand(payload, config, n)

Passed == Valid(body, config, now) /\ command = Normalized(body, config)

Forwarded ==
    /\ heard = Heard(command)
    /\ sierra \in {"", Strip(SierraSymbol(command, config))}
    /\ answer \in {"accepted", "partial"}

PathInv ==
    /\ config \in Configs /\ now \in 0..(Day - 1)
    /\ \/ at = "idle" /\ AtRest
       \/ /\ at = "validate" /\ Asked
          /\ command = NoCommand /\ heard = NoCommand /\ sierra = ""
          /\ envelope = NoEnvelope /\ answer = ""
       \/ /\ at = "done" /\ Asked /\ ~Valid(body, config, now)
          /\ command = NoCommand /\ heard = NoCommand /\ sierra = ""
          /\ envelope = NoEnvelope /\ answer \in {"invalid", "server error"}
       \/ /\ at = "done" /\ payload \in Payloads /\ body = NoCommand
          /\ command = NoCommand /\ heard = NoCommand /\ sierra = ""
          /\ envelope = NoEnvelope /\ answer \in {"invalid", "blocked"}
       \/ /\ at = "forward" /\ Asked /\ Passed
          /\ heard = NoCommand /\ sierra = "" /\ envelope = NoEnvelope /\ answer = ""
       \/ /\ at = "options" /\ Asked /\ Passed /\ Forwarded
          /\ payload # NoPayload /\ envelope = NoEnvelope
       \/ /\ at = "done" /\ Asked /\ Passed /\ Forwarded
          /\ envelope = NoEnvelope \/ (payload # NoPayload /\ envelope = Envelope(payload))
=============================================================================
