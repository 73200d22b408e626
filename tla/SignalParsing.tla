--------------------------- MODULE SignalParsing ---------------------------
(* What a POST /signal says: parse_flow_signal of flow_rules.py, the order  *)
(* the handler makes of it, and the options envelope of                     *)
(* options_forwarder.py.  Operators without state, used by CommandPath.     *)
(*                                                                          *)
(* A payload has a type and three records of the same fields: the top       *)
(* level, its context and its signal; nested says that the signal is a      *)
(* mapping with something in it.  A text is Missing where the key is, and   *)
(* "" where it is there and null or empty.  kind stands for kind, or        *)
(* variant where there is no kind, and is one of two that name a direction  *)
(* or any other.  A price has an is as numbers do: "missing" (no key),      *)
(* "none" (null or empty), "text" (float() refuses it) or "num".  price is  *)
(* currentPrice in the context; only the top level has an spx.              *)
EXTENDS CommandValidation

Missing == "(no key)"
NoPrice == [is |-> "missing", n |-> 0]
NoFields == [id |-> Missing, side |-> Missing, color |-> Missing, kind |-> Missing,
             price |-> NoPrice, spx |-> NoPrice]

Given(text) == IF text = Missing THEN "" ELSE text

(* setdefault: a key that is there keeps its value, be it null or blank.    *)
Default(text, other) == IF text = Missing THEN other ELSE text
DefaultPrice(price, other) == IF price.is = "missing" THEN other ELSE price

(* A text of the payload: the top level's, the context's or the signal's.   *)
MergedField(p, field) ==
    Strip(Given(Default(p.top[field], Default(p.context[field], p.signal[field]))))

(* long wins: any sign of it decides before any sign of short.              *)
Says(side, color, kind) ==
    IF side \in {"long", "below"} \/ color = "green" \/ kind = "cross_long" THEN "long"
    ELSE IF side \in {"short", "above"} \/ color = "red" \/ kind = "cross_short"
    THEN "short" ELSE ""

Direction(p) ==
    Says(MergedField(p, "side"), MergedField(p, "color"), MergedField(p, "kind"))

SignalType(p) ==
    LET kind == MergedField(p, "kind")
    IN  IF kind \in {"cross_long", "cross_short"}
        THEN [long |-> "cross_long", short |-> "cross_short"][Direction(p)]
        ELSE Or(kind, "unknown")

(* _number over price, currentPrice and spxPrice: the first that holds      *)
(* anything, zero included, or the default of 0; a text is an error.        *)
ParsedPrice(p) ==
    LET prices == <<DefaultPrice(p.top.price, p.signal.price), p.context.price, p.top.spx>>
        there == {i \in 1..3 : prices[i].is \in {"num", "text"}}
    IN  IF there = {} THEN [is |-> "num", n |-> 0]
        ELSE prices[CHOOSE i \in there : \A j \in there : i <= j]

Parses(p) == ParsedPrice(p).is # "text"

(* options_signal_id, and the id the handler makes up without one.          *)
StableId(p) ==
    Or(Strip(Given(p.signal.id)), Or(Strip(Given(p.top.id)), Fresh))

(* The command of the handler; contracts is what the engine decided.        *)
FlowCommand(p, config, contracts) ==
    [id |-> StableId(p), action |-> IF Direction(p) = "long" THEN "BUY" ELSE "SELL",
     orderType |-> "MARKET", symbol |-> config.flowSymbol, ntSymbol |-> "",
     quantity |-> [is |-> "int", n |-> contracts], ticks |-> [is |-> "int", n |-> 1]]

-----------------------------------------------------------------------------
NoEnvelope == [id |-> "", price |-> 0, side |-> "", color |-> "", kind |-> ""]

(* _positive_price: what is no number or not positive is passed over.       *)
Positive(price) == price.is = "num" /\ price.n > 0
FirstPositive(a, b, c) ==
    IF Positive(a) THEN a.n ELSE IF Positive(b) THEN b.n
    ELSE IF Positive(c) THEN c.n ELSE 0

IsFull(p) == p.type = "signal" /\ p.nested

EnvelopePrice(p) ==
    IF IsFull(p) THEN FirstPositive(p.signal.price, p.context.price, NoPrice)
    ELSE FirstPositive(p.top.price, p.top.spx, ParsedPrice(p))

(* Mutant of Envelope: the flat envelope repeats the payload's words.       *)
EnvelopeEchoes(p) ==
    [id |-> StableId(p), price |-> EnvelopePrice(p), side |-> Given(p.top.side),
     color |-> Given(p.top.color), kind |-> Given(p.top.kind)]

(* build_options_envelope: a full one goes out as it came in, a flat one is *)
(* made of the decision.  Without a positive price there is none.           *)
Envelope(p) ==
    IF EnvelopePrice(p) = 0 THEN NoEnvelope
    ELSE IF IsFull(p)
    THEN [id |-> Given(p.signal.id), price |-> EnvelopePrice(p),
          side |-> Given(p.signal.side), color |-> Given(p.signal.color),
          kind |-> Given(p.signal.kind)]
    ELSE [id |-> StableId(p), price |-> EnvelopePrice(p), side |-> Direction(p),
          color |-> IF Direction(p) = "long" THEN "green" ELSE "red",
          kind |-> Strip(Or(Given(p.top.kind), SignalType(p)))]
=============================================================================
