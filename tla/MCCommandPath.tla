-------------------------- MODULE MCCommandPath --------------------------
EXTENDS CommandPath, TLC

Number(k, i) == [is |-> k, n |-> i]
None == Number("none", 0)
Numbers == {None, Number("text", 0), Number("inf", 0), Number("float", 0),
            Number("int", -1), Number("int", 1), Number("int", 2),
            Number("int", 9), Number("int", -10)}

Plain == [id |-> "a", action |-> "buy", orderType |-> "", symbol |-> "", ntSymbol |-> "",
          quantity |-> None, ticks |-> None]

(* Each field through its cases, alone or with the field it is checked with.*)
MCCommands ==
    {[Plain EXCEPT !.id = i, !.action = a, !.orderType = o] :
        i \in {"", Blank, "a"}, a \in {"", Blank, "buy", "FLATTEN", "hold"},
        o \in {"", Blank, "market", "limit"}}
    \cup {[Plain EXCEPT !.quantity = q, !.ticks = t] : q \in Numbers, t \in Numbers}
    \cup {[Plain EXCEPT !.symbol = s, !.ntSymbol = n] :
            s \in {"", Blank, "ES", "es", "CL", "CL-X", "ES-X"},
            n \in {"", "ES", "ES 09"}}

Flat(i, s, c, k, pr, x) ==
    [NoPayload EXCEPT !.type = "", !.top = [id |-> i, side |-> s, color |-> c, kind |-> k,
                                             price |-> pr, spx |-> x]]

Nested(ti, i, ts, s, c, pr, cp) ==
    [type |-> "signal", nested |-> TRUE, context |-> [NoFields EXCEPT !.price = cp],
     top |-> [NoFields EXCEPT !.id = ti, !.side = ts],
     signal |-> [NoFields EXCEPT !.id = i, !.side = s, !.color = c, !.price = pr]]

Price(n) == [is |-> "num", n |-> n]
NullPrice == [is |-> "none", n |-> 0]
Prices == {NoPrice, NullPrice, [is |-> "text", n |-> 0], Price(0), Price(-1), Price(5)}

(* Flat ones, full ones with something of their own at the top, and both    *)
(* kinds at once: a nested signal in a payload of another type, a context   *)
(* that speaks, a null price that hides the signal's.                       *)
MCPayloads ==
    {Flat(i, s, c, k, pr, x) : i \in {Missing, "a"}, s \in {Missing, "", "long", "above"},
        c \in {Missing, "green", "red"}, k \in {Missing, Blank, "cross_long", "cross_short"},
        pr \in Prices, x \in {NoPrice, Price(6)}}
    \cup {Nested(ti, i, ts, s, c, pr, cp) : ti \in {Missing, "b"}, i \in {Missing, Blank, "a"},
        ts \in {Missing, "", "short"}, s \in {Missing, "long", "short"}, c \in {"green", "red"},
        pr \in Prices, cp \in {NoPrice, Price(7)}}
    \cup {[Nested(Missing, "a", ts, s, "red", pr, Price(7)) EXCEPT
             !.type = t, !.context.side = cs, !.top.price = tp] :
        t \in {"signal", "other"}, ts \in {Missing, "short"}, s \in {"long", "short"},
        cs \in {Missing, "", "below"}, pr \in {NoPrice, Price(5)}, tp \in {NoPrice, NullPrice}}

Base == [trading |-> TRUE, hours |-> [on |-> FALSE, start |-> 0, end |-> 0],
         actions |-> {"BUY", "SELL", "FLATTEN", "HOLD"}, orderTypes |-> {"MARKET", "LIMIT"},
         maxQuantity |-> 2, symbols |-> {"ES", "ES-X"}, symbolMap |-> [ES |-> "ES 09"],
         sierraMap |-> [ES |-> "ES-M"], sierraStyle |-> {"CL-X", "ES-X"},
         sierraSymbol |-> "ES-D", sierraQuantity |-> 1, sierraAccount |-> "Sim1",
         flowSymbol |-> "ES", panel |-> "MES 09",
         options |-> [on |-> TRUE, url |-> TRUE, key |-> TRUE]]

MCConfigs ==
    {Base, [Base EXCEPT !.trading = FALSE], [Base EXCEPT !.symbols = {}],
     [Base EXCEPT !.maxQuantity = 1, !.sierraQuantity = 2],
     [Base EXCEPT !.options.key = FALSE], [Base EXCEPT !.flowSymbol = "CL"],
     [Base EXCEPT !.actions = {"BUY"}], [Base EXCEPT !.orderTypes = {"LIMIT"}],
     [Base EXCEPT !.symbolMap = ("CL-X" :> "es")],
     [Base EXCEPT !.sierraAccount = Blank, !.panel = ""],
     [Base EXCEPT !.sierraMap = [ES |-> ""], !.sierraSymbol = Blank, !.flowSymbol = Blank]}
    \cup {[Base EXCEPT !.hours = [on |-> TRUE, start |-> s, end |-> e]] :
              s \in 0..(Day - 1), e \in 0..(Day - 1)}

(* All hours with one command, all commands at one hour.                    *)
OneAtATime ==
    IF config.hours.on THEN payload = NoPayload /\ body \in {NoCommand, Plain} ELSE now = 0
=============================================================================
