------------------------- MODULE CommandValidation -------------------------
(* What services.py and config.py make of one command, and what the add-on  *)
(* makes of the line it becomes: operators without state, used by           *)
(* CommandPath.                                                             *)
(*                                                                          *)
(* A text is "" when the field is missing, null or empty (Python's falsy),  *)
(* Blank when it is white space only.  A number is what JSON can hold: is   *)
(* says what, n is the integer int() makes of it.                           *)
EXTENDS Integers

CONSTANTS Day,       \* units of time in a day
          IntMax     \* the largest int of the add-on: 2^31 - 1

ASSUME ValidationAssumption == Day \in Nat \ {0} /\ IntMax \in Nat

Blank == " "
Fresh == "uuid4"          \* an id the receiver makes up
Strip(text) == IF text = Blank THEN "" ELSE text

Uppers == [buy |-> "BUY", hold |-> "HOLD", market |-> "MARKET", limit |-> "LIMIT"]
NormToken(text) == IF text \in DOMAIN Uppers THEN Uppers[text] ELSE Strip(text)
Or(text, default) == IF text = "" THEN default ELSE text

(* Mutant of OpenNow: hours over midnight are the hours between.            *)
OpenNowSameDay(hours, now) == hours.start <= now /\ now <= hours.end

OpenNow(hours, now) ==
    IF hours.start <= hours.end
    THEN hours.start <= now /\ now <= hours.end
    ELSE now >= hours.start \/ now <= hours.end

WithinTradingHours(config, now) == config.hours.on => OpenNow(config.hours, now)

(* Mutant of OrderTypeOk: what the configuration allows is supported.       *)
OrderTypeOkAllowed(p, config) == Or(NormToken(p.orderType), "MARKET") \in config.orderTypes

OrderTypeOk(p, config) ==
    /\ Or(NormToken(p.orderType), "MARKET") \in config.orderTypes
    /\ Or(NormToken(p.orderType), "MARKET") = "MARKET"

ActionOk(p, config) == NormToken(p.action) \in config.actions \ {""}

Gates(p, config, now) ==
    /\ config.trading
    /\ WithinTradingHours(config, now)
    /\ ActionOk(p, config) /\ OrderTypeOk(p, config)

(* int() refuses a text and NaN; infinity it answers with an OverflowError, *)
(* which nobody catches.                                                    *)
Converts(number) == number.is \in {"none", "int", "float"}
Overflows(number) == number.is = "inf"

(* Mutant of QuantityOk: the limit itself is too much.                      *)
QuantityOkBelow(p, config) ==
    /\ Converts(p.quantity)
    /\ p.quantity.is = "none" \/ (p.quantity.n > 0 /\ p.quantity.n < config.maxQuantity)

QuantityOk(p, config) ==
    /\ Converts(p.quantity)
    /\ p.quantity.is = "none" \/ (p.quantity.n > 0 /\ p.quantity.n <= config.maxQuantity)

(* Both maps are looked up by the symbol, then by any case of it.           *)
Lower == [ES |-> "es", CL |-> "cl"]
LowerOf(symbol) == IF symbol \in DOMAIN Lower THEN Lower[symbol] ELSE symbol
Mapped(map, symbol) ==
    LET keys == {k \in DOMAIN map : LowerOf(k) = LowerOf(symbol)}
    IN  IF symbol = "" \/ keys = {} THEN ""
        ELSE IF symbol \in keys /\ map[symbol] # "" THEN map[symbol]
        ELSE map[CHOOSE k \in keys : TRUE]

NtSymbol(p, config) == Or(Strip(p.ntSymbol), Mapped(config.symbolMap, Strip(p.symbol)))

(* Mutant of SymbolOk: a symbol that has no mapping is left to the target.  *)
SymbolOkMapped(p, config) ==
    config.symbols # {} /\ NtSymbol(p, config) # "" =>
       \E s \in {Strip(p.symbol), NtSymbol(p, config)} \ {""} :
          LowerOf(s) \in {LowerOf(a) : a \in config.symbols}

SymbolOk(p, config) ==
    config.symbols # {} /\ {Strip(p.symbol), NtSymbol(p, config)} # {""} =>
       \E s \in {Strip(p.symbol), NtSymbol(p, config)} \ {""} :
          LowerOf(s) \in {LowerOf(a) : a \in config.symbols}

(* normalize_and_validate.  ticks stands for the stop's and the target's.   *)
Valid(p, config, now) ==
    /\ Gates(p, config, now)
    /\ QuantityOk(p, config) /\ SymbolOk(p, config)
    /\ Converts(p.ticks)

Raises(p, config, now) ==
    /\ Gates(p, config, now)
    /\ \/ Overflows(p.quantity)
       \/ QuantityOk(p, config) /\ SymbolOk(p, config) /\ Overflows(p.ticks)

Normalized(p, config) ==
    [id |-> Strip(Or(p.id, Fresh)), action |-> NormToken(p.action),
     symbol |-> Strip(p.symbol), ntSymbol |-> NtSymbol(p, config),
     orderType |-> Or(NormToken(p.orderType), "MARKET"),
     quantity |-> IF p.quantity.is = "none" THEN 1 ELSE p.quantity.n,
     ticks |-> p.ticks.n]

(* resolve_sierra_symbol: the map, then a symbol written as Sierra Chart    *)
(* writes them (config.sierraStyle), then the configured one.               *)
SierraSymbol(command, config) ==
    LET mapped == Mapped(config.sierraMap, command.symbol)
    IN  IF mapped # "" THEN mapped
        ELSE IF command.symbol \in config.sierraStyle THEN command.symbol
        ELSE config.sierraSymbol

(* forward_to_sierrachart: what it checks before it connects.               *)
SierraOk(command, config) ==
    /\ 0 < config.sierraQuantity /\ config.sierraQuantity <= config.maxQuantity
    /\ Strip(config.sierraAccount) # ""
    /\ Strip(SierraSymbol(command, config)) # ""

-----------------------------------------------------------------------------
(* The add-on: its reader's Normalize and ReadInt (an integer that is too   *)
(* large reads as 0), then ValidateCommand.  GetPanelQuantity never answers *)
(* less than one; an instrument there may be none, neither in the panel nor *)
(* in its settings.                                                         *)
FitsInt(n) == n \in (-IntMax - 1)..IntMax
Int32(n) == IF FitsInt(n) THEN n ELSE 0

Heard(command) ==
    [id |-> Strip(command.id), action |-> NormToken(command.action),
     orderType |-> Or(NormToken(command.orderType), "MARKET"),
     ticks |-> Int32(command.ticks)]

ListenerAccepts(heard, panelInstrument) ==
    /\ heard.id # "" /\ heard.orderType = "MARKET"
    /\ heard.action \in {"BUY", "SELL", "EXIT_LONG", "EXIT_SHORT", "FLATTEN"}
    /\ Strip(panelInstrument) # ""
=============================================================================
