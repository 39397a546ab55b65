------------------------------- MODULE Values -------------------------------
(***************************************************************************)
(* The two conversions of values that may have to give something up: a     *)
(* numeric the server sent, read as a Decimal (to_decimal), and a date and *)
(* time bound as a parameter of the legacy type (to_legacy_datetime).  A   *)
(* behaviour is one of them.                                               *)
(***************************************************************************)
EXTENDS Integers

CONSTANTS
    Numerics,    \* the numerics looked at
    Times,       \* the times looked at, in nanoseconds since midnight
    MaxMantissa, \* the largest mantissa of a Decimal, 2^96 - 1,
    MaxScale,    \* and its largest scale, 28
    NanosPer3,   \* nanoseconds in three ticks of 1/300 s, 10 000 000
    TicksPerDay  \* 300 * 86 400

ASSUME NumericsAssumption == Numerics \subseteq [value : Int, scale : Nat]
ASSUME TimesAssumption == Times \subseteq Nat
ASSUME DecimalAssumption == MaxMantissa \in Nat /\ MaxScale \in Nat
ASSUME TickAssumption == NanosPer3 \in Nat \ {0} /\ TicksPerDay \in Nat \ {0}

\* A time is within its day, but for a leap second.
ASSUME LeapAssumption == \A t \in Times : 3 * t + NanosPer3 < 2 * (TicksPerDay * NanosPer3)

VARIABLES
    doing,   \* which conversion is under way, "done" when it is over
    numeric, \* what the server sent
    value,   \* the loop's locals: the mantissa and the scale tried next,
    scale,
    decimal, \* and how it ended, "none" until it has
    factor,  \* history: by how much the mantissa was divided
    time,    \* the time of day to bind
    legacy   \* as a datetime: the days to add and the tick of that day

readVars == <<numeric, value, scale, decimal, factor>>
bindVars == <<time, legacy>>
vars == <<doing, readVars, bindVars>>

-----------------------------------------------------------------------------
(* to_decimal.                                                             *)

\* Decimal::try_from_i128_with_scale.
Fits(v, s) == -MaxMantissa <= v /\ v <= MaxMantissa /\ s <= MaxScale

Convert ==
    /\ doing = "decimal"
    /\ Fits(value, scale)
    /\ decimal' = "ok"
    /\ doing' = "done"
    /\ UNCHANGED <<numeric, value, scale, factor, bindVars>>

\* Mutant of Refuse: only a scale that is too large is worth reducing.
RefuseEarly ==
    /\ doing = "decimal"
    /\ ~Fits(value, scale)
    /\ scale <= MaxScale \/ value % 10 # 0
    /\ decimal' = "error"
    /\ doing' = "done"
    /\ UNCHANGED <<numeric, value, scale, factor, bindVars>>

Refuse ==
    /\ doing = "decimal"
    /\ ~Fits(value, scale)
    /\ scale = 0 \/ value % 10 # 0
    /\ decimal' = "error"
    /\ doing' = "done"
    /\ UNCHANGED <<numeric, value, scale, factor, bindVars>>

\* Mutant of DropZero: a digit is dropped whatever it is.
DropDigit ==
    /\ doing = "decimal"
    /\ ~Fits(value, scale)
    /\ scale > 0
    /\ value' = value \div 10
    /\ scale' = scale - 1
    /\ factor' = 10 * factor
    /\ UNCHANGED <<doing, numeric, decimal, bindVars>>

DropZero ==
    /\ doing = "decimal"
    /\ ~Fits(value, scale)
    /\ scale > 0
    /\ value % 10 = 0
    /\ value' = value \div 10
    /\ scale' = scale - 1
    /\ factor' = 10 * factor
    /\ UNCHANGED <<doing, numeric, decimal, bindVars>>

-----------------------------------------------------------------------------
(* to_legacy_datetime.                                                     *)

\* Mutant of NearestTick: the tick that has begun.
TickBegun(t) == (3 * t) \div NanosPer3

NearestTick(t) == (3 * t + NanosPer3 \div 2) \div NanosPer3

\* Mutant of LegacyDateTime: the last moment of a day stays in it.
LegacyDateTimeSameDay(t) == [days |-> 0, ticks |-> NearestTick(t)]

LegacyDateTime(t) ==
    IF NearestTick(t) >= TicksPerDay
    THEN [days |-> 1, ticks |-> NearestTick(t) - TicksPerDay]
    ELSE [days |-> 0, ticks |-> NearestTick(t)]

Bind ==
    /\ doing = "datetime"
    /\ legacy' = LegacyDateTime(time)
    /\ doing' = "done"
    /\ UNCHANGED <<readVars, time>>

-----------------------------------------------------------------------------

Nothing == [days |-> 0, ticks |-> 0]

InitRead ==
    /\ doing = "decimal"
    /\ numeric \in Numerics
    /\ time = 0

InitBind ==
    /\ doing = "datetime"
    /\ numeric = [value |-> 0, scale |-> 0]
    /\ time \in Times

Init ==
    /\ InitRead \/ InitBind
    /\ value = numeric.value
    /\ scale = numeric.scale
    /\ decimal = "none"
    /\ factor = 1
    /\ legacy = Nothing

Done == doing = "done" /\ UNCHANGED vars

Next == Convert \/ Refuse \/ DropZero \/ Bind \/ Done

Spec == Init /\ [][Next]_vars

-----------------------------------------------------------------------------
(* Properties.                                                             *)

TypeOK ==
    /\ doing \in {"decimal", "datetime", "done"}
    /\ numeric \in [value : Int, scale : Nat]
    /\ value \in Int
    /\ scale \in Nat
    /\ decimal \in {"none", "ok", "error"}
    /\ factor \in Nat \ {0}
    /\ time \in Nat
    /\ legacy \in [days : {0, 1}, ticks : 0..(TicksPerDay - 1)]

\* A numeric read as a Decimal is the number the server sent, to the last
\* digit: dropping trailing zeros changes neither the number nor its sign.
DecimalIsExact ==
    decimal = "ok" => Fits(value, scale) /\ value * factor = numeric.value

PowerOfTen[n \in Nat] == IF n = 0 THEN 1 ELSE 10 * PowerOfTen[n - 1]

\* One that is refused has no representation as a Decimal at all, whatever
\* number of its trailing zeros were dropped.
RefusedHasNoDecimal ==
    decimal = "error" =>
        \A dropped \in 0..numeric.scale :
            numeric.value % PowerOfTen[dropped] = 0 =>
                ~Fits(numeric.value \div PowerOfTen[dropped], numeric.scale - dropped)

\* The datetime bound is one of the two ticks around the time, and no
\* further from it than half a tick, also over midnight.  So a time nearer to
\* one tick than that, as a datetime column is read, is bound as that tick.
BoundIsNearest ==
    time # 0 /\ doing = "done" =>
        LET at == NanosPer3 * (TicksPerDay * legacy.days + legacy.ticks)
        IN  /\ 2 * (3 * time - at) <= NanosPer3
            /\ 2 * (at - 3 * time) <= NanosPer3

=============================================================================
