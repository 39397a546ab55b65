---------------------------- MODULE TypeMapping -----------------------------
(***************************************************************************)
(* The way of one value: bound as a Rust type, as a DataValue, on the      *)
(* wire, in a column, on the wire again, as a DataValue and read as a Rust *)
(* type.  A value of another program starts in the column.                 *)
(*                                                                         *)
(* A value is a number and, as it may be NULL, a sequence of none or one.  *)
(* Integers have fewer bits than in the code: what matters is that each    *)
(* type holds the values of those before it.  Floats, decimals and times   *)
(* are counted in the finest steps of their wire type, 100 ns for a time;  *)
(* an f32, money and a datetime keep every third, a smalldatetime every    *)
(* sixth, and no Rust type Beyond.  Of the others nothing matters.         *)
(***************************************************************************)
EXTENDS Integers, FiniteSets

CONSTANT Ints \* the values of u8, i16, i32 and i64

ASSUME IntsAssumption ==
    /\ DOMAIN Ints = {"u8", "i16", "i32", "i64"}
    /\ Ints["u8"] \subseteq Ints["i16"]
    /\ Ints["i16"] \subseteq Ints["i32"]
    /\ Ints["i32"] \subseteq Ints["i64"]
    /\ Ints["i64"] \subseteq Int
    /\ \A t \in DOMAIN Ints : \E a, b \in Ints[t] : Ints[t] = a..b

VARIABLES
    stage,    \* how far it has come
    way,      \* whether it is a parameter of a query, of a text command or of
              \* a stored procedure
    legacy,   \* whether a NaiveDateTime is sent as datetime
    type,     \* the Rust type it was bound as, "DataValue", or "none"
    bound,    \* what was bound,
    value,    \* as a DataValue, both when it is sent and when it is read,
    wire,     \* as a ColumnData, both ways,
    column,   \* the SQL type of the column,
    held,     \* what the column holds,
    result    \* and what was read: the type, whether as an Option, and what

vars == <<stage, way, legacy, type, bound, value, wire, column, held, result>>

-----------------------------------------------------------------------------
(* The types.                                                              *)

Null == <<>>

\* The steps of an f32, of money and of a datetime, whose ticks are 1/300 s;
\* those of a smalldatetime; and the values looked at.
Coarse == 3
Coarser == 6
Fine == 0..6
Beyond == 7

\* The number of a grid of this step next to n.
Nearest(n, step) == step * ((2 * n + step) \div (2 * step))

\* The variant of DataValue a Rust type is bound as, and the SqlType of its
\* None.
Variant == [
    u8 |-> "TinyInt", i16 |-> "SmallInt", i32 |-> "Int", i64 |-> "BigInt",
    f64 |-> "Float", f32 |-> "Float", bool |-> "Bool", Decimal |-> "Decimal",
    String |-> "Text", Bytes |-> "Binary", Uuid |-> "Guid", NaiveDate |-> "Date",
    NaiveTime |-> "Time", NaiveDateTime |-> "DateTime", DateTimeTz |-> "DateTimeOffset"]

NullType == [
    u8 |-> "TinyInt", i16 |-> "SmallInt", i32 |-> "Int", i64 |-> "BigInt",
    f64 |-> "Float", f32 |-> "Float", bool |-> "Bit", Decimal |-> "Decimal",
    String |-> "NVarChar", Bytes |-> "VarBinary", Uuid |-> "Guid", NaiveDate |-> "Date",
    NaiveTime |-> "Time", NaiveDateTime |-> "DateTime2", DateTimeTz |-> "DateTimeOffset"]

RustTypes == DOMAIN Variant
Integral == DOMAIN Ints

\* The wire type of a variant that holds a value.
Tag == [
    TinyInt |-> "U8", SmallInt |-> "I16", Int |-> "I32", BigInt |-> "I64",
    Float |-> "F64", Decimal |-> "Numeric", Bool |-> "Bit", Text |-> "String",
    VarChar |-> "VarChar", Binary |-> "Binary", Guid |-> "Guid", Date |-> "Date",
    Time |-> "Time", DateTime |-> "DateTime2", DateTimeOffset |-> "DateTimeOffset"]

\* The SqlType a NULL is bound as, by the wire type it goes as.
NullTypes == [
    Bit |-> {"Bit", "BitN"}, U8 |-> {"TinyInt"}, I16 |-> {"SmallInt"}, I32 |-> {"Int"},
    I64 |-> {"BigInt", "IntN"}, F32 |-> {"Real"}, F64 |-> {"Float", "FloatN"},
    Numeric |-> {"Decimal", "Numeric", "Money", "SmallMoney"}, Guid |-> {"Guid"},
    Date |-> {"Date"}, Time |-> {"Time"}, DateTime |-> {"DateTime", "DateTimeN"},
    SmallDateTime |-> {"SmallDateTime"}, DateTime2 |-> {"DateTime2"},
    DateTimeOffset |-> {"DateTimeOffset"}, Binary |-> {"Binary", "VarBinary", "Image"},
    Xml |-> {"Xml"},
    String |-> {"Char", "VarChar", "NChar", "NVarChar", "Text", "NText",
                "Null", "Udt", "Variant"}]

SqlTypes == UNION {NullTypes[t] : t \in DOMAIN NullTypes}
TypedNullTag(ty) == CHOOSE t \in DOMAIN NullTypes : ty \in NullTypes[t]

\* The variant a wire type is read as.
ReadVariant == [
    U8 |-> "TinyInt", I16 |-> "SmallInt", I32 |-> "Int", I64 |-> "BigInt",
    F32 |-> "Float", F64 |-> "Float", Bit |-> "Bool", String |-> "Text",
    VarChar |-> "Text", Guid |-> "Guid", Binary |-> "Binary", Xml |-> "Text",
    Numeric |-> "Decimal", DateTime |-> "DateTime", SmallDateTime |-> "DateTime",
    DateTime2 |-> "DateTime", Time |-> "Time", Date |-> "Date",
    DateTimeOffset |-> "DateTimeOffset"]

Fallible == {"Numeric", "DateTime", "SmallDateTime", "DateTime2", "Time", "Date", "DateTimeOffset"}

\* The variants a Rust type can be read from.
Readable == [
    u8 |-> {"TinyInt"}, i16 |-> {"TinyInt", "SmallInt"},
    i32 |-> {"TinyInt", "SmallInt", "Int"}, i64 |-> {"TinyInt", "SmallInt", "Int", "BigInt"},
    f64 |-> {"Float"}, f32 |-> {"Float"}, bool |-> {"Bool"}, Decimal |-> {"Decimal"},
    String |-> {"Text", "VarChar"}, Bytes |-> {"Binary"}, Uuid |-> {"Guid"},
    NaiveDate |-> {"Date"}, NaiveTime |-> {"Time"}, NaiveDateTime |-> {"DateTime"},
    DateTimeTz |-> {"DateTimeOffset"}]

\* Mutant of Cast: an f64 is taken for an f32.
CastKeeps(n, t) == n

\* Rust's "as": to an integer type it wraps, to f32 it rounds.
Cast(n, t) ==
    IF t \in Integral
    THEN CHOOSE m \in Ints[t] : (m - n) % Cardinality(Ints[t]) = 0
    ELSE IF t = "f32" THEN Nearest(n, Coarse) ELSE n

On(step) == {n \in Fine : n % step = 0}

Fractional == {"f64", "Decimal", "NaiveDate", "NaiveTime", "NaiveDateTime", "DateTimeTz"}

ValuesOf(t) ==
    IF t \in Integral THEN Ints[t]
    ELSE CASE t \in Fractional -> Fine [] t = "f32" -> On(Coarse) [] OTHER -> {0}

DataValue(kind, ty, v) == [kind |-> kind, type |-> ty, v |-> v]
NullOf(ty) == DataValue(IF ty = "Null" THEN "Null" ELSE "TypedNull", ty, Null)
ColumnData(tag, v) == [tag |-> tag, v |-> v]

-----------------------------------------------------------------------------
(* Binding.                                                                *)

\* ToSql::to_value for a query, From for a parameter of a command.
ToValue ==
    /\ stage = "bound"
    /\ type # "DataValue"
    /\ value' = IF bound = Null THEN NullOf(NullType[type])
                ELSE DataValue(Variant[type], "Null", bound)
    /\ stage' = "value"
    /\ UNCHANGED <<way, legacy, type, bound, wire, column, held, result>>

\* Mutant of ToSql: a NULL loses its type.
ToSqlUntyped(val) ==
    IF val.kind \in {"Null", "TypedNull"} THEN ColumnData("String", Null)
    ELSE ColumnData(Tag[val.kind], val.v)

ToSql(val) ==
    CASE val.kind = "Null"      -> ColumnData("String", Null)
      [] val.kind = "TypedNull" -> ColumnData(TypedNullTag(val.type), Null)
      [] OTHER                  -> ColumnData(Tag[val.kind], val.v)

IntoSql(val) ==
    CASE val.kind = "Text"    -> ColumnData("String", val.v)
      [] val.kind = "VarChar" -> ColumnData("VarChar", val.v)
      [] val.kind = "Binary"  -> ColumnData("Binary", val.v)
      [] OTHER                -> ToSql(val)

IsLegacy(val) == legacy /\ val.kind = "DateTime"

\* Mutant of ToLegacyDatetime: the tick that has begun.
ToLegacyDatetimeTruncates(n) == Coarse * (n \div Coarse)

\* The nearest tick; what becomes of midnight is in Values.
ToLegacyDatetime(n) == Nearest(n, Coarse)

\* bind, for a query and a text command; build_proc for a procedure.
Bind ==
    /\ stage = "value"
    /\ wire' = IF IsLegacy(value) THEN ColumnData("DateTime", <<ToLegacyDatetime(value.v[1])>>)
               ELSE IF way = "procedure" THEN IntoSql(value) ELSE ToSql(value)
    /\ stage' = "sent"
    /\ UNCHANGED <<way, legacy, type, bound, value, column, held, result>>

-----------------------------------------------------------------------------
(* The server: which parameters a column takes, what it then holds, and    *)
(* how it is sent and described when it is read.  External.                *)

Number == {"Bit", "BitN", "TinyInt", "SmallInt", "Int", "BigInt", "IntN", "Real", "Float",
           "FloatN", "Decimal", "Numeric", "Money", "SmallMoney"}
Moment == {"DateTime", "DateTimeN", "SmallDateTime", "DateTime2", "DateTimeOffset"}
Bytes  == {"Binary", "VarBinary", "Image"}

Columns == SqlTypes \ {"IntN", "BitN", "FloatN", "DateTimeN", "Null", "Udt", "Variant"}

\* The groups of types SQL Server converts into one another.  A parameter sent
\* as a string goes into every column but a binary one.
Takes(tag, col) ==
    IF tag \in {"String", "VarChar"} THEN col \notin Bytes
    ELSE \/ col \in NullTypes[tag]
         \/ \E group \in {Number, Moment, Bytes} :
                col \in group /\ NullTypes[tag] \cap group # {}

IntegerColumn == [TinyInt |-> "u8", SmallInt |-> "i16", Int |-> "i32", BigInt |-> "i64"]

\* The columns a value is looked at in: those of its own type and, for an
\* integer, a float or a date with a time, of any other width.
Suits(tag, col) ==
    CASE tag = "VarChar"                     -> col \in {"VarChar", "NVarChar"}
      [] tag \in {"U8", "I16", "I32", "I64"} -> col \in DOMAIN IntegerColumn
      [] tag = "F64"                         -> col \in {"Real", "Float"}
      [] tag \in {"DateTime", "DateTime2"}   -> col \in {"DateTime", "SmallDateTime", "DateTime2"}
      [] OTHER                               -> col \in NullTypes[tag]

\* What a column rounds to; a decimal has the places for what it is sent.
Grain(col) ==
    CASE col \in {"Real", "Money", "SmallMoney", "DateTime"} -> Coarse
      [] col = "SmallDateTime"                               -> Coarser
      [] OTHER                                               -> 1

ColumnValues(col) ==
    IF col \in DOMAIN IntegerColumn THEN Ints[IntegerColumn[col]]
    ELSE CASE col \in {"Real", "Float"}       -> On(Grain(col))
           [] TypedNullTag(col) \in Fallible -> On(Grain(col)) \cup {Beyond}
           [] OTHER                          -> {0}

Holds(col, n) == col \in DOMAIN IntegerColumn => n \in Ints[IntegerColumn[col]]

\* SqlType::from: a nullable column of the older types reports a type of
\* unknown width.
Reported(col) ==
    CASE col \in {"TinyInt", "SmallInt", "Int", "BigInt"} -> {col, "IntN"}
      [] col = "Bit"                                      -> {col, "BitN"}
      [] col \in {"Real", "Float"}                        -> {col, "FloatN"}
      [] col \in {"DateTime", "SmallDateTime"}            -> {col, "DateTimeN"}
      [] OTHER                                            -> {col}

\* A value is refused by a column that does not hold it, a NULL by one of
\* another type.
Store ==
    /\ stage = "sent"
    /\ column' \in Columns
    /\ wire.v = Null \/ Suits(wire.tag, column')
    /\ IF wire.v = Null
       THEN /\ held' = Null
            /\ stage' = IF Takes(wire.tag, column') THEN "held" ELSE "refused"
       ELSE /\ held' = <<Nearest(wire.v[1], Grain(column'))>>
            /\ stage' = IF Holds(column', wire.v[1]) THEN "held" ELSE "refused"
    /\ UNCHANGED <<way, legacy, type, bound, value, wire, result>>

\* The driver's ColumnData for a column.
Send ==
    /\ stage = "held"
    /\ wire' = ColumnData(TypedNullTag(column), held)
    /\ stage' = "received"
    /\ UNCHANGED <<way, legacy, type, bound, value, column, held, result>>

-----------------------------------------------------------------------------
(* Reading.                                                                *)

\* Mutant of MapColumn: what cannot be represented is read as NULL.
MapColumnLenient ==
    /\ stage = "received"
    /\ value' = IF wire.v = Null \/ (wire.tag \in Fallible /\ wire.v = <<Beyond>>)
                THEN NullOf("Null")
                ELSE DataValue(ReadVariant[wire.tag], "Null", wire.v)
    /\ stage' = "read"
    /\ UNCHANGED <<way, legacy, type, bound, wire, column, held, result>>

\* map_column_data, whose failure fails the call.
MapColumn ==
    /\ stage = "received"
    /\ IF wire.tag \in Fallible /\ wire.v = <<Beyond>>
       THEN stage' = "failed" /\ UNCHANGED value
       ELSE /\ stage' = "read"
            /\ value' = IF wire.v = Null THEN NullOf("Null")
                        ELSE DataValue(ReadVariant[wire.tag], "Null", wire.v)
    /\ UNCHANGED <<way, legacy, type, bound, wire, column, held, result>>

IsNull(val) == val.kind \in {"Null", "TypedNull"}

No(t, optional) == [type |-> t, optional |-> optional, ok |-> FALSE, v |-> Null]
Yes(t, optional, v) == [type |-> t, optional |-> optional, ok |-> TRUE, v |-> v]

\* Mutant of FromSql: integers do not widen.
FromSqlExact(t, optional, val) ==
    IF IsNull(val) THEN [No(t, optional) EXCEPT !.ok = optional]
    ELSE IF Variant[t] = val.kind THEN Yes(t, optional, <<Cast(val.v[1], t)>>)
         ELSE No(t, optional)

FromSql(t, optional, val) ==
    IF IsNull(val) THEN [No(t, optional) EXCEPT !.ok = optional]
    ELSE IF val.kind \in Readable[t] THEN Yes(t, optional, <<Cast(val.v[1], t)>>)
         ELSE No(t, optional)

Get ==
    /\ stage = "read"
    /\ \E t \in RustTypes, optional \in BOOLEAN :
           result' = FromSql(t, optional, value)
    /\ stage' = "done"
    /\ UNCHANGED <<way, legacy, type, bound, value, wire, column, held>>

-----------------------------------------------------------------------------

\* Bound as a Rust type, None included.
InitBound ==
    /\ stage = "bound"
    /\ type \in RustTypes
    /\ bound \in {Null} \cup {<<n>> : n \in ValuesOf(type)}
    /\ value = NullOf("Null")
    /\ column = "Null" /\ held = Null

\* Bound as a DataValue with no Rust type of its own.
InitValue ==
    /\ stage = "value"
    /\ type = "DataValue"
    /\ bound = Null
    /\ value \in {NullOf(ty) : ty \in SqlTypes} \cup {DataValue("VarChar", "Null", <<0>>)}
    /\ column = "Null" /\ held = Null

\* Written by somebody else.
InitHeld ==
    /\ stage = "held"
    /\ type = "none"
    /\ bound = Null
    /\ value = NullOf("Null")
    /\ column \in Columns
    /\ held \in {Null} \cup {<<n>> : n \in ColumnValues(column)}

Init ==
    /\ InitBound \/ InitValue \/ InitHeld
    /\ way \in {"query", "text", "procedure"}
    /\ legacy \in BOOLEAN
    /\ wire = ColumnData("String", Null)
    /\ result = No("none", FALSE)

Over == stage \in {"refused", "failed", "done"} /\ UNCHANGED vars

Next == ToValue \/ Bind \/ Store \/ Send \/ MapColumn \/ Get \/ Over

Spec == Init /\ [][Next]_vars

-----------------------------------------------------------------------------
(* Properties.                                                             *)

Stages == {"bound", "value", "sent", "refused", "held", "received", "failed", "read", "done"}
Held(S) == {Null} \cup {<<n>> : n \in S}
AllNumbers == Ints["i64"] \cup Fine \cup {Beyond}

TypeOK ==
    /\ stage \in Stages
    /\ way \in {"query", "text", "procedure"}
    /\ legacy \in BOOLEAN
    /\ type \in RustTypes \cup {"DataValue", "none"}
    /\ bound \in Held(AllNumbers)
    /\ value \in [kind : DOMAIN Tag \cup {"Null", "TypedNull"}, type : SqlTypes,
                 v : Held(AllNumbers)]
    /\ wire \in [tag : DOMAIN ReadVariant, v : Held(AllNumbers)]
    /\ column \in SqlTypes
    /\ held \in Held(AllNumbers)
    /\ result.type \in RustTypes => result.v \in Held(ValuesOf(result.type))

\* The table of docs/types.md, "Type mapping": what a column reads as.
Documented(col) ==
    CASE col = "TinyInt"                                   -> {"u8", "i16", "i32", "i64"}
      [] col = "SmallInt"                                  -> {"i16", "i32", "i64"}
      [] col = "Int"                                       -> {"i32", "i64"}
      [] col = "BigInt"                                    -> {"i64"}
      [] col \in {"Real", "Float"}                         -> {"f64", "f32"}
      [] col \in {"Decimal", "Numeric", "Money", "SmallMoney"} -> {"Decimal"}
      [] col = "Bit"                                       -> {"bool"}
      [] col \in {"Char", "VarChar", "NChar", "NVarChar", "Text", "NText", "Xml"} -> {"String"}
      [] col \in Bytes                                     -> {"Bytes"}
      [] col = "Guid"                                      -> {"Uuid"}
      [] col = "Date"                                      -> {"NaiveDate"}
      [] col = "Time"                                      -> {"NaiveTime"}
      [] col \in {"DateTime", "DateTime2", "SmallDateTime"} -> {"NaiveDateTime"}
      [] col = "DateTimeOffset"                            -> {"DateTimeTz"}

\* A column reads as the types the documentation lists for it and as no other,
\* a NULL as an Option of any and as nothing else.
ReadsAsDocumented ==
    stage = "done" =>
        (result.ok <=> IF held = Null THEN result.optional
                       ELSE result.type \in Documented(column))

\* The coarsest step a value has been through: its column's, that of a legacy
\* parameter, that of an f32.
Coarsest ==
    IF (legacy /\ type = "NaiveDateTime") \/ result.type = "f32"
    THEN IF Grain(column) = Coarser THEN Coarser ELSE Coarse
    ELSE Grain(column)

\* What is read is what was bound, to the last digit, by whichever way it was
\* sent, in a column of whichever width and as whichever type, if every place
\* on the way can hold it.  What a real, money, datetime or smalldatetime
\* column, an f32 or a parameter sent as datetime cannot hold comes back as
\* the value next to it, off by half a step at most; only a legacy parameter
\* in a smalldatetime column, which is rounded twice, may be off by more, and
\* then by less than a step.  A value is never read as NULL.  A call fails
\* only on a value that this crate cannot have written.
ComesBackAsBound ==
    /\ stage = "done" /\ result.ok =>
        /\ (result.v = Null) <=> (held = Null)
        /\ type = "none" /\ result.type # "f32" => result.v = held
        /\ type \in RustTypes => ((result.v = Null) <=> (bound = Null))
        /\ type \in RustTypes /\ bound # Null =>
               LET n == bound[1]
                   off == IF result.v[1] < n THEN n - result.v[1] ELSE result.v[1] - n
                   twice == legacy /\ type = "NaiveDateTime" /\ column = "SmallDateTime"
               IN  /\ n % Coarsest = 0 => off = 0
                   /\ IF twice THEN off < Coarsest ELSE 2 * off <= Coarsest
    /\ stage = "failed" => type = "none" /\ held = <<Beyond>>

\* A None goes into every column its type can be read from, a NULL of the type
\* a column reports into that column, and a NULL of no type into every column
\* but a binary one.
NullsGoIn ==
    stage = "refused" /\ wire.v = Null =>
        /\ type \in RustTypes => type \notin Documented(column)
        /\ value.kind = "TypedNull" => value.type \notin Reported(column)
        /\ value.kind = "Null" => column \in Bytes

=============================================================================
