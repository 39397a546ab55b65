------------------------- MODULE TypeMapping_proofs -------------------------
(***************************************************************************)
(* Theorems about TypeMapping, for integers of every width: the 8, 16, 32  *)
(* and 64 bits of the code, which TLC cannot enumerate, too.  Most of them *)
(* are tables that have to agree with one another.                         *)
(***************************************************************************)
EXTENDS TypeMapping, FiniteSetTheorems, TLAPS

-----------------------------------------------------------------------------
(* The tables.                                                             *)

RustTypeNames ==
    {"u8", "i16", "i32", "i64", "f64", "f32", "bool", "Decimal", "String", "Bytes", "Uuid",
     "NaiveDate", "NaiveTime", "NaiveDateTime", "DateTimeTz"}

WireTypes ==
    {"Bit", "U8", "I16", "I32", "I64", "F32", "F64", "Numeric", "Guid", "Date", "Time",
     "DateTime", "SmallDateTime", "DateTime2", "DateTimeOffset", "Binary", "Xml", "String"}

NotAColumn == {"IntN", "BitN", "FloatN", "DateTimeN", "Null", "Udt", "Variant"}

LEMMA RustTypesAre == RustTypes = RustTypeNames
BY DEF RustTypes, Variant, RustTypeNames

LEMMA WireTypesAre == DOMAIN NullTypes = WireTypes
BY DEF NullTypes, WireTypes

LEMMA IntegralAre == Integral = {"u8", "i16", "i32", "i64"}
BY IntsAssumption DEF Integral

LEMMA IntegerColumnsAre == DOMAIN IntegerColumn = {"TinyInt", "SmallInt", "Int", "BigInt"}
BY DEF IntegerColumn

\* A NULL of one type goes as one wire type.
LEMMA OneNullType ==
    \A s, t \in DOMAIN NullTypes : \A ty \in NullTypes[s] \cap NullTypes[t] : s = t
BY WireTypesAre DEF NullTypes, WireTypes

LEMMA TagOf ==
    ASSUME NEW tag \in DOMAIN NullTypes, NEW ty \in NullTypes[tag]
    PROVE  TypedNullTag(ty) = tag
BY OneNullType DEF TypedNullTag

LEMMA TagOfType ==
    ASSUME NEW ty \in SqlTypes
    PROVE  TypedNullTag(ty) \in WireTypes /\ ty \in NullTypes[TypedNullTag(ty)]
BY WireTypesAre DEF TypedNullTag, SqlTypes

LEMMA ColumnTag ==
    ASSUME NEW col \in Columns
    PROVE  /\ TypedNullTag(col) \in WireTypes /\ col \in NullTypes[TypedNullTag(col)]
           /\ col \notin NotAColumn /\ col \in SqlTypes
BY TagOfType DEF Columns, NotAColumn

LEMMA NullTypesTyped ==
    ASSUME NEW t \in RustTypes
    PROVE  NullType[t] \in SqlTypes /\ NullType[t] # "Null"
<1>1. t \in RustTypeNames
  BY RustTypesAre
<1>2. \E tag \in WireTypes : NullType[t] \in NullTypes[tag]
  BY <1>1 DEF RustTypeNames, WireTypes, NullTypes, NullType
<1>3. NullType[t] # "Null"
  BY <1>1 DEF RustTypeNames, NullType
<1>4. QED
  BY <1>2, <1>3, WireTypesAre DEF SqlTypes

\* What the code reads a column as is what the documentation lists for it.
LEMMA ReadableIsDocumented ==
    ASSUME NEW col \in Columns, NEW t \in RustTypes
    PROVE  ReadVariant[TypedNullTag(col)] \in Readable[t] <=> t \in Documented(col)
<1>1. PICK tag \in WireTypes :
          tag = TypedNullTag(col) /\ col \in NullTypes[tag] /\ col \notin NotAColumn
  BY ColumnTag
<1>2. t \in RustTypeNames
  BY RustTypesAre
<1>3. QED
  BY <1>1, <1>2 DEF WireTypes, NotAColumn, RustTypeNames, NullTypes, ReadVariant, Readable,
     Documented, Bytes

\* A None goes into every column its type is read from.
LEMMA NoneGoesIn ==
    ASSUME NEW col \in Columns, NEW t \in RustTypes, t \in Documented(col)
    PROVE  Takes(TypedNullTag(NullType[t]), col)
<1>1. col \in UNION {NullTypes[tag] : tag \in WireTypes} /\ col \notin NotAColumn
  BY ColumnTag
<1>2. t \in RustTypeNames
  BY RustTypesAre
<1>3. PICK tag \in WireTypes : tag = TypedNullTag(NullType[t]) /\ NullType[t] \in NullTypes[tag]
  BY NullTypesTyped, TagOfType
<1>4. QED
  BY <1>1, <1>2, <1>3 DEF WireTypes, NotAColumn, RustTypeNames, NullTypes, NullType, Documented,
     Takes, Number, Moment, Bytes

\* So does a NULL of a type the column reports.
LEMMA ReportedGoesIn ==
    ASSUME NEW col \in Columns, NEW ty \in Reported(col)
    PROVE  Takes(TypedNullTag(ty), col)
<1>1. PICK tag \in WireTypes :
          tag = TypedNullTag(col) /\ col \in NullTypes[tag] /\ col \notin NotAColumn
  BY ColumnTag
<1>2. ty = col \/ \E t \in WireTypes : ty \in NullTypes[t]
  BY <1>1 DEF WireTypes, NotAColumn, NullTypes, Reported
<1>3. ty \in SqlTypes
  BY <1>2, ColumnTag, WireTypesAre DEF SqlTypes
<1>4. PICK own \in WireTypes : own = TypedNullTag(ty) /\ ty \in NullTypes[own]
  BY <1>3, TagOfType
<1>5. QED
  BY <1>1, <1>4 DEF WireTypes, NotAColumn, NullTypes, Reported, Takes, Number, Moment, Bytes

-----------------------------------------------------------------------------
(* Casts.                                                                  *)

LEMMA SmallMultiple ==
    ASSUME NEW d \in Nat \ {0}, NEW x \in Int, -d < x, x < d, x % d = 0
    PROVE  x = 0
BY SMT

\* A cast to a type that holds the number keeps it.
LEMMA CastKeepsInteger ==
    ASSUME NEW t \in Integral, NEW n \in Ints[t]
    PROVE  Cast(n, t) = n
<1>1. PICK a \in Int, b \in Int : Ints[t] = a..b
  BY IntsAssumption DEF Integral
<1> DEFINE d == b - a + 1
<1>2. a <= n /\ n <= b /\ n \in Int
  BY <1>1
<1>3. Cardinality(Ints[t]) = d /\ d \in Nat \ {0}
  BY <1>1, <1>2, FS_Interval
<1>4. (n - n) % d = 0
  <2> HIDE DEF d
  <2> QED
    BY <1>2, <1>3
<1>5. ASSUME NEW m \in Ints[t], (m - n) % d = 0 PROVE m = n
  <2>1. m - n \in Int /\ -d < m - n /\ m - n < d
    BY <1>1, <1>2
  <2> HIDE DEF d
  <2> QED
    BY <1>1, <1>2, <1>3, <1>5, <2>1, SmallMultiple
<1> QED
  BY <1>3, <1>4, <1>5 DEF Cast

\* The grids and what is rounded to them.
LEMMA GridsAre ==
    On(1) = Fine /\ On(Coarse) = {0, 3, 6} /\ On(Coarser) = {0, 6}
BY DEF On, Fine, Coarse, Coarser

LEMMA NearestIs ==
    /\ \A n \in Int : Nearest(n, 1) = n
    /\ \A n \in Fine :
           /\ Nearest(n, Coarse) = IF n <= 1 THEN 0 ELSE IF n <= 4 THEN 3 ELSE 6
           /\ Nearest(n, Coarser) = IF n <= 2 THEN 0 ELSE 6
BY DEF Nearest, Fine, Coarse, Coarser

LEMMA GrainIs ==
    ASSUME NEW col
    PROVE  /\ Grain(col) \in {1, Coarse, Coarser}
           /\ col \in DOMAIN IntegerColumn \cup {"Float"} => Grain(col) = 1
           /\ col \in {"Real", "Float"} => Grain(col) # Coarser
           /\ Grain(col) = Coarser <=> col = "SmallDateTime"
BY IntegerColumnsAre DEF Grain, Coarse, Coarser

LEMMA NearestOn ==
    ASSUME NEW n \in Fine, NEW step \in {1, Coarse, Coarser}
    PROVE  Nearest(n, step) \in On(step) /\ Nearest(n, step) \in Fine
<1>1. n \in Int
  BY DEF Fine
<1>2. CASE step = 1
  BY <1>1, <1>2, GridsAre, NearestIs
<1>3. CASE step = Coarse
  BY <1>3, GridsAre, NearestIs DEF Fine
<1>4. CASE step = Coarser
  BY <1>4, GridsAre, NearestIs DEF Fine
<1>5. QED
  BY <1>2, <1>3, <1>4

\* A cast to f32 rounds to its grid.
LEMMA CastToFloat ==
    ASSUME NEW n
    PROVE  Cast(n, "f32") = Nearest(n, Coarse)
BY IntegralAre DEF Cast

LEMMA CastElsewhere ==
    ASSUME NEW t, t \notin Integral, t # "f32", NEW n
    PROVE  Cast(n, t) = n
BY DEF Cast

-----------------------------------------------------------------------------
(* The invariant: how far the value has come says what it was made of.     *)

\* What binding makes of a value of a Rust type, and of a DataValue.
BoundAs(t, b) ==
    IF b = Null THEN NullOf(NullType[t]) ELSE DataValue(Variant[t], "Null", b)

WireOf(val) ==
    IF IsLegacy(val) THEN ColumnData("DateTime", <<ToLegacyDatetime(val.v[1])>>)
    ELSE IF way = "procedure" THEN IntoSql(val) ELSE ToSql(val)

OwnValues == {NullOf(ty) : ty \in SqlTypes} \cup {DataValue("VarChar", "Null", <<0>>)}

BindInv ==
    /\ stage = "bound" => type \in RustTypes
    /\ type \in RustTypes => bound \in Held(ValuesOf(type))
    /\ stage \in {"value", "sent", "refused"} =>
           \/ type \in RustTypes /\ value = BoundAs(type, bound)
           \/ type = "DataValue" /\ value \in OwnValues
    /\ stage \in {"sent", "refused"} => wire = WireOf(value)

\* What a value of a Rust type is on the wire.
OnWire(t, n) == IF legacy /\ t = "NaiveDateTime" THEN ToLegacyDatetime(n) ELSE n

\* What this crate has stored is what was bound, in the steps of a legacy
\* parameter and of the column, and in a column of its family.
FromBound ==
    /\ (held = Null) <=> (bound = Null)
    /\ held # Null =>
           /\ held = <<Nearest(OnWire(type, bound[1]), Grain(column))>>
           /\ type \in Integral => column \in DOMAIN IntegerColumn
           /\ column \in {"Real", "Float"} => type \in {"f32", "f64"}

StoreInv ==
    /\ stage = "refused" => column \in Columns /\ (wire.v = Null => ~Takes(wire.tag, column))
    /\ stage \in {"held", "received", "failed", "read", "done"} =>
           /\ column \in Columns
           /\ held \in Held(ColumnValues(column))
           /\ type # "none" /\ TypedNullTag(column) \in Fallible => held # <<Beyond>>
           /\ type \in RustTypes => FromBound

ReadAs(col, h) ==
    IF h = Null THEN NullOf("Null")
    ELSE DataValue(ReadVariant[TypedNullTag(col)], "Null", h)

ReadInv ==
    /\ stage = "received" => wire = ColumnData(TypedNullTag(column), held)
    /\ stage = "failed" => TypedNullTag(column) \in Fallible /\ held = <<Beyond>>
    /\ stage \in {"read", "done"} =>
           /\ value = ReadAs(column, held)
           /\ TypedNullTag(column) \in Fallible => held # <<Beyond>>
    /\ IF stage = "done"
       THEN \E t \in RustTypes, optional \in BOOLEAN : result = FromSql(t, optional, value)
       ELSE result = No("none", FALSE)

WayInv == BindInv /\ StoreInv /\ ReadInv

-----------------------------------------------------------------------------
(* What binding, sending and reading return.                               *)

LEMMA ValuesTyped ==
    ASSUME NEW t \in RustTypes
    PROVE  ValuesOf(t) \subseteq AllNumbers
<1>1. CASE t \in Integral
  BY <1>1, IntegralAre, IntsAssumption DEF ValuesOf, AllNumbers
<1>2. CASE t \notin Integral
  BY <1>2 DEF ValuesOf, AllNumbers, On, Fine
<1>3. QED
  BY <1>1, <1>2

LEMMA ColumnValuesTyped ==
    ASSUME NEW col
    PROVE  ColumnValues(col) \subseteq AllNumbers
<1>1. CASE col \in DOMAIN IntegerColumn
  BY <1>1, IntegerColumnsAre, IntsAssumption DEF IntegerColumn, ColumnValues, AllNumbers
<1>2. CASE col \notin DOMAIN IntegerColumn
  BY <1>2 DEF ColumnValues, AllNumbers, On, Fine
<1>3. QED
  BY <1>1, <1>2

Kinds == {"TinyInt", "SmallInt", "Int", "BigInt", "Float", "Decimal", "Bool", "Text", "VarChar",
          "Binary", "Guid", "Date", "Time", "DateTime", "DateTimeOffset"}

LEMMA KindsAre == DOMAIN Tag = Kinds
BY DEF Tag, Kinds

LEMMA TagsRead ==
    /\ WireTypes \cup {"VarChar"} = DOMAIN ReadVariant
    /\ \A kind \in Kinds : Tag[kind] \in DOMAIN ReadVariant
    /\ \A tag \in WireTypes : ReadVariant[tag] \in Kinds
    /\ \A t \in RustTypes : Variant[t] \in Kinds
BY RustTypesAre DEF WireTypes, Tag, Kinds, ReadVariant, Variant, RustTypeNames

DataValues == [kind : DOMAIN Tag \cup {"Null", "TypedNull"}, type : SqlTypes, v : Held(AllNumbers)]
Wires == [tag : DOMAIN ReadVariant, v : Held(AllNumbers)]

LEMMA NullIsType == "Null" \in SqlTypes
BY DEF SqlTypes, NullTypes

LEMMA HeldMore ==
    ASSUME NEW S, NEW T, S \subseteq T
    PROVE  Held(S) \subseteq Held(T)
BY DEF Held

LEMMA NullsTyped ==
    ASSUME NEW ty \in SqlTypes
    PROVE  NullOf(ty) \in DataValues
BY DEF NullOf, DataValue, DataValues, Held

LEMMA BoundTyped ==
    ASSUME NEW t \in RustTypes, NEW b \in Held(ValuesOf(t))
    PROVE  BoundAs(t, b) \in DataValues
<1>1. b \in Held(AllNumbers)
  BY ValuesTyped, HeldMore
<1>2. CASE b = Null
  BY <1>2, NullTypesTyped, NullsTyped DEF BoundAs
<1>3. CASE b # Null
  BY <1>1, <1>3, NullIsType, TagsRead, KindsAre DEF BoundAs, DataValue, DataValues
<1>4. QED
  BY <1>2, <1>3

LEMMA OwnTyped == OwnValues \subseteq DataValues
<1>1. DataValue("VarChar", "Null", <<0>>) \in DataValues
  BY NullIsType, KindsAre DEF DataValue, DataValues, Kinds, Held, AllNumbers, Fine
<1>2. QED
  BY <1>1, NullsTyped DEF OwnValues

LEMMA WireTyped ==
    ASSUME NEW val \in DataValues, IsLegacy(val) => \E n \in Fine : val.v = <<n>>
    PROVE  WireOf(val) \in Wires
<1>1. /\ val.kind \in Kinds \cup {"Null", "TypedNull"} /\ val.type \in SqlTypes
      /\ val.v \in Held(AllNumbers) /\ Null \in Held(AllNumbers)
  BY KindsAre DEF DataValues, Held
<1>2. ToSql(val) \in Wires
  <2>1. TypedNullTag(val.type) \in DOMAIN ReadVariant
    BY <1>1, TagOfType, TagsRead
  <2>2. "String" \in DOMAIN ReadVariant
    BY TagsRead DEF WireTypes
  <2>3. QED
    BY <1>1, <2>1, <2>2, TagsRead DEF ToSql, ColumnData, Wires
<1>3. IntoSql(val) \in Wires
  BY <1>1, <1>2, TagsRead DEF IntoSql, ColumnData, Wires, WireTypes
<1>4. ASSUME IsLegacy(val)
      PROVE  ColumnData("DateTime", <<ToLegacyDatetime(val.v[1])>>) \in Wires
  <2>1. PICK n \in Fine : val.v = <<n>>
    BY <1>4
  <2>2. ToLegacyDatetime(val.v[1]) \in AllNumbers
    BY <2>1, NearestOn DEF ToLegacyDatetime, AllNumbers
  <2>3. QED
    BY <2>2, TagsRead DEF ColumnData, Wires, WireTypes, Held
<1>5. QED
  BY <1>2, <1>3, <1>4 DEF WireOf

LEMMA ReadTyped ==
    ASSUME NEW col \in Columns, NEW h \in Held(ColumnValues(col))
    PROVE  /\ ReadAs(col, h) \in DataValues
           /\ ColumnData(TypedNullTag(col), h) \in Wires
<1>1. h \in Held(AllNumbers)
  BY ColumnValuesTyped, HeldMore
<1>2. TypedNullTag(col) \in WireTypes
  BY ColumnTag
<1>3. ReadAs(col, h) \in DataValues
  BY <1>1, <1>2, TagsRead, KindsAre, NullIsType, NullsTyped DEF ReadAs, DataValue, DataValues
<1>4. QED
  BY <1>1, <1>2, <1>3, TagsRead DEF ColumnData, Wires

\* How a value of a Rust type goes.
TagFor(t) == IF legacy /\ t = "NaiveDateTime" THEN "DateTime" ELSE Tag[Variant[t]]

LEMMA WireOfBound ==
    ASSUME NEW t \in RustTypes, NEW b \in Held(ValuesOf(t))
    PROVE  WireOf(BoundAs(t, b)) =
               IF b = Null THEN ColumnData(TypedNullTag(NullType[t]), Null)
               ELSE ColumnData(TagFor(t), <<OnWire(t, b[1])>>)
<1>1. t \in RustTypeNames
  BY RustTypesAre
<1>2. CASE b = Null
  BY <1>2, NullTypesTyped DEF BoundAs, NullOf, DataValue, WireOf, IsLegacy, ToSql, IntoSql
<1>3. CASE b # Null
  <2>1. b = <<b[1]>>
    BY <1>3 DEF Held
  <2>2. BoundAs(t, b).kind = Variant[t] /\ BoundAs(t, b).v = b
    BY <1>3 DEF BoundAs, DataValue
  <2>3. (Variant[t] = "DateTime") <=> (t = "NaiveDateTime")
    BY <1>1 DEF Variant, RustTypeNames
  <2>4. CASE legacy /\ t = "NaiveDateTime"
    BY <1>3, <2>2, <2>3, <2>4 DEF WireOf, IsLegacy, TagFor, OnWire
  <2>5. CASE ~(legacy /\ t = "NaiveDateTime")
    <3>1. WireOf(BoundAs(t, b)) = ColumnData(Tag[Variant[t]], b)
      BY <1>1, <1>3, <2>2, <2>3, <2>5
         DEF WireOf, IsLegacy, ToSql, IntoSql, Tag, Variant, RustTypeNames
    <3>2. QED
      BY <1>3, <2>1, <2>5, <3>1 DEF TagFor, OnWire
  <2>6. QED
    BY <2>4, <2>5
<1>4. QED
  BY <1>2, <1>3

LEMMA WireOfOwn ==
    /\ \A ty \in SqlTypes :
           WireOf(NullOf(ty)) =
               ColumnData(IF ty = "Null" THEN "String" ELSE TypedNullTag(ty), Null)
    /\ WireOf(DataValue("VarChar", "Null", <<0>>)) = ColumnData("VarChar", <<0>>)
BY DEF NullOf, DataValue, WireOf, IsLegacy, ToSql, IntoSql, Tag, ColumnData

\* A value is only looked at in columns of its family.
LEMMA Suited ==
    ASSUME NEW t \in RustTypes, NEW col \in Columns, Suits(TagFor(t), col)
    PROVE  /\ t \in Integral => col \in DOMAIN IntegerColumn
           /\ t \in {"f32", "f64"} => col \in {"Real", "Float"}
           /\ t \notin Integral \cup {"f32", "f64"} =>
                  col \notin DOMAIN IntegerColumn \cup {"Real", "Float"}
           /\ t \in Fractional \ {"f64"} => TypedNullTag(col) \in Fallible
<1>1. t \in RustTypeNames
  BY RustTypesAre
<1>2. PICK tag \in WireTypes : tag = TypedNullTag(col) /\ col \in NullTypes[tag]
  BY ColumnTag
<1>3. QED
  BY <1>1, <1>2, IntegralAre, IntegerColumnsAre
     DEF RustTypeNames, WireTypes, TagFor, Tag, Variant, Suits, NullTypes, Fractional, Fallible

LEMMA NumbersConvert ==
    ASSUME NEW col \in Columns, col \in DOMAIN IntegerColumn \cup {"Real", "Float"}
    PROVE  TypedNullTag(col) \notin Fallible
<1>1. PICK tag \in WireTypes : tag = TypedNullTag(col) /\ col \in NullTypes[tag]
  BY ColumnTag
<1>2. QED
  BY <1>1, IntegerColumnsAre DEF WireTypes, NullTypes, Fallible

-----------------------------------------------------------------------------
(* The steps.                                                              *)

LEMMA TypesExpanded ==
    TypeOK <=> /\ stage \in Stages
               /\ way \in {"query", "text", "procedure"}
               /\ legacy \in BOOLEAN
               /\ type \in RustTypes \cup {"DataValue", "none"}
               /\ bound \in Held(AllNumbers)
               /\ value \in DataValues
               /\ wire \in Wires
               /\ column \in SqlTypes
               /\ held \in Held(AllNumbers)
               /\ result.type \in RustTypes => result.v \in Held(ValuesOf(result.type))
BY DEF TypeOK, DataValues, Wires

LEMMA NotRust == "DataValue" \notin RustTypes /\ "none" \notin RustTypes
BY RustTypesAre DEF RustTypeNames

LEMMA NothingRead == No("none", FALSE).type \notin RustTypes
BY NotRust DEF No

LEMMA WayInit == Init => TypeOK /\ WayInv
<1> SUFFICES ASSUME Init PROVE TypeOK /\ WayInv
  OBVIOUS
<1> USE NothingRead, NotRust, NullIsType
<1>1. Null \in Held(AllNumbers) /\ NullOf("Null") \in DataValues
  BY NullsTyped DEF Held
<1>2. ColumnData("String", Null) \in Wires
  BY <1>1, TagsRead DEF ColumnData, Wires, WireTypes
<1>3. CASE InitBound
  <2>1. bound \in Held(ValuesOf(type)) /\ type \in RustTypes
    BY <1>3 DEF InitBound, Held
  <2>2. bound \in Held(AllNumbers)
    BY <2>1, ValuesTyped, HeldMore
  <2>3. TypeOK
    BY <1>1, <1>2, <1>3, <2>1, <2>2, TypesExpanded DEF Init, InitBound, Stages
  <2>4. WayInv
    BY <1>3, <2>1 DEF Init, InitBound, WayInv, BindInv, StoreInv, ReadInv
  <2>5. QED
    BY <2>3, <2>4
<1>4. CASE InitValue
  <2>1. value \in OwnValues
    BY <1>4 DEF InitValue, OwnValues
  <2>2. TypeOK
    BY <1>1, <1>2, <1>4, <2>1, OwnTyped, TypesExpanded DEF Init, InitValue, Stages
  <2>3. WayInv
    BY <1>4, <2>1 DEF Init, InitValue, WayInv, BindInv, StoreInv, ReadInv
  <2>4. QED
    BY <2>2, <2>3
<1>5. CASE InitHeld
  <2>1. held \in Held(ColumnValues(column)) /\ column \in Columns
    BY <1>5 DEF InitHeld, Held, ColumnValues
  <2>2. held \in Held(AllNumbers) /\ column \in SqlTypes
    BY <2>1, ColumnValuesTyped, HeldMore, ColumnTag
  <2>3. TypeOK
    BY <1>1, <1>2, <1>5, <2>2, TypesExpanded DEF Init, InitHeld, Stages
  <2>4. WayInv
    BY <1>5, <2>1 DEF Init, InitHeld, WayInv, BindInv, StoreInv, ReadInv
  <2>5. QED
    BY <2>3, <2>4
<1>6. QED
  BY <1>3, <1>4, <1>5 DEF Init

\* Only a NaiveDateTime goes as datetime.
LEMMA LegacyValue ==
    ASSUME NEW val, IsLegacy(val),
           \/ type \in RustTypes /\ bound \in Held(ValuesOf(type)) /\ val = BoundAs(type, bound)
           \/ val \in OwnValues
    PROVE  \E n \in Fine : val.v = <<n>>
<1>1. val.kind = "DateTime"
  BY DEF IsLegacy
<1>2. CASE type \in RustTypes /\ bound \in Held(ValuesOf(type)) /\ val = BoundAs(type, bound)
  <2>1. type \in RustTypeNames
    BY <1>2, RustTypesAre
  <2>2. bound # Null /\ Variant[type] = "DateTime" /\ val.v = bound
    BY <1>1, <1>2 DEF BoundAs, NullOf, DataValue
  <2>3. type = "NaiveDateTime"
    BY <2>1, <2>2 DEF Variant, RustTypeNames
  <2>4. ValuesOf(type) = Fine
    BY <2>3, IntegralAre DEF ValuesOf, Fractional
  <2>5. QED
    BY <1>2, <2>2, <2>4 DEF Held
<1>3. CASE val \in OwnValues
  BY <1>1, <1>3 DEF OwnValues, NullOf, DataValue
<1>4. QED
  BY <1>2, <1>3

LEMMA BindStep ==
    ASSUME TypeOK, WayInv, ToValue \/ Bind
    PROVE  TypeOK' /\ WayInv'
<1>1. CASE ToValue
  <2>1. /\ stage = "bound" /\ stage' = "value" /\ type \in RustTypes
        /\ bound \in Held(ValuesOf(type))
        /\ value' = BoundAs(type, bound)
        /\ UNCHANGED <<way, legacy, type, bound, wire, column, held, result>>
    BY <1>1 DEF ToValue, WayInv, BindInv, BoundAs
  <2>2. TypeOK'
    BY <2>1, BoundTyped, TypesExpanded DEF TypeOK, Stages, DataValues
  <2>3. WayInv'
    BY <2>1 DEF WayInv, BindInv, StoreInv, ReadInv
  <2>4. QED
    BY <2>2, <2>3
<1>2. CASE Bind
  <2>1. /\ stage = "value" /\ stage' = "sent"
        /\ wire' = WireOf(value)
        /\ UNCHANGED <<way, legacy, type, bound, value, column, held, result>>
    BY <1>2 DEF Bind, WireOf
  <2>2. wire' \in Wires
    <3>1. value \in DataValues
      BY TypesExpanded
    <3>2. IsLegacy(value) => \E n \in Fine : value.v = <<n>>
      BY <2>1, LegacyValue DEF WayInv, BindInv
    <3>3. QED
      BY <2>1, <3>1, <3>2, WireTyped
  <2>3. TypeOK'
    BY <2>1, <2>2 DEF TypeOK, Stages, Wires
  <2>4. wire' = WireOf(value)'
    BY <2>1 DEF WireOf, IsLegacy
  <2>5. WayInv'
    BY <2>1, <2>4 DEF WayInv, BindInv, StoreInv, ReadInv
  <2>6. QED
    BY <2>3, <2>5
<1>3. QED
  BY <1>1, <1>2

\* A value the column holds, of a Rust type, is stored in the column's steps.
LEMMA StoreBound ==
    ASSUME NEW t \in RustTypes, NEW n \in ValuesOf(t), NEW col \in Columns,
           Suits(TagFor(t), col), Holds(col, OnWire(t, n)),
           NEW m, m = Nearest(OnWire(t, n), Grain(col))
    PROVE  /\ m \in ColumnValues(col)
           /\ TypedNullTag(col) \in Fallible => m # Beyond
           /\ t \in Integral => col \in DOMAIN IntegerColumn
           /\ col \in {"Real", "Float"} => t \in {"f32", "f64"}
<1>1. CASE t \in Integral
  <2>1. col \in DOMAIN IntegerColumn /\ col \notin {"Real", "Float"}
    BY <1>1, Suited, IntegerColumnsAre
  <2>2. OnWire(t, n) = n /\ n \in Int
    BY <1>1, IntegralAre, IntsAssumption DEF OnWire, ValuesOf
  <2>3. m = n
    BY <2>1, <2>2, GrainIs, NearestIs
  <2>4. n \in ColumnValues(col)
    BY <2>1, <2>2 DEF Holds, ColumnValues
  <2>5. QED
    BY <2>1, <2>3, <2>4, NumbersConvert
<1>2. CASE t \notin Integral
  <2>1. n \in Fine
    BY <1>2 DEF ValuesOf, On, Fine
  <2>2. OnWire(t, n) \in Fine
    BY <2>1, NearestOn DEF OnWire, ToLegacyDatetime
  <2>3. m \in On(Grain(col)) /\ m \in Fine /\ m # Beyond
    BY <2>2, GrainIs, NearestOn DEF Fine, Beyond
  <2>4. col \notin DOMAIN IntegerColumn /\ (col \in {"Real", "Float"} => t \in {"f32", "f64"})
    BY <1>2, Suited, IntegerColumnsAre
  <2>5. CASE TypedNullTag(col) \in Fallible \/ col \in {"Real", "Float"}
    BY <1>2, <2>3, <2>4, <2>5, NumbersConvert DEF ColumnValues
  <2>6. CASE ~(TypedNullTag(col) \in Fallible \/ col \in {"Real", "Float"})
    <3>1. n = 0 /\ OnWire(t, n) = 0
      <4>1. t \notin Fractional \cup {"f32"}
        BY <2>6, Suited
      <4>2. t # "NaiveDateTime"
        BY <4>1 DEF Fractional
      <4>3. QED
        BY <1>2, <4>1, <4>2 DEF ValuesOf, OnWire
    <3>2. m = 0
      BY <3>1, GrainIs, NearestIs DEF Fine
    <3>3. QED
      BY <1>2, <2>3, <2>4, <2>6, <3>2 DEF ColumnValues
  <2>7. QED
    BY <1>2, <2>3, <2>4, <2>5, <2>6
<1>3. QED
  BY <1>1, <1>2

LEMMA StoredNumber ==
    ASSUME NEW t \in RustTypes, NEW n \in ValuesOf(t), NEW col \in Columns,
           Suits(TagFor(t), col)
    PROVE  Nearest(OnWire(t, n), Grain(col)) \in AllNumbers
<1>1. CASE t \notin Integral
  <2>1. n \in Fine
    BY <1>1 DEF ValuesOf, On, Fine
  <2>2. OnWire(t, n) \in Fine
    BY <2>1, NearestOn DEF OnWire, ToLegacyDatetime
  <2>3. QED
    BY <2>2, GrainIs, NearestOn DEF AllNumbers
<1>2. CASE t \in Integral
  <2>1. OnWire(t, n) = n /\ n \in Int /\ n \in AllNumbers
    BY <1>2, IntegralAre, IntsAssumption, ValuesTyped DEF OnWire, ValuesOf
  <2>2. QED
    BY <1>2, <2>1, Suited, GrainIs, NearestIs
<1>3. QED
  BY <1>1, <1>2

LEMMA StoreStep ==
    ASSUME TypeOK, WayInv, Store
    PROVE  TypeOK' /\ WayInv'
<1>1. /\ stage = "sent" /\ stage' \in {"held", "refused"}
      /\ column' \in Columns
      /\ wire.v = Null \/ Suits(wire.tag, column')
      /\ wire.v = Null => held' = Null /\ (stage' = "held" <=> Takes(wire.tag, column'))
      /\ wire.v # Null /\ stage' = "held" => Holds(column', wire.v[1])
      /\ wire.v # Null =>
             held' = <<Nearest(wire.v[1], Grain(column'))>>
      /\ UNCHANGED <<way, legacy, type, bound, value, wire, result>>
  BY DEF Store
<1>2. wire = WireOf(value) /\ \/ type \in RustTypes /\ value = BoundAs(type, bound)
                              \/ type = "DataValue" /\ value \in OwnValues
  BY <1>1 DEF WayInv, BindInv
<1>3. ASSUME held' \in Held(AllNumbers),
             stage' = "held" =>
                 /\ held' \in Held(ColumnValues(column'))
                 /\ TypedNullTag(column') \in Fallible => held' # <<Beyond>>
                 /\ type \in RustTypes => FromBound',
             stage' = "refused" /\ wire.v = Null => ~Takes(wire.tag, column')
      PROVE  TypeOK' /\ WayInv'
  <2>1. column' \in SqlTypes
    BY <1>1, ColumnTag
  <2>2. TypeOK'
    BY <1>1, <1>3, <2>1 DEF TypeOK, Stages
  <2>3. BindInv'
    BY <1>1, <1>2 DEF WayInv, BindInv, WireOf, IsLegacy
  <2>4. StoreInv'
    BY <1>1, <1>3 DEF StoreInv
  <2>5. ReadInv'
    BY <1>1 DEF WayInv, ReadInv
  <2>6. QED
    BY <2>2, <2>3, <2>4, <2>5 DEF WayInv
<1>4. Null \in Held(AllNumbers) /\ Null \in Held(ColumnValues(column')) /\ Null # <<Beyond>>
  BY DEF Held, Null
<1>5. CASE type \in RustTypes
  <2>1. /\ bound \in Held(ValuesOf(type)) /\ bound' = bound /\ type' = type
        /\ wire = IF bound = Null THEN ColumnData(TypedNullTag(NullType[type]), Null)
                  ELSE ColumnData(TagFor(type), <<OnWire(type, bound[1])>>)
    BY <1>1, <1>2, <1>5, WireOfBound, NotRust DEF WayInv, BindInv
  <2>2. CASE bound = Null
    <3>1. wire.v = Null /\ held' = Null
      BY <1>1, <2>1, <2>2 DEF ColumnData
    <3>2. FromBound'
      BY <2>1, <2>2, <3>1 DEF FromBound
    <3>3. QED
      BY <1>1, <1>3, <1>4, <3>1, <3>2
  <2>3. CASE bound # Null
    <3>1. PICK n \in ValuesOf(type) : bound = <<n>>
      BY <2>1, <2>3 DEF Held
    <3>2. /\ bound[1] = n /\ wire.v = <<OnWire(type, n)>> /\ wire.v # Null
          /\ wire.tag = TagFor(type)
      BY <2>1, <2>3, <3>1 DEF ColumnData, Null
    <3> DEFINE m == Nearest(OnWire(type, n), Grain(column'))
    <3>3. Suits(TagFor(type), column') /\ held' = <<m>>
      BY <1>1, <3>2
    <3>4. m \in AllNumbers
      BY <1>1, <1>5, <3>3, StoredNumber
    <3>5. ASSUME Holds(column', OnWire(type, n))
          PROVE  /\ m \in ColumnValues(column')
                 /\ TypedNullTag(column') \in Fallible => m # Beyond
                 /\ type \in Integral => column' \in DOMAIN IntegerColumn
                 /\ column' \in {"Real", "Float"} => type \in {"f32", "f64"}
      BY <1>1, <1>5, <3>3, <3>5, StoreBound
    <3>6. FromBound' <=>
              /\ (held' = Null) <=> (bound = Null)
              /\ held' # Null =>
                     /\ held' = <<Nearest(OnWire(type, bound[1]), Grain(column'))>>
                     /\ type \in Integral => column' \in DOMAIN IntegerColumn
                     /\ column' \in {"Real", "Float"} => type \in {"f32", "f64"}
      BY <1>1 DEF FromBound, OnWire
    <3>7. held' \in Held(AllNumbers)
      <4> HIDE DEF m
      <4> QED
        BY <3>3, <3>4 DEF Held
    <3>8. stage' = "held" => Holds(column', OnWire(type, n))
      BY <1>1, <3>2
    <3>9. ASSUME stage' = "held"
          PROVE  /\ held' \in Held(ColumnValues(column'))
                 /\ TypedNullTag(column') \in Fallible => held' # <<Beyond>>
                 /\ FromBound'
      <4>1. /\ m \in ColumnValues(column')
            /\ TypedNullTag(column') \in Fallible => m # Beyond
            /\ type \in Integral => column' \in DOMAIN IntegerColumn
            /\ column' \in {"Real", "Float"} => type \in {"f32", "f64"}
        BY <3>5, <3>8, <3>9
      <4>2. FromBound'
        <5>1. held' # Null /\ bound # Null
          BY <2>3, <3>3 DEF Null
        <5>2. QED
          BY <3>2, <3>3, <3>6, <4>1, <5>1
      <4> HIDE DEF m
      <4>3. held' \in Held(ColumnValues(column'))
        BY <3>3, <4>1 DEF Held
      <4>4. TypedNullTag(column') \in Fallible => held' # <<Beyond>>
        BY <3>3, <4>1
      <4>5. QED
        BY <4>2, <4>3, <4>4
    <3>10. QED
      BY <1>3, <3>2, <3>7, <3>9
  <2>4. QED
    BY <2>2, <2>3
<1>6. CASE type = "DataValue"
  <2>1. wire.v = Null \/ wire = ColumnData("VarChar", <<0>>)
    BY <1>2, <1>6, NotRust, WireOfOwn DEF OwnValues, ColumnData
  <2>2. CASE wire.v = Null
    BY <1>1, <1>3, <1>4, <1>6, <2>2, NotRust
  <2>3. CASE wire = ColumnData("VarChar", <<0>>)
    <3>1. column' \in {"VarChar", "NVarChar"} /\ held' = <<0>> /\ wire.v # Null
      <4>1. wire.v = <<0>> /\ wire.v # Null /\ wire.tag = "VarChar"
        BY <2>3 DEF ColumnData, Null
      <4>2. held' = <<0>>
        BY <1>1, <4>1, GrainIs, NearestIs DEF Fine
      <4>3. QED
        BY <1>1, <4>1, <4>2 DEF Suits
    <3>2. 0 \in AllNumbers /\ 0 \in ColumnValues(column')
      <4>1. 0 \in On(Grain(column'))
        BY GrainIs, GridsAre DEF Fine
      <4>2. QED
        BY <3>1, <4>1, IntegerColumnsAre DEF AllNumbers, Fine, ColumnValues
    <3>3. held' # <<Beyond>> /\ held' \in Held(AllNumbers)
          /\ held' \in Held(ColumnValues(column'))
      BY <3>1, <3>2 DEF Held, Beyond
    <3>4. QED
      BY <1>3, <1>6, <3>1, <3>3, NotRust
  <2>4. QED
    BY <2>1, <2>2, <2>3
<1>7. QED
  BY <1>2, <1>5, <1>6

\* A number a type can be read from is one of its own; an f32 is rounded.
LEMMA ReadNumber ==
    ASSUME NEW col \in Columns, NEW t \in RustTypes, NEW n \in ColumnValues(col),
           t \in Documented(col),
           TypedNullTag(col) \in Fallible => n # Beyond
    PROVE  /\ Cast(n, t) \in ValuesOf(t)
           /\ Cast(n, t) = IF t = "f32" THEN Nearest(n, Coarse) ELSE n
           /\ t = "f32" => col \in {"Real", "Float"}
<1>1. PICK tag \in WireTypes :
          tag = TypedNullTag(col) /\ col \in NullTypes[tag] /\ col \notin NotAColumn
  BY ColumnTag
<1>2. t \in RustTypeNames
  BY RustTypesAre
<1>3. CASE t \in Integral
  <2>1. col \in DOMAIN IntegerColumn /\ Ints[IntegerColumn[col]] \subseteq Ints[t]
    BY <1>1, <1>2, <1>3, IntegralAre, IntegerColumnsAre, IntsAssumption
       DEF WireTypes, NotAColumn, NullTypes, Documented, Bytes, IntegerColumn
  <2>2. n \in Ints[t]
    BY <2>1 DEF ColumnValues
  <2>3. QED
    BY <1>3, <2>2, CastKeepsInteger, IntegralAre DEF ValuesOf
<1>4. CASE t = "f32"
  <2>1. col \in {"Real", "Float"}
    BY <1>1, <1>4 DEF WireTypes, NotAColumn, NullTypes, Documented, Bytes
  <2>2. n \in Fine
    BY <2>1, IntegerColumnsAre DEF ColumnValues, On
  <2>3. ValuesOf(t) = On(Coarse)
    BY <1>4, IntegralAre DEF ValuesOf, Fractional
  <2>4. QED
    BY <1>4, <2>1, <2>2, <2>3, CastToFloat, NearestOn
<1>5. CASE t \notin Integral \cup {"f32"}
  <2>1. /\ col \notin DOMAIN IntegerColumn
        /\ t \in Fractional => col \in {"Real", "Float"} \/ TypedNullTag(col) \in Fallible
        /\ t \notin Fractional =>
               col \notin {"Real", "Float"} /\ TypedNullTag(col) \notin Fallible
    BY <1>1, <1>2, <1>5, IntegralAre, IntegerColumnsAre
       DEF WireTypes, NotAColumn, RustTypeNames, NullTypes, Documented, Bytes, Fractional, Fallible
  <2>2. n \in ValuesOf(t)
    <3>1. CASE t \in Fractional
      BY <1>1, <1>5, <2>1, <3>1 DEF ColumnValues, ValuesOf, On
    <3>2. CASE t \notin Fractional
      BY <1>5, <2>1, <3>2 DEF ColumnValues, ValuesOf
    <3>3. QED
      BY <3>1, <3>2
  <2>3. QED
    BY <1>5, <2>2, CastElsewhere
<1>6. QED
  BY <1>3, <1>4, <1>5

LEMMA SendStep ==
    ASSUME TypeOK, WayInv, Send
    PROVE  TypeOK' /\ WayInv'
<1>1. /\ stage = "held" /\ stage' = "received"
      /\ wire' = ColumnData(TypedNullTag(column), held)
      /\ UNCHANGED <<way, legacy, type, bound, value, column, held, result>>
  BY DEF Send
<1>2. wire' \in Wires
  BY <1>1, ReadTyped DEF WayInv, StoreInv
<1>3. TypeOK'
  BY <1>1, <1>2 DEF TypeOK, Stages, Wires
<1>4. FromBound' <=> FromBound
  BY <1>1 DEF FromBound, OnWire
<1>5. WayInv'
  BY <1>1, <1>4 DEF WayInv, BindInv, StoreInv, ReadInv
<1>6. QED
  BY <1>3, <1>5

LEMMA MapColumnStep ==
    ASSUME TypeOK, WayInv, MapColumn
    PROVE  TypeOK' /\ WayInv'
<1>1. /\ stage = "received" /\ wire = ColumnData(TypedNullTag(column), held)
      /\ UNCHANGED <<way, legacy, type, bound, wire, column, held, result>>
  BY DEF MapColumn, WayInv, ReadInv
<1>2. FromBound' <=> FromBound
  BY <1>1 DEF FromBound, OnWire
<1>3. CASE TypedNullTag(column) \in Fallible /\ held = <<Beyond>>
  <2>1. stage' = "failed" /\ value' = value
    BY <1>1, <1>3 DEF MapColumn, ColumnData
  <2>2. QED
    BY <1>1, <1>2, <1>3, <2>1 DEF TypeOK, Stages, WayInv, BindInv, StoreInv, ReadInv
<1>4. CASE ~(TypedNullTag(column) \in Fallible /\ held = <<Beyond>>)
  <2>1. stage' = "read" /\ value' = ReadAs(column, held)
    BY <1>1, <1>4 DEF MapColumn, ColumnData, ReadAs
  <2>2. ReadAs(column, held) \in DataValues
    BY <1>1, ReadTyped DEF WayInv, StoreInv
  <2>3. TypeOK'
    BY <1>1, <2>1, <2>2 DEF TypeOK, Stages, DataValues
  <2>4. WayInv'
    BY <1>1, <1>2, <1>4, <2>1 DEF WayInv, BindInv, StoreInv, ReadInv, ReadAs
  <2>5. QED
    BY <2>3, <2>4
<1>5. QED
  BY <1>3, <1>4

\* What reading a column as a type, as an Option or not, returns.
LEMMA Returned ==
    ASSUME NEW col \in Columns, NEW h \in Held(ColumnValues(col)),
           TypedNullTag(col) \in Fallible => h # <<Beyond>>,
           NEW t \in RustTypes, NEW optional \in BOOLEAN,
           NEW r, r = FromSql(t, optional, ReadAs(col, h))
    PROVE  /\ r.type = t /\ r.optional = optional
           /\ r.v \in Held(ValuesOf(t))
           /\ r.ok <=> IF h = Null THEN optional ELSE t \in Documented(col)
           /\ r.ok => ((r.v = Null) <=> (h = Null))
           /\ r.ok /\ h # Null =>
                  /\ t # "f32" => r.v = h
                  /\ t = "f32" => r.v = <<Nearest(h[1], Coarse)>> /\ col \in {"Real", "Float"}
<1>1. Null \in Held(ValuesOf(t))
  BY DEF Held
<1>2. CASE h = Null
  <2>1. r = [No(t, optional) EXCEPT !.ok = optional]
    BY <1>2 DEF FromSql, IsNull, ReadAs, NullOf, DataValue
  <2>2. r.type = t /\ r.optional = optional /\ r.ok = optional /\ r.v = Null
    BY <2>1 DEF No
  <2>3. QED
    BY <1>1, <1>2, <2>2
<1>3. CASE h # Null
  <2>1. PICK n \in ColumnValues(col) : h = <<n>>
    BY <1>3 DEF Held
  <2>2. TypedNullTag(col) \in Fallible => n # Beyond
    BY <2>1
  <2>3. ReadVariant[TypedNullTag(col)] \in Kinds
    BY ColumnTag, TagsRead
  <2>4. ~IsNull(ReadAs(col, h))
    BY <1>3, <2>3 DEF IsNull, ReadAs, DataValue, Kinds
  <2>5. r = IF t \in Documented(col) THEN Yes(t, optional, <<Cast(n, t)>>) ELSE No(t, optional)
    BY <1>3, <2>1, <2>4, ReadableIsDocumented DEF FromSql, ReadAs, DataValue
  <2>6. CASE t \notin Documented(col)
    <3>1. r.type = t /\ r.optional = optional /\ ~r.ok /\ r.v = Null
      BY <2>5, <2>6 DEF No
    <3>2. QED
      BY <1>1, <1>3, <2>6, <3>1
  <2>7. CASE t \in Documented(col)
    <3>1. r.type = t /\ r.optional = optional /\ r.ok /\ r.v = <<Cast(n, t)>>
      BY <2>5, <2>7 DEF Yes
    <3>2. /\ Cast(n, t) \in ValuesOf(t)
          /\ Cast(n, t) = IF t = "f32" THEN Nearest(n, Coarse) ELSE n
          /\ t = "f32" => col \in {"Real", "Float"}
      BY <2>2, <2>7, ReadNumber
    <3>3. r.v \in Held(ValuesOf(t)) /\ r.v # Null
      BY <3>1, <3>2 DEF Held, Null
    <3>4. r.v = IF t = "f32" THEN <<Nearest(h[1], Coarse)>> ELSE h
      BY <2>1, <3>1, <3>2
    <3>5. QED
      BY <1>3, <2>1, <2>7, <3>1, <3>2, <3>3, <3>4
  <2>8. QED
    BY <2>6, <2>7
<1>4. QED
  BY <1>2, <1>3

LEMMA GetStep ==
    ASSUME TypeOK, WayInv, Get
    PROVE  TypeOK' /\ WayInv'
<1>1. /\ stage = "read" /\ stage' = "done" /\ value = ReadAs(column, held)
      /\ TypedNullTag(column) \in Fallible => held # <<Beyond>>
      /\ column \in Columns /\ held \in Held(ColumnValues(column))
      /\ UNCHANGED <<way, legacy, type, bound, value, wire, column, held>>
  BY DEF Get, WayInv, StoreInv, ReadInv
<1>2. PICK t \in RustTypes, optional \in BOOLEAN : result' = FromSql(t, optional, value)
  BY DEF Get
<1>3. result'.type = t /\ result'.v \in Held(ValuesOf(t))
  BY <1>1, <1>2, Returned
<1>4. TypeOK'
  BY <1>1, <1>3 DEF TypeOK, Stages
<1>5. FromBound' <=> FromBound
  BY <1>1 DEF FromBound, OnWire
<1>6. WayInv'
  BY <1>1, <1>2, <1>5 DEF WayInv, BindInv, StoreInv, ReadInv
<1>7. QED
  BY <1>4, <1>6

LEMMA WayStep == TypeOK /\ WayInv /\ [Next]_vars => TypeOK' /\ WayInv'
<1> SUFFICES ASSUME TypeOK, WayInv, [Next]_vars PROVE TypeOK' /\ WayInv'
  OBVIOUS
<1>1. CASE Over \/ UNCHANGED vars
  <2>1. UNCHANGED <<stage, way, legacy, type, bound, value, wire, column, held, result>>
    BY <1>1 DEF Over, vars
  <2>2. TypeOK'
    BY <2>1 DEF TypeOK
  <2>3. (FromBound' <=> FromBound) /\ WireOf(value)' = WireOf(value)
    BY <2>1 DEF FromBound, OnWire, WireOf, IsLegacy
  <2>4. WayInv'
    BY <2>1, <2>3 DEF WayInv, BindInv, StoreInv, ReadInv
  <2>5. QED
    BY <2>2, <2>4
<1>2. QED
  BY <1>1, BindStep, StoreStep, SendStep, MapColumnStep, GetStep DEF Next

-----------------------------------------------------------------------------
(* The theorems.                                                           *)

\* Every variable keeps its type, and at every place on its way the value is
\* what the places before have made of it.
THEOREM Invariance == Spec => [](TypeOK /\ WayInv)
<1>1. QED
  BY WayInit, WayStep, PTL DEF Spec

\* Every variable keeps its type: in particular what is read as a type is a
\* value of it.
THEOREM TypesCorrect == Spec => []TypeOK
<1>1. QED
  BY Invariance, PTL

\* A column reads as the types the documentation lists for it and as no
\* other.
THEOREM ReadsAsDocumentedHolds == Spec => []ReadsAsDocumented
<1>1. TypeOK /\ WayInv => ReadsAsDocumented
  <2> SUFFICES ASSUME WayInv, stage = "done"
               PROVE  result.ok <=> IF held = Null THEN result.optional
                                    ELSE result.type \in Documented(column)
    BY DEF ReadsAsDocumented
  <2>1. PICK t \in RustTypes, optional \in BOOLEAN :
            result = FromSql(t, optional, ReadAs(column, held))
    BY DEF WayInv, ReadInv
  <2>2. /\ column \in Columns /\ held \in Held(ColumnValues(column))
        /\ TypedNullTag(column) \in Fallible => held # <<Beyond>>
    BY DEF WayInv, StoreInv, ReadInv
  <2>3. QED
    BY <2>1, <2>2, Returned
<1>2. QED
  BY <1>1, Invariance, PTL

Difference(m, n) == IF m < n THEN n - m ELSE m - n

\* How far two or three roundings in turn may take a number.
LEMMA RoundedTwice ==
    ASSUME NEW n \in Fine, NEW sent \in BOOLEAN, NEW grain \in {1, Coarse, Coarser},
           NEW single \in BOOLEAN, single => grain # Coarser,
           NEW w, w = IF sent THEN Nearest(n, Coarse) ELSE n,
           NEW h, h = Nearest(w, grain),
           NEW r, r = IF single THEN Nearest(h, Coarse) ELSE h,
           NEW step, step = IF sent \/ single
                            THEN IF grain = Coarser THEN Coarser ELSE Coarse
                            ELSE grain
    PROVE  /\ n % step = 0 => Difference(r, n) = 0
           /\ IF sent /\ grain = Coarser THEN Difference(r, n) < step
              ELSE 2 * Difference(r, n) <= step
<1>1. w \in Fine /\ h \in Fine
  BY GrainIs, NearestOn
<1>2. CASE grain = 1
  <2>1. h = w
    BY <1>1, <1>2, NearestIs DEF Fine
  <2>2. CASE sent \/ single
    <3>1. step = 3 /\ grain # Coarser
      BY <1>2, <2>2 DEF Coarse, Coarser
    <3>2. r = Nearest(n, Coarse)
      BY <1>1, <2>1, <2>2, NearestIs DEF Fine
    <3>3. QED
      BY <3>1, <3>2, NearestIs DEF Fine, Difference
  <2>3. CASE ~sent /\ ~single
    BY <1>2, <2>1, <2>3 DEF Fine, Coarser, Difference
  <2>4. QED
    BY <2>2, <2>3
<1>3. CASE grain = Coarse
  <2>1. step = 3 /\ grain # Coarser
    BY <1>3 DEF Coarse, Coarser
  <2>2. r = Nearest(n, Coarse)
    BY <1>1, <1>3, NearestIs DEF Fine
  <2>3. QED
    BY <2>1, <2>2, NearestIs DEF Fine, Difference
<1>4. CASE grain = Coarser
  BY <1>1, <1>4, NearestIs DEF Fine, Coarse, Coarser, Difference
<1>5. QED
  BY <1>2, <1>3, <1>4

\* What is read is what was bound, to half a step of the coarsest place on the
\* way (a legacy parameter in a smalldatetime column, to a whole one) and
\* exactly if that place holds it, whatever the width of the integers; and no
\* value this crate has written fails to be read.
THEOREM ComesBackAsBoundHolds == Spec => []ComesBackAsBound
<1>1. TypeOK /\ WayInv => ComesBackAsBound
  <2> SUFFICES ASSUME TypeOK, WayInv PROVE ComesBackAsBound
    OBVIOUS
  <2> DEFINE twice == legacy /\ type = "NaiveDateTime" /\ column = "SmallDateTime"
  <2>1. ASSUME stage = "done", result.ok
        PROVE  /\ (result.v = Null) <=> (held = Null)
               /\ type = "none" /\ result.type # "f32" => result.v = held
               /\ type \in RustTypes => ((result.v = Null) <=> (bound = Null))
               /\ type \in RustTypes /\ bound # Null =>
                      /\ bound[1] % Coarsest = 0 => Difference(result.v[1], bound[1]) = 0
                      /\ IF twice THEN Difference(result.v[1], bound[1]) < Coarsest
                         ELSE 2 * Difference(result.v[1], bound[1]) <= Coarsest
    <3>1. PICK t \in RustTypes, optional \in BOOLEAN :
              result = FromSql(t, optional, ReadAs(column, held))
      BY <2>1 DEF WayInv, ReadInv
    <3>2. /\ column \in Columns /\ held \in Held(ColumnValues(column))
          /\ TypedNullTag(column) \in Fallible => held # <<Beyond>>
      BY <2>1 DEF WayInv, StoreInv, ReadInv
    <3>3. /\ result.type = t
          /\ (result.v = Null) <=> (held = Null)
          /\ held # Null =>
                 /\ t # "f32" => result.v = held
                 /\ t = "f32" =>
                        result.v = <<Nearest(held[1], Coarse)>> /\ column \in {"Real", "Float"}
      BY <2>1, <3>1, <3>2, Returned
    <3>4. ASSUME type \in RustTypes PROVE FromBound /\ bound \in Held(ValuesOf(type))
      BY <2>1, <3>4 DEF WayInv, BindInv, StoreInv
    <3>5. ASSUME type \in RustTypes, bound # Null
          PROVE  /\ bound[1] % Coarsest = 0 => Difference(result.v[1], bound[1]) = 0
                 /\ IF twice THEN Difference(result.v[1], bound[1]) < Coarsest
                    ELSE 2 * Difference(result.v[1], bound[1]) <= Coarsest
      <4> DEFINE sent == legacy /\ type = "NaiveDateTime"
                 grain == Grain(column)
                 single == t = "f32"
      <4>1. PICK n \in ValuesOf(type) : bound[1] = n
        BY <3>4, <3>5 DEF Held
      <4>2. /\ held # Null
            /\ held[1] = Nearest(OnWire(type, n), grain)
            /\ type \in Integral => column \in DOMAIN IntegerColumn
        BY <3>4, <3>5, <4>1 DEF FromBound
      <4>3. result.v[1] = IF single THEN Nearest(held[1], Coarse) ELSE held[1]
        BY <3>3, <4>2
      <4>4. /\ Coarsest = IF sent \/ single
                          THEN IF grain = Coarser THEN Coarser ELSE Coarse
                          ELSE grain
            /\ twice <=> sent /\ grain = Coarser
        BY <3>3, GrainIs DEF Coarsest
      <4>5. CASE type \in Integral
        <5>1. ~sent /\ ~single /\ grain = 1
          BY <3>3, <4>2, <4>5, IntegralAre, IntegerColumnsAre, GrainIs
        <5>2. n \in Int /\ result.v[1] = n
          <6>1. n \in Int /\ OnWire(type, n) = n
            BY <4>5, <5>1, IntegralAre, IntsAssumption DEF OnWire, ValuesOf
          <6>2. QED
            BY <4>2, <4>3, <5>1, <6>1, NearestIs
        <5>3. Coarsest = 1 /\ ~twice
          BY <4>4, <5>1 DEF Coarser
        <5>4. QED
          BY <4>1, <5>2, <5>3 DEF Difference
      <4>6. CASE type \notin Integral
        <5>1. n \in Fine
          BY <4>6 DEF ValuesOf, On, Fine
        <5>2. sent \in BOOLEAN /\ single \in BOOLEAN /\ (single => grain # Coarser)
          BY <3>3, <4>2, GrainIs, TypesExpanded
        <5>3. OnWire(type, n) = IF sent THEN Nearest(n, Coarse) ELSE n
          BY DEF OnWire, ToLegacyDatetime
        <5> HIDE DEF sent, single, twice
        <5>4. grain \in {1, Coarse, Coarser}
          BY GrainIs
        <5> HIDE DEF grain
        <5>5. /\ n % Coarsest = 0 => Difference(result.v[1], n) = 0
              /\ IF sent /\ grain = Coarser THEN Difference(result.v[1], n) < Coarsest
                 ELSE 2 * Difference(result.v[1], n) <= Coarsest
          BY <4>2, <4>3, <4>4, <5>1, <5>2, <5>3, <5>4, RoundedTwice
        <5>6. QED
          BY <4>1, <4>4, <5>5
      <4>7. QED
        BY <4>5, <4>6
    <3>6. ASSUME type = "none", result.type # "f32" PROVE result.v = held
      BY <3>3, <3>6
    <3>7. ASSUME type \in RustTypes PROVE (result.v = Null) <=> (bound = Null)
      BY <3>3, <3>4, <3>7 DEF FromBound
    <3>8. QED
      BY <3>3, <3>5, <3>6, <3>7
  <2>2. ASSUME stage = "failed" PROVE type = "none" /\ held = <<Beyond>>
    BY <2>2 DEF WayInv, StoreInv, ReadInv
  <2>3. QED
    BY <2>1, <2>2 DEF ComesBackAsBound, Difference
<1>2. QED
  BY <1>1, Invariance, PTL

\* A NULL goes into every column of its type.
THEOREM NullsGoInHolds == Spec => []NullsGoIn
<1>1. TypeOK /\ WayInv => NullsGoIn
  <2> SUFFICES ASSUME TypeOK, WayInv, stage = "refused", wire.v = Null
               PROVE  /\ type \in RustTypes => type \notin Documented(column)
                      /\ value.kind = "TypedNull" => value.type \notin Reported(column)
                      /\ value.kind = "Null" => column \in Bytes
    BY DEF NullsGoIn
  <2>1. column \in Columns /\ ~Takes(wire.tag, column) /\ wire = WireOf(value)
    BY DEF WayInv, BindInv, StoreInv
  <2>2. value.kind \in Kinds \/ (value \in {NullOf(ty) : ty \in SqlTypes})
    <3>1. CASE type \in RustTypes /\ value = BoundAs(type, bound)
      BY <3>1, NullTypesTyped, TagsRead DEF BoundAs, DataValue
    <3>2. CASE value \in OwnValues
      BY <3>2 DEF OwnValues, DataValue, Kinds
    <3>3. QED
      BY <3>1, <3>2 DEF WayInv, BindInv
  <2>3. ASSUME type \in RustTypes PROVE type \notin Documented(column)
    <3>1. value = BoundAs(type, bound)
      BY <2>3, NotRust DEF WayInv, BindInv
    <3>2. wire = IF bound = Null THEN ColumnData(TypedNullTag(NullType[type]), Null)
                 ELSE ColumnData(TagFor(type), <<OnWire(type, bound[1])>>)
      BY <2>1, <2>3, <3>1, WireOfBound DEF WayInv, BindInv
    <3>3. bound = Null /\ wire.tag = TypedNullTag(NullType[type])
      BY <3>2 DEF ColumnData, Null
    <3>4. QED
      BY <2>1, <2>3, <3>3, NoneGoesIn
  <2>4. ASSUME NEW ty \in SqlTypes, value = NullOf(ty)
        PROVE  /\ value.kind = "TypedNull" => value.type \notin Reported(column)
               /\ value.kind = "Null" => column \in Bytes
    <3>1. /\ value.kind = IF ty = "Null" THEN "Null" ELSE "TypedNull"
          /\ value.type = ty
          /\ wire.tag = IF ty = "Null" THEN "String" ELSE TypedNullTag(ty)
      <4>1. /\ NullOf(ty).kind = IF ty = "Null" THEN "Null" ELSE "TypedNull"
            /\ NullOf(ty).type = ty
        BY DEF NullOf, DataValue
      <4>2. wire.tag = IF ty = "Null" THEN "String" ELSE TypedNullTag(ty)
        BY <2>1, <2>4, WireOfOwn DEF ColumnData
      <4>3. QED
        BY <2>4, <4>1, <4>2
    <3>2. CASE ty = "Null"
      BY <2>1, <3>1, <3>2 DEF Takes
    <3>3. CASE ty # "Null"
      BY <2>1, <3>1, <3>3, ReportedGoesIn
    <3>4. QED
      BY <3>2, <3>3
  <2>5. QED
    BY <2>2, <2>3, <2>4 DEF Kinds
<1>2. QED
  BY <1>1, Invariance, PTL

=============================================================================
