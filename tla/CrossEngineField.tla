-------------------------- MODULE CrossEngineField --------------------------
(***************************************************************************)
(* How CrossEngineStep puts a value of the query result into a field of a  *)
(* row (setField and convertValueNum, crossenginestep.cpp).                *)
(*                                                                         *)
(* A value of a C type is the sequence of its bytes, the lowest first, so  *)
(* that the int64_t the switch assigns to keeps its 64 bits.  A value of   *)
(* the result is [isNull, text, pushWarning, anyVal]: the null pointer, or *)
(* the text with what DataConvert::convertColumnData makes of it, the      *)
(* warning and the boost::any [type, bytes].  A column of the row is       *)
(* [colDataType, colWidth, nullValue].                                     *)
(***************************************************************************)
EXTENDS Naturals, Sequences, SequencesExt

Bytes(n, b) == [i \in 1..n |-> b]

\* joblist::FLOATNULL, 0xFFAAAAAA
FLOATNULL == <<170, 170, 170, 255>>

\* i.resize(n, 0): the string cut to n bytes, or padded with NULs.
Resized(s, n) == SubSeq(s \o Bytes(n, 0), 1, n)

\* isnan(f): all exponent bits and a mantissa bit.
isnan(f) == f[4] % 128 = 127 /\ f[3] >= 128 /\ <<f[1], f[2], f[3] % 128>> # <<0, 0, 0>>

\* rv = v for v of an integer type: the sign goes to the bytes above.
Widened(v, signed) ==
    v \o Bytes(8 - Len(v), IF signed /\ Last(v) >= 128 THEN 255 ELSE 0)

\* The types whose values may be negative; plain char is the build's choice.
SignedTypes(charIsSigned) ==
    {"int16_t", "int32_t", "long long"} \cup (IF charIsSigned THEN {"char"} ELSE {})

\* case DECIMAL: the cast goes by the width of the column.
DecimalCast(colWidth) ==
    CASE colWidth = 1 -> "char"
      [] colWidth = 2 -> "int16_t"
      [] colWidth = 4 -> "int32_t"
      [] OTHER        -> "long long"

\* Faulty variant: a DECIMAL of two bytes is cast as one of four.
CastNamesDecimalAsInt ==
    [BIT |-> "bool", TINYINT |-> "char", SMALLINT |-> "int16_t",
     MEDINT |-> "int32_t", INT |-> "int32_t", BIGINT |-> "long long",
     FLOAT |-> "float", DOUBLE |-> "double",
     CHAR |-> "string", VARCHAR |-> "string", VARBINARY |-> "string",
     BLOB |-> "string", CLOB |-> "string",
     DATE |-> "uint32_t", DATETIME |-> "uint64_t", DECIMAL |-> "int32_t"]

\* switch (ct.colDataType): the type any_cast names in each case.
CastNames ==
    [BIT |-> "bool", TINYINT |-> "char", SMALLINT |-> "int16_t",
     MEDINT |-> "int32_t", INT |-> "int32_t", BIGINT |-> "long long",
     FLOAT |-> "float", DOUBLE |-> "double",
     CHAR |-> "string", VARCHAR |-> "string", VARBINARY |-> "string",
     BLOB |-> "string", CLOB |-> "string",
     DATE |-> "uint32_t", DATETIME |-> "uint64_t", DECIMAL |-> "by width"]

CastOf(ct) ==
    IF CastNames[ct.colDataType] = "by width" THEN DecimalCast(ct.colWidth)
    ELSE CastNames[ct.colDataType]

\* Faulty variant: the bits of a NaN are taken as boost::any gives them.
AssignedAsGiven(type, v, charIsSigned) ==
    IF type = "string" THEN Resized(v, 8)
    ELSE Widened(v, type \in SignedTypes(charIsSigned) \cup {"float"})

\* rv = any_cast<type>(anyVal): a NaN becomes FLOATNULL and the bits of a
\* float are read as an int32_t; a string is the first 8 of its bytes.
Assigned(type, v, charIsSigned) ==
    CASE type = "float"  -> Widened(IF isnan(v) THEN FLOATNULL ELSE v, TRUE)
      [] type = "string" -> Resized(v, 8)
      [] OTHER           -> Widened(v, type \in SignedTypes(charIsSigned))

Returns(rv) == [thrown |-> FALSE, rv |-> rv]
bad_any_cast == [thrown |-> TRUE, rv |-> <<>>]

\* Faulty variant: a value out of range is converted like any other.
convertValueNumWarned(str, ct, nullValue, charIsSigned) ==
    IF str.isNull \/ ct.colDataType \notin DOMAIN CastNames
    THEN Returns(nullValue)
    ELSE IF str.anyVal.type # CastOf(ct) THEN bad_any_cast
    ELSE Returns(Assigned(CastOf(ct), str.anyVal.bytes, charIsSigned))

\* convertValueNum(): the null value for NULL, for a value out of range and
\* for a type the switch does not name; any_cast throws when boost::any
\* holds another type than the case names.
convertValueNum(str, ct, nullValue, charIsSigned) ==
    IF str.isNull \/ str.pushWarning \/ ct.colDataType \notin DOMAIN CastNames
    THEN Returns(nullValue)
    ELSE IF str.anyVal.type # CastOf(ct) THEN bad_any_cast
    ELSE Returns(Assigned(CastOf(ct), str.anyVal.bytes, charIsSigned))

\* Row::setIntField: the bytes of the value the column has room for.
setIntField(val, colWidth) == SubSeq(val, 1, colWidth)

IsLongString(col) == col.colDataType \in {"CHAR", "VARCHAR"} /\ col.colWidth > 8

\* row.setIntField(rv, i), unless convertValueNum has thrown.
IntField(converted, colWidth) ==
    [thrown |-> converted.thrown,
     field  |-> IF converted.thrown THEN <<>> ELSE setIntField(converted.rv, colWidth)]

\* setField(): a CHAR or VARCHAR of more than 8 bytes is stored as a string,
\* the empty one for NULL; every other value as an integer.
setField(value, col, charIsSigned) ==
    IF IsLongString(col)
    THEN [thrown |-> FALSE, field |-> IF value.isNull THEN <<>> ELSE value.text]
    ELSE IntField(convertValueNum(value, col, col.nullValue, charIsSigned),
                  col.colWidth)
=============================================================================
