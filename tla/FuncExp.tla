------------------------------ MODULE FuncExp ------------------------------
(***************************************************************************)
(* The SQL functions ceil, char and trim (func_ceil.cpp, func_char.cpp,    *)
(* func_trim.cpp) as operators from the parameters of a call to what the   *)
(* call returns.  PureFunctions evaluates them and checks them against     *)
(* what the functions are to compute.                                      *)
(*                                                                         *)
(* A parameter is what parm[i]->data() gives for the row: isNull, and the  *)
(* number value / 10^scale (a decimal as getDecimalVal returns it; the     *)
(* same number as a double or as the text strtod reads), or a string of    *)
(* characters.  Texts of numbers are the numbers.  A string is a sequence  *)
(* of wide characters; bad says that it holds a byte sequence that         *)
(* idb_mbstowcs refuses.                                                   *)
(***************************************************************************)
EXTENDS Integers, Sequences, SequencesExt, FiniteSets

CONSTANT Space      \* the character ' '

IntTypes   == {"BIGINT", "INT", "MEDINT", "TINYINT", "SMALLINT"}
FloatTypes == {"DOUBLE", "FLOAT"}
TextTypes  == {"VARCHAR", "CHAR"}

Returned(isNull, ret) == [isNull |-> isNull, ret |-> ret, thrown |-> FALSE]
Thrown    == [isNull |-> FALSE, ret |-> 0, thrown |-> TRUE]
Undefined == [isNull |-> FALSE, ret |-> 0, thrown |-> FALSE, undefined |-> TRUE]

\* powerOf10_c[scale] and power(scale).
Pow10(scale) == IF scale > 0 THEN 10 ^ scale ELSE 1

\* a / b of two C++ integers: the quotient is cut off towards zero.
TruncDiv(a, b) == IF a >= 0 THEN a \div b ELSE -((-a) \div b)

\* ceil() of the C library on the double value / 10^scale.
ceil(parm) == -((-parm.value) \div Pow10(parm.scale))

-----------------------------------------------------------------------------
(* Func_ceil                                                               *)

\* Faulty variant: the quotient is taken as it is.
CeilDecimalCutOff(decimal) == TruncDiv(decimal.value, Pow10(decimal.scale))

\* The decimal cut to an integer, one more when something positive was
\* cut off.
CeilDecimal(decimal) ==
    LET ret == TruncDiv(decimal.value, Pow10(decimal.scale))
    IN  IF decimal.value - ret * Pow10(decimal.scale) > 0 THEN ret + 1 ELSE ret

Ceil_getIntVal(op_ct, parm) ==
    CASE op_ct \in IntTypes \cup {"DECIMAL"} ->
            IF parm.isNull THEN Returned(TRUE, 0)
            ELSE IF parm.scale <= 0 THEN Returned(FALSE, parm.value)
            ELSE IF parm.scale >= 19 THEN Thrown
            ELSE Returned(FALSE, CeilDecimal(parm))
      [] op_ct \in FloatTypes -> Returned(parm.isNull, ceil(parm))
      [] op_ct \in TextTypes ->
            Returned(parm.isNull, IF parm.isNull THEN 0 ELSE ceil(parm))
      \* the digits of the date, and of the date and time without the
      \* microseconds, read as a number
      [] op_ct \in {"DATE", "DATETIME"} ->
            Returned(parm.isNull, IF parm.isNull THEN 0 ELSE parm.value)
      [] OTHER -> Thrown

Ceil_getDoubleVal(op_ct, parm) ==
    IF op_ct \in FloatTypes THEN Returned(parm.isNull, ceil(parm))
    ELSE IF op_ct \in TextTypes
    THEN Returned(parm.isNull, IF parm.isNull THEN 0 ELSE ceil(parm))
    ELSE Ceil_getIntVal(op_ct, parm)

\* The text of the double up to its decimal point, or of the integer.
Ceil_getStrVal(op_ct, parm) ==
    IF op_ct \in FloatTypes \cup TextTypes THEN Ceil_getDoubleVal(op_ct, parm)
    ELSE Ceil_getIntVal(op_ct, parm)

-----------------------------------------------------------------------------
(* Func_char                                                               *)

\* Faulty variant: the byte is not reduced by what goes to the next byte.
RECURSIVE LowBytesFirstWhole(_)
LowBytesFirstWhole(value) ==
    LET num == TruncDiv(value, 256)
    IN  <<value>> \o (IF num > 255 THEN LowBytesFirstWhole(num) ELSE <<num>>)

\* The loop of getChar: the bytes of value, the lowest first.
RECURSIVE LowBytesFirst(_)
LowBytesFirst(value) ==
    LET num      == TruncDiv(value, 256)
        newValue == value - num * 256
    IN  <<newValue>> \o (IF num > 255 THEN LowBytesFirst(num) ELSE <<num>>)

\* Faulty variant: the bytes are written in the order the loop found them.
getCharNotReversed(value) ==
    IF value < 0 THEN [ok |-> FALSE, oss |-> <<>>]
    ELSE IF value < 256 THEN [ok |-> TRUE, oss |-> <<value>>]
    ELSE [ok |-> TRUE, oss |-> LowBytesFirst(value) \o <<0>>]

\* getChar(): no character of a negative value, one byte below 256, else
\* the bytes in reverse order and then s[s.size()], the terminator of s.
getChar(value) ==
    IF value < 0 THEN [ok |-> FALSE, oss |-> <<>>]
    ELSE IF value < 256 THEN [ok |-> TRUE, oss |-> <<value>>]
    ELSE [ok |-> TRUE, oss |-> Reverse(LowBytesFirst(value)) \o <<0>>]

\* The decimal rounded half up, as Func_char does it.
RoundDecimal(d) ==
    LET value == TruncDiv(d.value, Pow10(d.scale))
        lefto == TruncDiv(d.value - value * Pow10(d.scale), Pow10(d.scale - 1))
    IN  IF lefto > 4 THEN value + 1 ELSE value

\* The integer getChar is called with.
CharValue(ct, parm) ==
    IF ct = "DECIMAL" THEN RoundDecimal(parm)
    ELSE TruncDiv(parm.value, Pow10(parm.scale))

Char_getStrVal(ct, parm) ==
    CASE ct \in IntTypes \cup TextTypes \cup FloatTypes \cup {"DECIMAL"} ->
            LET char == getChar(CharValue(ct, parm))
            IN  IF ~char.ok THEN Returned(TRUE, <<>>)
                ELSE IF parm.isNull THEN Returned(FALSE, <<>>)
                ELSE Returned(FALSE, char.oss)
      [] ct \in {"DATE", "DATETIME"} -> Returned(TRUE, <<>>)
      [] OTHER -> Thrown

-----------------------------------------------------------------------------
(* Func_trim.  aPtr and aEnd are offsets into wcbuf, from 0.               *)

\* idb_mbstowcs: the number of wide characters, 0 for a bad string.
WcLen(parm) == IF parm.bad THEN 0 ELSE Len(parm.str)

RECURSIVE LeadingChr(_, _, _, _), TrailingChr(_, _, _, _)
LeadingChr(tstr, chr, aPtr, aEnd) ==
    IF aPtr # aEnd /\ tstr[aPtr + 1] = chr
    THEN LeadingChr(tstr, chr, aPtr + 1, aEnd) ELSE aPtr

TrailingChr(tstr, chr, aPtr, aEnd) ==
    IF aEnd # aPtr /\ tstr[aEnd + 1] = chr
    THEN TrailingChr(tstr, chr, aPtr, aEnd - 1) ELSE aEnd

\* memcmp(p, wctrim, trimCmpLen) = 0
Matches(tstr, p, trim) == SubSeq(tstr, p + 1, p + Len(trim)) = trim

\* Faulty variant: the end goes back by one character for a trim string
\* found at the end.
RECURSIVE TrailingStrByOne(_, _, _, _)
TrailingStrByOne(tstr, trim, aPtr, aEnd) ==
    IF aPtr <= aEnd /\ Matches(tstr, aEnd, trim)
    THEN TrailingStrByOne(tstr, trim, aPtr, aEnd - 1) ELSE aEnd

RECURSIVE LeadingStr(_, _, _, _), TrailingStr(_, _, _, _)
LeadingStr(tstr, trim, aPtr, aEnd) ==
    IF aPtr <= aEnd /\ Matches(tstr, aPtr, trim)
    THEN LeadingStr(tstr, trim, aPtr + Len(trim), aEnd) ELSE aPtr

TrailingStr(tstr, trim, aPtr, aEnd) ==
    IF aPtr <= aEnd /\ Matches(tstr, aEnd, trim)
    THEN TrailingStr(tstr, trim, aPtr, aEnd - Len(trim)) ELSE aEnd

\* wstring(aPtr, strwclen - trimCnt)
Trimmed(tstr, strwclen, aPtr, trimCnt) ==
    Returned(FALSE, SubSeq(tstr, aPtr + 1, aPtr + strwclen - trimCnt))

TrimChr(tstr, strwclen, chr) ==
    LET aPtr == LeadingChr(tstr, chr, 0, strwclen - 1)
        aEnd == TrailingChr(tstr, chr, aPtr, strwclen - 1)
    IN  Trimmed(tstr, strwclen, aPtr, aPtr + (strwclen - 1 - aEnd))

TrimStr(tstr, strwclen, trim) ==
    LET last == strwclen - 1 - (Len(trim) - 1)
        aPtr == LeadingStr(tstr, trim, 0, last)
        aEnd == TrailingStr(tstr, trim, aPtr, last)
    IN  Trimmed(tstr, strwclen, aPtr, aPtr + (last - aEnd))

\* The trim characters: the second parameter, ' ' when there is none.
TrimParm(fp) ==
    IF Len(fp) > 1 THEN fp[2] ELSE [isNull |-> FALSE, str |-> <<Space>>, bad |-> FALSE]

Trim_getStrVal(fp) ==
    LET tstr     == fp[1].str
        strwclen == WcLen(fp[1])
        trimlen  == WcLen(TrimParm(fp))
    IN  IF fp[1].isNull \/ TrimParm(fp).isNull THEN Returned(TRUE, <<>>)
        ELSE IF tstr = <<>> THEN Returned(FALSE, tstr)
        ELSE IF trimlen = 0 THEN Trimmed(tstr, strwclen, 0, 0)
        \* with no character converted the loops read wcbuf[0], which
        \* nothing has written, and wcbuf[-1]
        ELSE IF trimlen = 1 /\ strwclen = 0 THEN Undefined
        ELSE IF trimlen = 1 THEN TrimChr(tstr, strwclen, TrimParm(fp).str[1])
        ELSE TrimStr(tstr, strwclen, TrimParm(fp).str)
=============================================================================
