--------------------------- MODULE MCPureFunctions ---------------------------
(***************************************************************************)
(* The calls PureFunctions evaluates: numbers around zero, the powers of   *)
(* ten and the byte boundaries; strings of the trim character and one      *)
(* other; texts of an enclosing, an escape, a delimiter, a newline and one *)
(* other character, for a buffer they fit into and for one they fill;      *)
(* sensor files of up to two lines with readings at, between and beyond    *)
(* the thresholds, and lines that are empty, short, long or without        *)
(* thresholds; statements of DDL made of the characters and the words the  *)
(* scanner tells apart, every word of the grammar in three spellings and   *)
(* with a letter behind it, and statements parsed one after the other,     *)
(* the earlier ones left at every token.                                   *)
(***************************************************************************)
EXTENDS PureFunctions

CONSTANTS a, b, SmallBuf, LargeBuf, MaxTextLen, MaxListLen, tableT, aliasU, filterF, filterG,
          fan, temp, rpm, cr

Parm(value, scale, isNull) == [value |-> value, scale |-> scale, isNull |-> isNull]

Numbers == {-150, -101, -100, -15, -10, -5, -1, 0, 1, 5, 10, 14, 15, 99, 100, 101}

MCCeilCalls ==
    [type : {"INT", "BIGINT"}, parm : {Parm(v, 0, n) : v \in Numbers, n \in BOOLEAN}]
    \cup [type : {"DECIMAL"},
          parm : {Parm(v, s, FALSE) : v \in Numbers, s \in {0, 1, 2, 19}}]
    \cup [type : {"DOUBLE", "VARCHAR"},
          parm : {Parm(v, s, FALSE) : v \in Numbers, s \in {0, 1, 2}}]
    \cup [type : {"DATE", "DATETIME"}, parm : {Parm(101, 0, n) : n \in BOOLEAN}]
    \cup [type : {"BLOB"}, parm : {Parm(1, 0, FALSE)}]

CharValues == {-1, 0, 65, 255, 256, 257, 65535, 65536, 70000, 16777216}

MCCharCalls ==
    [type : {"INT", "VARCHAR"}, parm : {Parm(v, 0, n) : v \in CharValues, n \in BOOLEAN}]
    \cup [type : {"DOUBLE"}, parm : {Parm(v, 1, FALSE) : v \in {649, 2555, 2565, -5}}]
    \cup [type : {"DECIMAL"},
          parm : {Parm(v, s, FALSE) : v \in {644, 645, 2554, 2555, 2565, -5}, s \in {1, 2}}]
    \cup [type : {"DATE", "BLOB"}, parm : {Parm(65, 0, FALSE)}]

Str(str, isNull, bad) == [str |-> str, isNull |-> isNull, bad |-> bad]

\* The sequences over S of at most n elements.
Texts(S, n) == UNION {[1..k -> S] : k \in 0..n}

MCTrimCalls ==
    [fp : {<<Str(s, FALSE, FALSE)>> : s \in Texts({Space, a}, 4)}]
    \cup [fp : {<<Str(s, FALSE, FALSE), Str(t, FALSE, FALSE)>> :
                  s \in Texts({Space, a}, 4), t \in Texts({Space, a}, 2)}]
    \cup [fp : {<<Str(<<a>>, TRUE, FALSE)>>, <<Str(<<a>>, FALSE, TRUE)>>,
                <<Str(<<a>>, FALSE, FALSE), Str(<<a>>, TRUE, FALSE)>>,
                <<Str(<<a, Space>>, FALSE, TRUE), Str(<<a, a>>, FALSE, FALSE)>>}]

MCRowCalls ==
    [text : Texts({ENCL, ESC, DELIM, NL, a}, MaxTextLen), MaxLen : {SmallBuf, LargeBuf}]

MCFileLists == [FileName : Texts({SEP, a, b}, MaxListLen)]

\* The job steps of one filter or two, and the projected columns.
MCFilterJobSteps ==
    [step : FilterSteps \cup {"pColStep", "TupleHashJoinStep"}, BOP : {BOP_AND, BOP_OR},
     filters : Texts({filterF, filterG, Empty}, 2)]

MCProjectJobSteps == [tupleId : 1..2, name : {a, b}]

BuilderCalls ==
    [call : {"setBPP"}, jobStep : MCFilterJobSteps]
    \cup [call : {"setProjectBPP"}, jobStep : MCProjectJobSteps]

\* Up to three calls of the builder, a projection among them.
MCQueryCalls ==
    [fTable : {tableT}, fAlias : {tableT, aliasU},
     calls : {c \in Texts(BuilderCalls, 2) \cup
                    {<<c1, c2, c3>> : c1, c2, c3 \in
                        [call : {"setBPP"},
                         jobStep : [step : {"pColStep", "FilterStep"},
                                    BOP : {BOP_AND, BOP_OR},
                                    filters : {<<filterF>>, <<filterF, filterG>>, <<Empty>>}]]} :
                 TRUE}]

\* The tokens that are no number.
MCWords == {ok, nr, na, blank, fan, temp, rpm, cr}

\* Lines of a sensor with the thresholds 1 2 3 | 5 6 7.
SensorLines ==
    {<<name, reading, rpm, status, 1, 2, 3, 5, 6, 7>> :
        name \in {fan, temp}, reading \in 0..8, status \in {ok, cr}}

\* An empty line, lines that end early, a sensor without thresholds, one
\* without the last, and a line of eleven tokens.
OtherLines ==
    {<<>>, <<temp>>, <<temp, 4, rpm, na>>,
     <<fan, 4, rpm, cr, na, na, na, na, na, na>>,
     <<fan, 4, rpm, cr, 1, 2, 3, 5, 6, na>>,
     <<fan, 4, rpm, cr, 1, 2, 3, 5, 6, 7, 8>>}

MCMonitorCalls ==
    [IPMI_SUPPORT : {0}, returnCode : {0}, opens : {TRUE},
     File : Texts(SensorLines \cup OtherLines, 2)]
    \cup [IPMI_SUPPORT : {0, 1}, returnCode : {0, 1}, opens : BOOLEAN,
          File : {<<<<fan, 8, rpm, cr, 1, 2, 3, 5, 6, 7>>>>}]

-----------------------------------------------------------------------------
(* The statements of DDL, as the codes of their characters.                *)

\* a 1 ' ( ) space newline - . e # ` $
Characters ==
    {<<97>>, <<49>>, <<39>>, <<40>>, <<41>>, <<32>>, <<10>>, <<45>>, <<46>>, <<101>>,
     <<35>>, <<96>>, <<36>>}

WordCheck == <<99, 104, 101, 99, 107>>
WordDate  == <<100, 97, 116, 101>>

\* Every text of up to three characters or words, and of four of the ones
\* that begin and end a text in brackets.
Statements ==
    {FlattenSeq(t) : t \in Texts(Characters \cup {WordCheck, WordDate}, 3)}
    \cup {FlattenSeq(t) :
            t \in [1..4 -> {WordCheck, <<97>>, <<49>>, <<39>>, <<40>>, <<41>>, <<32>>, <<10>>}]}

Upper(str) == [i \in DOMAIN str |-> IF str[i] \in 97..122 THEN str[i] - 32 ELSE str[i]]

\* A word of the grammar as it may be written, and with a letter behind it.
Spellings(word) ==
    LET written == {word, Upper(word), <<Head(Upper(word))>> \o Tail(word)}
    IN  written \cup {w \o l : w \in written, l \in {<<120>>, <<83>>}}

\* The parser reads a statement to its end.
Whole(str) == [str |-> str, reads |-> ToItsEnd(str), finish |-> TRUE]

\* check (a 'b   'a b   check   a date 'b' 1   1e   date
Left ==
    {<<99, 104, 101, 99, 107, 32, 40, 97, 32, 39, 98>>, <<39, 97, 32, 98>>,
     <<99, 104, 101, 99, 107>>, <<97, 32, 100, 97, 116, 101, 32, 39, 98, 39, 32, 49>>,
     <<49, 101>>, <<100, 97, 116, 101>>}

\* date a   'q' check(b)   check   (empty)
Next2 ==
    {<<100, 97, 116, 101, 32, 97>>,
     <<39, 113, 39, 32, 99, 104, 101, 99, 107, 40, 98, 41>>,
     <<99, 104, 101, 99, 107>>, <<>>}

\* Up to four calls of a Subject with two observers.
MCSubjectCalls ==
    [calls : Texts([op : {"attach", "detach"}, Obs : {a, b}]
                       \cup {[op |-> "notify", Obs |-> a]}, 4)]

\* One statement read to its end; two and three statements, the first and
\* the second left after any number of tokens, with scanner_finish or
\* without.
MCParseCalls ==
    [stmts : {<<Whole(str)>> : str \in Statements
                                   \cup UNION {Spellings(k[2]) : k \in Keywords}}]
    \cup [stmts : {<<first, Whole(str)>> :
                      first \in [str : Left, reads : 0..6, finish : BOOLEAN],
                      str \in Next2}]
    \cup [stmts : {<<first, second, Whole(<<49, 32, 39, 97, 39>>)>> :
                      first \in [str : {<<39, 97, 32, 98>>}, reads : {2}, finish : BOOLEAN],
                      second \in [str : Next2, reads : 0..3, finish : BOOLEAN]}]

-----------------------------------------------------------------------------
(* The values of a query result and the columns they go to.                *)

\* The C types of the values, with their size in bytes.
SizeOf ==
    [bool |-> 1, char |-> 1, int16_t |-> 2, int32_t |-> 4, uint32_t |-> 4,
     float |-> 4, uint64_t |-> 8, double |-> 8]
    @@ ("long long" :> 8)

\* Zero, the largest and the smallest value and -1 of a type; 1.0, -1.0,
\* infinity and two NaNs; strings that fill a column, or not.
ValuesOf(type, colWidth) ==
    CASE type = "string" ->
             {CEF!Bytes(n, 97) : n \in {0, 1, colWidth}}
      [] type = "float" ->
             {<<0, 0, 128, 63>>, <<0, 0, 128, 191>>, <<0, 0, 128, 127>>,
              <<1, 0, 128, 127>>, <<0, 0, 192, 255>>}
      [] OTHER ->
             {CEF!Bytes(SizeOf[type], 0), CEF!Bytes(SizeOf[type], 255),
              Append(CEF!Bytes(SizeOf[type] - 1, 255), 127),
              Append(CEF!Bytes(SizeOf[type] - 1, 0), 128)}

\* What DataConvert::convertColumnData holds a value of a column in.
AnyTypeOf(colDataType, colWidth) ==
    CASE colDataType = "BIT" -> "bool"
      [] colDataType = "TINYINT" -> "char"
      [] colDataType = "SMALLINT" -> "int16_t"
      [] colDataType \in {"MEDINT", "INT"} -> "int32_t"
      [] colDataType = "BIGINT" -> "long long"
      [] colDataType = "FLOAT" -> "float"
      [] colDataType = "DOUBLE" -> "double"
      [] colDataType = "DATE" -> "uint32_t"
      [] colDataType = "DATETIME" -> "uint64_t"
      [] colDataType = "DECIMAL" ->
             (1 :> "char" @@ 2 :> "int16_t" @@ 4 :> "int32_t" @@ 8 :> "long long")[colWidth]
      [] OTHER -> "string"

\* The columns: every type in every width it has; strings of up to 8 bytes
\* and longer ones; and a type convertValueNum does not name.
MCColumns ==
    {<<"BIT", 1>>, <<"TINYINT", 1>>, <<"SMALLINT", 2>>, <<"MEDINT", 4>>, <<"INT", 4>>,
     <<"BIGINT", 8>>, <<"FLOAT", 4>>, <<"DOUBLE", 8>>, <<"DATE", 4>>, <<"DATETIME", 8>>,
     <<"VARBINARY", 8>>, <<"BLOB", 8>>, <<"CLOB", 8>>, <<"LONGDOUBLE", 8>>}
    \cup {<<"DECIMAL", w>> : w \in {1, 2, 4, 8}}
    \cup {<<t, w>> : t \in {"CHAR", "VARCHAR"}, w \in {1, 2, 4, 8, 12}}

\* The null value of a column, one that is no value of the model; FLOATNULL
\* for a FLOAT.
NullValueOf(colDataType) ==
    IF colDataType = "FLOAT" THEN CEF!Widened(CEF!FLOATNULL, TRUE)
    ELSE <<254>> \o CEF!Bytes(7, 255)

NullPointer ==
    [isNull |-> TRUE, text |-> <<>>, pushWarning |-> FALSE,
     anyVal |-> [type |-> "none", bytes |-> <<>>]]

MCFieldCalls ==
    UNION {[value : {NullPointer} \cup
                    {[isNull |-> FALSE, text |-> v, pushWarning |-> w,
                      anyVal |-> [type |-> AnyTypeOf(c[1], c[2]), bytes |-> v]] :
                        v \in ValuesOf(AnyTypeOf(c[1], c[2]), c[2]), w \in BOOLEAN},
            col : {[colDataType |-> c[1], colWidth |-> c[2],
                    nullValue |-> NullValueOf(c[1])]},
            charIsSigned : BOOLEAN] : c \in MCColumns}

=============================================================================
