---------------------------- MODULE PureFunctions ----------------------------
(***************************************************************************)
(* The functions of FuncExp, RowScanner, CrossEngineQuery, HardwareMonitor,*)
(* DDLScanner, WEObserver and CrossEngineField evaluated call by call, and *)
(* what each of them is to compute.  A behaviour is one call of the sets the model is given, and   *)
(* the step that evaluates it.                                             *)
(***************************************************************************)
EXTENDS FuncExp, RowScanner, CrossEngineQuery, HardwareMonitor

CONSTANTS
    CeilCalls,      \* calls of ceil: [type, parm]
    CharCalls,      \* calls of char: [type, parm]
    TrimCalls,      \* calls of trim: [fp], one or two string parameters
    RowCalls,       \* calls of getNextRow: [text, MaxLen]
    FileLists,      \* calls of chkForListOfFiles: [FileName]
    QueryCalls,     \* calls of makeQuery: [fTable, fAlias, calls], the calls
                    \* of setBPP and setProjectBPP before it
    MonitorCalls,   \* calls of hardwareMonitor: [IPMI_SUPPORT, returnCode,
                    \* opens, File], with what ipmitool and the file do
    SubjectCalls,   \* calls of a Subject one after the other: [calls], each
                    \* [op, Obs]
    FieldCalls,     \* calls of setField: [value, col, charIsSigned], the build's
                    \* plain char being signed or not
    ParseCalls      \* statements parsed one after the other: [stmts], each
                    \* [str, reads, finish]: the text, the tokens the parser
                    \* asks for, and whether it calls scanner_finish

DDL == INSTANCE DDLScanner
Obs == INSTANCE WEObserver
CEF == INSTANCE CrossEngineField

VARIABLES
    pending,        \* the call to evaluate: [func, form, call], or NoCall
    evaluated       \* the call evaluated and what it returned, or NoCall

vars == <<pending, evaluated>>

-----------------------------------------------------------------------------
(* The evaluation of a call.                                               *)

NoCall == [func |-> "none"]

Pending(func, forms, calls) == [func : {func}, form : forms, call : calls]

Init ==
    /\ pending \in Pending("ceil", {"int", "double", "str"}, CeilCalls)
                   \cup Pending("char", {"str"}, CharCalls)
                   \cup Pending("trim", {"str"}, TrimCalls)
                   \cup Pending("getNextRow", {"row"}, RowCalls)
                   \cup Pending("chkForListOfFiles", {"list"}, FileLists)
                   \cup Pending("makeQuery", {"query"}, QueryCalls)
                   \cup Pending("hardwareMonitor", {"pass"}, MonitorCalls)
                   \cup Pending("Subject", {"calls"}, SubjectCalls)
                   \cup Pending("ddllex", {"parse"}, ParseCalls)
                   \cup Pending("setField", {"field"}, FieldCalls)
    /\ evaluated = NoCall

Evaluated(func, form, out) ==
    /\ pending # NoCall
    /\ pending.func = func /\ pending.form = form
    /\ evaluated' = [func |-> func, form |-> form, call |-> pending.call, out |-> out]
    /\ pending' = NoCall

CeilInt    == Evaluated("ceil", "int", Ceil_getIntVal(pending.call.type, pending.call.parm))
CeilDouble == Evaluated("ceil", "double", Ceil_getDoubleVal(pending.call.type, pending.call.parm))
CeilStr    == Evaluated("ceil", "str", Ceil_getStrVal(pending.call.type, pending.call.parm))
CharStr    == Evaluated("char", "str", Char_getStrVal(pending.call.type, pending.call.parm))
TrimGetStr == Evaluated("trim", "str", Trim_getStrVal(pending.call.fp))
GetNextRow ==
    Evaluated("getNextRow", "row", getNextRow(pending.call.text, pending.call.MaxLen))
ChkForListOfFiles ==
    Evaluated("chkForListOfFiles", "list", chkForListOfFiles(pending.call.FileName))
MakeQuery ==
    LET step == Built(NewQuery(pending.call.fTable, pending.call.fAlias),
                      pending.call.calls)
    IN  Evaluated("makeQuery", "query", [step |-> step, query |-> makeQuery(step)])

MonitorSensors ==
    Evaluated("hardwareMonitor", "pass",
              hardwareMonitor(pending.call.IPMI_SUPPORT, pending.call.returnCode,
                              pending.call.opens, pending.call.File))

\* What the parser has of one call of ddllex: the token, where its text is
\* and the value in ddllval.
Token(lexed) ==
    [ret |-> lexed.ret, at |-> lexed.y.yytext_ptr, yyleng |-> lexed.y.yyleng,
     str |-> lexed.y.ddllval]

RECURSIVE Lexed(_, _)
\* The parser has a token and, unless that ends the statement, reads on.
ReadOn(lexed, reads) ==
    IF lexed.ret \in {DDL!YY_NULL, DDL!YY_FATAL_ERROR}
    THEN [y |-> lexed.y, tokens |-> <<Token(lexed)>>]
    ELSE [Lexed(lexed.y, reads) EXCEPT !.tokens = <<Token(lexed)>> \o @]

\* The tokens ddllex returns to a parser that asks for at most reads of
\* them, and the statics it leaves.
Lexed(y, reads) ==
    IF reads = 0 THEN [y |-> y, tokens |-> <<>>]
    ELSE ReadOn(DDL!yylex(y), reads - 1)

\* The parser leaves the statement, with scanner_finish or without.
Leaves(lexed, finish) ==
    [tokens |-> lexed.tokens, lexed |-> lexed.y,
     y |-> IF finish THEN DDL!scanner_finish(lexed.y) ELSE lexed.y]

\* One statement: scanner_init, the calls of ddllex, and scanner_finish
\* unless the parser has left without it.
Statement(parsed, stmt) ==
    Append(parsed,
           Leaves(Lexed(DDL!scanner_init(IF parsed = <<>> THEN DDL!Statics
                                         ELSE Last(parsed).y, stmt.str),
                        stmt.reads),
                  stmt.finish))

DdlLex == Evaluated("ddllex", "parse", FoldLeft(Statement, <<>>, pending.call.stmts))

SubjectCall ==
    Evaluated("Subject", "calls", FoldLeft(Obs!Call, Obs!Subject, pending.call.calls))

SetField ==
    Evaluated("setField", "field",
              CEF!setField(pending.call.value, pending.call.col,
                           pending.call.charIsSigned))

Next ==
    \/ DdlLex
    \/ SetField
    \/ SubjectCall
    \/ CeilInt \/ CeilDouble \/ CeilStr
    \/ CharStr
    \/ TrimGetStr
    \/ GetNextRow
    \/ ChkForListOfFiles
    \/ MakeQuery
    \/ MonitorSensors

Spec == Init /\ [][Next]_vars

-----------------------------------------------------------------------------
(* Properties.                                                             *)

Is(func) == evaluated.func = func

SqlFunction == Is("ceil") \/ Is("char") \/ Is("trim")

Defined == ~evaluated.out.thrown /\ ~evaluated.out.isNull
              /\ "undefined" \notin DOMAIN evaluated.out

\* What a call returns: a flag, and an integer (ceil) or a string of bytes
\* or characters (char, trim); the bytes getChar writes are bytes.
TypeOK ==
    \/ evaluated = NoCall
    \/ /\ Is("getNextRow")
       /\ evaluated.out.runsOn \in BOOLEAN
       /\ evaluated.out.pBuf \in Seq(ToSet(evaluated.call.text) \cup {EOF})
       /\ evaluated.out.ifs \in Seq(ToSet(evaluated.call.text))
    \/ /\ Is("chkForListOfFiles")
       /\ evaluated.out \in Seq(Seq(ToSet(evaluated.call.FileName)))
    \/ /\ Is("makeQuery")
       /\ evaluated.out.step.crashed \in BOOLEAN
       /\ evaluated.out.step.fColumnCount \in 0..Len(evaluated.call.calls)
       /\ IsPrefix(evaluated.out.step.fSelectClause, evaluated.out.query)
    \/ /\ Is("hardwareMonitor")
       /\ evaluated.out.monitors \in BOOLEAN /\ evaluated.out.overrun \in BOOLEAN
       /\ \A i \in DOMAIN evaluated.out.calls :
              evaluated.out.calls[i].call \in
                  {"sendAlarm", "sendMsgShutdownServer", "checkAlarm"}
       /\ evaluated.out.calls # <<>> =>
              evaluated.out.monitors /\ evaluated.call.opens
    \/ /\ Is("Subject")
       /\ evaluated.out.runsOn \in BOOLEAN
       /\ evaluated.out.fObs \in Seq({c.Obs : c \in ToSet(evaluated.call.calls)})
       /\ Len(evaluated.out.updated) <= 1
    \/ /\ Is("ddllex")
       /\ DOMAIN evaluated.out = DOMAIN evaluated.call.stmts
       /\ \A i \in DOMAIN evaluated.out :
              /\ evaluated.out[i].y.yy_start \in {1 + 2 * c : c \in DDL!INITIAL..DDL!endquote}
              /\ evaluated.out[i].y.yyout \in Seq(0..255)
              /\ \A t \in DOMAIN evaluated.out[i].tokens :
                     evaluated.out[i].tokens[t].str \in Seq(1..255)
    \/ /\ Is("setField")
       /\ evaluated.out.thrown \in BOOLEAN
       /\ evaluated.out.field \in Seq(0..255)
    \/ /\ SqlFunction
       /\ evaluated.out.isNull \in BOOLEAN /\ evaluated.out.thrown \in BOOLEAN
       /\ (Is("ceil") /\ Defined) => evaluated.out.ret \in Int
       /\ (Is("char") /\ Defined) => evaluated.out.ret \in Seq(0..255)
       /\ (Is("trim") /\ Defined) =>
              evaluated.out.ret \in Seq(ToSet(evaluated.call.fp[1].str))

\* ceil of a value that is not null, whatever the type of the column it
\* comes from and whichever of getIntVal, getDoubleVal, getStrVal is asked,
\* is the least integer that is not below the value, for negative values
\* too (the cut-off and the correction of Func_ceil::getIntVal).
CeilIsLeastIntegerNotBelow ==
    (Is("ceil") /\ Defined) =>
        LET parm == evaluated.call.parm
            ret  == evaluated.out.ret
        IN  /\ ret * Pow10(parm.scale) >= parm.value
            /\ (ret - 1) * Pow10(parm.scale) < parm.value

\* The value of a string of bytes, the first byte being the highest.
RECURSIVE BytesValue(_)
BytesValue(bytes) ==
    IF bytes = <<>> THEN 0 ELSE BytesValue(Front(bytes)) * 256 + Last(bytes)

\* The bytes char returns for a value that is not null begin with the
\* bytes of the value the argument was turned into, the highest first and
\* without a leading zero byte; behind them there is nothing but the
\* terminator (getChar: the loop, the reversal, s[s.size()]).
CharIsBytesOfValue ==
    (Is("char") /\ Defined /\ ~evaluated.call.parm.isNull) =>
        LET ret   == evaluated.out.ret
            value == CharValue(evaluated.call.type, evaluated.call.parm)
        IN  \E n \in 1..Len(ret) :
                /\ BytesValue(SubSeq(ret, 1, n)) = value
                /\ n > 1 => ret[1] # 0
                /\ \A i \in (n + 1)..Len(ret) : ret[i] = 0 /\ i = Len(ret)

RECURSIVE WithoutLeading(_, _), WithoutTrailing(_, _)
WithoutLeading(s, t) ==
    IF t # <<>> /\ IsPrefix(t, s)
    THEN WithoutLeading(SubSeq(s, Len(t) + 1, Len(s)), t) ELSE s

WithoutTrailing(s, t) ==
    IF t # <<>> /\ IsSuffix(t, s)
    THEN WithoutTrailing(SubSeq(s, 1, Len(s) - Len(t)), t) ELSE s

\* The string consists of the one trim character only.
OnlyTrimChr(fp) ==
    Len(TrimParm(fp).str) = 1 /\ ToSet(fp[1].str) = ToSet(TrimParm(fp).str)

\* trim returns the string without the copies of the trim string it begins
\* with and, of what is left, without the copies it ends with (the two
\* pairs of loops of Func_trim::getStrVal and the count of what they
\* removed), for strings idb_mbstowcs converts.
TrimIsTrimmed(fp) ==
    evaluated.out.ret =
        WithoutTrailing(WithoutLeading(fp[1].str, TrimParm(fp).str),
                        TrimParm(fp).str)

\* This holds of every string that does not consist of the single trim
\* character only.
TrimRemovesAffixes ==
    (Is("trim") /\ Defined /\ ~evaluated.call.fp[1].bad
        /\ ~TrimParm(evaluated.call.fp).bad /\ ~OnlyTrimChr(evaluated.call.fp))
    => TrimIsTrimmed(evaluated.call.fp)

-----------------------------------------------------------------------------
(* Rows and file names.                                                    *)

\* What each character of a text is when it is read from its beginning:
\* the newline that ends a row, the beginning and the end of an enclosure,
\* an escape character and the character it escapes, or data inside or
\* outside of an enclosure.
RECURSIVE Marked(_, _)
Marked(text, enclosed) ==
    IF text = <<>> THEN <<>>
    ELSE IF Head(text) = ESC
    THEN <<"esc">> \o
         (IF Len(text) = 1 THEN <<>>
          ELSE <<IF enclosed THEN "inner" ELSE "escaped">> \o
               Marked(SubSeq(text, 3, Len(text)), enclosed))
    ELSE IF Head(text) = ENCL
    THEN <<IF enclosed THEN "close" ELSE "open">> \o Marked(Tail(text), ~enclosed)
    ELSE IF Head(text) = NL /\ ~enclosed
    THEN <<"end">> \o Marked(Tail(text), FALSE)
    ELSE <<IF enclosed THEN "inner" ELSE "data">> \o Marked(Tail(text), enclosed)

\* Every enclosure ends, and its end is the end of the column; every escape
\* character has its character, which outside of an enclosure is not the
\* newline.
WellFormed(text) ==
    LET m == Marked(text, FALSE)
    IN  /\ m # <<>> => Last(m) \in {"data", "escaped", "close", "end"}
        /\ \A i \in DOMAIN m :
              /\ m[i] = "close" => i = Len(m) \/ text[i + 1] \in {DELIM, NL}
              /\ m[i] = "escaped" => text[i] # NL

\* The first row of the text: up to the first newline that ends a row, the
\* whole text if there is none.
FirstRow(text) ==
    LET m    == Marked(text, FALSE)
        ends == {i \in DOMAIN m : m[i] = "end"}
    IN  IF ends = {} THEN text ELSE SubSeq(text, 1, Min(ends))

\* For a well-formed text whose first row fits into the buffer, getNextRow
\* returns that row, whatever newlines, delimiters and escaped enclosing
\* characters its enclosures hold, and leaves the stream at the beginning
\* of the next row (the loops of getNextRow and their tests of ENCL, ESC
\* and '\n').
RowIsFirstRow ==
    LET call == evaluated.call
    IN  (Is("getNextRow") /\ WellFormed(call.text)
            /\ Len(FirstRow(call.text)) < call.MaxLen)
        => /\ ~evaluated.out.runsOn
           /\ evaluated.out.pBuf = FirstRow(call.text)
           /\ evaluated.out.pBuf \o evaluated.out.ifs = call.text

\* Whatever the text, when getNextRow returns and has not met the end of
\* the stream behind an escape character, the row and what is left in the
\* stream are the text: no character is dropped or read twice on the way
\* from one row to the next, also when the row ends because the buffer is
\* full or behind a column that goes on after its enclosure (the order of
\* get() and *pEnd++ in the loops of getNextRow).
NoCharacterLost ==
    (Is("getNextRow") /\ ~evaluated.out.runsOn /\ EOF \notin ToSet(evaluated.out.pBuf))
    => evaluated.out.pBuf \o evaluated.out.ifs = evaluated.call.text

-----------------------------------------------------------------------------
(* The query of a cross engine step.                                       *)

\* What a condition of SQL means when the filters of holds are true: AND
\* binds more than OR, parentheses more than both.  Each operator gives the
\* value of the condition the words begin with, and the words behind it.
RECURSIVE Disjunction(_, _), Conjunction(_, _), Operand(_, _)
Operand(words, holds) ==
    IF Head(words) = "("
    THEN LET inner == Disjunction(Tail(words), holds)
         IN  [val |-> inner.val, rest |-> Tail(inner.rest)]
    ELSE [val |-> Head(words) \in holds, rest |-> Tail(words)]

Conjunction(words, holds) ==
    LET left == Operand(words, holds)
    IN  IF left.rest # <<>> /\ Head(left.rest) = "AND"
        THEN LET right == Conjunction(Tail(left.rest), holds)
             IN  [val |-> left.val /\ right.val, rest |-> right.rest]
        ELSE left

Disjunction(words, holds) ==
    LET left == Conjunction(words, holds)
    IN  IF left.rest # <<>> /\ Head(left.rest) = "OR"
        THEN LET right == Disjunction(Tail(left.rest), holds)
             IN  [val |-> left.val \/ right.val, rest |-> right.rest]
        ELSE left

\* What the WHERE clause lets through: everything when there is none.
WhereHolds(fWhereClause, holds) ==
    fWhereClause = <<>> \/ Disjunction(Tail(fWhereClause), holds).val

\* What a job step lets through: a step without a filter everything, a
\* step of filters joined by OR what one of them lets through, any other
\* step what all of them let through.
StepHolds(jobStep, holds) ==
    LET filters == ToSet(jobStep.filters) \ {Empty}
    IN  \/ filters = {}
        \/ /\ jobStep.step # "FilterStep" /\ jobStep.BOP = BOP_OR
           /\ filters \cap holds # {}
        \/ /\ jobStep.step = "FilterStep" \/ jobStep.BOP # BOP_OR
           /\ filters \subseteq holds

\* The jobSteps of the calls of one kind, in the order of the calls.
JobSteps(calls, call) ==
    LET of == SelectSeq(calls, LAMBDA c : c.call = call)
    IN  [i \in DOMAIN of |-> of[i].jobStep]

\* Whichever filters are true of a row, the WHERE clause of the query lets
\* the row through exactly when every filtering job step handed to the
\* step does: the filters of one step stay together when the clauses of
\* several steps are joined (setBPP and the parentheses of addFilterStr).
WhereMeansEveryStep ==
    (Is("makeQuery") /\ ~evaluated.out.step.crashed) =>
        LET steps == JobSteps(evaluated.call.calls, "setBPP")
            texts == UNION {ToSet(steps[i].filters) : i \in DOMAIN steps}
        IN  \A holds \in SUBSET (texts \ {Empty}) :
                WhereHolds(evaluated.out.step.fWhereClause, holds)
                <=> \A i \in DOMAIN steps :
                        steps[i].step \in FilterSteps => StepHolds(steps[i], holds)

\* The columns of the select list, from 0.
SelectList(fSelectClause) ==
    [i \in 0..(Len(fSelectClause) \div 2 - 1) |-> fSelectClause[2 * i + 2]]

\* The query selects the projected columns in the order they were handed
\* over, fColumnCount is their number, and fColumnMap leads from the tuple
\* id of a column to a place of the select list that holds it, which is
\* where execute() takes the value of the column from
\* (fColumnMap[..] = fColumnCount++ in setProjectBPP against the order of
\* fSelectClause).
ColumnMapLeadsToColumn ==
    (Is("makeQuery") /\ ~evaluated.out.step.crashed) =>
        LET step      == evaluated.out.step
            projected == JobSteps(evaluated.call.calls, "setProjectBPP")
            list      == SelectList(step.fSelectClause)
        IN  /\ step.fColumnCount = Len(projected)
            /\ DOMAIN list = 0..(Len(projected) - 1)
            /\ \A i \in DOMAIN projected : list[i - 1] = projected[i].name
            /\ DOMAIN step.fColumnMap = {projected[i].tupleId : i \in DOMAIN projected}
            /\ \A id \in DOMAIN step.fColumnMap :
                  \E i \in DOMAIN projected :
                      /\ projected[i].tupleId = id
                      /\ step.fColumnMap[id] = i - 1

-----------------------------------------------------------------------------
(* hardwareMonitor                                                         *)

\* A line as ipmitool writes it for a sensor with all of its thresholds:
\* ten tokens, a reading, and six thresholds in ascending order.
Complete(line) ==
    /\ Len(line) = 10
    /\ \A f \in {2} \cup 5..10 : line[f] \notin Words
    /\ \A f \in 5..9 : line[f] < line[f + 1]

\* How many of its thresholds the reading has reached, on the side on
\* which it has reached more; none for a sensor whose status is no error.
Severity(line) ==
    IF line[4] \in {ok, nr, na} THEN 0
    ELSE Max({Quantify(8..10, LAMBDA f : line[2] >= line[f]),
              Quantify(5..7, LAMBDA f : line[2] <= line[f])})

\* What the server monitor is to be told of a sensor.
Told(line) ==
    CASE Severity(line) = 0 -> <<checkAlarm(line[1])>>
      [] Severity(line) = 1 -> <<sendAlarm(line[1], HARDWARE_LOW, line[2])>>
      [] Severity(line) = 2 -> <<sendAlarm(line[1], HARDWARE_MED, line[2])>>
      [] Severity(line) = 3 -> <<sendAlarm(line[1], HARDWARE_HIGH, line[2]),
                                 sendMsgShutdownServer>>

\* A pass over a file of complete and of empty lines tells the server
\* monitor of every sensor, in the order of the file and once, the alarm
\* of as many thresholds as its reading has reached, at a threshold as
\* beyond it, and tells it to shut the server down for the third and for
\* nothing less; an empty line tells it nothing (hardwareMonitor: the
\* strtok loop into data[], the skip of f == 0, the chain of tests).
AlarmsAreSeverityOfReadings ==
    LET File    == evaluated.call.File
        sensors == SelectSeq(File, LAMBDA line : line # <<>>)
    IN  (/\ Is("hardwareMonitor")
         /\ evaluated.out.monitors /\ evaluated.call.opens
         /\ \A f \in DOMAIN sensors : Complete(sensors[f]))
        => evaluated.out.calls =
               FlattenSeq([f \in DOMAIN sensors |-> Told(sensors[f])])
-----------------------------------------------------------------------------
(* The DDL scanner.                                                        *)

\* The words of the grammar, each with the token the rule of its name
\* returns.
Keywords ==
    {<<"ACTION", <<97, 99, 116, 105, 111, 110>> >>, <<"ADD", <<97, 100, 100>> >>,
     <<"ALTER", <<97, 108, 116, 101, 114>> >>,
     <<"AUTO_INCREMENT", <<97, 117, 116, 111, 95, 105, 110, 99, 114, 101, 109, 101, 110, 116>> >>,
     <<"CASCADE", <<99, 97, 115, 99, 97, 100, 101>> >>,
     <<"IDB_CHAR", <<99, 104, 97, 114>> >>,
     <<"IDB_CHAR", <<99, 104, 97, 114, 97, 99, 116, 101, 114>> >>,
     <<"BIGINT", <<98, 105, 103, 105, 110, 116>> >>,
     <<"CHECK", <<99, 104, 101, 99, 107>> >>,
     <<"COMMENT", <<99, 111, 109, 109, 101, 110, 116>> >>,
     <<"COLUMN", <<99, 111, 108, 117, 109, 110>> >>,
     <<"COLUMNS", <<99, 111, 108, 117, 109, 110, 115>> >>,
     <<"CONSTRAINT", <<99, 111, 110, 115, 116, 114, 97, 105, 110, 116>> >>,
     <<"CONSTRAINTS", <<99, 111, 110, 115, 116, 114, 97, 105, 110, 116, 115>> >>,
     <<"CREATE", <<99, 114, 101, 97, 116, 101>> >>,
     <<"CURRENT_USER", <<99, 117, 114, 114, 101, 110, 116, 95, 117, 115, 101, 114>> >>,
     <<"DATE", <<100, 97, 116, 101>> >>,
     <<"DATETIME", <<100, 97, 116, 101, 116, 105, 109, 101>> >>,
     <<"DECIMAL", <<100, 101, 99, 105, 109, 97, 108>> >>,
     <<"DECIMAL", <<100, 101, 99>> >>,
     <<"DEFAULT", <<100, 101, 102, 97, 117, 108, 116>> >>,
     <<"DEFERRABLE", <<100, 101, 102, 101, 114, 114, 97, 98, 108, 101>> >>,
     <<"DEFERRED", <<100, 101, 102, 101, 114, 114, 101, 100>> >>,
     <<"IDB_DELETE", <<100, 101, 108, 101, 116, 101>> >>,
     <<"DROP", <<100, 114, 111, 112>> >>,
     <<"ENGINE", <<101, 110, 103, 105, 110, 101>> >>,
     <<"FOREIGN", <<102, 111, 114, 101, 105, 103, 110>> >>,
     <<"FULL", <<102, 117, 108, 108>> >>,
     <<"IMMEDIATE", <<105, 109, 109, 101, 100, 105, 97, 116, 101>> >>,
     <<"INDEX", <<105, 110, 100, 101, 120>> >>,
     <<"INITIALLY", <<105, 110, 105, 116, 105, 97, 108, 108, 121>> >>,
     <<"IDB_INT", <<105, 110, 116>> >>,
     <<"INTEGER", <<105, 110, 116, 101, 103, 101, 114>> >>,
     <<"KEY", <<107, 101, 121>> >>, <<"MATCH", <<109, 97, 116, 99, 104>> >>,
     <<"MAX_ROWS", <<109, 97, 120, 95, 114, 111, 119, 115>> >>,
     <<"MIN_ROWS", <<109, 105, 110, 95, 114, 111, 119, 115>> >>,
     <<"MODIFY", <<109, 111, 100, 105, 102, 121>> >>, <<"NO", <<110, 111>> >>,
     <<"NOT", <<110, 111, 116>> >>, <<"NULL_TOK", <<110, 117, 108, 108>> >>,
     <<"NUMERIC", <<110, 117, 109, 101, 114, 105, 99>> >>, <<"ON", <<111, 110>> >>,
     <<"PARTIAL", <<112, 97, 114, 116, 105, 97, 108>> >>,
     <<"PRECISION", <<112, 114, 101, 99, 105, 115, 105, 111, 110>> >>,
     <<"PRIMARY", <<112, 114, 105, 109, 97, 114, 121>> >>,
     <<"REFERENCES", <<114, 101, 102, 101, 114, 101, 110, 99, 101, 115>> >>,
     <<"RENAME", <<114, 101, 110, 97, 109, 101>> >>,
     <<"RESTRICT", <<114, 101, 115, 116, 114, 105, 99, 116>> >>,
     <<"SESSION_USER", <<115, 101, 115, 115, 105, 111, 110, 95, 117, 115, 101, 114>> >>,
     <<"SYSTEM_USER", <<115, 121, 115, 116, 101, 109, 95, 117, 115, 101, 114>> >>,
     <<"SET", <<115, 101, 116>> >>,
     <<"SMALLINT", <<115, 109, 97, 108, 108, 105, 110, 116>> >>,
     <<"TABLE", <<116, 97, 98, 108, 101>> >>,
     <<"TINYINT", <<116, 105, 110, 121, 105, 110, 116>> >>, <<"TO", <<116, 111>> >>,
     <<"UNIQUE", <<117, 110, 105, 113, 117, 101>> >>,
     <<"UPDATE", <<117, 112, 100, 97, 116, 101>> >>, <<"USER", <<117, 115, 101, 114>> >>,
     <<"VARCHAR", <<118, 97, 114, 99, 104, 97, 114>> >>,
     <<"IDB_FLOAT", <<102, 108, 111, 97, 116>> >>,
     <<"DOUBLE", <<100, 111, 117, 98, 108, 101>> >>, <<"REAL", <<114, 101, 97, 108>> >>,
     <<"CHARSET", <<99, 104, 97, 114, 115, 101, 116>> >>, <<"IF", <<105, 102>> >>,
     <<"EXISTS", <<101, 120, 105, 115, 116, 115>> >>,
     <<"CHANGE", <<99, 104, 97, 110, 103, 101>> >>,
     <<"TRUNCATE", <<116, 114, 117, 110, 99, 97, 116, 101>> >>,
     <<"VARBINARY", <<118, 97, 114, 98, 105, 110, 97, 114, 121>> >>}

IDENT   == [token |-> "IDENT"]
Quote   == 39
White   == {9, 10, 11, 12, 13, 32}
Ignored == White \cup {96}
Letters == 65..90 \cup 97..122
Lower(str) == [i \in DOMAIN str |-> IF str[i] \in 65..90 THEN str[i] + 32 ELSE str[i]]

\* The tokens whose rule gives ddllval a value.
Valued ==
    [token : {"IDENT", "SCONST", "ICONST", "FCONST", "CP_SEARCH_CONDITION_TEXT", "DATE"}]

\* What the parser gets of a token: what ddllex returns, and the value of
\* a token that has one.
Got(tokens) ==
    [t \in DOMAIN tokens |->
        [ret |-> tokens[t].ret,
         str |-> IF tokens[t].ret \in Valued THEN tokens[t].str ELSE <<>>]]
Rets(tokens) == [t \in DOMAIN tokens |-> tokens[t].ret]

\* More tokens than a statement has: a token, the end of the statement
\* apart, has a character or, being an empty text in brackets, the
\* character that ends it behind it.
ToItsEnd(str) == 2 * Len(str) + 1

\* A statement alone, scanned to its end by a scanner that has scanned
\* nothing before.
Alone(str) == Lexed(DDL!scanner_init(DDL!Statics, str), ToItsEnd(str))

\* The call is one statement, scanned to its end.
ToTheEnd ==
    /\ Is("ddllex") /\ Len(evaluated.call.stmts) = 1
    /\ Last(evaluated.out[1].tokens).ret = DDL!YY_NULL

\* A statement that is a word of the grammar, in capitals, in small letters
\* or in both, is the token of that word and nothing else; a word with a
\* letter behind it, unless that is a word again, is an identifier, whose
\* value is the statement as it was written (the tables of the automaton
\* and the last accepting state of yy_match against the rules of the
\* switch).
KeywordsInAnyCase ==
    ToTheEnd =>
        LET str    == evaluated.call.stmts[1].str
            tokens == evaluated.out[1].tokens
            words  == {k[2] : k \in Keywords}
        IN  /\ \A k \in Keywords :
                   Lower(str) = k[2] => Rets(tokens) = <<[token |-> k[1]], DDL!YY_NULL>>
            /\ (/\ Lower(str) \notin words /\ ToSet(str) \subseteq Letters
                /\ \E w \in words : IsPrefix(w, Lower(str)))
               => /\ Rets(tokens) = <<IDENT, DDL!YY_NULL>>
                  /\ tokens[1].str = str

\* The places of a text where a newline stands.
Breaks(str) == {i \in DOMAIN str : str[i] = 10}

\* The tokens are those of a part that leaves the scanner where a statement
\* begins, without the end of that part, and then those of another part.
Joins(tokens, before, behind) ==
    before.y.yy_start = 1 => Got(tokens) = Front(Got(before.tokens)) \o Got(behind.tokens)

\* A statement with a newline, whose part before the newline leaves the
\* scanner where a statement begins, is the tokens of that part and then
\* the tokens of the part behind it: a token that ends where the buffer
\* ends is the token it is before white space (EOB_ACT_LAST_MATCH and
\* yy_get_previous_state against yy_match).
ScanSplitsAtNewline ==
    ToTheEnd =>
        LET str == evaluated.call.stmts[1].str
        IN  \A i \in Breaks(str) :
                Joins(evaluated.out[1].tokens, Alone(SubSeq(str, 1, i - 1)),
                      Alone(SubSeq(str, i + 1, Len(str))))

\* The brackets that hold a text: what begins it (a quote; check and a
\* parenthesis), how many tokens that is, the character that ends it, and
\* the token the text is.
Brackets ==
    {[open |-> <<Quote>>, opens |-> 1, close |-> Quote, token |-> "SCONST"],
     [open |-> <<99, 104, 101, 99, 107, 40>>, opens |-> 2, close |-> 41,
      token |-> "CP_SEARCH_CONDITION_TEXT"]}

\* A text in quotes, or in the parentheses of CHECK, that does not hold the
\* character that ends it, is one token whose value is the text as it
\* stands, white space, newlines, digits and words of the grammar included,
\* the character that ends it is returned next, and what follows is
\* scanned as the beginning of a statement is (BEGIN in the rules 9 to 15
\* and the character of trailing context the rules 11 and 14 give back).
BracketedTextIsOneToken ==
    ToTheEnd =>
        LET str == evaluated.call.stmts[1].str
            tokens == evaluated.out[1].tokens
        IN  \A b \in Brackets, i \in DOMAIN str :
                (/\ IsPrefix(b.open, str) /\ i > Len(b.open) /\ str[i] = b.close
                 /\ \A j \in (Len(b.open) + 1)..(i - 1) : str[j] # b.close)
                => /\ Len(tokens) > b.opens + 2
                   /\ Got(tokens)[b.opens + 1] =
                          [ret |-> [token |-> b.token],
                           str |-> SubSeq(str, Len(b.open) + 1, i - 1)]
                   /\ tokens[b.opens + 2].ret = [char |-> b.close]
                   /\ Got(SubSeq(tokens, b.opens + 3, Len(tokens)))
                          = Got(Alone(SubSeq(str, i + 1, Len(str))).tokens)

\* "if some total hoser ... wants to call the scanner after we return the
\* YY_NULL, it'll still work - another YY_NULL will get returned": at the
\* end of a statement the scanner stands on the end of the buffer, holds
\* its character, and a further call of ddllex returns YY_NULL and changes
\* nothing, whatever start condition the statement has ended in (the
\* end-of-file branch of case YY_END_OF_BUFFER).
EndOfInputIsSticky ==
    ToTheEnd =>
        LET y == evaluated.out[1].lexed
        IN  /\ y.yy_c_buf_p = y.yy_n_chars
            /\ DDL!Cur(y).yy_ch_buf = evaluated.call.stmts[1].str \o <<0, 0>>
            /\ DDL!yylex(y) = [y |-> y, ret |-> DDL!YY_NULL]

\* The same tokens, with the same values, at the same places of the text.
SameTokens(tokens, fresh) ==
    /\ Got(tokens) = Got(fresh)
    /\ \A t \in DOMAIN tokens :
           tokens[t].at = fresh[t].at /\ tokens[t].yyleng = fresh[t].yyleng

\* Whatever was parsed before, and wherever the parser has left it, in a
\* text in quotes or in a CHECK, in the middle of a token or at its end,
\* with scanner_finish or without, ddllex returns of a statement the
\* tokens, at the places and with the values, it returns when the
\* statement is the first one parsed (scanner_init: the buffer left over,
\* yy_switch_to_buffer and the character held, BEGIN(INITIAL)).
RescanIsFreshScan ==
    Is("ddllex") =>
        \A i \in DOMAIN evaluated.out :
            SameTokens(evaluated.out[i].tokens,
                       Lexed(DDL!scanner_init(DDL!Statics, evaluated.call.stmts[i].str),
                             evaluated.call.stmts[i].reads).tokens)

\* The characters of a text at the places that are in none of the tokens.
Between(str, tokens) ==
    LET inToken == UNION {(tokens[t].at + 1)..(tokens[t].at + tokens[t].yyleng) :
                              t \in DOMAIN tokens}
    IN  SelectSeq([i \in DOMAIN str |-> IF i \in inToken THEN 32 ELSE str[i]],
                  LAMBDA c : c \notin Ignored)

\* The tokens of a statement without a comment stand one behind the other
\* in the text, and a character that is in none of them is white space, a
\* backquote, or was written to yyout, in the order of the text: the
\* default rule, which no rule of the grammar overrides, takes every
\* character no rule knows, and whatever stands between CHECK and its
\* parenthesis or behind a quote or a parenthesis that is not closed, out
\* of the statement the parser sees (rule 84, ECHO; yy_c_buf_p and
\* yy_hold_char from one round of the loop of yylex to the next).
UnmatchedCharactersAreEchoed ==
    (ToTheEnd /\ ~\E i \in 1..(Len(evaluated.call.stmts[1].str) - 1) :
                     SubSeq(evaluated.call.stmts[1].str, i, i + 1) = <<45, 45>>) =>
        LET str    == evaluated.call.stmts[1].str
            tokens == evaluated.out[1].tokens
        IN  /\ \A t \in 1..(Len(tokens) - 1) :
                   tokens[t].at + tokens[t].yyleng <= tokens[t + 1].at
            /\ Between(str, Front(tokens))
                   = SelectSeq(evaluated.out[1].lexed.yyout, LAMBDA c : c \notin Ignored)


\* The value is NULL in the column: the query gave NULL or a value out of
\* the column's range ("Out of range values are treated as NULL as discussed
\* during design review"), the value is a NaN, or the column is of a type
\* convertValueNum does not convert.
StoredAsNull(value, col) ==
    \/ value.isNull \/ value.pushWarning
    \/ col.colDataType \notin DOMAIN CEF!CastNames
    \/ value.anyVal.type = "float" /\ CEF!isnan(value.anyVal.bytes)

\* A field set by setField holds the value of the query result, whichever
\* way it came by its 64 bits: the bytes of the value as the type of the
\* column stores them, a string padded with NULs, a negative number with
\* its sign whether the build's plain char is signed or not; the text itself
\* in a CHAR or VARCHAR of more than 8 bytes; and the column's null value
\* when the value is NULL in the column.  No value that
\* DataConvert::convertColumnData gives for the column makes any_cast throw
\* (setField, convertValueNum).
FieldHoldsValue ==
    Is("setField") =>
        LET value == evaluated.call.value
            col   == evaluated.call.col
        IN  /\ ~evaluated.out.thrown
            /\ evaluated.out.field =
                   CASE CEF!IsLongString(col) /\ ~value.isNull -> value.text
                     [] CEF!IsLongString(col) /\ value.isNull -> <<>>
                     [] StoredAsNull(value, col) ->
                            SubSeq(col.nullValue, 1, col.colWidth)
                     [] OTHER -> CEF!Resized(value.anyVal.bytes, col.colWidth)
=============================================================================
