-------------------------- MODULE HardwareMonitor --------------------------
(***************************************************************************)
(* The hardware monitor of the server monitor (hardwareMonitor.cpp): it    *)
(* has ipmitool write the list of sensors to a file once, and then, every  *)
(* MONITOR_PERIOD, reads the file line by line and sets or checks the      *)
(* alarm of each sensor.  One pass over the file is an operator from the   *)
(* lines to the calls of the server monitor it makes; PureFunctions        *)
(* evaluates it and checks the calls against the thresholds of the lines.  *)
(*                                                                         *)
(* A line is the sequence of its tokens between '|', without white space:  *)
(* the name, the value, the units, the status and six thresholds.  A token *)
(* is a number or a word; readings and thresholds are whole numbers.       *)
(***************************************************************************)
EXTENDS Integers, Sequences, SequencesExt

CONSTANTS
    ok, nr, na,     \* the states of a sensor that set no alarm
    blank,          \* the empty string
    Words           \* the tokens that are not a number

HARDWARE_HIGH == "HARDWARE_HIGH"
HARDWARE_MED  == "HARDWARE_MED"
HARDWARE_LOW  == "HARDWARE_LOW"

\* string data[10], which the function declares once, before its loops.
NoData == [f \in 0..9 |-> blank]

\* atof(): the number, 0 for a token that is none.
atof(token) == IF token \in Words THEN 0 ELSE token

\* The calls of the server monitor.
sendAlarm(SensorName, alarm, SensorValue) ==
    [call |-> "sendAlarm", SensorName |-> SensorName, alarm |-> alarm,
     state |-> "SET", SensorValue |-> SensorValue]
sendMsgShutdownServer == [call |-> "sendMsgShutdownServer"]
checkAlarm(SensorName) == [call |-> "checkAlarm", SensorName |-> SensorName]

\* The strtok loop: token f of the line goes to data[f], and the entries
\* the line has no token for keep what an earlier line has left in them.
Tokens(data, line) ==
    [f \in 0..9 |-> IF f < Len(line) THEN line[f + 1] ELSE data[f]]

\* The fields of a line as the function reads them from data[].
Sensor(data) ==
    [SensorName  |-> data[0],       SensorValue  |-> atof(data[1]),
     Units       |-> data[2],       SensorStatus |-> data[3],
     lowFatal    |-> atof(data[4]), lowCritical  |-> atof(data[5]),
     lowWarning  |-> atof(data[6]), highWarning  |-> atof(data[7]),
     highCritical |-> atof(data[8]), highFatal   |-> atof(data[9])]

alarm(s, level) == <<sendAlarm(s.SensorName, level, s.SensorValue)>>
fatal(s) == alarm(s, HARDWARE_HIGH) \o <<sendMsgShutdownServer>>

\* Faulty variant: a reading at a high threshold is below it.
LevelsAbove(s) ==
    << <<s.SensorValue > s.highFatal, fatal(s)>>,
       <<s.SensorValue < s.highFatal /\ s.SensorValue > s.highCritical,
         alarm(s, HARDWARE_MED)>>,
       <<s.SensorValue < s.highCritical /\ s.SensorValue > s.highWarning,
         alarm(s, HARDWARE_LOW)>>,
       <<s.SensorValue <= s.lowWarning /\ s.SensorValue > s.lowCritical,
         alarm(s, HARDWARE_LOW)>>,
       <<s.SensorValue <= s.lowCritical /\ s.SensorValue > s.lowFatal,
         alarm(s, HARDWARE_MED)>>,
       <<s.SensorValue <= s.lowFatal, fatal(s)>>,
       <<TRUE, <<checkAlarm(s.SensorName)>> >> >>

\* The chain of tests for a sensor whose status is an error, each with the
\* calls it leads to; the first test that holds decides.
Levels(s) ==
    << <<s.SensorValue >= s.highFatal, fatal(s)>>,
       <<s.SensorValue < s.highFatal /\ s.SensorValue >= s.highCritical,
         alarm(s, HARDWARE_MED)>>,
       <<s.SensorValue < s.highCritical /\ s.SensorValue >= s.highWarning,
         alarm(s, HARDWARE_LOW)>>,
       <<s.SensorValue <= s.lowWarning /\ s.SensorValue > s.lowCritical,
         alarm(s, HARDWARE_LOW)>>,
       <<s.SensorValue <= s.lowCritical /\ s.SensorValue > s.lowFatal,
         alarm(s, HARDWARE_MED)>>,
       <<s.SensorValue <= s.lowFatal, fatal(s)>>,
       <<TRUE, <<checkAlarm(s.SensorName)>> >> >>

\* "check status and issue appropriate alarm if needed"
Verdict(s) ==
    IF s.SensorStatus \notin {ok, nr, na}
    THEN Levels(s)[SelectInSeq(Levels(s), LAMBDA test : test[1])][2]
    ELSE <<checkAlarm(s.SensorName)>>

\* One round of while (File.getline()): a line without a token is skipped;
\* a line of more than ten tokens writes behind data[9].
SensorLine(m, line) ==
    IF line = <<>> THEN m
    ELSE LET data == Tokens(m.data, line)
         IN  [data |-> data, calls |-> m.calls \o Verdict(Sensor(data)),
              overrun |-> m.overrun \/ Len(line) > 10]

\* One round of the loop that runs for ever, over the file as it is:
\* a file that cannot be opened is tried again after five minutes.
FilePass(data, opens, File) ==
    IF ~opens THEN [data |-> data, calls |-> <<>>, overrun |-> FALSE]
    ELSE FoldLeft(SensorLine, [data |-> data, calls |-> <<>>, overrun |-> FALSE], File)

\* hardwareMonitor(IPMI_SUPPORT) up to the end of the first round of its
\* loop: with no IPMI support, and when ipmitool has failed, it sleeps for
\* ever and calls nothing.
hardwareMonitor(IPMI_SUPPORT, returnCode, opens, File) ==
    IF IPMI_SUPPORT # 0 \/ returnCode # 0
    THEN [monitors |-> FALSE, calls |-> <<>>, overrun |-> FALSE]
    ELSE LET pass == FilePass(NoData, opens, File)
         IN  [monitors |-> TRUE, calls |-> pass.calls, overrun |-> pass.overrun]
=============================================================================
