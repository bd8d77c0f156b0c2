-------------------------- MODULE WEFileReadThread --------------------------
(***************************************************************************)
(* The splitter's file read thread (writeengine/splitter/                  *)
(* we_filereadthread.cpp).  One WEFileReadThread object is driven by the   *)
(* splitter's controlling thread (add2InputDataFileList, setup, shutdown)  *)
(* and by the reader thread that setup() starts (feedData).  The reader    *)
(* reads batches of rows from the input files, in list order, hands every  *)
(* batch to one PM, and sends the end-of-data message (EOD) when the last  *)
(* file hits end of file.                                                  *)
(*                                                                         *)
(* An input is a sequence of characters.  readDataFile takes a row from it *)
(* with getline, or with getNextRow (module RowScanner) once setup() has   *)
(* found an enclosing or an escape character set; a row in a message is    *)
(* the place it was taken from and the characters appended to the          *)
(* ByteStream.  The std::istream is modelled by what it does: a position,  *)
(* the eofbit and the failbit, and the stream buffer it is attached to     *)
(* (std::cin's or fIfFile's).                                              *)
(***************************************************************************)
EXTENDS Naturals, Sequences, FiniteSets, SequencesExt

CONSTANTS
    Files,          \* names of input data files other than "/dev/stdin"
    StdIn,          \* the name "/dev/stdin"
    NoName,         \* the empty string getNextInputDataFile returns on an empty list
    Closed,         \* fIfFile when no file is open
    PMs,            \* ids of the PMs (all > 0)
    NoPm,           \* the PM id 0: "no target chosen"
    Readers,        \* identities of the threads setup() can start
    NoThread,       \* fpThread = 0, and the free fFileMutex
    FileText,       \* [Files \cup {StdIn} -> Seq(characters)]: what each input holds
    Missing,        \* the files that cannot be opened
    EnclEscArgs,    \* what "an enclosing or an escape character is set" can be at setup()
    BuffSize,       \* sizeof(fBuff)
    ENCL,           \* fEncl, the enclosing character
    ESC,            \* fEsc, the escape character
    DELIM,          \* fDelim, the column delimiter
    NL,             \* '\n'
    EOF,            \* what get() returns at the end of the stream
    BatchQty,       \* fBatchQty, rows per data message
    MaxFiles,       \* bound on the length of the input file list
    MaxSetups       \* bound on the number of setup() calls

Names == Files \cup {StdIn}

ASSUME /\ StdIn \notin Files
       /\ NoName \notin Names /\ Closed \notin Names
       /\ NoPm \notin PMs /\ NoThread \notin Readers
       /\ DOMAIN FileText = Names
       /\ \A f \in Names : EOF \notin Range(FileText[f])
       /\ Missing \subseteq Files /\ EnclEscArgs \subseteq BOOLEAN
       /\ BuffSize \in Nat /\ BuffSize > 3
       /\ BatchQty \in Nat \ {0} /\ MaxFiles \in Nat /\ MaxSetups \in Nat

VARIABLES
    fContinue,      \* the reader's run flag
    fInfileList,    \* names of the input files still to be read
    fInFileName,    \* name of the input being read
    fIfFile,        \* the file the std::ifstream has open, or Closed
    ifPos,          \* characters already extracted from fIfFile's stream buffer
    cinPos,         \* characters already extracted from std::cin's stream buffer
    fInFile,        \* the std::istream: [src, eof, fail]
    fEnclEsc,       \* rows are read by getNextRow
    fTgtPmId,       \* PM the next batch goes to
    fFileMutex,     \* reader that holds the file mutex, or NoThread
    fpThread,       \* the thread object the handler owns
    ctl,            \* where the controlling thread is
    setups,         \* number of setup() calls so far
    pc,             \* where each reader thread is in feedData
    tgt,            \* feedData's local TgtPmId, per reader
    batch,          \* rows readDataFile has put into the ByteStream, per reader
    input,          \* history: the file list as it stood at the first setup()
    sent,           \* history: data messages handed to send2Pm, in order
    rowTx,          \* WESDHandler's rows-sent counter per PM (updateRowTx)
    eod,            \* history: number of EOD messages sent
    shutdownCalled  \* history: shutdown() has been entered

stream == <<fIfFile, ifPos, cinPos, fInFile>>
hist   == <<input, sent, rowTx, eod, shutdownCalled>>
vars   == <<fContinue, fInfileList, fInFileName, stream, fEnclEsc, fTgtPmId, fFileMutex,
            fpThread, ctl, setups, pc, tgt, batch, hist>>

-----------------------------------------------------------------------------
(* The input stream.                                                       *)

Good == ~fInFile.eof /\ ~fInFile.fail

\* The name and the position of what fInFile's stream buffer reads.
Source == IF fInFile.src = "cin" THEN StdIn ELSE fIfFile
Pos    == IF fInFile.src = "cin" THEN cinPos ELSE ifPos

\* The characters of an input behind offset pos.
Rest(source, pos) == SubSeq(FileText[source], pos + 1, Len(FileText[source]))

Advance(n) ==
    IF fInFile.src = "cin" THEN cinPos' = cinPos + n /\ UNCHANGED ifPos
                           ELSE ifPos' = ifPos + n /\ UNCHANGED cinPos

\* fInFile.getline(fBuff, n) and gcount(): characters are stored until the
\* input ends (eofbit), a '\n' comes (extracted and counted, not stored) or
\* n - 1 characters are stored (failbit), tested in this order; failbit too
\* when nothing was extracted.
getline(rest, n) ==
    LET nl     == SelectInSeq(rest, LAMBDA c : c = NL)
        line   == IF nl = 0 THEN Len(rest) ELSE nl - 1
        stored == IF line < n - 1 THEN line ELSE n - 1
        gcount == IF stored = line /\ nl # 0 THEN stored + 1 ELSE stored
    IN  [fBuff |-> SubSeq(rest, 1, stored), aLen |-> gcount, taken |-> gcount,
         eof |-> stored = line /\ nl = 0,
         fail |-> stored < line \/ gcount = 0,
         runsOn |-> FALSE]

RS == INSTANCE RowScanner WITH SEP <- DELIM

\* aLen = getNextRow(fInFile, fBuff, MaxLen): the row is what the call put
\* into pBuf; get() at the end of the stream sets eofbit and failbit.
Scanned(c, rest) ==
    [fBuff |-> c.pBuf, aLen |-> Len(c.pBuf), taken |-> Len(rest) - Len(c.ifs),
     eof |-> ~c.good, fail |-> ~c.good, runsOn |-> c.runsOn]

\* if(fEnclEsc) aLen = getNextRow(...) else getline, gcount.
Call(rest, enclEsc) ==
    IF enclEsc THEN Scanned(RS!getNextRow(rest, BuffSize - 1), rest)
    ELSE getline(rest, BuffSize - 1)

\* What the call leaves at every place of every input, either way of reading.
Calls ==
    [source \in Names |->
        [pos \in 0..Len(FileText[source]) |->
            [enclEsc \in BOOLEAN |-> Call(Rest(source, pos), enclEsc)]]]

\* A closed file buffer delivers no character.
Extracted ==
    IF Source = Closed THEN Call(<<>>, fEnclEsc) ELSE Calls[Source][Pos][fEnclEsc]

\* The row as it is appended to the ByteStream: aLen characters of fBuff, the
\* last of them overwritten with '\n'.
Appended(x) ==
    [file |-> Source, at |-> Pos, text |-> Append(SubSeq(x.fBuff, 1, x.aLen - 1), NL)]

\* The stream after the call: its bits, and its position behind what was
\* taken.
Read(x) ==
    /\ Advance(x.taken)
    /\ fInFile' = [fInFile EXCEPT !.eof = @ \/ x.eof, !.fail = @ \/ x.fail]

-----------------------------------------------------------------------------
(* The controlling thread.                                                 *)

\* An exception that leaves feedData leaves the thread function too
\* (WEReadThreadRunner rethrows it), which ends the process: nothing runs
\* once a reader has crashed.
Alive == \A t \in Readers : pc[t] # "crashed"

\* add2InputDataFileList: push_front.  The caller names every input once, and
\* "/dev/stdin", if at all, as the input read first: openInFile leaves the
\* stream on std::cin only while no file was opened before.
Add2InputDataFileList(f) ==
    /\ Alive
    /\ ctl = "new"
    /\ Len(fInfileList) < MaxFiles
    /\ ~Contains(fInfileList, f)
    /\ ~Contains(fInfileList, StdIn)
    /\ fInfileList' = Cons(f, fInfileList)
    /\ UNCHANGED <<fEnclEsc, fContinue, fInFileName, stream, fTgtPmId, fFileMutex, fpThread,
                   ctl, setups, pc, tgt, batch, hist>>

\* getNextInputDataFile: the front of the list, or the empty name.
NextInputDataFile == IF fInfileList = <<>> THEN NoName ELSE Head(fInfileList)
\* Faulty variant: front() without pop_front().
PopInputDataFileKeep == fInfileList
PopInputDataFile  == IF fInfileList = <<>> THEN <<>> ELSE Tail(fInfileList)

\* openInFile fails for every name but "/dev/stdin" that cannot be opened.
CanOpen(name) == name = StdIn \/ name \in Files \ Missing

\* openInFile on a name that can be opened: "/dev/stdin" leaves the stream as
\* it is; any other file is opened and the stream is attached to it, which
\* clears the stream's state.
OpenInFile(name) ==
    IF name = StdIn
    THEN /\ fIfFile' = Closed
         /\ UNCHANGED <<ifPos, cinPos, fInFile>>
    ELSE /\ fIfFile' = name
         /\ ifPos' = 0
         /\ fInFile' = [src |-> "ifs", eof |-> FALSE, fail |-> FALSE]
         /\ UNCHANGED cinPos

\* setup(): reset() closes the file, clears the target PM, drops the thread
\* object without joining the thread, and sets fContinue; fEnclEsc is set
\* when the handler has an enclosing or an escape character, and never
\* cleared; then the next input is opened and a new reader is started.  A
\* failed open throws before the thread is created.
Setup ==
    /\ Alive
    /\ ctl \in {"new", "stopped"}
    /\ setups < MaxSetups
    /\ setups' = setups + 1
    /\ fTgtPmId' = NoPm
    /\ fContinue' = TRUE
    /\ \E set \in EnclEscArgs : fEnclEsc' = (fEnclEsc \/ set)
    /\ fInFileName' = NextInputDataFile
    /\ fInfileList' = PopInputDataFile
    /\ input' = IF setups = 0 THEN fInfileList ELSE input
    /\ IF CanOpen(NextInputDataFile)
       THEN /\ OpenInFile(NextInputDataFile)
            /\ \E t \in Readers :
                  /\ pc[t] = "idle"
                  /\ pc' = [pc EXCEPT ![t] = "loop"]
                  /\ fpThread' = t
            /\ ctl' = "running"
       ELSE /\ fIfFile' = Closed
            /\ fpThread' = NoThread
            /\ ctl' = "new"
            /\ UNCHANGED <<ifPos, cinPos, fInFile, pc>>
    /\ UNCHANGED <<fFileMutex, tgt, batch, sent, rowTx, eod, shutdownCalled>>

\* Faulty variant: shutdown() closes the file but does not clear fContinue.
ShutdownFlagKept ==
    /\ Alive
    /\ ctl = "running"
    /\ ctl' = "closing"
    /\ shutdownCalled' = TRUE
    /\ UNCHANGED <<fEnclEsc, fContinue, fInfileList, fInFileName, stream, fTgtPmId, fFileMutex,
                   fpThread, setups, pc, tgt, batch, input, sent, rowTx, eod>>

\* shutdown(), first statement: setContinue(false).
ShutdownFlag ==
    /\ Alive
    /\ ctl = "running"
    /\ ctl' = "closing"
    /\ fContinue' = FALSE
    /\ shutdownCalled' = TRUE
    /\ UNCHANGED <<fEnclEsc, fInfileList, fInFileName, stream, fTgtPmId, fFileMutex, fpThread,
                   setups, pc, tgt, batch, input, sent, rowTx, eod>>

\* Faulty variant: shutdown() closes the file without taking fFileMutex.
ShutdownCloseNoLock ==
    /\ Alive
    /\ ctl = "closing"
    /\ ctl' = "stopped"
    /\ fIfFile' = Closed
    /\ UNCHANGED <<fEnclEsc, fContinue, fInfileList, fInFileName, ifPos, cinPos, fInFile,
                   fTgtPmId, fFileMutex, fpThread, setups, pc, tgt, batch, hist>>

\* shutdown(), the rest: wait for the file mutex, close the file.
ShutdownClose ==
    /\ Alive
    /\ ctl = "closing"
    /\ fFileMutex = NoThread
    /\ ctl' = "stopped"
    /\ fIfFile' = Closed
    /\ UNCHANGED <<fEnclEsc, fContinue, fInfileList, fInFileName, ifPos, cinPos, fInFile,
                   fTgtPmId, fFileMutex, fpThread, setups, pc, tgt, batch, hist>>

-----------------------------------------------------------------------------
(* The reader thread: feedData and readDataFile.                           *)

\* while(isContinue())
FeedLoop(t) ==
    /\ Alive
    /\ pc[t] = "loop"
    /\ pc' = [pc EXCEPT ![t] = IF fContinue THEN "target" ELSE "done"]
    /\ UNCHANGED <<fEnclEsc, fContinue, fInfileList, fInFileName, stream, fTgtPmId, fFileMutex,
                   fpThread, ctl, setups, tgt, batch, hist>>

\* Choose the target PM (getNextPm2Feed may have none to offer) and test the
\* stream: read a batch when there is a target and the stream is good, else
\* sleep and forget the target.
FeedTarget(t) ==
    /\ Alive
    /\ pc[t] = "target"
    /\ \E pm \in IF fTgtPmId = NoPm THEN PMs \cup {NoPm} ELSE {fTgtPmId} :
          /\ tgt' = [tgt EXCEPT ![t] = pm]
          /\ IF pm # NoPm /\ Good
             THEN fTgtPmId' = pm /\ pc' = [pc EXCEPT ![t] = "read"]
             ELSE fTgtPmId' = NoPm /\ pc' = [pc EXCEPT ![t] = "eof"]
    /\ UNCHANGED <<fEnclEsc, fContinue, fInfileList, fInFileName, stream, fFileMutex,
                   fpThread, ctl, setups, batch, hist>>

\* readDataFile, entry: take the file mutex and test the stream again.  A
\* stream that is not good any more returns 0 rows and an empty ByteStream.
ReadEnter(t) ==
    /\ Alive
    /\ pc[t] = "read"
    /\ fFileMutex = NoThread
    /\ batch' = [batch EXCEPT ![t] = <<>>]
    /\ IF Good
       THEN fFileMutex' = t /\ pc' = [pc EXCEPT ![t] = "getline"]
       ELSE UNCHANGED fFileMutex /\ pc' = [pc EXCEPT ![t] = "send"]
    /\ UNCHANGED <<fEnclEsc, fContinue, fInfileList, fInFileName, stream, fTgtPmId,
                   fpThread, ctl, setups, tgt, hist>>

\* Faulty variant: the loop does not test the batch quantity.
InReadLoopNoLimit(t) == pc[t] = "getline" /\ ~fInFile.eof

\* readDataFile's loop runs while the stream is not at its end and the batch
\* is not full.
InReadLoop(t) == pc[t] = "getline" /\ ~fInFile.eof /\ Len(batch[t]) < BatchQty

\* The call extracts nothing: the input is at its end, eofbit and failbit
\* are set, aLen is 0 and nothing is appended.
RowAtEnd(t) ==
    /\ Alive
    /\ InReadLoop(t)
    /\ ~Extracted.runsOn /\ Extracted.aLen = 0
    /\ Read(Extracted)
    /\ UNCHANGED <<fContinue, fInfileList, fInFileName, fIfFile, fEnclEsc, fTgtPmId,
                   fFileMutex, fpThread, ctl, setups, pc, tgt, batch, hist>>

\* A row that fits the buffer, 0 < aLen < sizeof(fBuff) - 2, is appended to
\* the ByteStream; eofbit is set when the input ended before a '\n'.
RowRead(t) ==
    /\ Alive
    /\ InReadLoop(t)
    /\ ~Extracted.runsOn /\ Extracted.aLen \in 1..(BuffSize - 3)
    /\ Read(Extracted)
    /\ batch' = [batch EXCEPT ![t] = Append(@, Appended(Extracted))]
    /\ UNCHANGED <<fContinue, fInfileList, fInFileName, fIfFile, fEnclEsc, fTgtPmId,
                   fFileMutex, fpThread, ctl, setups, pc, tgt, hist>>

\* "Data Row too BIG to handle!!": aLen >= sizeof(fBuff) - 2.  The exception
\* unwinds out of readDataFile, which releases the mutex, and out of
\* feedData.
RowTooBig(t) ==
    /\ Alive
    /\ InReadLoop(t)
    /\ ~Extracted.runsOn /\ Extracted.aLen >= BuffSize - 2
    /\ Read(Extracted)
    /\ fFileMutex' = NoThread
    /\ pc' = [pc EXCEPT ![t] = "crashed"]
    /\ UNCHANGED <<fContinue, fInfileList, fInFileName, fIfFile, fEnclEsc, fTgtPmId,
                   fpThread, ctl, setups, tgt, batch, hist>>

\* getNextRow in an enclosure that the input ends in: its inner loop stores
\* EOF after EOF and never tests the stream or MaxLen, so it writes past
\* fBuff and past the object until the process is stopped.  The mutex is
\* never released.
RowRunsOn(t) ==
    /\ Alive
    /\ InReadLoop(t)
    /\ Extracted.runsOn
    /\ Read(Extracted)
    /\ pc' = [pc EXCEPT ![t] = "crashed"]
    /\ UNCHANGED <<fContinue, fInfileList, fInFileName, fIfFile, fEnclEsc, fTgtPmId,
                   fFileMutex, fpThread, ctl, setups, tgt, batch, hist>>

\* Faulty variant: readDataFile returns with fFileMutex still held.
ReadReturnNoUnlock(t) ==
    /\ Alive
    /\ pc[t] = "getline"
    /\ fInFile.eof \/ Len(batch[t]) >= BatchQty
    /\ pc' = [pc EXCEPT ![t] = "send"]
    /\ UNCHANGED <<fEnclEsc, fContinue, fInfileList, fInFileName, stream, fTgtPmId, fFileMutex,
                   fpThread, ctl, setups, tgt, batch, hist>>

\* readDataFile, return: the batch is full or the stream is at its end.
ReadReturn(t) ==
    /\ Alive
    /\ pc[t] = "getline"
    /\ fInFile.eof \/ Len(batch[t]) >= BatchQty
    /\ fFileMutex' = NoThread
    /\ pc' = [pc EXCEPT ![t] = "send"]
    /\ UNCHANGED <<fEnclEsc, fContinue, fInfileList, fInFileName, stream, fTgtPmId,
                   fpThread, ctl, setups, tgt, batch, hist>>

\* updateRowTx, send2Pm under the send mutex, setTgtPmId(0).
Send(t) ==
    /\ Alive
    /\ pc[t] = "send"
    /\ sent' = Append(sent, [pm |-> tgt[t], rows |-> batch[t]])
    /\ rowTx' = [rowTx EXCEPT ![tgt[t]] = @ + Len(batch[t])]
    /\ fTgtPmId' = NoPm
    /\ pc' = [pc EXCEPT ![t] = "eof"]
    /\ UNCHANGED <<fEnclEsc, fContinue, fInfileList, fInFileName, stream, fFileMutex,
                   fpThread, ctl, setups, tgt, batch, input, eod, shutdownCalled>>

\* if(fInFile.eof()) is false: next round.
FeedNotEof(t) ==
    /\ Alive
    /\ pc[t] = "eof"
    /\ ~fInFile.eof
    /\ pc' = [pc EXCEPT ![t] = "loop"]
    /\ UNCHANGED <<fEnclEsc, fContinue, fInfileList, fInFileName, stream, fTgtPmId, fFileMutex,
                   fpThread, ctl, setups, tgt, batch, hist>>

\* End of file and more inputs: close the file, open the next one.  A file
\* that cannot be opened throws out of feedData.
FeedNextFile(t) ==
    /\ Alive
    /\ pc[t] = "eof"
    /\ fInFile.eof /\ fInfileList # <<>>
    /\ fInFileName' = NextInputDataFile
    /\ fInfileList' = PopInputDataFile
    /\ IF CanOpen(NextInputDataFile)
       THEN OpenInFile(NextInputDataFile) /\ pc' = [pc EXCEPT ![t] = "loop"]
       ELSE /\ fIfFile' = Closed
            /\ pc' = [pc EXCEPT ![t] = "crashed"]
            /\ UNCHANGED <<ifPos, cinPos, fInFile>>
    /\ UNCHANGED <<fEnclEsc, fContinue, fTgtPmId, fFileMutex, fpThread, ctl, setups, tgt,
                   batch, hist>>

\* Faulty variant: EOD at the end of a file whatever the list holds.
FeedEODEarly(t) ==
    /\ Alive
    /\ pc[t] = "eof"
    /\ fInFile.eof
    /\ eod' = eod + 1
    /\ fContinue' = FALSE
    /\ pc' = [pc EXCEPT ![t] = "loop"]
    /\ UNCHANGED <<fEnclEsc, fInfileList, fInFileName, stream, fTgtPmId, fFileMutex, fpThread,
                   ctl, setups, tgt, batch, input, sent, rowTx, shutdownCalled>>

\* Faulty variant: EOD is sent and the reader is not told to stop.
FeedEODKeepGoing(t) ==
    /\ Alive
    /\ pc[t] = "eof"
    /\ fInFile.eof /\ fInfileList = <<>>
    /\ eod' = eod + 1
    /\ pc' = [pc EXCEPT ![t] = "loop"]
    /\ UNCHANGED <<fEnclEsc, fContinue, fInfileList, fInFileName, stream, fTgtPmId, fFileMutex,
                   fpThread, ctl, setups, tgt, batch, input, sent, rowTx, shutdownCalled>>

\* End of file and no more inputs: sendEODMsg, setContinue(false).
FeedEOD(t) ==
    /\ Alive
    /\ pc[t] = "eof"
    /\ fInFile.eof /\ fInfileList = <<>>
    /\ eod' = eod + 1
    /\ fContinue' = FALSE
    /\ pc' = [pc EXCEPT ![t] = "loop"]
    /\ UNCHANGED <<fEnclEsc, fInfileList, fInFileName, stream, fTgtPmId, fFileMutex, fpThread,
                   ctl, setups, tgt, batch, input, sent, rowTx, shutdownCalled>>

Reader(t) ==
    \/ FeedLoop(t) \/ FeedTarget(t) \/ ReadEnter(t)
    \/ RowAtEnd(t) \/ RowRead(t) \/ RowTooBig(t) \/ RowRunsOn(t) \/ ReadReturn(t)
    \/ Send(t) \/ FeedNotEof(t) \/ FeedNextFile(t) \/ FeedEOD(t)

Controller ==
    \/ \E f \in Names : Add2InputDataFileList(f)
    \/ Setup \/ ShutdownFlag \/ ShutdownClose

-----------------------------------------------------------------------------
\* The object as its constructor leaves it: fInFile reads std::cin.
Init ==
    /\ fContinue = TRUE
    /\ fInfileList = <<>>
    /\ fInFileName = NoName
    /\ fIfFile = Closed
    /\ ifPos = 0 /\ cinPos = 0
    /\ fInFile = [src |-> "cin", eof |-> FALSE, fail |-> FALSE]
    /\ fEnclEsc = FALSE
    /\ fTgtPmId = NoPm
    /\ fFileMutex = NoThread
    /\ fpThread = NoThread
    /\ ctl = "new"
    /\ setups = 0
    /\ pc = [t \in Readers |-> "idle"]
    /\ tgt = [t \in Readers |-> NoPm]
    /\ batch = [t \in Readers |-> <<>>]
    /\ input = <<>>
    /\ sent = <<>>
    /\ rowTx = [p \in PMs |-> 0]
    /\ eod = 0
    /\ shutdownCalled = FALSE

Next == Controller \/ \E t \in Readers : Reader(t)

Spec == Init /\ [][Next]_vars

\* The scheduler runs every started thread, and shutdown(), once entered,
\* returns.  Nothing obliges a PM to be ready for data: getNextPm2Feed may
\* return 0 for ever.
Fairness ==
    /\ \A t \in Readers : WF_vars(Reader(t))
    /\ WF_vars(ShutdownClose)

\* A PM is offered again and again while the reader asks for one.
PmOffered(t) == FeedTarget(t) /\ tgt'[t] # NoPm
PmsTakeData == \A t \in Readers : SF_vars(PmOffered(t))

FairSpec == Spec /\ Fairness

-----------------------------------------------------------------------------
(* Properties.                                                             *)

PcValues == {"idle", "loop", "target", "read", "getline", "send", "eof",
             "done", "crashed"}

\* A row in a message: the characters appended for what was read of file
\* from offset at.
IsRow(row) ==
    /\ row.file \in Names
    /\ row.at \in 0..Len(FileText[row.file])
    /\ Len(row.text) \in 1..(BuffSize - 3)
    /\ Last(row.text) = NL
IsRows(rows) == DOMAIN rows = 1..Len(rows) /\ \A i \in DOMAIN rows : IsRow(rows[i])

TypeOK ==
    /\ fContinue \in BOOLEAN
    /\ fInfileList \in Seq(Names) /\ Len(fInfileList) <= MaxFiles
    /\ fInFileName \in Names \cup {NoName}
    /\ fIfFile \in (Files \ Missing) \cup {Closed}
    /\ cinPos \in 0..Len(FileText[StdIn])
    /\ fIfFile # Closed => ifPos \in 0..Len(FileText[fIfFile])
    /\ fInFile \in [src : {"cin", "ifs"}, eof : BOOLEAN, fail : BOOLEAN]
    /\ fEnclEsc \in BOOLEAN
    /\ fTgtPmId \in PMs \cup {NoPm}
    /\ fFileMutex \in Readers \cup {NoThread}
    /\ fpThread \in Readers \cup {NoThread}
    /\ ctl \in {"new", "running", "closing", "stopped"}
    /\ setups \in 0..MaxSetups
    /\ pc \in [Readers -> PcValues]
    /\ tgt \in [Readers -> PMs \cup {NoPm}]
    /\ \A t \in Readers : IsRows(batch[t]) /\ Len(batch[t]) <= BatchQty
    /\ input \in Seq(Names)
    /\ \A i \in DOMAIN sent : sent[i].pm \in PMs /\ IsRows(sent[i].rows)
    /\ rowTx \in [PMs -> Nat]
    /\ eod \in Nat
    /\ shutdownCalled \in BOOLEAN

\* A text as the characters of file behind offset from, each with its place.
Placed(f, from, text) ==
    [k \in 1..Len(text) |-> [file |-> f, at |-> from + k, ch |-> text[k]]]

\* The characters handed to the PMs so far, in the order they were sent.
RowsPlaced(rows) ==
    FlattenSeq([j \in DOMAIN rows |-> Placed(rows[j].file, rows[j].at, rows[j].text)])
SentRows == FlattenSeq([i \in DOMAIN sent |-> RowsPlaced(sent[i].rows)])

\* The characters of the input files, in the order of the file list.
InputRows == FlattenSeq([i \in DOMAIN input |-> Placed(input[i], 0, FileText[input[i]])])

Feed ==
    INSTANCE DataFeed WITH
        source    <- InputRows,
        delivered <- SentRows,
        eods      <- eod,
        stopped   <- shutdownCalled

\* feedData keeps what DataFeed promises the PMs.  It hands them the rows in
\* input order, no character twice and none skipped, whether getline or
\* getNextRow cuts the rows: across batches, target changes, the switch from
\* one input file to the next (FeedNextFile) and a shutdown() in the middle
\* of the load.  "if there is no more files to be read send EOD": unless the
\* load was shut down, every row of every input file was sent before EOD.
\* And EOD ends the load: it is sent once (sendEODMsg is followed by
\* setContinue(false)) and no data message follows it.
FeedRefinement == Feed!Spec

\* "Finish reading file and thread can go away once data sent" (feedData):
\* an EOD message means that every row of every input file was sent before
\* it, shutdown() or not.
EODMeansAllRowsSent == eod > 0 => SentRows = InputRows

\* shutdown()'s "wait till readDataFile() finish": while a reader is inside
\* readDataFile, between taking and releasing fFileMutex, no other thread
\* closes or replaces the file it reads.
NoCloseDuringRead ==
    [][(\E t \in Readers : pc[t] = "getline") => fIfFile' = fIfFile]_vars

\* Every row reaches the PM as it stands in the file (readDataFile's
\* "aLen chars incl \n"): no character of a row is overwritten.
RowsSentIntact ==
    \A i \in DOMAIN sent : \A j \in DOMAIN sent[i].rows :
        LET row == sent[i].rows[j]
        IN  IsPrefix(row.text, Rest(row.file, row.at))

\* The handler has one reader (one fpThread, one stream): setup() never leaves
\* two reader threads in feedData on the same stream.
OneReader ==
    Cardinality({t \in Readers : pc[t] \notin {"idle", "done", "crashed"}}) <= 1

Finished(t) == pc[t] \in {"done", "crashed"}

\* A reader that shutdown() was called on leaves feedData, whether or not a PM
\* takes data: the loop tests fContinue on every round and nothing in a round
\* waits for ever (the mutex is released after every batch).
ShutdownStopsReader ==
    \A t \in Readers : (ctl = "closing" /\ pc[t] # "idle") ~> Finished(t)

\* A started load ends, provided a PM is offered again and again: the reader
\* sends EOD or is stopped (shutdown(), an input that cannot be read).
LoadEnds ==
    PmsTakeData => \A t \in Readers : pc[t] = "loop" ~> (Finished(t) \/ eod > 0)

=============================================================================
