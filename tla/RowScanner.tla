----------------------------- MODULE RowScanner -----------------------------
(***************************************************************************)
(* The two scanners of WEFileReadThread (we_filereadthread.cpp) as         *)
(* operators:                                                              *)
(*   - getNextRow, which readDataFile calls instead of getline when an     *)
(*     enclosing or an escape character is set (fEnclEsc), and which reads *)
(*     the characters of one row from the input stream into fBuff;         *)
(*   - chkForListOfFiles, which splits a list of file names into           *)
(*     fInfileList.                                                        *)
(* PureFunctions evaluates them and checks them against what a row and a   *)
(* list of names are.                                                      *)
(*                                                                         *)
(* A stream is the characters not yet read and its good() flag; a          *)
(* character is ENCL, ESC, DELIM, NL or any other value.  get() at the end *)
(* of the stream returns EOF and clears good().                            *)
(***************************************************************************)
EXTENDS Naturals, Sequences, SequencesExt

CONSTANTS
    ENCL,       \* fEncl, the enclosing character
    ESC,        \* fEsc, the escape character
    DELIM,      \* fDelim, the column delimiter
    NL,         \* '\n'
    EOF,        \* what get() returns at the end of the stream
    SEP         \* a character of " ,|", the separators of file names

-----------------------------------------------------------------------------
(* getNextRow                                                              *)

\* The stream and the locals of a call: pBuf..pEnd is the row so far;
\* runsOn says that the call is in a loop it does not leave.
Call(text) ==
    [ifs |-> text, good |-> TRUE, aCh |-> EOF, pBuf |-> <<>>,
     aTrailEsc |-> FALSE, runsOn |-> FALSE]

\* aCh = ifs.get()
get(c) ==
    IF c.ifs = <<>> THEN [c EXCEPT !.aCh = EOF, !.good = FALSE]
    ELSE [c EXCEPT !.aCh = Head(c.ifs), !.ifs = Tail(c.ifs)]

\* *pEnd++ = aCh
put(c) == [c EXCEPT !.pBuf = Append(@, c.aCh)]

\* Faulty variant: the escape character is a character like any other
\* inside the enclosure.
RECURSIVE ToEnclosureEndNoEsc(_)
ToEnclosureEndNoEsc(c) ==
    IF c.aCh = ENCL THEN c
    ELSE IF ~c.good THEN [c EXCEPT !.runsOn = TRUE]
    ELSE ToEnclosureEndNoEsc(get(put(c)))

\* while (aCh != ENCL): the characters of the enclosure, an escaped one
\* together with its escape character.  Nothing in the loop looks at the
\* stream or at the size of the buffer: at the end of the stream aCh is
\* EOF in every further round.
RECURSIVE ToEnclosureEnd(_)
ToEnclosureEnd(c) ==
    IF c.aCh = ENCL THEN c
    ELSE IF ~c.good THEN [c EXCEPT !.runsOn = TRUE]
    ELSE IF c.aCh = ESC THEN ToEnclosureEnd(get(put(get(put(c)))))
    ELSE ToEnclosureEnd(get(put(c)))

\* Faulty variant: what follows the enclosure is read and not kept.
RECURSIVE ToFieldEndNotKept(_)
ToFieldEndNotKept(c) ==
    IF c.aCh \in {NL, EOF, DELIM} THEN [c EXCEPT !.aTrailEsc = FALSE]
    ELSE ToFieldEndNotKept(get(c))

\* while (aTrailEsc): what follows the end of an enclosure, up to the
\* delimiter, the newline or the end of the stream, as it is.
RECURSIVE ToFieldEnd(_)
ToFieldEnd(c) ==
    IF c.aCh \in {NL, EOF, DELIM} THEN [c EXCEPT !.aTrailEsc = FALSE]
    ELSE ToFieldEnd(get(put(c)))

\* *pEnd++ = aCh, the closing ENCL; aTrailEsc = true.
EnclosureTaken(e) == [put(e) EXCEPT !.aTrailEsc = TRUE]

\* One round of while (ifs.good()) up to its test of the end of the row.
Taken(c) ==
    CASE c.aCh = ENCL -> EnclosureTaken(ToEnclosureEnd(get(put(c))))
      [] c.aCh = ESC  -> put(get(put(c)))
      [] OTHER        -> put(c)

\* The rest of the round: the row is full at a '\n' or at MaxLen characters;
\* else the next character is read, and behind an enclosure the rest of the
\* field.
RECURSIVE RowLoop(_, _)
NextRound(t, MaxLen) ==
    IF t.runsOn \/ t.aCh = NL \/ Len(t.pBuf) = MaxLen THEN t
    ELSE RowLoop(IF t.aTrailEsc THEN ToFieldEnd(get(t)) ELSE get(t), MaxLen)

RowLoop(c, MaxLen) == IF c.good THEN NextRound(Taken(c), MaxLen) ELSE c

\* getNextRow(ifs, pBuf, MaxLen): the call when it returns, with the row in
\* pBuf and the stream behind it; the length of the row is what it returns.
getNextRow(text, MaxLen) == RowLoop(get(Call(text)), MaxLen)

-----------------------------------------------------------------------------
(* chkForListOfFiles.  start and end are offsets into aFileName, from 0;   *)
(* npos is Len(aFileName) + 1.                                             *)

npos(aFileName) == Len(aFileName) + 1

\* aFileName.find_first_of(sep, start)
find_first_of(aFileName, start) ==
    IF \E i \in start..(Len(aFileName) - 1) : aFileName[i + 1] = SEP
    THEN CHOOSE i \in start..(Len(aFileName) - 1) :
             /\ aFileName[i + 1] = SEP
             /\ \A j \in start..(i - 1) : aFileName[j + 1] # SEP
    ELSE npos(aFileName)

\* aFileName.substr(start, end - start)
substr(aFileName, start, end) ==
    SubSeq(aFileName, start + 1, IF end > Len(aFileName) THEN Len(aFileName) ELSE end)

\* The do loop: the name up to the separator and then the names behind it,
\* until no separator is left or the next separator is where the next name
\* starts.
RECURSIVE FilesFrom(_, _, _)
FilesFrom(aFileName, start, end) ==
    IF end = npos(aFileName) THEN <<substr(aFileName, start, end)>>
    ELSE LET next == find_first_of(aFileName, end + 1)
         IN  <<substr(aFileName, start, end)>> \o
             (IF end + 1 = next THEN <<>>
              ELSE FilesFrom(aFileName, end + 1, next))

\* chkForListOfFiles(FileName): what it appends to fInfileList.
chkForListOfFiles(FileName) ==
    FilesFrom(FileName, 0, find_first_of(FileName, 0))
=============================================================================
