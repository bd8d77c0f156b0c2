------------------------- MODULE MCWEFileReadThread -------------------------
(***************************************************************************)
(* Model of WEFileReadThread for TLC: five input files and standard input, *)
(* two PMs, batches of two rows, a buffer of eight characters.             *)
(***************************************************************************)
EXTENDS WEFileReadThread

CONSTANTS f1, f2, fBig, fOpen, fGone, p1, p2, r1, r2, a, b

MCFiles == {f1, f2, fBig, fOpen, fGone}
MCPMs   == {p1, p2}

\* f1 takes two batches, the second one short.  f2 is two rows to getline
\* and one row to getNextRow, which keeps the '\n' inside the enclosure.
\* fBig has a row that does not fit the buffer after a row that does.  fOpen
\* is one row to getline; to getNextRow it ends inside an enclosure.  fGone
\* cannot be opened; standard input is exactly one full batch.
MCFileText ==
    (f1    :> <<a, NL, b, DELIM, a, NL, ESC, NL>>) @@
    (f2    :> <<ENCL, a, NL, ENCL, NL>>) @@
    (fBig  :> <<a, NL, a, a, a, a, a, a, a, a, NL>>) @@
    (fOpen :> <<a, DELIM, ENCL, b, NL>>) @@
    (fGone :> <<>>) @@
    (StdIn :> <<a, NL, b, NL>>)

\* The same with a last row of f1 that is not followed by a '\n'.
MCFileTextUnterminated == [MCFileText EXCEPT ![f1] = <<a, NL, b, DELIM, a>>]

MCMissing == {fGone}

\* setup() finds no enclosing and no escape character set.
NoEnclEsc == {FALSE}

\* Either: rows are read by getline in some loads, by getNextRow in others.
AnyEnclEsc == BOOLEAN

OneReaderOnly == {r1}
TwoReaders    == {r1, r2}
=============================================================================
