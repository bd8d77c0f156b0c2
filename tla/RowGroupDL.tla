----------------------------- MODULE RowGroupDL -----------------------------
(***************************************************************************)
(* The row-group data list that connects two job steps: a FIFO with one    *)
(* producer and one consumer.  The steps of this repository use four of    *)
(* its operations: insert, endOfInput, getIterator and next.  The list     *)
(* itself is not part of the sources at hand; it is modelled by what its   *)
(* callers rely on: insert() waits while the list is full, next() waits    *)
(* while the list is empty and its input has not ended, and returns false  *)
(* once the list is empty and ended.                                       *)
(*                                                                         *)
(* A data list is a value [buf, eoi]; the steps' modules hold it in a      *)
(* variable and apply these operators to it.                               *)
(***************************************************************************)
EXTENDS Naturals, Sequences

CONSTANT DLCapacity     \* row groups a list holds before insert() waits

ASSUME DLCapacity \in Nat \ {0}

NewDL == [buf |-> <<>>, eoi |-> FALSE]

\* Faulty variant: insert() never waits.
HasRoomAlways(dl) == TRUE

\* insert() returns at once.
HasRoom(dl) == Len(dl.buf) < DLCapacity

Insert(dl, rg) == [dl EXCEPT !.buf = Append(@, rg)]

EndOfInput(dl) == [dl EXCEPT !.eoi = TRUE]

\* next() returns at once.
NextReady(dl) == dl.buf # <<>> \/ dl.eoi

\* What next() returns, the row group it hands over, and the list after it.
More(dl)      == dl.buf # <<>>
NextData(dl)  == Head(dl.buf)
AfterNext(dl) == IF More(dl) THEN [dl EXCEPT !.buf = Tail(@)] ELSE dl

IsDL(dl, RowGroups) ==
    /\ dl \in [buf : Seq(RowGroups), eoi : BOOLEAN]
    /\ Len(dl.buf) <= DLCapacity
=============================================================================
