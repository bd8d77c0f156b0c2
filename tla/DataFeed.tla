------------------------------ MODULE DataFeed ------------------------------
(***************************************************************************)
(* What the splitter's file read thread promises the PMs of a load: the    *)
(* characters of the input files reach them in input order, none twice and *)
(* none skipped; the end-of-data message is sent once, after the last      *)
(* character unless the load was shut down; and nothing is sent after it.  *)
(* Which PM gets which batch, how the rows are cut and how the threads     *)
(* take turns is left to the thread.                                       *)
(***************************************************************************)
EXTENDS Naturals, Sequences, SequencesExt

VARIABLES
    source,        \* the characters of the load, in input order
    delivered,     \* the characters handed to the PMs so far
    eods,          \* end-of-data messages sent
    stopped        \* the load was shut down

fvars == <<source, delivered, eods, stopped>>

Init == delivered = <<>> /\ eods = 0 /\ stopped = FALSE

\* The input of the load is named before the first character is sent.
Start ==
    /\ delivered = <<>> /\ eods = 0
    /\ UNCHANGED <<delivered, eods, stopped>>

\* A batch: the characters that come next in the input.
Deliver ==
    /\ eods = 0
    /\ IsStrictPrefix(delivered, delivered')
    /\ IsPrefix(delivered', source)
    /\ UNCHANGED <<source, eods, stopped>>

Stop ==
    /\ stopped' = TRUE
    /\ UNCHANGED <<source, delivered, eods>>

\* End of data: everything was delivered, or the load was shut down.
End ==
    /\ eods = 0
    /\ stopped \/ delivered = source
    /\ eods' = 1
    /\ UNCHANGED <<source, delivered, stopped>>

Next == Start \/ Deliver \/ Stop \/ End

Spec == Init /\ [][Next]_fvars
=============================================================================
