----------------------------- MODULE WEObserver -----------------------------
(***************************************************************************)
(* Subject of we_observer.cpp: the list fObs of the observers attached,    *)
(* and attach, detach and notify as what one call makes of the list.  The  *)
(* scoped_lock each of them declares is constructed without a mutex and    *)
(* locks nothing; the loops of detach and notify never advance their       *)
(* iterator, so a call that does not leave its loop in the first round     *)
(* does not leave it at all (runsOn).                                      *)
(***************************************************************************)
EXTENDS Integers, Sequences

\* Subject::Subject: no observer is attached.
Subject == [fObs |-> <<>>, updated |-> <<>>, runsOn |-> FALSE]

\* fObs.push_back(Obs)
attach(s, Obs) == [s EXCEPT !.fObs = Append(@, Obs)]

\* aIt = fObs.begin(); while (aIt != fObs.end()): an observer that is first
\* in the list is erased and the loop left; on any other one the loop
\* tests the first element again.
detach(s, Obs) ==
    CASE s.fObs = <<>>                       -> s
      [] s.fObs # <<>> /\ Head(s.fObs) = Obs -> [s EXCEPT !.fObs = Tail(@)]
      [] OTHER                               -> [s EXCEPT !.runsOn = TRUE]

\* while (aIt != fObs.end()) (*aIt)->update(this): the first observer is
\* updated, and updated again.
notify(s) ==
    IF s.fObs = <<>> THEN s
    ELSE [s EXCEPT !.updated = Append(@, Head(s.fObs)), !.runsOn = TRUE]

\* One call of the thread that uses the subject; a call that runs on is
\* the thread's last.
Call(s, call) ==
    CASE s.runsOn           -> s
      [] call.op = "attach" -> attach(s, call.Obs)
      [] call.op = "detach" -> detach(s, call.Obs)
      [] call.op = "notify" -> notify(s)
=============================================================================
