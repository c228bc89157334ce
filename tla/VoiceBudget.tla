---------------------------- MODULE VoiceBudget ----------------------------
(***************************************************************************)
(* What the voice budget promises, with no rows, stamps or retries: seconds *)
(* are granted one whole session at a time, in one atomic step, and never  *)
(* past the month's cap.  Erasing the account starts a new meter.          *)
(***************************************************************************)
EXTENDS Integers

CONSTANTS MaxSession, MonthlyCap, Months

VARIABLE granted

TypeOK == granted \in [Months -> Nat]

Init == granted = [m \in Months |-> 0]

Book(m) ==
    /\ granted[m] + MaxSession <= MonthlyCap
    /\ granted' = [granted EXCEPT ![m] = @ + MaxSession]

Erase == granted' = [m \in Months |-> 0]

Next == Erase \/ \E m \in Months : Book(m)

Spec == Init /\ [][Next]_granted
=============================================================================
