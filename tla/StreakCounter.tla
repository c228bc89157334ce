--------------------------- MODULE StreakCounter ---------------------------
(***************************************************************************)
(* What streaks promise, without any history: one counter per subject and  *)
(* one for all of them, which the first practice of a day raises, and      *)
(* which a day without practice sets back to zero, but only once that day  *)
(* is over.                                                                *)
(***************************************************************************)
EXTENDS Integers

CONSTANTS Subjects, Overall

VARIABLES
    count,  \* the current streaks
    done,   \* the ones practised for today
    best    \* the longest streaks so far

Kinds == Subjects \cup {Overall}
Larger(m, n) == IF m >= n THEN m ELSE n

Init ==
    /\ count = [k \in Kinds |-> 0]
    /\ done = {}
    /\ best = [k \in Kinds |-> 0]

Practise(subject) ==
    /\ count' = [k \in Kinds |->
          IF k \in {subject, Overall} \ done THEN count[k] + 1 ELSE count[k]]
    /\ done' = done \cup {subject, Overall}
    /\ best' = [k \in Kinds |-> Larger(best[k], count'[k])]

NextDay ==
    /\ count' = [k \in Kinds |-> IF k \in done THEN count[k] ELSE 0]
    /\ done' = {}
    /\ UNCHANGED best

Next == NextDay \/ \E s \in Subjects : Practise(s)

Spec == Init /\ [][Next]_<<count, done, best>>

=============================================================================
