----------------------------- MODULE Motivation -----------------------------
(***************************************************************************)
(* learn/motivation: scores, streaks, the review queue and the one next    *)
(* thing to do, all computed from the ledger and the day it is.            *)
(*                                                                         *)
(* A row's time is its day and, within the day, its place in the ledger;   *)
(* a day is UTC.  Subjects and items are numbers because both are sorted   *)
(* by name.  Retention is compared by age: a level that starts lower is a  *)
(* mastered one that has already aged, in ten thousandths of a half-life.  *)
(***************************************************************************)
EXTENDS Integers, Sequences, SequencesExt, FiniteSetsExt

CONSTANTS
    Events,           \* what may be recorded, a row without its day
    SubjectFacts,     \* what the subjects may report of their progress
    NoFact,           \* a subject that reports nothing
    SubjectNumbers,   \* their numbers, from 1
    HALF_LIFE_DAYS, REVIEW_BACKLOG, REVIEW_BATCH_SIZE, STORY_RECENCY,
    MaxDay,           \* bound: the last day
    MaxEntries        \* bound: the longest ledger

ASSUME MotivationAssumption ==
    /\ SubjectNumbers \subseteq Nat \ {0} /\ IsFiniteSet(SubjectNumbers)
    /\ Events \subseteq [subject : SubjectNumbers, item : Nat, activity : STRING,
                        result : STRING, correct : Nat, total : Nat]
    /\ \A facts \in SubjectFacts : DOMAIN facts = SubjectNumbers
    /\ HALF_LIFE_DAYS \in Nat \ {0} /\ REVIEW_BACKLOG \in Nat \ {0}
    /\ REVIEW_BATCH_SIZE \in Nat \ {0} /\ STORY_RECENCY \in Nat
    /\ MaxDay \in Nat \ {0} /\ MaxEntries \in Nat

VARIABLES day, ledger

motivationVars == <<day, ledger>>

NoSubject == 0
Entries == 1..Len(ledger)

-----------------------------------------------------------------------------
\* Scores

ResultScore(result) ==
    CASE result = "pass" -> 100 [] result = "partial" -> 60 [] OTHER -> 0

\* n / d to the nearest integer, halves up
RoundHalfUp(n, d) == (2 * n + d) \div (2 * d)

Accurate(r) == IF r.correct > r.total THEN r.total ELSE r.correct

\* Mutant: more right answers than questions.
ScoreWithoutCap(r) ==
    IF r.total > 0
    THEN RoundHalfUp(6 * ResultScore(r.result) * r.total + 400 * r.correct, 10 * r.total)
    ELSE ResultScore(r.result)

\* 0.6 of the grade and 0.4 of the accuracy, if there is a count
ScoreExercise(r) ==
    IF r.total > 0
    THEN RoundHalfUp(6 * ResultScore(r.result) * r.total + 400 * Accurate(r), 10 * r.total)
    ELSE ResultScore(r.result)

\* The scores of the first i rows, summed up.
Totals(rs) ==
    LET total[i \in 0..Len(rs)] ==
            IF i = 0 THEN 0 ELSE total[i - 1] + ScoreExercise(rs[i])
    IN  total

\* Mutant: old rows leave the sum but not the count.
MeanOfRecent(rs) ==
    LET n == Len(rs)
    IN  RoundHalfUp(Totals(rs)[n] - Totals(rs)[IF n > 2 THEN n - 2 ELSE 0], n)

MeanScore(rs) == RoundHalfUp(Totals(rs)[Len(rs)], Len(rs))

-----------------------------------------------------------------------------
\* Streaks

\* streaks: the rows of one subject, or all of them
Of(subject) == {i \in Entries : subject \in {ledger[i].subject, NoSubject}}

ActiveDates(rows) == {ledger[i].day : i \in rows}

\* How many days on end, the last of them d, are active.
RunTo(active, d) == Max({n \in 0..d : \A i \in 0..(n - 1) : d - i \in active})

\* Mutant: yesterday's streak is over as soon as today begins.
RunUpToToday(active, today) ==
    IF active = {} \/ Max(active) < today THEN 0 ELSE RunTo(active, Max(active))

CurrentStreak(active, today) ==
    IF active = {} \/ Max(active) < today - 1 THEN 0 ELSE RunTo(active, Max(active))

\* The loop over the sorted days has the run up to each of them in turn.
LongestStreak(active) == Max({0} \cup {RunTo(active, d) : d \in active})

-----------------------------------------------------------------------------
\* build_state: what the ledger says of each item

Levels == <<"unknown", "introduced", "practiced", "mastered">>
Rank(result) ==
    CASE result = "pass" -> 4 [] result = "partial" -> 3
      [] result = "fail" -> 2 [] OTHER -> 1

Key(r) == <<r.subject, r.item>>
Keys == {Key(r) : r \in ToSet(ledger)}
EntriesOf(key) == {i \in Entries : Key(ledger[i]) = key}
LastOf(key) == Max(EntriesOf(key))

\* Mutant: the entries are taken in ledger order, the first for the last.
FirstSeen(key) == ledger[Min(EntriesOf(key))].day

LastSeen(key) == ledger[LastOf(key)].day

\* _infer_mastery: the highest level any result implied
InferMastery(key) == Levels[Max({Rank(ledger[i].result) : i \in EntriesOf(key)})]

-----------------------------------------------------------------------------
\* The review queue

Unit == 10000
\* log2(1 / MASTERY_STRENGTH), log2(1 / threshold)
HeadStart(level) ==
    CASE level = "mastered" -> 0 [] level = "practiced" -> 5146
      [] level = "introduced" -> 13219
DueAge == 10000 * HALF_LIFE_DAYS
UrgentAge == 15146 * HALF_LIFE_DAYS

Age(key) ==
    (day - LastSeen(key)) * Unit + HeadStart(InferMastery(key)) * HALF_LIFE_DAYS

Due == {key \in Keys : InferMastery(key) # "unknown" /\ Age(key) > DueAge}
Urgent(key) == Age(key) > UrgentAge

\* Most decayed first, then the one seen longest ago, then by name.
Precedes(j, k) ==
    \/ Age(j) > Age(k)
    \/ Age(j) = Age(k) /\ LastOf(j) < LastOf(k)

\* Those before the n-th are n - 1.
ReviewQueue ==
    LET due == Due
    IN  [n \in 1..Cardinality(due) |->
            CHOOSE k \in due : Cardinality({j \in due : Precedes(j, k)}) = n - 1]

-----------------------------------------------------------------------------
\* what_next, for what the subjects report

IsDone(fact) ==
    /\ fact # NoFact
    /\ \/ fact.done = "yes"
       \/ fact.done = "unsaid" /\ fact.total > 0 /\ fact.mastered >= fact.total

SubjectIds(facts) ==
    {key[1] : key \in Keys} \cup {s \in DOMAIN facts : facts[s] # NoFact}

\* Mutant: a subject that reports nothing counts as done.
NoneOpen(facts) ==
    /\ SubjectIds(facts) # {}
    /\ \A s \in SubjectIds(facts) : facts[s] = NoFact \/ IsDone(facts[s])

AllDone(facts) ==
    /\ SubjectIds(facts) # {}
    /\ \A s \in SubjectIds(facts) : IsDone(facts[s])

\* _subject_with_new_material: the open subject practised last; one never
\* practised comes after those that were, and by name.
LastActive(subject) ==
    Max({0} \cup {i \in Entries : ledger[i].subject = subject})
OpenSubjects(facts) == {s \in SubjectIds(facts) : ~IsDone(facts[s])}
SubjectWithNewMaterial(facts) ==
    CHOOSE s \in OpenSubjects(facts) :
        \A t \in OpenSubjects(facts) \ {s} :
            \/ LastActive(s) > LastActive(t)
            \/ LastActive(s) = LastActive(t) /\ s < t

RecentActivities ==
    {ledger[i].activity : i \in {n \in Entries : n > Len(ledger) - STORY_RECENCY}}

Mastered == {key \in Keys : InferMastery(key) = "mastered"}
OldestMastered ==
    CHOOSE key \in Mastered : \A k \in Mastered : LastOf(key) <= LastOf(k)

Advice(action, mode, subject, item, items) ==
    [action |-> action, mode |-> mode, subject |-> subject, item |-> item,
     items |-> items]
AnySubject(facts) ==
    IF SubjectIds(facts) = {} THEN NoSubject ELSE Min(SubjectIds(facts))

ReviewBatch(mode) ==
    LET queue == ReviewQueue
    IN  Advice("review_batch", mode, queue[1][1], queue[1],
               SubSeq(queue, 1, Min({REVIEW_BATCH_SIZE, Len(queue)})))

Pressing ==
    LET due == Due
    IN  Cardinality(due) >= REVIEW_BACKLOG \/ \E key \in due : Urgent(key)

\* Mutant: forward progress is not interrupted.
NextLessonFirst(facts) ==
    LET mode == IF AllDone(facts) THEN "maintenance" ELSE "progress"
    IN  IF OpenSubjects(facts) # {}
        THEN Advice("next_lesson", "progress", SubjectWithNewMaterial(facts), <<>>, <<>>)
        ELSE IF Due # {} THEN ReviewBatch(mode)
        ELSE Advice("fresh_story", "maintenance", AnySubject(facts), <<>>, <<>>)

\* The first of these that applies.
WhatNext(facts) ==
    LET mode == IF AllDone(facts) THEN "maintenance" ELSE "progress"
    IN  IF Pressing THEN ReviewBatch(mode)
        ELSE IF OpenSubjects(facts) # {}
        THEN Advice("next_lesson", "progress", SubjectWithNewMaterial(facts), <<>>, <<>>)
        ELSE IF Due # {} THEN ReviewBatch(mode)
        ELSE IF "story" \notin RecentActivities
        THEN Advice("fresh_story", "maintenance", AnySubject(facts), <<>>, <<>>)
        ELSE IF Mastered # {}
        THEN Advice("harder_repeat", "maintenance", OldestMastered[1], OldestMastered, <<>>)
        ELSE Advice("fresh_story", mode, AnySubject(facts), <<>>, <<>>)

-----------------------------------------------------------------------------
\* A learner practising, day after day

MotivationInit == day = 1 /\ ledger = <<>>

\* A row is stamped by the subject when it is recorded.
Stamped(e, today) ==
    [subject |-> e.subject, item |-> e.item, activity |-> e.activity, result |-> e.result,
     correct |-> e.correct, total |-> e.total, day |-> today]

Practice(e) ==
    /\ Len(ledger) < MaxEntries
    /\ ledger' = Append(ledger, Stamped(e, day))
    /\ UNCHANGED day

NextDay ==
    /\ day < MaxDay
    /\ day' = day + 1
    /\ UNCHANGED ledger

MotivationNext == NextDay \/ \E e \in Events : Practice(e)

MotivationSpec == MotivationInit /\ [][MotivationNext]_motivationVars

-----------------------------------------------------------------------------
\* Properties

MotivationTypeOK ==
    /\ day \in 1..MaxDay
    /\ Len(ledger) <= MaxEntries
    /\ \A i \in Entries :
        /\ ledger[i].day \in 1..day
        /\ ScoreExercise(ledger[i]) \in 0..100

\* The streaks recomputed from the whole history, of each subject and of all
\* together, are the counters a learner would keep by hand.
Streak == INSTANCE StreakCounter WITH
    Subjects <- SubjectNumbers, Overall <- NoSubject,
    count <- [s \in SubjectNumbers \cup {NoSubject} |->
                CurrentStreak(ActiveDates(Of(s)), day)],
    done <- {s \in SubjectNumbers \cup {NoSubject} : day \in ActiveDates(Of(s))},
    best <- [s \in SubjectNumbers \cup {NoSubject} |-> LongestStreak(ActiveDates(Of(s)))]
StreaksAreCounters == Streak!Spec

\* A new outcome moves the mean score towards its own score and never past
\* it, whatever was rounded before and after.
Between(x, y, z) == (x <= y /\ y <= z) \/ (z <= y /\ y <= x)
MeanMovesTowards ==
    [][\A e \in Events :
         ledger # <<>> /\ ledger' = Append(ledger, Stamped(e, day)) =>
            Between(MeanScore(ledger), MeanScore(ledger)', ScoreExercise(e))]_motivationVars

\* Practising an item leaves the review order of all others alone, a pass
\* takes the item itself out of the queue for the day, and no night makes
\* anything leave it or change places.
Ahead(queue, j, k) ==
    \E m, n \in 1..Len(queue) : m < n /\ queue[m] = j /\ queue[n] = k
QueueMovesAlone ==
    [][LET queue == ReviewQueue
           next == ReviewQueue'
           Same(keys) == \A j, k \in keys : Ahead(next, j, k) <=> Ahead(queue, j, k)
       IN  /\ \A e \in Events :
                ledger' = Append(ledger, Stamped(e, day)) =>
                    /\ ToSet(next) \ {Key(e)} = ToSet(queue) \ {Key(e)}
                    /\ Same(ToSet(queue) \ {Key(e)})
                    /\ e.result = "pass" => Key(e) \notin ToSet(next)
           /\ day' # day => ToSet(queue) \subseteq ToSet(next) /\ Same(ToSet(queue))
      ]_motivationVars

\* Nothing urgent is passed over for new material, and a batch holds the
\* most decayed items there are, led by the one the advice names.
ReviewsComeFirst ==
    \A facts \in SubjectFacts :
        LET advice == WhatNext(facts)
        IN  /\ (\E key \in Due : Urgent(key)) => advice.action = "review_batch"
            /\ advice.action = "review_batch" =>
                /\ Len(advice.items) \in 1..REVIEW_BATCH_SIZE
                /\ advice.item = advice.items[1]
                /\ \A k \in ToSet(advice.items), j \in Due \ ToSet(advice.items) :
                     Age(k) >= Age(j)

\* With a subject known, the mode is maintenance exactly when every known one
\* reported to be done; a lesson is only advised where there is one; and the
\* harder repeat is of an item that is mastered and not due, after a story.  With
\* none known nothing is done, yet the advice is the fresh story of maintenance:
\* _models.py's 'maintenance' "(all done)" and _all_done's "and there is >=1"
\* say otherwise.
MaintenanceMeansDone ==
    \A facts \in SubjectFacts :
        LET advice == WhatNext(facts)
        IN  /\ IF SubjectIds(facts) = {}
                THEN advice = Advice("fresh_story", "maintenance", NoSubject, <<>>, <<>>)
                ELSE advice.mode = "maintenance" <=>
                         \A s \in SubjectIds(facts) : IsDone(facts[s])
            /\ advice.action = "next_lesson" => ~IsDone(facts[advice.subject])
            /\ advice.action = "harder_repeat" =>
                advice.item \in Mastered \ Due /\ "story" \in RecentActivities

=============================================================================
