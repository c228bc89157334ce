---------------------------- MODULE Conformance ----------------------------
(***************************************************************************)
(* `learn subject doctor`: the gate that drives an installed subject's     *)
(* read-only verbs, one after the other, and decides whether the subject   *)
(* honours the contract.  The subject's answers are inputs: each is chosen *)
(* when the gate asks for it and kept, so that the verdict can be held     *)
(* against all of them.                                                    *)
(*                                                                         *)
(* A text is the set of its placeholders.  Missing stands for a field that *)
(* is absent or empty, Odd for a value of the wrong type, Undecodable for  *)
(* output that is no text.                                                 *)
(***************************************************************************)
EXTENDS Integers, Sequences, SequencesExt, FiniteSets

CONSTANTS
    Missing, Odd, Undecodable,
    StoryLists,     \* the story ids a subject may list, in order
    Contents,       \* exercises of the first story read, if all went well
    OtherContents,  \* bound: exercises of any other story
    MaxFaults       \* bound: how many verbs answer badly

\* What reading a story may give.
StoryReads == {Odd} \cup Contents \cup OtherContents

\* A placeholder has an id, and a list is a list.
IsBlank(b) == b = Odd \/ b.options = Odd \/ Len(b.options) \in Nat
IsExercise(e) ==
    /\ e.text \in {Missing, Odd} \/ Missing \notin e.text
    /\ \/ e.blanks \in {Missing, Odd}
       \/ e.blanks \in Seq(ToSet(e.blanks)) /\ \A b \in ToSet(e.blanks) : IsBlank(b)

ASSUME ConformanceAssumption ==
    /\ \A stories \in StoryLists : stories \in Seq(ToSet(stories))
    /\ \A exercises \in Contents \cup OtherContents :
        /\ exercises # Odd /\ exercises \in Seq(ToSet(exercises))
        /\ \A e \in ToSet(exercises) : IsExercise(e)

VARIABLES
    probe,    \* what the gate does next
    checks,   \* the payload's checks: id and passed
    answers,  \* history: how the subject answered each verb
    listed,   \* the stories it listed
    read,     \* history: the stories read, with their exercises
    found,    \* _probe_cloze_items' variables: items seen,
    flawed,   \* whether there was an error,
    first     \* and under which story an exercise id was first seen

doctorVars == <<probe, checks, answers, listed, read, found, flawed, first>>

\* _READONLY_PROBES, after doctor
Probes == <<"overview", "progress", "advice", "story_list">>
Verbs == ToSet(Probes) \cup {"doctor", "bad_verb"}
\* What _run and _probe_verb tell apart; Undecodable is neither's (GateRaises).
VerbAnswers == {"valid", "no_answer", "exit", "not_json", "invalid", "version"}
DoctorAnswers == VerbAnswers \cup {"unsupported_pin"}
BadVerbAnswers == {"valid", "no_answer", "exit_0", "stdout", "not_json",
                   "invalid", "code"}

CheckIds == <<"executable", "doctor", "pin", "overview", "progress", "advice",
              "story_list", "cloze", "bad_verb">>
CheckIdsButPin == <<"executable", "doctor", "overview", "progress", "advice",
                    "story_list", "cloze", "bad_verb">>
DoctorSteps == ToSet(CheckIds) \cup {"stories", "done", "raised"}

-----------------------------------------------------------------------------
\* One exercise

IsClozeBlanksItem(e) == e.cloze /\ (e.text # Missing \/ e.blanks # Missing)

Placeholders(e) == IF e.text = Odd THEN {} ELSE e.text

TopLevelFlawed(e) == e.text = Odd \/ e.item = Missing

BlankIdFlawed(id, ids, seen) == id = Missing \/ id \in seen \/ id \notin ids

BlankAnswerFlawed(b) ==
    \/ b.options = Odd
    \/ Len(b.options) < 2
    \/ b.answer = Missing
    \/ b.answer \notin ToSet(b.options)

\* The blanks' ids seen before the n-th: one that is set counts as seen, even
\* one that has no placeholder.
SeenBefore(blanks, n) ==
    {blanks[i].id : i \in {j \in 1..(n - 1) : blanks[j] # Odd}} \ {Missing}

\* Mutant: ids are only compared with the placeholders.
BlankTwice(blanks, n, ids) ==
    LET b == blanks[n] IN b = Odd \/ b.id \notin ids \/ BlankAnswerFlawed(b)

\* _validate_cloze_blank
BlankFlawed(blanks, n, ids) ==
    LET b == blanks[n]
    IN  b = Odd \/ BlankIdFlawed(b.id, ids, SeenBefore(blanks, n)) \/ BlankAnswerFlawed(b)

OrphanPlaceholders(ids, seen) == ids \ seen

ExerciseFlawed(e) ==
    \/ e.text = Missing \/ e.blanks = Missing
    \/ TopLevelFlawed(e)
    \/ e.blanks = Odd
    \/ e.blanks = <<>>
    \/ \E n \in 1..Len(e.blanks) : BlankFlawed(e.blanks, n, Placeholders(e))
    \/ OrphanPlaceholders(Placeholders(e), SeenBefore(e.blanks, Len(e.blanks) + 1)) # {}

-----------------------------------------------------------------------------
\* One story: its items are counted, checked, and their ids remembered under
\* the first story that used them.  An id is compared with those of other
\* stories only, so that one story's may be remembered together.

Reused(id, story) == id \in DOMAIN first /\ first[id] # story

\* setdefault
Remember(ids, story) ==
    [i \in DOMAIN first \cup (ids \ {Missing}) |->
        IF i \in DOMAIN first THEN first[i] ELSE story]

ClozeFlawed(e, story) == ExerciseFlawed(e) \/ Reused(e.id, story)

\* Where a story has its cloze items.
ClozeItems(exercises) == {i \in 1..Len(exercises) : IsClozeBlanksItem(exercises[i])}

StoryClozeItems(story, exercises) ==
    LET items == {exercises[i] : i \in ClozeItems(exercises)}
    IN  /\ found' = found + Cardinality(ClozeItems(exercises))
        /\ flawed' = (flawed \/ \E e \in items : ClozeFlawed(e, story))
        /\ first' = Remember({e.id : e \in items}, story)

-----------------------------------------------------------------------------
\* The gate

Check(id, passed) == [id |-> id, passed |-> passed]
Faults == Cardinality({v \in Verbs : answers[v] \notin {"not_asked", "valid"}})
\* A verb's answer, within the bound on bad ones.
Answering(verb, answer) ==
    /\ answer = "valid" \/ Faults < MaxFaults
    /\ answers' = [answers EXCEPT ![verb] = answer]
AllValid == Faults = 0

cloze == <<listed, read, found, flawed, first>>

ResolveExecutable ==
    /\ probe = "executable"
    /\ \E here \in BOOLEAN :
        /\ checks' = <<Check("executable", here)>>
        /\ probe' = IF here THEN "doctor" ELSE "done"
    /\ UNCHANGED <<answers, cloze>>

\* Mutant: a doctor that fails is skipped together with its pin.
SkipDoctor ==
    /\ probe = "doctor"
    /\ \E a \in DoctorAnswers :
        /\ Answering("doctor", a)
        /\ checks' = IF a \in {"valid", "unsupported_pin"}
                     THEN Append(Append(checks, Check("doctor", TRUE)),
                                 Check("pin", a = "valid"))
                     ELSE checks
    /\ probe' = Probes[1]
    /\ UNCHANGED cloze

\* _probe_doctor: the pin is only looked at when doctor itself passed.
ProbeDoctor ==
    /\ probe = "doctor"
    /\ \E a \in DoctorAnswers :
        /\ Answering("doctor", a)
        /\ checks' = IF a \in {"valid", "unsupported_pin"}
                     THEN Append(Append(checks, Check("doctor", TRUE)),
                                 Check("pin", a = "valid"))
                     ELSE Append(checks, Check("doctor", FALSE))
    /\ probe' = Probes[1]
    /\ UNCHANGED cloze

AfterProbe(i) == IF i < Len(Probes) THEN Probes[i + 1] ELSE "stories"

\* _probe_verb; a story list that passed is kept for the cloze check.
ProbeVerb(i) ==
    /\ probe = Probes[i]
    /\ \E a \in VerbAnswers :
        /\ Answering(Probes[i], a)
        /\ checks' = Append(checks, Check(Probes[i], a = "valid"))
        /\ IF Probes[i] = "story_list" /\ a = "valid"
           THEN \E l \in StoryLists : listed' = l
           ELSE UNCHANGED listed
    /\ probe' = AfterProbe(i)
    /\ UNCHANGED <<read, found, flawed, first>>

\* _read_story_exercises: a story that cannot be read is an error ...
StoryUnreadable ==
    /\ probe = "stories"
    /\ Len(read) < Len(listed)
    /\ read' = Append(read, Odd)
    /\ flawed' = TRUE
    /\ UNCHANGED <<probe, checks, answers, listed, found, first>>

\* ... and one that can is checked exercise by exercise.
ReadStory ==
    /\ probe = "stories"
    /\ Len(read) < Len(listed)
    /\ \E exercises \in IF AllValid /\ read = <<>> THEN Contents ELSE OtherContents :
        /\ read' = Append(read, exercises)
        /\ StoryClozeItems(listed[Len(read) + 1], exercises)
    /\ UNCHANGED <<probe, checks, answers, listed>>

\* _summarize_cloze_check
SummarizeClozeCheck ==
    /\ probe = "stories"
    /\ Len(read) = Len(listed)
    /\ checks' = Append(checks, Check("cloze", found = 0 \/ ~flawed))
    /\ probe' = "bad_verb"
    /\ UNCHANGED <<answers, cloze>>

ProbeErrorContract ==
    /\ probe = "bad_verb"
    /\ \E a \in BadVerbAnswers :
        /\ Answering("bad_verb", a)
        /\ checks' = Append(checks, Check("bad_verb", a = "valid"))
    /\ probe' = "done"
    /\ UNCHANGED cloze

\* _run catches a timeout and a failed spawn.  What a verb writes is decoded
\* there, and output that does not decode raises through the whole gate:
\* _dispatch ends the command with an error, without the payload.
GateRaises ==
    /\ \/ \E verb \in Verbs : probe = verb /\ Answering(verb, Undecodable)
       \/ probe = "stories" /\ Len(read) < Len(listed) /\ UNCHANGED answers
    /\ probe' = "raised"
    /\ UNCHANGED <<checks, cloze>>

DoctorInit ==
    /\ probe = "executable"
    /\ checks = <<>>
    /\ answers = [v \in Verbs |-> "not_asked"]
    /\ listed = <<>> /\ read = <<>>
    /\ found = 0 /\ flawed = FALSE /\ first = <<>>

DoctorNext ==
    \/ ResolveExecutable \/ ProbeDoctor
    \/ \E i \in 1..Len(Probes) : ProbeVerb(i)
    \/ StoryUnreadable \/ ReadStory \/ SummarizeClozeCheck
    \/ ProbeErrorContract \/ GateRaises

DoctorSpec == DoctorInit /\ [][DoctorNext]_doctorVars

\* _payload
Healthy == \A i \in 1..Len(checks) : checks[i].passed

-----------------------------------------------------------------------------
\* Properties

AnyAnswer == {"not_asked", Undecodable} \cup DoctorAnswers \cup BadVerbAnswers

DoctorTypeOK ==
    /\ probe \in DoctorSteps
    /\ checks \in Seq([id : ToSet(CheckIds), passed : BOOLEAN])
    /\ answers \in [Verbs -> AnyAnswer]
    /\ listed \in {<<>>} \cup StoryLists
    /\ read \in Seq(StoryReads)
    /\ Len(read) <= Len(listed)
    /\ found \in Nat /\ flawed \in BOOLEAN
    /\ \A id \in DOMAIN first : id # Missing /\ first[id] \in ToSet(listed)

\* What the contract's 3.6.1 (docs/specs/subject-plugin-contract.md:221-226) has
\* doctor check of an item: text, item and blanks are there, every blank offers
\* two words that include its answer, and the blanks' ids stand for the text's
\* placeholders, one to one.  What it leaves to a schema (an id's pattern, words
\* that are not empty) is abstracted.
WellFormed(e) ==
    /\ e.text \notin {Missing, Odd} /\ e.item # Missing
    /\ e.blanks \notin {Missing, Odd} /\ e.blanks # <<>>
    /\ \A b \in ToSet(e.blanks) :
        /\ b # Odd /\ b.options # Odd /\ Len(b.options) >= 2
        /\ b.answer # Missing /\ b.answer \in ToSet(b.options)
    /\ \A i, j \in DOMAIN e.blanks :
        e.blanks[i].id = e.blanks[j].id => i = j
    /\ {b.id : b \in ToSet(e.blanks)} = e.text

Readable == {i \in 1..Len(read) : read[i] # Odd}
Items(i) == {e \in ToSet(read[i]) : IsClozeBlanksItem(e)}

\* Every listed story was read, and its items are well formed.
ClozeWellFormed ==
    /\ Readable = 1..Len(listed)
    /\ \A i \in Readable : \A e \in Items(i) : WellFormed(e)

\* The same section's "the exercise's own id is unique among the subject's
\* other declared" cloze items: each item has an id, and no other item has it,
\* in whatever story.
IdsUnique ==
    \A i, j \in Readable : \A m \in ClozeItems(read[i]), n \in ClozeItems(read[j]) :
        /\ read[i][m].id # Missing
        /\ read[i][m].id = read[j][n].id => i = j /\ m = n

ClozeConformant == ClozeWellFormed /\ IdsUnique

\* Where the gate falls short of the contract: it compares the ids of
\* different stories only.  Items without an id, or that share one within a
\* story (or with the same story listed again), are not looked for.
IdsOverlooked ==
    /\ ClozeWellFormed /\ ~IdsUnique
    /\ \A i, j \in Readable : \A d \in Items(i), e \in Items(j) :
        d.id # Missing /\ d.id = e.id => listed[i] = listed[j]

\* "A subject that declares none passes trivially", and in the code "even if
\* some story failed to read".
NoClozeItems == \A i \in Readable : Items(i) = {}

\* A verdict is the contract's, but for the ids the gate overlooks: the subject
\* is declared healthy exactly when it is installed, answered every verb
\* validly, and has cloze items that conform, or none, or ones whose only fault
\* is an id that is missing or repeated within one story.
HealthyMeansConformant ==
    probe = "done" =>
        (Healthy <=> /\ \A v \in Verbs : answers[v] = "valid"
                     /\ ClozeConformant \/ IdsOverlooked \/ NoClozeItems)

\* A check that was skipped never makes a subject healthy: a verdict on a
\* subject that is there has every check, once, in the documented order, or all
\* but the pin's and is not healthy.  The only answer that keeps the gate from
\* asking for the rest is output that does not decode; there is no verdict then.
NoCheckSkipped ==
    /\ probe = "done" /\ checks[1].passed =>
         LET ids == [i \in 1..Len(checks) |-> checks[i].id]
         IN  ids = CheckIds \/ (~Healthy /\ ids = CheckIdsButPin)
    /\ probe = "raised" =>
         (\E v \in Verbs : answers[v] = Undecodable) \/ Len(read) < Len(listed)

=============================================================================
