----------------------------- MODULE SiteExport -----------------------------
(***************************************************************************)
(* `learn site export` (learn/front/_export.py), from the command line to  *)
(* its exit status, over the subject registry (learn/subjects) and the     *)
(* subprocess driver (learn/front/_driver.py).                             *)
(*                                                                         *)
(* Subjects are other people's programs: one may be installed or removed   *)
(* between any two steps and each call of it may fail; a write of the      *)
(* export may fail too, or the export be killed, and it is then run again  *)
(* over the files it left.                                                 *)
(***************************************************************************)
EXTENDS Integers, Sequences, SequencesExt, FiniteSets, Positions

CONSTANTS
    Subjects,     \* names a registry entry may have
    Registries,   \* the registry files: what reads makes of them, the entries' names
    Listings,     \* the stories a `story list` may answer, in its order
    Dev,          \* the stories whose id starts with dev-
    Nameless,     \* a listed story without a usable id
    NotAStory,    \* a listed entry that is no JSON object
    NoFile,       \* a file that is not there
    Torn,         \* a file that was not written to its end
    MaxExports,   \* bound on the exports that are started
    MaxChanges,   \* bound on the installs and removals during one export
    MaxCuts       \* bound on the exports that are killed or cannot write

ASSUME ExportAssumption ==
    /\ Registries \subseteq [reads : {"sound", "refused", "raises"},
                             entries : Seq(Subjects)]
    /\ \A stories \in Listings : stories \in Seq(Range(stories))
    /\ NoFile \notin Listings

VARIABLES
    registry,     \* the registry file
    installed,    \* the subjects whose executable resolves
    site,         \* the directory: meta, subjects and stories[subject]
    at,           \* where the export stands
    entries,      \* the registry as the export loaded it
    records,      \* the rows of subjects.json made so far
    left,         \* the entries whose stories are still to be written
    listing,      \* what is left of the listing being exported
    told,         \* its stories exported so far
    written,      \* story_files: the subjects whose file this export wrote
    status,       \* the exit status of the last export that ended
    answered,     \* history: what each subject's `story list` last answered
    changed,      \* history: the installs and removals during the export
    raised,       \* history: the subject whose call raised what nobody catches
    unwritten,    \* history: a file could not be written
    started,      \* the exports started so far
    cuts          \* the exports killed or unable to write so far

exportLocals == <<entries, records, left, listing, told, written>>
exportVars == <<registry, installed, site, at, exportLocals, status, answered,
                changed, raised, unwritten, started, cuts>>

EXIT_SUCCESS == 0
EXIT_USER_ERROR == 1
EXIT_ENV_ERROR == 2
Exporting == -1
Killed == -9

-----------------------------------------------------------------------------
(* The command line and the driver.                                        *)

\* _dispatch: a CliError ends the command with its code, any other exception
\* is wrapped as a user error, and a handler that returns has succeeded.
Exits(code) == at' = "ended" /\ status' = code

\* What drive makes of a subject's answer: its payload, a CliError (missing,
\* not spawned, timed out, failed, not a JSON object), or an exception that is
\* neither, as for output that is not text.
Drive(subject) ==
    IF subject \in installed THEN {"payload", "CliError", "other"} ELSE {"CliError"}

Wrapped(subject) == Exits(EXIT_USER_ERROR) /\ raised' = {subject}

-----------------------------------------------------------------------------
(* The export.                                                             *)

Start ==
    /\ at = "ended"
    /\ started < MaxExports
    /\ started' = started + 1
    /\ at' = "load"
    /\ status' = Exporting
    /\ entries' = <<>> /\ records' = <<>> /\ left' = <<>>
    /\ listing' = <<>> /\ told' = <<>> /\ written' = {}
    /\ answered' = [s \in Subjects |-> NoFile]
    /\ changed' = <<>> /\ raised' = {} /\ unwritten' = FALSE
    /\ UNCHANGED <<registry, installed, site, cuts>>

\* load_registry refuses a file that cannot be opened or parsed, or whose
\* entries it does not accept.  It raises for one that is no text, and for a
\* document or a command that is no list where it goes through one.
LoadRegistry ==
    /\ at = "load"
    /\ CASE registry.reads = "sound" ->
                /\ entries' = registry.entries
                /\ site' = [site EXCEPT !.meta = registry.entries]
                /\ at' = "row"
                /\ UNCHANGED status
         [] registry.reads = "refused" ->
                Exits(EXIT_ENV_ERROR) /\ UNCHANGED <<entries, site>>
         [] OTHER -> Exits(EXIT_USER_ERROR) /\ UNCHANGED <<entries, site>>
    /\ UNCHANGED <<registry, installed, records, left, listing, told, written,
                   answered, changed, raised, unwritten, started, cuts>>

\* _subject_record asks whether the subject is there ...
ProbeSubject ==
    /\ at = "row"
    /\ Len(records) < Len(entries)
    /\ LET subject == entries[Len(records) + 1]
       IN  records' = Append(records, [name |-> subject, modules |-> FALSE,
                                       available |-> subject \in installed])
    /\ at' = "modules"
    /\ UNCHANGED <<registry, installed, site, entries, left, listing, told, written,
                   status, answered, changed, raised, unwritten, started, cuts>>

\* Mutant: a subject that cannot be driven fails the export.
NoModulesFails == Exits(EXIT_ENV_ERROR)

\* The CliError handler of _subject_modules: no modules.
NoModules == at' = "row" /\ UNCHANGED status

\* ... and then, in _subject_modules, asks again and drives its overview.
ReadModules ==
    /\ at = "modules"
    /\ \E answer \in Drive(Last(records).name) :
           CASE answer = "payload" ->
                    /\ \E some \in BOOLEAN :
                           records' = [records EXCEPT ![Len(records)].modules = some]
                    /\ at' = "row"
                    /\ UNCHANGED <<status, raised>>
             [] answer = "CliError" -> NoModules /\ UNCHANGED <<records, raised>>
             [] OTHER -> Wrapped(Last(records).name) /\ UNCHANGED records
    /\ UNCHANGED <<registry, installed, site, entries, left, listing, told, written,
                   answered, changed, unwritten, started, cuts>>

WriteSubjects ==
    /\ at = "row"
    /\ Len(records) = Len(entries)
    /\ site' = [site EXCEPT !.subjects = records]
    /\ left' = entries
    /\ at' = "probe"
    /\ UNCHANGED <<registry, installed, entries, records, listing, told, written, status,
                   answered, changed, raised, unwritten, started, cuts>>

CheckAvailable ==
    /\ at = "probe"
    /\ left # <<>>
    /\ IF Head(left) \in installed
         THEN at' = "list" /\ UNCHANGED left
         ELSE left' = Tail(left) /\ UNCHANGED at
    /\ UNCHANGED <<registry, installed, site, entries, records, listing, told, written,
                   status, answered, changed, raised, unwritten, started, cuts>>

\* Mutant: a subject whose listing fails gets no story file.
NoStoryFile == left' = Tail(left) /\ at' = "probe" /\ UNCHANGED listing

\* The CliError handler of _subject_stories: no stories.
NoStories == listing' = <<>> /\ at' = "story" /\ UNCHANGED left

\* _subject_stories.  A listing that holds no list raises a TypeError nobody
\* expects; a failing one is that of a subject that has no stories.
ListStories ==
    /\ at = "list"
    /\ told' = <<>>
    /\ \E answer \in Drive(Head(left)) :
           CASE answer = "payload" ->
                    /\ listing' \in Listings
                    /\ answered' = [answered EXCEPT ![Head(left)] = listing']
                    /\ at' = "story"
                    /\ UNCHANGED <<left, status, raised>>
             [] answer = "CliError" ->
                    /\ NoStories
                    /\ answered' = [answered EXCEPT ![Head(left)] = NoFile]
                    /\ UNCHANGED <<status, raised>>
             [] OTHER -> Wrapped(Head(left)) /\ UNCHANGED <<left, listing, answered>>
    /\ UNCHANGED <<registry, installed, site, entries, records, written, changed,
                   unwritten, started, cuts>>

\* _export_story leaves these out.
Skipped(story) == story = NotAStory \/ story \in Dev

\* What _read_full_story may come back with: the story, nothing, or an
\* exception.  A story without an id is not read.
ReadFullStory(subject, story) ==
    IF story = Nameless THEN {"CliError"} ELSE Drive(subject)

\* Mutant: a story that cannot be read in full is left out.
FullOrNothing(story, full) ==
    IF full THEN Append(told, [story |-> story, full |-> TRUE]) ELSE told

\* `full if full is not None else summary`
FullOrSummary(story, full) == Append(told, [story |-> story, full |-> full])

ExportStory ==
    /\ at = "story"
    /\ listing # <<>>
    /\ LET story == Head(listing)
       IN  IF Skipped(story) THEN UNCHANGED <<told, at, status, raised>>
           ELSE \E answer \in ReadFullStory(Head(left), story) :
                    IF answer = "other" THEN Wrapped(Head(left)) /\ UNCHANGED told
                    ELSE /\ told' = FullOrSummary(story, answer = "payload")
                         /\ UNCHANGED <<at, status, raised>>
    /\ listing' = Tail(listing)
    /\ UNCHANGED <<registry, installed, site, entries, records, left, written, answered,
                   changed, unwritten, started, cuts>>

WriteStories ==
    /\ at = "story"
    /\ listing = <<>>
    /\ site' = [site EXCEPT !.stories[Head(left)] = told]
    /\ written' = written \cup {Head(left)}
    /\ left' = Tail(left)
    /\ at' = "probe"
    /\ UNCHANGED <<registry, installed, entries, records, listing, told, status, answered,
                   changed, raised, unwritten, started, cuts>>

\* The docs come last and hold nothing of the subjects' answers.
FinishExport ==
    /\ at = "probe"
    /\ left = <<>>
    /\ Exits(EXIT_SUCCESS)
    /\ UNCHANGED <<registry, installed, site, exportLocals, answered, changed, raised,
                   unwritten, started, cuts>>

\* The file the next step writes, cut off; write_text empties it first.
Tears ==
    CASE at = "load" /\ registry.reads = "sound" -> {[site EXCEPT !.meta = Torn]}
      [] at = "row" /\ Len(records) = Len(entries) -> {[site EXCEPT !.subjects = Torn]}
      [] at = "story" /\ listing = <<>> -> {[site EXCEPT !.stories[Head(left)] = Torn]}
      [] OTHER -> {}

\* An export is cut short: in the middle of a write, or with the file unopened.
CutShort ==
    /\ cuts < MaxCuts
    /\ cuts' = cuts + 1
    /\ site' \in {site} \cup Tears
    /\ UNCHANGED <<registry, installed, exportLocals, answered, changed, raised, started>>

\* A directory that cannot be made (before the registry is even read, or for
\* the docs), a file that cannot be opened or written, or a text that cannot be
\* encoded: nobody catches it.
WriteFails ==
    /\ at = "load" \/ Tears # {} \/ (at = "probe" /\ left = <<>>)
    /\ CutShort
    /\ Exits(EXIT_USER_ERROR)
    /\ unwritten' = TRUE

Kill ==
    /\ at # "ended"
    /\ CutShort
    /\ Exits(Killed)
    /\ UNCHANGED unwritten

InstallOrRemove(subject) ==
    /\ at # "ended"
    /\ Len(changed) < MaxChanges
    /\ installed' = SymDiff(installed, {subject})
    /\ changed' = Append(changed, subject)
    /\ UNCHANGED <<registry, site, at, exportLocals, status, answered, raised, unwritten,
                   started, cuts>>

ExportInit ==
    /\ registry \in Registries
    /\ installed \in SUBSET Subjects
    /\ site = [meta |-> NoFile, subjects |-> NoFile,
               stories |-> [s \in Subjects |-> NoFile]]
    /\ at = "ended" /\ status = Exporting
    /\ entries = <<>> /\ records = <<>> /\ left = <<>>
    /\ listing = <<>> /\ told = <<>> /\ written = {}
    /\ answered = [s \in Subjects |-> NoFile]
    /\ changed = <<>> /\ raised = {} /\ unwritten = FALSE
    /\ started = 0 /\ cuts = 0

ExportNext ==
    \/ Start \/ LoadRegistry \/ ProbeSubject \/ ReadModules \/ WriteSubjects
    \/ CheckAvailable \/ ListStories \/ ExportStory \/ WriteStories \/ FinishExport
    \/ WriteFails \/ Kill
    \/ \E subject \in Subjects : InstallOrRemove(subject)

ExportSpec == ExportInit /\ [][ExportNext]_exportVars

-----------------------------------------------------------------------------
(* What an export promises.                                                *)

Names(list) == [i \in DOMAIN list |-> list[i].name]

SubjectRows == [name : Subjects, available : BOOLEAN, modules : BOOLEAN]
Stories == UNION {Range(stories) : stories \in Listings}
ToldStories == [story : Stories, full : BOOLEAN]

ExportTypeOK ==
    /\ registry \in Registries
    /\ installed \subseteq Subjects
    /\ site \in [meta : {NoFile, Torn} \cup Seq(Subjects),
                 subjects : {NoFile, Torn} \cup Seq(SubjectRows),
                 stories : [Subjects -> {NoFile, Torn} \cup Seq(ToldStories)]]
    /\ at \in {"ended", "load", "row", "modules", "probe", "list", "story"}
    /\ entries \in Seq(Subjects) /\ left \in Seq(Subjects)
    /\ records \in Seq(SubjectRows)
    /\ listing \in Seq(Stories) /\ told \in Seq(ToldStories)
    /\ written \subseteq Subjects
    /\ status \in {EXIT_SUCCESS, EXIT_USER_ERROR, EXIT_ENV_ERROR, Exporting, Killed}
    /\ answered \in [Subjects -> {NoFile} \cup Listings]
    /\ changed \in Seq(Subjects)
    /\ raised \subseteq Subjects
    /\ unwritten \in BOOLEAN
    /\ started \in Nat /\ cuts \in Nat

\* The export "never fails because a subject is missing", nor because one is
\* removed half way or answers with an error: it ends with an environment error
\* only for a registry that is refused, and with a user error only for one that
\* raises, for a write that failed, or for a subject that is there and whose
\* call raised what nobody catches.  ("A malformed registry is exit 2" and
\* drive's "every failure is a CliError" promise more than the code gives.)
MissingSubjectsAreHarmless ==
    /\ status = EXIT_ENV_ERROR => registry.reads = "refused"
    /\ status = EXIT_USER_ERROR =>
           registry.reads = "raises" \/ unwritten \/ raised \cap installed # {}

\* The stories of a story file, and those of a listing that belong in it.
Told(file) == [i \in 1..Len(file) |-> file[i].story]
Exported(stories) == {i \in 1..Len(stories) : ~Skipped(stories[i])}
Wanted(stories) == Picked(stories, Exported(stories))

\* However many story reads failed, and whatever an earlier export that was cut
\* short left behind, the file of a subject whose listing was answered holds
\* the stories of that listing, all and in its order, without the dev- ones.
StoriesFollowTheListing ==
    status = EXIT_SUCCESS =>
        \A subject \in written : answered[subject] # NoFile =>
            Told(site.stories[subject]) = Wanted(answered[subject])

\* The three kinds of files of a finished export tell one story: meta.json and
\* subjects.json name the same subjects, and a subject is listed as available
\* exactly when its stories were exported, unless it came or went meanwhile.
FilesAgreeUnlessChanged ==
    status = EXIT_SUCCESS =>
        /\ site.meta = Names(site.subjects)
        /\ \A row \in Range(site.subjects) : row.name \notin Range(changed) =>
               /\ row.available <=> row.name \in written
               /\ row.modules => row.available
=============================================================================
