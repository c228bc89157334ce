---------------------------- MODULE StudyProofs ----------------------------
(***************************************************************************)
(* Theorems about SiteExport, for any registries, listings and bounds,     *)
(* about Conformance, for any stories and exercises, about Motivation, for *)
(* any events, half-life and thresholds, and about SchemaValidator, for    *)
(* any schemas and payloads.                                               *)
(***************************************************************************)
EXTENDS SiteExport, Conformance, Motivation, SchemaValidator, PositionsProofs,
        SequenceTheorems, TLAPS

-----------------------------------------------------------------------------
(* The site export: the inductive invariant.                               *)

\* An export has a status once it ended, and not before.
Unfinished == at # "ended" => status = Exporting

\* The export has read the registry, and made this part of its rows.
Loaded ==
    /\ at = "load" => records = <<>>
    /\ at \in {"load", "row", "modules"} => written = {}
    /\ at \notin {"ended", "load"} =>
           /\ site.meta = entries
           /\ Len(records) <= Len(entries)
           /\ \A i \in 1..Len(records) : records[i].name = entries[i]
           /\ at = "modules" => Len(records) >= 1

Unchanged(subject) == subject \notin Range(changed)

\* A row says of its subject what is still so.
RowHolds(row) ==
    /\ Unchanged(row.name) => (row.available <=> row.name \in installed)
    /\ Unchanged(row.name) /\ row.modules => row.name \in installed
RowsHold ==
    at \notin {"ended", "load"} => \A i \in 1..Len(records) : RowHolds(records[i])

\* The entries whose stories are through.
Through == Len(entries) - Len(left)

\* The entries left are the last ones, and those before them that were there
\* have their file.
Listed ==
    /\ at \in {"probe", "list", "story"} =>
           /\ site.subjects = records
           /\ Len(records) = Len(entries)
           /\ Len(left) <= Len(entries)
           /\ \A j \in 1..Len(left) : left[j] = entries[Through + j]
           /\ \A i \in 1..Through : Unchanged(entries[i]) /\ entries[i] \in installed
                                        => entries[i] \in written
           /\ \A subject \in written : Unchanged(subject) => subject \in installed
    /\ at \in {"list", "story"} =>
           left # <<>> /\ (Unchanged(Head(left)) => Head(left) \in installed)

\* The file of a subject holds what was wanted of its last listing.
Follows(subject) ==
    answered[subject] # NoFile =>
        Told(site.stories[subject]) = Wanted(answered[subject])

\* The file at hand is about to be written anew.
FilesFollow ==
    at # "ended" =>
        \A subject \in written :
            Follows(subject) \/ (at = "story" /\ subject = Head(left))

\* The stories told are those wanted of the part of a listing gone through.
Telling(stories) ==
    LET n == Len(stories) - Len(listing)
    IN  /\ n \in Nat
        /\ \A j \in 1..Len(listing) : listing[j] = stories[n + j]
        /\ Told(told) = Picked(stories, {i \in Exported(stories) : i <= n})

TellingFollows ==
    at = "story" /\ answered[Head(left)] # NoFile => Telling(answered[Head(left)])

ExportIInv ==
    /\ ExportTypeOK
    /\ Unfinished
    /\ Loaded
    /\ RowsHold
    /\ Listed
    /\ FilesFollow
    /\ TellingFollows
    /\ StoriesFollowTheListing
    /\ FilesAgreeUnlessChanged

-----------------------------------------------------------------------------
(* The site export: types.                                                 *)

LEMMA ListingType ==
    ASSUME NEW stories \in Listings
    PROVE  stories \in Seq(Stories)
<1>1. stories \in Seq(Range(stories))
  BY ExportAssumption
<1>2. Range(stories) \subseteq Stories
  BY DEF Stories
<1>3. \A j \in 1..Len(stories) : stories[j] \in Stories
  BY <1>1, <1>2, ElementOfSeq
<1> QED
  BY <1>1, <1>3

LEMMA AnsweredType ==
    ASSUME ExportTypeOK, NEW subject \in Subjects, answered[subject] # NoFile
    PROVE  answered[subject] \in Seq(Stories)
BY ListingType DEF ExportTypeOK

LEMMA NothingYet ==
    /\ <<>> \in Seq(Subjects) /\ <<>> \in Seq(SubjectRows)
    /\ <<>> \in Seq(Stories) /\ <<>> \in Seq(ToldStories)
    /\ [s \in Subjects |-> NoFile] \in [Subjects -> {NoFile} \cup Listings]
    /\ [s \in Subjects |-> NoFile] \in [Subjects -> {NoFile, Torn} \cup Seq(ToldStories)]
BY EmptySeq

LEMMA TypeInit ==
    ASSUME ExportInit
    PROVE  ExportTypeOK
<1> USE NothingYet DEF ExportInit
<1>1. site \in [meta : {NoFile, Torn} \cup Seq(Subjects),
               subjects : {NoFile, Torn} \cup Seq(SubjectRows),
               stories : [Subjects -> {NoFile, Torn} \cup Seq(ToldStories)]]
  OBVIOUS
<1> QED
  BY <1>1 DEF ExportTypeOK, Exporting

LEMMA ModulesType ==
    ASSUME NEW rows \in Seq(SubjectRows), NEW n \in Nat, NEW some \in BOOLEAN
    PROVE  [rows EXCEPT ![n].modules = some] \in Seq(SubjectRows)
<1>1. \A i \in 1..Len(rows) : rows[i] \in SubjectRows
  BY ElementOfSeq
<1>2. \A i \in 1..Len(rows) : [rows[i] EXCEPT !.modules = some] \in SubjectRows
  BY <1>1 DEF SubjectRows
<1> DEFINE new == [rows EXCEPT ![n].modules = some]
<1>3. new = [i \in 1..Len(rows) |->
               IF i = n THEN [rows[i] EXCEPT !.modules = some] ELSE rows[i]]
  OBVIOUS
<1>4. \A i \in 1..Len(rows) : new[i] \in SubjectRows
  BY <1>1, <1>2, <1>3
<1> HIDE DEF new
<1>5. new \in [1..Len(rows) -> SubjectRows]
  BY <1>3, <1>4, Zenon
<1>6. new \in Seq(SubjectRows)
  BY <1>5
<1> QED
  BY <1>6 DEF new

LEMMA TypeStep ==
    ASSUME ExportTypeOK, Listed, [ExportNext]_exportVars
    PROVE  ExportTypeOK'
<1> USE DEF ExportTypeOK, Exits, EXIT_SUCCESS, EXIT_USER_ERROR, EXIT_ENV_ERROR,
            Exporting, Killed
<1>a. left # <<>> => Head(left) \in Subjects /\ Tail(left) \in Seq(Subjects)
  BY HeadTailProperties
<1>b. listing # <<>> => Head(listing) \in Stories /\ Tail(listing) \in Seq(Stories)
  BY HeadTailProperties
<1>1. CASE Start
  <2>1. UNCHANGED <<registry, installed, site>> /\ at' = "load" /\ status' = Exporting
    BY <1>1 DEF Start
  <2>2. /\ entries' = <<>> /\ records' = <<>> /\ left' = <<>>
        /\ listing' = <<>> /\ told' = <<>> /\ changed' = <<>>
    BY <1>1 DEF Start
  <2>3. answered' = [s \in Subjects |-> NoFile] /\ written' = {}
    BY <1>1 DEF Start
  <2>4. started' \in Nat /\ cuts' \in Nat
    BY <1>1 DEF Start
  <2>0. raised' \subseteq Subjects /\ unwritten' \in BOOLEAN
    BY <1>1, Zenon DEF Start
  <2>5. (installed \subseteq Subjects)' /\ (registry \in Registries)'
    BY <2>1
  <2>6. (site \in [meta : {NoFile, Torn} \cup Seq(Subjects),
               subjects : {NoFile, Torn} \cup Seq(SubjectRows),
               stories : [Subjects -> {NoFile, Torn} \cup Seq(ToldStories)]])'
    BY <2>1
  <2>7. (status \in {EXIT_SUCCESS, EXIT_USER_ERROR, EXIT_ENV_ERROR, Exporting, Killed})'
    BY <2>1
  <2>8. (entries \in Seq(Subjects) /\ left \in Seq(Subjects)
         /\ records \in Seq(SubjectRows)
         /\ listing \in Seq(Stories) /\ told \in Seq(ToldStories) /\ changed \in Seq(Subjects))'
    BY <2>2, NothingYet
  <2>9. (answered \in [Subjects -> {NoFile} \cup Listings] /\ written \subseteq Subjects)'
    BY <2>3, NothingYet
  <2> QED
    BY <2>0, <2>1, <2>4, <2>5, <2>6, <2>7, <2>8, <2>9
<1>2. CASE LoadRegistry
  <2>1. registry.entries \in Seq(Subjects)
    BY ExportAssumption
  <2> QED
    BY <1>2, <2>1 DEF LoadRegistry
<1>3. CASE ProbeSubject
  <2>1. entries[Len(records) + 1] \in Subjects
    <3>1. Len(records) + 1 \in 1..Len(entries)
      BY <1>3 DEF ProbeSubject
    <3> QED
      BY <3>1, ElementOfSeq
  <2> QED
    BY <1>3, <2>1 DEF ProbeSubject, SubjectRows
<1>4. CASE ReadModules
  <2>1. /\ UNCHANGED <<registry, installed, site, entries, left, listing, told, written,
                        answered, changed, unwritten, started, cuts>>
        /\ at' \in {"row", "ended"} /\ status' \in {status, EXIT_USER_ERROR}
        /\ raised' = raised \/ \E subject \in installed : raised' = {subject}
    BY <1>4 DEF ReadModules, NoModules, Wrapped, Drive
  <2>2. records' = records
            \/ \E some \in BOOLEAN : records' = [records EXCEPT ![Len(records)].modules = some]
    BY <1>4 DEF ReadModules
  <2>3. records' \in Seq(SubjectRows)
    <3>1. records \in Seq(SubjectRows) /\ Len(records) \in Nat
      OBVIOUS
    <3>2. \A some \in BOOLEAN :
             [records EXCEPT ![Len(records)].modules = some] \in Seq(SubjectRows)
      BY <3>1, ModulesType
    <3> QED
      BY <2>2, <3>1, <3>2, Zenon
  <2>5. raised' \subseteq Subjects
    BY <2>1
  <2> QED
    BY <2>1, <2>3, <2>5
<1>5. CASE WriteSubjects
  BY <1>5 DEF WriteSubjects
<1>6. CASE CheckAvailable
  BY <1>6, <1>a DEF CheckAvailable
<1>7. CASE ListStories
  <2>1. ASSUME NEW stories \in Listings, NEW s \in Subjects
        PROVE  /\ [answered EXCEPT ![s] = stories] \in [Subjects -> {NoFile} \cup Listings]
               /\ [answered EXCEPT ![s] = NoFile] \in [Subjects -> {NoFile} \cup Listings]
    OBVIOUS
  <2>2. PICK answer \in {"payload", "CliError", "other"} :
           CASE answer = "payload" ->
                    /\ listing' \in Listings
                    /\ answered' = [answered EXCEPT ![Head(left)] = listing']
                    /\ at' = "story"
                    /\ UNCHANGED <<left, status, raised>>
             [] answer = "CliError" ->
                    /\ NoStories
                    /\ answered' = [answered EXCEPT ![Head(left)] = NoFile]
                    /\ UNCHANGED <<status, raised>>
             [] OTHER -> Wrapped(Head(left)) /\ UNCHANGED <<left, listing, answered>>
    BY <1>7 DEF ListStories, Drive
  <2>3. left # <<>> => Head(left) \in Subjects
    BY <1>a
  <2>4. CASE answer = "payload"
    BY <1>7, <2>2, <2>4, ListingType, NothingYet DEF ListStories
  <2>5. CASE answer = "CliError"
    BY <1>7, <2>2, <2>5, NothingYet DEF ListStories, NoStories
  <2>6. CASE answer = "other"
    <3>1. /\ at' = "ended" /\ status' = EXIT_USER_ERROR /\ raised' = {Head(left)}
          /\ UNCHANGED <<left, listing, answered>>
      BY <2>2, <2>6 DEF Wrapped
    <3>2. /\ left # <<>> /\ told' = <<>>
          /\ UNCHANGED <<registry, installed, site, entries, records, written, changed,
                         unwritten, started, cuts>>
      BY <1>7 DEF Listed, ListStories
    <3>3. raised' \subseteq Subjects
      BY <2>3, <3>1, <3>2
    <3> QED
      BY <3>1, <3>2, <3>3, NothingYet
  <2> QED
    BY <2>4, <2>5, <2>6
<1>8. CASE ExportStory
  <2>1. ASSUME NEW full \in BOOLEAN, listing # <<>>
        PROVE  FullOrSummary(Head(listing), full) \in Seq(ToldStories)
    BY <2>1 DEF FullOrSummary, ToldStories
  <2>2. left # <<>>
    BY <1>8 DEF Listed, ExportStory
  <2> QED
    BY <1>8, <1>a, <1>b, <2>1, <2>2 DEF ExportStory, Wrapped
<1>9. CASE WriteStories
  <2>1. [site EXCEPT !.stories[Head(left)] = told]
            \in [meta : {NoFile, Torn} \cup Seq(Subjects),
                subjects : {NoFile, Torn} \cup Seq(SubjectRows),
                stories : [Subjects -> {NoFile, Torn} \cup Seq(ToldStories)]]
    OBVIOUS
  <2>2. left # <<>>
    BY <1>9 DEF Listed, WriteStories
  <2> QED
    BY <1>9, <1>a, <2>1, <2>2 DEF WriteStories
<1>10. CASE FinishExport
  BY <1>10 DEF FinishExport, exportLocals
<1>11. CASE WriteFails \/ Kill
  <2> DEFINE Sites == [meta : {NoFile, Torn} \cup Seq(Subjects),
                       subjects : {NoFile, Torn} \cup Seq(SubjectRows),
                       stories : [Subjects -> {NoFile, Torn} \cup Seq(ToldStories)]]
  <2>a. [site EXCEPT !.meta = Torn] \in Sites
    OBVIOUS
  <2>b. [site EXCEPT !.subjects = Torn] \in Sites
    OBVIOUS
  <2>c. [site EXCEPT !.stories[Head(left)] = Torn] \in Sites
    OBVIOUS
  <2>1. Tears \subseteq Sites
    <3> HIDE DEF Sites
    <3> QED
      BY <2>a, <2>b, <2>c DEF Tears
  <2>2. /\ UNCHANGED <<registry, installed, exportLocals, answered, changed, raised, started>>
        /\ cuts' = cuts + 1 /\ at' = "ended"
        /\ status' \in {EXIT_USER_ERROR, Killed}
        /\ site' \in {site} \cup Tears
    BY <1>11 DEF WriteFails, Kill, CutShort
  <2>3. unwritten' \in BOOLEAN
    BY <1>11, Zenon DEF WriteFails, Kill
  <2> QED
    BY <2>1, <2>2, <2>3 DEF exportLocals
<1>12. ASSUME NEW subject \in Subjects, InstallOrRemove(subject) PROVE ExportTypeOK'
  BY <1>12 DEF InstallOrRemove, exportLocals, SymDiff
<1>13. CASE UNCHANGED exportVars
  BY <1>13 DEF exportVars, exportLocals
<1> QED
  BY <1>1, <1>2, <1>3, <1>4, <1>5, <1>6, <1>7, <1>8, <1>9, <1>10, <1>11, <1>12,
     <1>13 DEF ExportNext

-----------------------------------------------------------------------------
(* The site export: the steps.                                             *)

Promises == StoriesFollowTheListing /\ FilesAgreeUnlessChanged

Kept == Unfinished /\ Loaded /\ RowsHold /\ Listed /\ FilesFollow /\ TellingFollows
            /\ Promises

\* An export that fails promises nothing,
LEMMA Failed ==
    ASSUME at' = "ended", status' # EXIT_SUCCESS
    PROVE  Kept'
BY DEF Kept, Unfinished, Loaded, RowsHold, Listed, FilesFollow, TellingFollows, Promises,
       StoriesFollowTheListing, FilesAgreeUnlessChanged

\* nor does one that makes its rows,
LEMMA MakingRows ==
    ASSUME at' \in {"load", "row", "modules"}, written' = {}, status' = Exporting
    PROVE  (Unfinished /\ Listed /\ FilesFollow /\ TellingFollows /\ Promises)'
BY DEF Unfinished, Listed, FilesFollow, TellingFollows, Promises, EXIT_SUCCESS, Exporting,
       StoriesFollowTheListing, FilesAgreeUnlessChanged

\* and one that exports stories leaves its rows as they are.
LEMMA ExportingStories ==
    ASSUME Loaded, RowsHold, at \in {"probe", "list", "story"},
           at' \in {"probe", "list", "story"}, status' = Exporting,
           site'.meta = site.meta, UNCHANGED <<entries, records, installed, changed>>
    PROVE  (Unfinished /\ Loaded /\ RowsHold /\ Promises)'
<1>1. (Unfinished /\ Promises)'
  BY DEF Unfinished, Promises, EXIT_SUCCESS, Exporting, StoriesFollowTheListing,
         FilesAgreeUnlessChanged
<1>2. Loaded'
  BY DEF Loaded
<1>3. RowsHold'
  BY DEF RowsHold, RowHolds, Unchanged
<1> QED
  BY <1>1, <1>2, <1>3

LEMMA NextEntry ==
    ASSUME ExportTypeOK, left # <<>>, Len(left) <= Len(entries),
           \A j \in 1..Len(left) : left[j] = entries[Through + j]
    PROVE  /\ Head(left) = entries[Through + 1]
           /\ Len(Tail(left)) <= Len(entries)
           /\ Len(entries) - Len(Tail(left)) = Through + 1
           /\ Through \in Nat
           /\ \A j \in 1..Len(Tail(left)) :
                 Tail(left)[j] = entries[Len(entries) - Len(Tail(left)) + j]
<1>1. /\ left \in Seq(Subjects) /\ Len(left) \in Nat \ {0} /\ Len(entries) \in Nat
      /\ Head(left) = left[1]
  BY EmptySeq DEF ExportTypeOK
<1>2. /\ Len(Tail(left)) = Len(left) - 1
      /\ \A j \in 1..Len(Tail(left)) : Tail(left)[j] = left[j + 1]
  BY <1>1, HeadTailProperties
<1>3. left[1] = entries[Through + 1]
  BY <1>1
<1>4. Len(entries) - Len(Tail(left)) = Through + 1 /\ Through \in Nat
  BY <1>1, <1>2 DEF Through
<1>5. ASSUME NEW j \in 1..Len(Tail(left))
      PROVE  Tail(left)[j] = entries[Len(entries) - Len(Tail(left)) + j]
  <2>1. j + 1 \in 1..Len(left) /\ Through + (j + 1) = Through + 1 + j
    BY <1>1, <1>2, <1>4
  <2>2. left[j + 1] = entries[Through + (j + 1)]
    BY <2>1
  <2> QED
    BY <1>2, <1>4, <2>1, <2>2
<1> QED
  BY <1>1, <1>2, <1>3, <1>4, <1>5

\* The rows, and what the files say once they are through.
LEMMA ProbeStep ==
    ASSUME ExportIInv, ProbeSubject
    PROVE  Kept'
<1>1. /\ records \in Seq(SubjectRows) /\ Len(records) \in Nat /\ Len(entries) \in Nat
      /\ at = "row" /\ status = Exporting /\ written = {}
      /\ Len(records) < Len(entries)
  BY DEF ExportIInv, ExportTypeOK, Loaded, Unfinished, ProbeSubject
<1> DEFINE subject == entries[Len(records) + 1]
           row == [name |-> subject, modules |-> FALSE, available |-> subject \in installed]
<1>2. /\ records' = Append(records, row) /\ at' = "modules"
      /\ UNCHANGED <<installed, site, entries, written, status, changed>>
  BY DEF ProbeSubject
<1>3. /\ Len(records') = Len(records) + 1
      /\ \A i \in 1..Len(records) : records'[i] = records[i]
      /\ records'[Len(records) + 1] = row
  BY <1>1, <1>2
<1>4. Loaded'
  <2>1. /\ site'.meta = entries' /\ Len(records') <= Len(entries') /\ Len(records') >= 1
    BY <1>1, <1>2, <1>3 DEF ExportIInv, Loaded
  <2>2. ASSUME NEW i \in 1..Len(records') PROVE records'[i].name = entries'[i]
    <3>1. CASE i \in 1..Len(records)
      BY <1>1, <1>2, <1>3, <3>1 DEF ExportIInv, Loaded
    <3>2. CASE i = Len(records) + 1
      BY <1>2, <1>3, <3>2
    <3> QED
      BY <1>1, <1>3, <3>1, <3>2
  <2> QED
    BY <1>1, <1>2, <2>1, <2>2 DEF Loaded
<1>5. RowsHold'
  <2>1. RowHolds(row)
    BY DEF RowHolds
  <2>2. \A i \in 1..Len(records) : RowHolds(records[i])
    BY <1>1 DEF ExportIInv, RowsHold
  <2> HIDE DEF row
  <2>3. ASSUME NEW i \in 1..Len(records') PROVE RowHolds(records'[i])
    <3>1. CASE i \in 1..Len(records)
      BY <1>3, <2>2, <3>1, Zenon
    <3>2. CASE i = Len(records) + 1
      BY <1>3, <2>1, <3>2, Zenon
    <3> QED
      BY <1>1, <1>3, <3>1, <3>2
  <2>4. ASSUME NEW i \in 1..Len(records') PROVE RowHolds(records[i])'
    BY <1>2, <2>3 DEF RowHolds, Unchanged
  <2> QED
    BY <2>4 DEF RowsHold
<1> QED
  BY <1>1, <1>2, <1>4, <1>5, MakingRows DEF Kept

LEMMA ModulesStep ==
    ASSUME ExportIInv, ReadModules
    PROVE  Kept'
<1>1. /\ records \in Seq(SubjectRows) /\ Len(records) \in Nat /\ Len(records) >= 1
      /\ at = "modules" /\ status = Exporting /\ written = {}
  BY DEF ExportIInv, ExportTypeOK, Loaded, Unfinished, ReadModules
<1>2. UNCHANGED <<installed, site, entries, written, changed>>
  BY DEF ReadModules
<1> DEFINE last == Len(records)
<1>3. CASE at' = "ended" /\ status' = EXIT_USER_ERROR
  BY <1>3, Failed DEF EXIT_USER_ERROR, EXIT_SUCCESS
<1>4. CASE at' = "row" /\ status' = status /\ records' = records
  <2>1. Loaded' /\ RowsHold'
    BY <1>1, <1>2, <1>4 DEF ExportIInv, Loaded, RowsHold, RowHolds, Unchanged
  <2> QED
    BY <1>1, <1>2, <1>4, <2>1, MakingRows DEF Kept
<1>5. ASSUME at' = "row", status' = status, records[last].name \in installed,
             NEW some \in BOOLEAN,
             records' = [records EXCEPT ![last].modules = some]
      PROVE  Kept'
  <2>1. /\ Len(records') = Len(records)
        /\ \A i \in 1..Len(records) :
              records'[i] = IF i = last THEN [records[i] EXCEPT !.modules = some]
                            ELSE records[i]
    BY <1>1, <1>5
  <2>2. \A i \in 1..Len(records) : records[i] \in SubjectRows
    BY <1>1, ElementOfSeq
  <2>3. \A i \in 1..Len(records) :
           /\ records'[i].name = records[i].name
           /\ records'[i].available = records[i].available
           /\ records'[i].modules => records[i].modules \/ records[i].name \in installed
    BY <1>5, <2>1, <2>2 DEF SubjectRows
  <2>4. Loaded'
    BY <1>1, <1>2, <1>5, <2>1, <2>3 DEF ExportIInv, Loaded
  <2>5. RowsHold'
    <3>1. ASSUME NEW i \in 1..Len(records) PROVE RowHolds(records[i])'
      <4>1. RowHolds(records[i])
        BY <1>1 DEF ExportIInv, RowsHold
      <4> QED
        BY <1>2, <2>3, <4>1 DEF RowHolds, Unchanged
    <3> QED
      BY <2>1, <3>1 DEF RowsHold
  <2> QED
    BY <1>1, <1>2, <1>5, <2>4, <2>5, MakingRows DEF Kept
<1>6. PICK answer \in Drive(Last(records).name) :
         CASE answer = "payload" ->
                  /\ \E some \in BOOLEAN :
                         records' = [records EXCEPT ![last].modules = some]
                  /\ at' = "row"
                  /\ UNCHANGED <<status, raised>>
           [] answer = "CliError" -> NoModules /\ UNCHANGED <<records, raised>>
           [] OTHER -> Wrapped(Last(records).name) /\ UNCHANGED records
  BY DEF ReadModules
<1>7. answer \in {"payload", "CliError", "other"}
      /\ (answer = "payload" => records[last].name \in installed)
  BY DEF Drive, Last
<1>8. CASE answer = "payload"
  BY <1>5, <1>6, <1>7, <1>8
<1>9. CASE answer = "CliError"
  BY <1>4, <1>6, <1>9 DEF NoModules
<1>10. CASE answer = "other"
  BY <1>3, <1>6, <1>10 DEF Wrapped, Exits
<1> QED
  BY <1>7, <1>8, <1>9, <1>10

LEMMA SubjectsStep ==
    ASSUME ExportIInv, WriteSubjects
    PROVE  Kept'
<1>1. /\ at = "row" /\ status = Exporting /\ written = {}
      /\ Len(records) = Len(entries) /\ Len(entries) \in Nat
      /\ at' = "probe" /\ left' = entries
      /\ UNCHANGED <<installed, entries, records, written, status, answered, changed>>
      /\ site' = [site EXCEPT !.subjects = records]
  BY DEF ExportIInv, ExportTypeOK, Loaded, Unfinished, WriteSubjects
<1>2. site'.subjects = records /\ site'.meta = site.meta
  BY <1>1 DEF ExportIInv, ExportTypeOK
<1>3. (Unfinished /\ FilesFollow /\ TellingFollows /\ Promises)'
  BY <1>1 DEF Unfinished, FilesFollow, TellingFollows, Promises, Exporting, EXIT_SUCCESS,
              StoriesFollowTheListing, FilesAgreeUnlessChanged
<1>4. Loaded' /\ RowsHold'
  BY <1>1, <1>2 DEF ExportIInv, Loaded, RowsHold, RowHolds, Unchanged
<1>5. Listed'
  BY <1>1, <1>2 DEF Listed, Through
<1> QED
  BY <1>3, <1>4, <1>5 DEF Kept

\* The stories.
LEMMA AvailableStep ==
    ASSUME ExportIInv, CheckAvailable
    PROVE  Kept'
<1>1. /\ at = "probe" /\ left # <<>> /\ status = Exporting
      /\ at' \in {"probe", "list"}
      /\ UNCHANGED <<installed, site, entries, records, written, status, answered, changed>>
  BY DEF ExportIInv, Unfinished, CheckAvailable
<1>2. (Unfinished /\ Loaded /\ RowsHold /\ Promises)'
  BY <1>1, ExportingStories DEF ExportIInv
<1>3. ASSUME NEW subject \in written PROVE Follows(subject) /\ Follows(subject)'
  <2>1. Follows(subject)
    BY <1>1 DEF ExportIInv, FilesFollow
  <2> QED
    BY <1>1, <2>1 DEF Follows
<1>4. FilesFollow' /\ TellingFollows'
  BY <1>1, <1>3 DEF FilesFollow, TellingFollows
<1>5. Listed'
  <2>1. CASE Head(left) \in installed
    BY <1>1, <2>1 DEF CheckAvailable, ExportIInv, Listed, Through, Unchanged
  <2>2. CASE Head(left) \notin installed
    <3>1. left' = Tail(left) /\ at' = "probe"
      BY <1>1, <2>2 DEF CheckAvailable
    <3>2. /\ Head(left) = entries[Through + 1]
          /\ Len(left') <= Len(entries)
          /\ Through' = Through + 1 /\ Through \in Nat
          /\ \A j \in 1..Len(left') : left'[j] = entries'[Through' + j]
      BY <1>1, <3>1, NextEntry DEF ExportIInv, Listed, Through
    <3>3. ASSUME NEW i \in 1..Through', Unchanged(entries[i]), entries[i] \in installed
          PROVE  entries[i] \in written
      <4>1. i \in 1..Through
        BY <2>2, <3>2, <3>3
      <4> QED
        BY <1>1, <3>3, <4>1 DEF ExportIInv, Listed
    <3> QED
      BY <1>1, <3>1, <3>2, <3>3 DEF ExportIInv, Listed, Unchanged
  <2> QED
    BY <2>1, <2>2
<1> QED
  BY <1>2, <1>4, <1>5 DEF Kept

LEMMA ListedStays ==
    ASSUME Listed, at \in {"list", "story"}, at' \in {"list", "story"},
           site'.subjects = site.subjects,
           UNCHANGED <<installed, entries, records, left, written, changed>>
    PROVE  Listed'
BY DEF Listed, Through, Unchanged

\* The exported stories of a listing, of the first n of it, and of all.
Upto(stories, n) == {i \in Exported(stories) : i <= n}

LEMMA UptoSteps ==
    ASSUME NEW stories \in Seq(Stories)
    PROVE  /\ Picked(stories, Upto(stories, 0)) = <<>>
           /\ Upto(stories, Len(stories)) = Exported(stories)
           /\ \A n \in Nat : Upto(stories, n) \in SUBSET (1..n)
           /\ \A n \in Nat :
                 n < Len(stories) =>
                     Upto(stories, n + 1) = IF Skipped(stories[n + 1]) THEN Upto(stories, n)
                                            ELSE Upto(stories, n) \cup {n + 1}
<1>0. Len(stories) \in Nat
  OBVIOUS
<1>1. Upto(stories, 0) = {}
  BY <1>0 DEF Upto, Exported
<1>2. Picked(stories, {}) = <<>>
  <2>1. Cardinality({}) = 0
    BY FS_EmptySet
  <2>2. Picked(stories, {}) = [n \in 1..0 |-> stories[Nth({}, n)]]
    BY <2>1, Zenon DEF Picked
  <2> QED
    BY <2>2
<1>3. Upto(stories, Len(stories)) = Exported(stories)
  BY <1>0 DEF Upto, Exported
<1>4. ASSUME NEW n \in Nat PROVE Upto(stories, n) \in SUBSET (1..n)
  BY <1>0 DEF Upto, Exported
<1>5. ASSUME NEW n \in Nat, n < Len(stories)
      PROVE  Upto(stories, n + 1) = IF Skipped(stories[n + 1]) THEN Upto(stories, n)
                                    ELSE Upto(stories, n) \cup {n + 1}
  <2>1. \A i \in Exported(stories) : i <= n + 1 <=> i <= n \/ i = n + 1
    BY <1>0 DEF Exported
  <2>2. n + 1 \in Exported(stories) <=> ~Skipped(stories[n + 1])
    BY <1>0, <1>5 DEF Exported
  <2> QED
    BY <2>1, <2>2 DEF Upto
<1> QED
  BY <1>1, <1>2, <1>3, <1>4, <1>5

LEMMA ToldAppend ==
    ASSUME NEW file \in Seq(ToldStories), NEW new \in ToldStories
    PROVE  /\ Told(file) \in Seq(Stories)
           /\ Told(Append(file, new)) = Append(Told(file), new.story)
<1>1. Len(file) \in Nat /\ new.story \in Stories
  BY DEF ToldStories
<1>2. \A i \in 1..Len(file) : file[i].story \in Stories
  <2>1. \A i \in 1..Len(file) : file[i] \in ToldStories
    BY ElementOfSeq
  <2> QED
    BY <2>1 DEF ToldStories
<1>3. Told(file) \in Seq(Stories) /\ Len(Told(file)) = Len(file)
      /\ \A i \in 1..Len(file) : Told(file)[i] = file[i].story
  BY <1>1, <1>2 DEF Told
<1>4. /\ Len(Append(file, new)) = Len(file) + 1
      /\ \A i \in 1..Len(file) : Append(file, new)[i] = file[i]
      /\ Append(file, new)[Len(file) + 1] = new
  OBVIOUS
<1> DEFINE more == Append(file, new)
           names == Append(Told(file), new.story)
<1>5. \A i \in 1..(Len(file) + 1) :
         more[i].story = IF i = Len(file) + 1 THEN new.story ELSE file[i].story
  BY <1>1, <1>4
<1>6. names \in Seq(Stories) /\ Len(names) = Len(file) + 1
      /\ \A i \in 1..(Len(file) + 1) :
            names[i] = IF i = Len(file) + 1 THEN new.story ELSE file[i].story
  BY <1>1, <1>3
<1>7. Told(more) \in Seq(Stories) /\ Len(Told(more)) = Len(file) + 1
      /\ \A i \in 1..(Len(file) + 1) : Told(more)[i] = more[i].story
  <2>1. Told(more) = [i \in 1..(Len(file) + 1) |-> more[i].story]
    BY <1>4 DEF Told
  <2>2. \A i \in 1..(Len(file) + 1) : more[i].story \in Stories
    BY <1>1, <1>2, <1>5
  <2> HIDE DEF more
  <2> QED
    BY <1>1, <2>1, <2>2
<1> HIDE DEF more, names
<1>8. Told(more) = names
  BY <1>5, <1>6, <1>7, SeqEqual
<1> QED
  BY <1>3, <1>8 DEF more, names

LEMMA ListStep ==
    ASSUME ExportIInv, ListStories
    PROVE  Kept'
<1> DEFINE subject == Head(left)
<1>1. /\ at = "list" /\ left # <<>> /\ status = Exporting /\ told' = <<>>
      /\ UNCHANGED <<installed, site, entries, records, written, changed>>
      /\ subject \in Subjects /\ answered \in [Subjects -> {NoFile} \cup Listings]
  <2>1. at = "list" /\ left # <<>> /\ left \in Seq(Subjects)
    BY DEF ListStories, ExportIInv, ExportTypeOK, Listed
  <2>2. subject \in Subjects
    BY <2>1, HeadTailProperties
  <2> QED
    BY <2>1, <2>2 DEF ListStories, ExportIInv, ExportTypeOK, Unfinished
<1>2. CASE at' = "ended" /\ status' = EXIT_USER_ERROR
  BY <1>2, Failed DEF EXIT_USER_ERROR, EXIT_SUCCESS
<1>3. ASSUME NEW answer,
             at' = "story", UNCHANGED <<left, status>>,
             answered' = [answered EXCEPT ![subject] = answer],
             answer # NoFile => answer \in Listings /\ listing' = answer
      PROVE  Kept'
  <2>1. (Unfinished /\ Loaded /\ RowsHold /\ Promises)'
    BY <1>1, <1>3, ExportingStories DEF ExportIInv
  <2>2. Listed'
    BY <1>1, <1>3, ListedStays DEF ExportIInv
  <2>3. FilesFollow'
    <3>1. ASSUME NEW s \in written, s # subject PROVE Follows(s)'
      <4>1. Follows(s)
        BY <1>1, <3>1 DEF ExportIInv, FilesFollow
      <4>2. answered'[s] = answered[s]
        BY <1>1, <1>3, <3>1 DEF ExportIInv, ExportTypeOK
      <4> QED
        BY <1>1, <4>1, <4>2 DEF Follows
    <3> QED
      BY <1>1, <1>3, <3>1 DEF FilesFollow
  <2>4. TellingFollows'
    <3>1. answered'[subject] = answer
      BY <1>1, <1>3
    <3> SUFFICES ASSUME answer # NoFile PROVE Telling(answer)'
      BY <1>3, <3>1 DEF TellingFollows
    <3>2. listing' = answer /\ answer \in Seq(Stories) /\ Len(answer) \in Nat
      BY <1>3, ListingType
    <3>3. Picked(answer, Upto(answer, 0)) = <<>>
      BY <3>2, UptoSteps
    <3>4. Told(told') = <<>>
      BY <1>1 DEF Told
    <3>5. Len(answer) - Len(listing') = 0
      BY <3>2
    <3>6. Told(told') = Picked(answer, {i \in Exported(answer) : i <= 0})
      BY <3>3, <3>4 DEF Upto
    <3> QED
      BY <3>2, <3>5, <3>6 DEF Telling
  <2> QED
    BY <2>1, <2>2, <2>3, <2>4 DEF Kept
<1>4. PICK answer \in {"payload", "CliError", "other"} :
         CASE answer = "payload" ->
                  /\ listing' \in Listings
                  /\ answered' = [answered EXCEPT ![subject] = listing']
                  /\ at' = "story"
                  /\ UNCHANGED <<left, status, raised>>
           [] answer = "CliError" ->
                  /\ NoStories
                  /\ answered' = [answered EXCEPT ![subject] = NoFile]
                  /\ UNCHANGED <<status, raised>>
           [] OTHER -> Wrapped(Head(left)) /\ UNCHANGED <<left, listing, answered>>
  BY DEF ListStories, Drive
<1>5. CASE answer = "payload"
  BY <1>3, <1>4, <1>5
<1>6. CASE answer = "CliError"
  BY <1>3, <1>4, <1>6 DEF NoStories
<1>7. CASE answer = "other"
  BY <1>2, <1>4, <1>7 DEF Wrapped, Exits
<1> QED
  BY <1>5, <1>6, <1>7

LEMMA StoryStep ==
    ASSUME ExportIInv, ExportStory
    PROVE  Kept'
<1> DEFINE subject == Head(left)
           story == Head(listing)
<1>1. /\ at = "story" /\ listing # <<>> /\ listing \in Seq(Stories) /\ status = Exporting
      /\ told \in Seq(ToldStories) /\ story \in Stories
      /\ listing' = Tail(listing)
      /\ UNCHANGED <<installed, site, entries, records, left, written, answered, changed>>
  <2>1. listing # <<>> /\ listing \in Seq(Stories)
    BY DEF ExportStory, ExportIInv, ExportTypeOK
  <2>2. story \in Stories
    BY <2>1, HeadTailProperties
  <2> QED
    BY <2>1, <2>2 DEF ExportStory, ExportIInv, ExportTypeOK, Unfinished
<1>2. subject \in Subjects
  <2>1. left # <<>> /\ left \in Seq(Subjects)
    BY <1>1 DEF ExportIInv, ExportTypeOK, Listed
  <2> QED
    BY <2>1, HeadTailProperties
<1>3. CASE at' = "ended" /\ status' = EXIT_USER_ERROR
  BY <1>3, Failed DEF EXIT_USER_ERROR, EXIT_SUCCESS
<1>4. ASSUME at' = "story", status' = status,
             IF Skipped(story) THEN told' = told
             ELSE \E full \in BOOLEAN : told' = FullOrSummary(story, full)
      PROVE  Kept'
  <2>1. (Unfinished /\ Loaded /\ RowsHold /\ Promises)'
    BY <1>1, <1>4, ExportingStories DEF ExportIInv
  <2>2. Listed'
    BY <1>1, <1>4, ListedStays DEF ExportIInv
  <2>3. FilesFollow'
    <3>1. ASSUME NEW s \in written, s # subject PROVE Follows(s)'
      <4>1. Follows(s)
        BY <1>1, <3>1 DEF ExportIInv, FilesFollow
      <4> QED
        BY <1>1, <4>1 DEF Follows
    <3> QED
      BY <1>1, <1>4, <3>1 DEF FilesFollow
  <2>4. TellingFollows'
    <3> DEFINE stories == answered[subject]
               n == Len(stories) - Len(listing)
    <3>1. SUFFICES ASSUME stories # NoFile PROVE Telling(stories)'
      BY <1>1 DEF TellingFollows
    <3>2. stories \in Seq(Stories) /\ Len(stories) \in Nat
      BY <1>2, <3>1, AnsweredType DEF ExportIInv
    <3>3. /\ n \in Nat
          /\ \A j \in 1..Len(listing) : listing[j] = stories[n + j]
          /\ Told(told) = Picked(stories, Upto(stories, n))
      BY <1>1, <3>1 DEF ExportIInv, TellingFollows, Telling, Upto
    <3> HIDE DEF stories
    <3>4. /\ Len(listing) \in Nat \ {0} /\ Len(listing') = Len(listing) - 1
          /\ \A j \in 1..Len(listing') : listing'[j] = listing[j + 1]
          /\ story = listing[1]
      BY <1>1, EmptySeq, HeadTailProperties
    <3>5. n < Len(stories) /\ Len(stories) - Len(listing') = n + 1 /\ story = stories[n + 1]
      BY <3>2, <3>3, <3>4
    <3>6. ASSUME NEW j \in 1..Len(listing') PROVE listing'[j] = stories[n + 1 + j]
      <4>1. j + 1 \in 1..Len(listing) /\ n + (j + 1) = n + 1 + j
        BY <3>2, <3>3, <3>4
      <4>2. listing[j + 1] = stories[n + (j + 1)]
        BY <3>3, <4>1
      <4> QED
        BY <3>4, <4>1, <4>2
    <3>7. /\ Upto(stories, n) \in SUBSET (1..n)
          /\ Upto(stories, n + 1) = IF Skipped(story) THEN Upto(stories, n)
                                    ELSE Upto(stories, n) \cup {n + 1}
      BY <3>2, <3>3, <3>5, UptoSteps
    <3> HIDE DEF n, story
    <3>8. Told(told') = Picked(stories, Upto(stories, n + 1))
      <4>1. CASE Skipped(story)
        BY <1>4, <3>3, <3>7, <4>1
      <4>2. CASE ~Skipped(story)
        <5>1. PICK full \in BOOLEAN : told' = Append(told, [story |-> story, full |-> full])
          BY <1>4, <4>2 DEF FullOrSummary
        <5>2. [story |-> story, full |-> full] \in ToldStories
          BY <1>1 DEF ToldStories
        <5>3. Told(told') = Append(Told(told), story)
          BY <1>1, <5>1, <5>2, ToldAppend
        <5>4. Picked(stories, Upto(stories, n) \cup {n + 1})
                  = Append(Picked(stories, Upto(stories, n)), stories[n + 1])
          BY <3>2, <3>3, <3>5, <3>7, PickedNext
        <5> QED
          BY <3>3, <3>5, <3>7, <4>2, <5>3, <5>4
      <4> QED
        BY <4>1, <4>2
    <3>9. Told(told') = Picked(stories, {i \in Exported(stories) : i <= n + 1})
      BY <3>8 DEF Upto
    <3>10. n + 1 \in Nat
      BY <3>3
    <3>11. stories' = stories
      BY <1>1 DEF stories
    <3> QED
      BY <3>5, <3>6, <3>9, <3>10, <3>11 DEF Telling
  <2> QED
    BY <2>1, <2>2, <2>3, <2>4 DEF Kept
<1>5. CASE Skipped(story)
  BY <1>1, <1>4, <1>5 DEF ExportStory
<1>6. CASE ~Skipped(story)
  <2>1. PICK answer \in ReadFullStory(subject, story) :
           IF answer = "other" THEN Wrapped(subject) /\ UNCHANGED told
           ELSE /\ told' = FullOrSummary(story, answer = "payload")
                /\ UNCHANGED <<at, status, raised>>
    BY <1>6 DEF ExportStory
  <2>2. CASE answer = "other"
    BY <1>3, <2>1, <2>2 DEF Wrapped, Exits
  <2>3. CASE answer # "other"
    <3>1. told' = FullOrSummary(story, answer = "payload")
      BY <2>1, <2>3
    <3>2. (answer = "payload") \in BOOLEAN
      OBVIOUS
    <3>3. \E full \in BOOLEAN : told' = FullOrSummary(story, full)
      BY <3>1, <3>2, Zenon
    <3> QED
      BY <1>1, <1>4, <1>6, <2>1, <2>3, <3>3
  <2> QED
    BY <2>2, <2>3
<1> QED
  BY <1>5, <1>6

LEMMA WriteStep ==
    ASSUME ExportIInv, WriteStories
    PROVE  Kept'
<1> DEFINE subject == Head(left)
<1>1. /\ at = "story" /\ listing = <<>> /\ status = Exporting
      /\ left # <<>> /\ left \in Seq(Subjects)
      /\ site' = [site EXCEPT !.stories[subject] = told]
      /\ written' = written \cup {subject}
      /\ left' = Tail(left) /\ at' = "probe"
      /\ UNCHANGED <<installed, entries, records, status, answered, changed>>
  BY DEF WriteStories, ExportIInv, ExportTypeOK, Listed, Unfinished
<1>2. subject \in Subjects
  BY <1>1, HeadTailProperties
<1>3. /\ site'.meta = site.meta /\ site'.subjects = site.subjects
      /\ site'.stories[subject] = told
      /\ \A s \in Subjects : s # subject => site'.stories[s] = site.stories[s]
  BY <1>1, <1>2 DEF ExportIInv, ExportTypeOK
<1>4. (Unfinished /\ Loaded /\ RowsHold /\ Promises)'
  BY <1>1, <1>3, ExportingStories DEF ExportIInv
<1>5. Listed'
  <2>1. /\ subject = entries[Through + 1]
        /\ Len(left') <= Len(entries)
        /\ Through' = Through + 1 /\ Through \in Nat
        /\ \A j \in 1..Len(left') : left'[j] = entries'[Through' + j]
    BY <1>1, NextEntry DEF ExportIInv, Listed, Through
  <2>2. ASSUME NEW i \in 1..Through', Unchanged(entries[i]), entries[i] \in installed
        PROVE  entries[i] \in written'
    <3>1. CASE i = Through + 1
      BY <1>1, <2>1, <3>1
    <3>2. CASE i # Through + 1
      <4>1. i \in 1..Through
        BY <2>1, <3>2
      <4> QED
        BY <1>1, <2>2, <4>1 DEF ExportIInv, Listed
    <3> QED
      BY <3>1, <3>2
  <2>3. \A s \in written' : Unchanged(s) => s \in installed
    BY <1>1 DEF ExportIInv, Listed
  <2>4. site'.subjects = records' /\ Len(records') = Len(entries')
    BY <1>1, <1>3 DEF ExportIInv, Listed
  <2> QED
    BY <1>1, <2>1, <2>2, <2>3, <2>4 DEF Listed, Unchanged
<1>6. FilesFollow'
  <2>1. ASSUME NEW s \in written, s # subject PROVE Follows(s)'
    <3>1. Follows(s) /\ s \in Subjects
      BY <1>1, <2>1 DEF ExportIInv, ExportTypeOK, FilesFollow
    <3> QED
      BY <1>1, <1>3, <2>1, <3>1 DEF Follows
  <2>2. answered[subject] # NoFile => Told(told) = Wanted(answered[subject])
    <3> DEFINE stories == answered[subject]
    <3> SUFFICES ASSUME stories # NoFile PROVE Told(told) = Wanted(stories)
      OBVIOUS
    <3>1. stories \in Seq(Stories) /\ Len(stories) - Len(listing) = Len(stories)
      BY <1>1, <1>2, AnsweredType DEF ExportIInv
    <3>2. Told(told) = Picked(stories, Upto(stories, Len(stories) - Len(listing)))
      BY <1>1 DEF ExportIInv, TellingFollows, Telling, Upto
    <3> HIDE DEF stories
    <3>3. Upto(stories, Len(stories)) = Exported(stories)
      BY <3>1, UptoSteps
    <3> QED
      BY <3>1, <3>2, <3>3 DEF Wanted
  <2>3. ASSUME NEW s \in written', s = subject PROVE Follows(s)'
    BY <1>1, <1>3, <2>2, <2>3 DEF Follows
  <2>4. \A s \in written' : Follows(s)'
    BY <1>1, <2>1, <2>3
  <2> QED
    BY <2>4 DEF FilesFollow
<1>7. TellingFollows'
  BY <1>1 DEF TellingFollows
<1> QED
  BY <1>4, <1>5, <1>6, <1>7 DEF Kept

LEMMA FinishStep ==
    ASSUME ExportIInv, FinishExport
    PROVE  Kept'
<1>1. /\ at = "probe" /\ left = <<>> /\ at' = "ended" /\ status' = EXIT_SUCCESS
      /\ UNCHANGED <<installed, site, entries, records, written, answered, changed>>
  BY DEF FinishExport, Exits, exportLocals
<1>2. (Unfinished /\ Loaded /\ RowsHold /\ Listed /\ FilesFollow /\ TellingFollows)'
  BY <1>1 DEF Unfinished, Loaded, RowsHold, Listed, FilesFollow, TellingFollows
<1>3. StoriesFollowTheListing'
  <2>1. ASSUME NEW subject \in written, answered[subject] # NoFile
        PROVE  Told(site.stories[subject]) = Wanted(answered[subject])
    BY <1>1, <2>1 DEF ExportIInv, FilesFollow, Follows
  <2> QED
    BY <1>1, <2>1 DEF StoriesFollowTheListing
<1>4. FilesAgreeUnlessChanged'
  <2>1. /\ site.subjects = records /\ records \in Seq(SubjectRows)
        /\ site.meta = entries /\ entries \in Seq(Subjects)
        /\ Len(records) = Len(entries) /\ Len(entries) \in Nat
        /\ DOMAIN records = 1..Len(records)
        /\ \A i \in 1..Len(records) : records[i].name = entries[i]
    BY <1>1 DEF ExportIInv, ExportTypeOK, Listed, Loaded
  <2>2. entries = Names(records)
    BY <2>1 DEF Names
  <2>3. ASSUME NEW i \in 1..Len(records), Unchanged(records[i].name)
        PROVE  /\ records[i].available <=> records[i].name \in written
               /\ records[i].modules => records[i].available
    <3>1. RowHolds(records[i])
      BY <1>1 DEF ExportIInv, RowsHold
    <3>2. Through = Len(entries)
      BY <1>1, <2>1 DEF Through
    <3>3. /\ Unchanged(entries[i]) /\ entries[i] \in installed => entries[i] \in written
          /\ \A subject \in written : Unchanged(subject) => subject \in installed
      BY <1>1, <2>1, <3>2 DEF ExportIInv, Listed
    <3> QED
      BY <2>1, <2>3, <3>1, <3>3 DEF RowHolds
  <2> QED
    BY <1>1, <2>1, <2>2, <2>3 DEF FilesAgreeUnlessChanged, Range, Unchanged
<1> QED
  BY <1>2, <1>3, <1>4 DEF Kept, Promises

\* A subject that comes or goes changes nothing for the others.
LEMMA ChangeStep ==
    ASSUME ExportIInv, NEW subject \in Subjects, InstallOrRemove(subject)
    PROVE  Kept'
<1>1. /\ at # "ended" /\ installed' = SymDiff(installed, {subject})
      /\ changed' = Append(changed, subject) /\ changed \in Seq(Subjects)
      /\ UNCHANGED <<site, at, entries, records, left, listing, told, written, status,
                     answered>>
  BY DEF InstallOrRemove, exportLocals, ExportIInv, ExportTypeOK
<1>2. \A s : s \notin Range(changed') => Unchanged(s) /\ s # subject
  <2>1. /\ \A i \in DOMAIN changed : i \in DOMAIN changed' /\ changed'[i] = changed[i]
        /\ Len(changed) + 1 \in DOMAIN changed' /\ changed'[Len(changed) + 1] = subject
    BY <1>1
  <2> QED
    BY <2>1 DEF Unchanged, Range
<1>3. \A s : s # subject => (s \in installed' <=> s \in installed)
  BY <1>1 DEF SymDiff
<1>4. Unfinished' /\ Loaded'
  BY <1>1 DEF ExportIInv, Unfinished, Loaded
<1>5. RowsHold'
  <2>1. ASSUME at \notin {"ended", "load"}, NEW i \in 1..Len(records)
        PROVE  RowHolds(records[i])'
    <3>1. RowHolds(records[i])
      BY <2>1 DEF ExportIInv, RowsHold
    <3> QED
      BY <1>1, <1>2, <1>3, <3>1 DEF RowHolds, Unchanged
  <2> QED
    BY <1>1, <2>1 DEF RowsHold
<1>6. Listed'
  <2>1. Through' = Through
    BY <1>1 DEF Through
  <2>2. ASSUME at \in {"probe", "list", "story"}
        PROVE  /\ \A i \in 1..Through :
                     entries[i] \notin Range(changed') /\ entries[i] \in installed'
                         => entries[i] \in written
               /\ \A s \in written : s \notin Range(changed') => s \in installed'
    BY <1>2, <1>3, <2>2 DEF ExportIInv, Listed
  <2>3. at \in {"list", "story"} =>
            /\ left # <<>>
            /\ Head(left) \notin Range(changed') => Head(left) \in installed'
    BY <1>2, <1>3 DEF ExportIInv, Listed
  <2> QED
    BY <1>1, <2>1, <2>2, <2>3 DEF ExportIInv, Listed, Unchanged
<1>7. FilesFollow' /\ TellingFollows'
  BY <1>1 DEF ExportIInv, FilesFollow, Follows, TellingFollows, Telling
<1>8. Promises'
  BY <1>1 DEF ExportIInv, Unfinished, Promises, StoriesFollowTheListing,
              FilesAgreeUnlessChanged, Exporting, EXIT_SUCCESS
<1> QED
  BY <1>4, <1>5, <1>6, <1>7, <1>8 DEF Kept

LEMMA KeptStep ==
    ASSUME ExportIInv, [ExportNext]_exportVars
    PROVE  Kept'
<1>1. CASE Start
  <2>1. Loaded' /\ RowsHold'
    BY <1>1 DEF Start, Loaded, RowsHold
  <2> QED
    BY <1>1, <2>1, MakingRows DEF Start, Kept
<1>2. CASE LoadRegistry
  <2>1. CASE at' = "ended" /\ status' \in {EXIT_USER_ERROR, EXIT_ENV_ERROR}
    BY <2>1, Failed DEF EXIT_USER_ERROR, EXIT_ENV_ERROR, EXIT_SUCCESS
  <2>2. CASE at' = "row"
    <3>1. /\ at = "load" /\ status' = Exporting /\ records' = <<>> /\ written' = {}
          /\ entries' = registry.entries /\ site'.meta = registry.entries
          /\ registry.entries \in Seq(Subjects)
      BY <1>2, <2>2, ExportAssumption
         DEF LoadRegistry, Exits, ExportIInv, ExportTypeOK, Unfinished, Loaded
    <3>2. Loaded' /\ RowsHold'
      BY <2>2, <3>1 DEF Loaded, RowsHold
    <3> QED
      BY <2>2, <3>1, <3>2, MakingRows DEF Kept
  <2> QED
    BY <1>2, <2>1, <2>2 DEF LoadRegistry, Exits
<1>3. CASE WriteFails \/ Kill
  BY <1>3, Failed DEF WriteFails, Kill, Exits, Killed, EXIT_USER_ERROR, EXIT_SUCCESS
<1>4. CASE UNCHANGED exportVars
  BY <1>4 DEF exportVars, exportLocals, ExportIInv, Kept, Promises, Unfinished, Loaded,
              RowsHold, RowHolds, Listed, Through, FilesFollow, Follows, TellingFollows,
              Telling, StoriesFollowTheListing, FilesAgreeUnlessChanged, Unchanged
<1>5. CASE \E subject \in Subjects : InstallOrRemove(subject)
  BY <1>5, ChangeStep
<1> QED
  BY <1>1, <1>2, <1>3, <1>4, <1>5, ProbeStep, ModulesStep, SubjectsStep, AvailableStep,
     ListStep, StoryStep, WriteStep, FinishStep DEF ExportNext

LEMMA ExportInvariant == ExportSpec => []ExportIInv
<1>1. ASSUME ExportInit PROVE ExportIInv
  <2>1. at = "ended" /\ status = Exporting
    BY <1>1 DEF ExportInit
  <2>2. Unfinished /\ Loaded /\ RowsHold /\ Listed /\ FilesFollow /\ TellingFollows
    BY <2>1 DEF Unfinished, Loaded, RowsHold, Listed, FilesFollow, TellingFollows
  <2>3. StoriesFollowTheListing /\ FilesAgreeUnlessChanged
    BY <2>1 DEF StoriesFollowTheListing, FilesAgreeUnlessChanged, Exporting, EXIT_SUCCESS
  <2> QED
    BY <1>1, <2>2, <2>3, TypeInit DEF ExportIInv
<1>2. ASSUME ExportIInv, [ExportNext]_exportVars PROVE ExportIInv'
  <2>1. ExportTypeOK'
    BY <1>2, TypeStep DEF ExportIInv
  <2>2. Kept'
    BY <1>2, KeptStep
  <2> QED
    BY <2>1, <2>2 DEF Kept, Promises, ExportIInv
<1> QED
  BY <1>1, <1>2, PTL DEF ExportSpec

-----------------------------------------------------------------------------
(* The site export: theorems.                                              *)

\* The state of the export and of the site has its types, for any registry
\* files and any listings.
THEOREM ExportTypeCorrect == ExportSpec => []ExportTypeOK
BY ExportInvariant, PTL DEF ExportIInv

\* No missing, failing or vanishing subject fails an export: only a registry
\* that is refused or raises, a write that fails, or a subject that is there and
\* whose call raises what nobody catches (learn/front/_export.py).
THEOREM MissingHolds == ExportSpec => []MissingSubjectsAreHarmless
<1> USE DEF EXIT_SUCCESS, EXIT_USER_ERROR, EXIT_ENV_ERROR, Exporting, Killed
<1>1. ASSUME ExportInit PROVE MissingSubjectsAreHarmless
  BY <1>1 DEF ExportInit, MissingSubjectsAreHarmless
<1>2. ASSUME ExportIInv, MissingSubjectsAreHarmless, [ExportNext]_exportVars
      PROVE  MissingSubjectsAreHarmless'
  <2> USE <1>2 DEF MissingSubjectsAreHarmless, Exits
  <2>1. CASE Start
    BY <2>1 DEF Start
  <2>2. CASE LoadRegistry
    <3>1. registry.reads \in {"sound", "refused", "raises"}
      BY ExportAssumption DEF ExportIInv, ExportTypeOK
    <3>2. CASE registry.reads = "sound"
      BY <2>2, <3>2 DEF LoadRegistry
    <3>3. CASE registry.reads # "sound"
      BY <2>2, <3>1, <3>3 DEF LoadRegistry
    <3> QED
      BY <3>2, <3>3
  <2>3. CASE ProbeSubject \/ WriteSubjects \/ CheckAvailable \/ WriteStories
    BY <2>3 DEF ProbeSubject, WriteSubjects, CheckAvailable, WriteStories
  <2>4. ASSUME NEW subject, UNCHANGED <<registry, installed>>, unwritten' = unwritten,
               \/ UNCHANGED <<status, raised>>
               \/ Wrapped(subject) /\ subject \in installed
        PROVE  MissingSubjectsAreHarmless'
    BY <2>4 DEF Wrapped
  <2>5. CASE ReadModules
    <3>1. \/ UNCHANGED <<status, raised>>
          \/ Wrapped(Last(records).name) /\ Last(records).name \in installed
      BY <2>5 DEF ReadModules, NoModules, Drive
    <3>2. UNCHANGED <<registry, installed, unwritten>>
      BY <2>5 DEF ReadModules
    <3> QED
      BY <2>4, <3>1, <3>2
  <2>6. CASE ListStories
    <3>1. \/ UNCHANGED <<status, raised>>
          \/ Wrapped(Head(left)) /\ Head(left) \in installed
      BY <2>6 DEF ListStories, Drive
    <3>2. UNCHANGED <<registry, installed, unwritten>>
      BY <2>6 DEF ListStories
    <3> QED
      BY <2>4, <3>1, <3>2
  <2>7. CASE ExportStory
    <3>1. \/ UNCHANGED <<status, raised>>
          \/ Wrapped(Head(left)) /\ Head(left) \in installed
      BY <2>7 DEF ExportStory, ReadFullStory, Drive
    <3>2. UNCHANGED <<registry, installed, unwritten>>
      BY <2>7 DEF ExportStory
    <3> QED
      BY <2>4, <3>1, <3>2
  <2>8. CASE FinishExport \/ WriteFails \/ Kill
    BY <2>8 DEF FinishExport, WriteFails, Kill, CutShort
  <2>9. CASE \E subject \in Subjects : InstallOrRemove(subject)
    <3>1. status' = Exporting
      BY <2>9 DEF InstallOrRemove, ExportIInv, Unfinished
    <3> QED
      BY <3>1
  <2>10. CASE UNCHANGED exportVars
    BY <2>10 DEF exportVars
  <2> QED
    BY <2>1, <2>2, <2>3, <2>5, <2>6, <2>7, <2>8, <2>9, <2>10 DEF ExportNext
<1> QED
  BY <1>1, <1>2, ExportInvariant, PTL DEF ExportSpec

\* The story files of a finished export hold what was wanted of the listings.
THEOREM StoriesHold == ExportSpec => []StoriesFollowTheListing
BY ExportInvariant, PTL DEF ExportIInv

\* The three kinds of files of a finished export agree.
THEOREM FilesHold == ExportSpec => []FilesAgreeUnlessChanged
BY ExportInvariant, PTL DEF ExportIInv

-----------------------------------------------------------------------------
(* The conformance gate: the inductive invariant.                          *)

\* The checks made of the answers and of the stories.
Mark(verb) == Check(verb, answers[verb] = "valid")
Pass(id) == Check(id, TRUE)
Fail(id) == Check(id, FALSE)
PinMark == Check("pin", answers["doctor"] = "valid")
ClozeMark == Check("cloze", found = 0 \/ ~flawed)

\* The checks made before each probe: doctor's own or its two, then one each.
BeforeOverview ==
    LET there == <<Pass("executable")>>
    IN  IF answers["doctor"] \in {"valid", "unsupported_pin"}
        THEN Append(Append(there, Pass("doctor")), PinMark)
        ELSE Append(there, Fail("doctor"))
BeforeProgress == Append(BeforeOverview, Mark("overview"))
BeforeAdvice == Append(BeforeProgress, Mark("progress"))
BeforeStoryList == Append(BeforeAdvice, Mark("advice"))
BeforeCloze == Append(BeforeStoryList, Mark("story_list"))
BeforeBadVerb == Append(BeforeCloze, ClozeMark)
AllChecks == Append(BeforeBadVerb, Mark("bad_verb"))

\* A subject that is not there is asked nothing.
NotThere ==
    checks = <<Fail("executable")>> /\ answers["doctor"] = "not_asked"

\* The checks are those of the verbs asked so far, as they were answered.
ChecksFollow ==
    /\ probe = "executable" => answers["doctor"] = "not_asked"
    /\ probe = "doctor" => checks = <<Pass("executable")>>
    /\ probe = "overview" => checks = BeforeOverview
    /\ probe = "progress" => checks = BeforeProgress
    /\ probe = "advice" => checks = BeforeAdvice
    /\ probe = "story_list" => checks = BeforeStoryList
    /\ probe = "stories" => checks = BeforeCloze
    /\ probe = "bad_verb" => checks = BeforeBadVerb
    /\ probe = "done" => checks = AllChecks \/ NotThere

\* No story is read before the stories are listed, and all of them are before
\* the gate goes on.
ReadInTurn ==
    /\ probe \in {"executable", "doctor", "overview", "progress", "advice", "story_list"}
          => read = <<>> /\ found = 0 /\ flawed = FALSE /\ first = <<>>
    /\ probe = "bad_verb" => Len(read) = Len(listed)
    /\ probe = "done" => Len(read) = Len(listed) \/ NotThere

\* The items seen are counted: none if there are none.
FoundCounts == found = 0 <=> NoClozeItems

\* There was an error exactly if a story could not be read, an exercise is
\* flawed, or its id is remembered under another story.
FlawedTells ==
    flawed <=>
        \/ \E i \in 1..Len(read) : read[i] = Odd
        \/ \E i \in Readable : \E e \in Items(i) :
             ExerciseFlawed(e) \/ (e.id # Missing /\ first[e.id] # listed[i])

\* Every id is remembered, and under a story that has it.
FirstTells ==
    /\ \A i \in Readable : \A e \in Items(i) : e.id # Missing => e.id \in DOMAIN first
    /\ \A id \in DOMAIN first :
         /\ id # Missing
         /\ \E i \in Readable : first[id] = listed[i] /\ \E e \in Items(i) : e.id = id

\* What ended the gate was a verb's output or that of a story that is not read.
RaisedTells ==
    probe = "raised" =>
        (\E v \in Verbs : answers[v] = Undecodable) \/ Len(read) < Len(listed)

DoctorIInv ==
    /\ DoctorTypeOK /\ ChecksFollow /\ ReadInTurn /\ RaisedTells
    /\ FoundCounts /\ FlawedTells /\ FirstTells

-----------------------------------------------------------------------------
(* The conformance gate: names and checks.                                 *)

Ids == {"executable", "doctor", "pin", "overview", "progress", "advice", "story_list",
        "cloze", "bad_verb"}

LEMMA TheProbes ==
    /\ Len(Probes) = 4
    /\ Probes[1] = "overview" /\ Probes[2] = "progress"
    /\ Probes[3] = "advice" /\ Probes[4] = "story_list"
    /\ ToSet(Probes) = {"overview", "progress", "advice", "story_list"}
    /\ Verbs = {"overview", "progress", "advice", "story_list", "doctor", "bad_verb"}
<1>1. /\ Len(Probes) = 4
      /\ Probes[1] = "overview" /\ Probes[2] = "progress"
      /\ Probes[3] = "advice" /\ Probes[4] = "story_list"
      /\ DOMAIN Probes = 1..4
  BY DEF Probes
<1>2. ToSet(Probes) = {"overview", "progress", "advice", "story_list"}
  <2>1. 1..4 = {1, 2, 3, 4}
    OBVIOUS
  <2>2. ToSet(Probes) = {Probes[i] : i \in {1, 2, 3, 4}}
    BY <1>1, <2>1 DEF ToSet
  <2> QED
    BY <1>1, <2>2
<1> QED
  BY <1>1, <1>2 DEF Verbs

Passed(list) == \A i \in 1..Len(list) : list[i].passed
AnyCheck == [id : Ids, passed : BOOLEAN]

\* The ids of a list of checks are the first of these.
Begins(list, ids) ==
    /\ list \in Seq(AnyCheck)
    /\ Len(list) <= Len(ids)
    /\ \A i \in 1..Len(list) : list[i].id = ids[i]

LEMMA GrowByOne ==
    ASSUME NEW list, NEW c \in AnyCheck, NEW ids,
           Len(ids) \in Nat, Begins(list, ids), Len(list) < Len(ids),
           c.id = ids[Len(list) + 1]
    PROVE  /\ Begins(Append(list, c), ids)
           /\ Len(Append(list, c)) = Len(list) + 1
           /\ Passed(Append(list, c)) <=> Passed(list) /\ c.passed
<1>1. list \in Seq(AnyCheck)
  BY DEF Begins
<1>2. /\ Append(list, c) \in Seq(AnyCheck) /\ Len(Append(list, c)) = Len(list) + 1
      /\ \A i \in 1..Len(list) : Append(list, c)[i] = list[i]
      /\ Append(list, c)[Len(list) + 1] = c
  BY <1>1, AppendProperties
<1>3. Len(list) \in Nat
  BY <1>1
<1>4. \A i : i \in 1..(Len(list) + 1) <=> i \in 1..Len(list) \/ i = Len(list) + 1
  BY <1>3
<1>5. \A i \in 1..(Len(list) + 1) : Append(list, c)[i].id = ids[i]
  BY <1>2, <1>4, Zenon DEF Begins
<1>6. Begins(Append(list, c), ids)
  BY <1>2, <1>3, <1>5 DEF Begins
<1> HIDE DEF AnyCheck
<1>7. Passed(Append(list, c)) <=> Passed(list) /\ c.passed
  BY <1>2, <1>4, Zenon DEF Passed
<1> QED
  BY <1>2, <1>6, <1>7

\* A finished list of checks holds each once, in order, and passes exactly if
\* every answer was valid and the cloze items are well.
LEMMA Finished ==
    /\ Passed(AllChecks) <=>
         /\ \A v \in Verbs : answers[v] = "valid"
         /\ found = 0 \/ ~flawed
    /\ \/ Begins(AllChecks, CheckIds) /\ Len(AllChecks) = 9
       \/ /\ Begins(AllChecks, CheckIdsButPin) /\ Len(AllChecks) = 8
          /\ answers["doctor"] # "valid"
<1> DEFINE there == <<Pass("executable")>>
           pinned == answers["doctor"] \in {"valid", "unsupported_pin"}
           clear == found = 0 \/ ~flawed
<1>1. \A id \in Ids :
         /\ Pass(id) \in AnyCheck /\ Pass(id).id = id /\ Pass(id).passed
         /\ Fail(id) \in AnyCheck /\ Fail(id).id = id
         /\ ~Fail(id).passed
  BY DEF Pass, Fail, Check, AnyCheck
<1>2. /\ Mark("overview") \in AnyCheck /\ Mark("overview").id = "overview"
      /\ Mark("overview").passed <=> answers["overview"] = "valid"
      /\ Mark("progress") \in AnyCheck /\ Mark("progress").id = "progress"
      /\ Mark("progress").passed <=> answers["progress"] = "valid"
      /\ Mark("advice") \in AnyCheck /\ Mark("advice").id = "advice"
      /\ Mark("advice").passed <=> answers["advice"] = "valid"
      /\ Mark("story_list") \in AnyCheck /\ Mark("story_list").id = "story_list"
      /\ Mark("story_list").passed <=> answers["story_list"] = "valid"
      /\ Mark("bad_verb") \in AnyCheck /\ Mark("bad_verb").id = "bad_verb"
      /\ Mark("bad_verb").passed <=> answers["bad_verb"] = "valid"
      /\ ClozeMark \in AnyCheck /\ ClozeMark.id = "cloze"
      /\ ClozeMark.passed <=> clear
      /\ PinMark \in AnyCheck /\ PinMark.id = "pin"
      /\ PinMark.passed <=> answers["doctor"] = "valid"
  BY DEF Mark, PinMark, ClozeMark, Check, AnyCheck, Ids
<1>3. /\ there \in Seq(AnyCheck) /\ Len(there) = 1 /\ there[1] = Pass("executable")
  <2>1. ASSUME NEW S, NEW x \in S PROVE <<x>> \in Seq(S) /\ Len(<<x>>) = 1 /\ <<x>>[1] = x
    OBVIOUS
  <2>2. Pass("executable") \in AnyCheck
    BY <1>1 DEF Ids
  <2> QED
    BY <2>1, <2>2, Zenon
<1>4. there[1].id = "executable" /\ there[1].passed
  BY <1>1, <1>3 DEF Ids
<1> HIDE DEF there
<1>6. /\ Passed(there)
      /\ \A ids : Len(ids) \in Nat /\ 1 <= Len(ids) /\ ids[1] = "executable"
                     => Begins(there, ids)
  <2>1. \A i \in 1..Len(there) : i = 1
    BY <1>3
  <2>2. Passed(there)
    BY <1>4, <2>1, Zenon DEF Passed
  <2>3. ASSUME NEW ids, Len(ids) \in Nat, 1 <= Len(ids), ids[1] = "executable"
        PROVE  Begins(there, ids)
    <3>1. \A i \in 1..Len(there) : there[i].id = ids[i]
      BY <1>4, <2>1, <2>3, Zenon
    <3> QED
      BY <1>3, <2>3, <3>1 DEF Begins
  <2> QED
    BY <2>2, <2>3
<1>8. ASSUME NEW ids, Begins(BeforeOverview, ids),
             Len(BeforeOverview) \in Nat, Len(ids) = Len(BeforeOverview) + 6,
             ids[Len(BeforeOverview) + 1] = "overview",
             ids[Len(BeforeOverview) + 2] = "progress",
             ids[Len(BeforeOverview) + 3] = "advice",
             ids[Len(BeforeOverview) + 4] = "story_list",
             ids[Len(BeforeOverview) + 5] = "cloze",
             ids[Len(BeforeOverview) + 6] = "bad_verb"
      PROVE  /\ Begins(AllChecks, ids) /\ Len(AllChecks) = Len(BeforeOverview) + 6
             /\ Passed(AllChecks) <=>
                  /\ Passed(BeforeOverview)
                  /\ answers["overview"] = "valid" /\ answers["progress"] = "valid"
                  /\ answers["advice"] = "valid" /\ answers["story_list"] = "valid"
                  /\ clear /\ answers["bad_verb"] = "valid"
  <2> DEFINE n == Len(BeforeOverview)
  <2>1. /\ Begins(BeforeProgress, ids) /\ Len(BeforeProgress) = n + 1
        /\ Passed(BeforeProgress) <=> Passed(BeforeOverview) /\ answers["overview"] = "valid"
    <3>1. /\ Begins(BeforeOverview, ids) /\ Mark("overview") \in AnyCheck /\ Len(ids) \in Nat
          /\ Len(BeforeOverview) < Len(ids) /\ Len(BeforeOverview) = n
          /\ Mark("overview").id = ids[Len(BeforeOverview) + 1]
      BY <1>2, <1>8
    <3>2. BeforeProgress = Append(BeforeOverview, Mark("overview"))
      BY DEF BeforeProgress
    <3>3. /\ Begins(BeforeProgress, ids) /\ Len(BeforeProgress) = Len(BeforeOverview) + 1
          /\ Passed(BeforeProgress) <=> Passed(BeforeOverview) /\ Mark("overview").passed
      BY <3>1, <3>2, GrowByOne
    <3> QED
      BY <1>2, <1>8, <3>1, <3>3
  <2>2. /\ Begins(BeforeAdvice, ids) /\ Len(BeforeAdvice) = n + 2
        /\ Passed(BeforeAdvice) <=> Passed(BeforeProgress) /\ answers["progress"] = "valid"
    <3>1. /\ Begins(BeforeProgress, ids) /\ Mark("progress") \in AnyCheck /\ Len(ids) \in Nat
          /\ Len(BeforeProgress) < Len(ids) /\ Len(BeforeProgress) = n + 1
          /\ Mark("progress").id = ids[Len(BeforeProgress) + 1]
      BY <1>2, <1>8, <2>1
    <3>2. BeforeAdvice = Append(BeforeProgress, Mark("progress"))
      BY DEF BeforeAdvice
    <3>3. /\ Begins(BeforeAdvice, ids) /\ Len(BeforeAdvice) = Len(BeforeProgress) + 1
          /\ Passed(BeforeAdvice) <=> Passed(BeforeProgress) /\ Mark("progress").passed
      BY <3>1, <3>2, GrowByOne
    <3> QED
      BY <1>2, <1>8, <3>1, <3>3
  <2>3. /\ Begins(BeforeStoryList, ids) /\ Len(BeforeStoryList) = n + 3
        /\ Passed(BeforeStoryList) <=> Passed(BeforeAdvice) /\ answers["advice"] = "valid"
    <3>1. /\ Begins(BeforeAdvice, ids) /\ Mark("advice") \in AnyCheck /\ Len(ids) \in Nat
          /\ Len(BeforeAdvice) < Len(ids) /\ Len(BeforeAdvice) = n + 2
          /\ Mark("advice").id = ids[Len(BeforeAdvice) + 1]
      BY <1>2, <1>8, <2>2
    <3>2. BeforeStoryList = Append(BeforeAdvice, Mark("advice"))
      BY DEF BeforeStoryList
    <3>3. /\ Begins(BeforeStoryList, ids) /\ Len(BeforeStoryList) = Len(BeforeAdvice) + 1
          /\ Passed(BeforeStoryList) <=> Passed(BeforeAdvice) /\ Mark("advice").passed
      BY <3>1, <3>2, GrowByOne
    <3> QED
      BY <1>2, <1>8, <3>1, <3>3
  <2>4. /\ Begins(BeforeCloze, ids) /\ Len(BeforeCloze) = n + 4
        /\ Passed(BeforeCloze) <=> Passed(BeforeStoryList) /\ answers["story_list"] = "valid"
    <3>1. /\ Begins(BeforeStoryList, ids) /\ Mark("story_list") \in AnyCheck /\ Len(ids) \in Nat
          /\ Len(BeforeStoryList) < Len(ids) /\ Len(BeforeStoryList) = n + 3
          /\ Mark("story_list").id = ids[Len(BeforeStoryList) + 1]
      BY <1>2, <1>8, <2>3
    <3>2. BeforeCloze = Append(BeforeStoryList, Mark("story_list"))
      BY DEF BeforeCloze
    <3>3. /\ Begins(BeforeCloze, ids) /\ Len(BeforeCloze) = Len(BeforeStoryList) + 1
          /\ Passed(BeforeCloze) <=> Passed(BeforeStoryList) /\ Mark("story_list").passed
      BY <3>1, <3>2, GrowByOne
    <3> QED
      BY <1>2, <1>8, <3>1, <3>3
  <2>5. /\ Begins(BeforeBadVerb, ids) /\ Len(BeforeBadVerb) = n + 5
        /\ Passed(BeforeBadVerb) <=> Passed(BeforeCloze) /\ clear
    <3>1. /\ Begins(BeforeCloze, ids) /\ ClozeMark \in AnyCheck /\ Len(ids) \in Nat
          /\ Len(BeforeCloze) < Len(ids) /\ Len(BeforeCloze) = n + 4
          /\ ClozeMark.id = ids[Len(BeforeCloze) + 1]
      BY <1>2, <1>8, <2>4
    <3>2. BeforeBadVerb = Append(BeforeCloze, ClozeMark)
      BY DEF BeforeBadVerb
    <3>3. /\ Begins(BeforeBadVerb, ids) /\ Len(BeforeBadVerb) = Len(BeforeCloze) + 1
          /\ Passed(BeforeBadVerb) <=> Passed(BeforeCloze) /\ ClozeMark.passed
      BY <3>1, <3>2, GrowByOne
    <3> QED
      BY <1>2, <1>8, <3>1, <3>3
  <2>6. /\ Begins(AllChecks, ids) /\ Len(AllChecks) = n + 6
        /\ Passed(AllChecks) <=> Passed(BeforeBadVerb) /\ answers["bad_verb"] = "valid"
    <3>1. /\ Begins(BeforeBadVerb, ids) /\ Mark("bad_verb") \in AnyCheck /\ Len(ids) \in Nat
          /\ Len(BeforeBadVerb) < Len(ids) /\ Len(BeforeBadVerb) = n + 5
          /\ Mark("bad_verb").id = ids[Len(BeforeBadVerb) + 1]
      BY <1>2, <1>8, <2>5
    <3>2. AllChecks = Append(BeforeBadVerb, Mark("bad_verb"))
      BY DEF AllChecks
    <3>3. /\ Begins(AllChecks, ids) /\ Len(AllChecks) = Len(BeforeBadVerb) + 1
          /\ Passed(AllChecks) <=> Passed(BeforeBadVerb) /\ Mark("bad_verb").passed
      BY <3>1, <3>2, GrowByOne
    <3> QED
      BY <1>2, <1>8, <3>1, <3>3
  <2> QED
    BY <2>1, <2>2, <2>3, <2>4, <2>5, <2>6
<1>9. (\A v \in Verbs : answers[v] = "valid") <=>
         /\ answers["overview"] = "valid" /\ answers["progress"] = "valid"
         /\ answers["advice"] = "valid" /\ answers["story_list"] = "valid"
         /\ answers["doctor"] = "valid" /\ answers["bad_verb"] = "valid"
  BY TheProbes
<1>10. CASE pinned
  <2> DEFINE two == Append(there, Pass("doctor"))
  <2>1. BeforeOverview = Append(two, PinMark)
    BY <1>10 DEF BeforeOverview, there
  <2>2. /\ Len(CheckIds) = 9
        /\ CheckIds[1] = "executable" /\ CheckIds[2] = "doctor" /\ CheckIds[3] = "pin"
        /\ CheckIds[4] = "overview" /\ CheckIds[5] = "progress" /\ CheckIds[6] = "advice"
        /\ CheckIds[7] = "story_list" /\ CheckIds[8] = "cloze" /\ CheckIds[9] = "bad_verb"
    BY DEF CheckIds
  <2>3. /\ Pass("doctor") \in AnyCheck /\ Pass("doctor").id = "doctor"
        /\ Pass("doctor").passed
    BY <1>1 DEF Ids
  <2>4. Begins(there, CheckIds)
    BY <1>6, <2>2
  <2>5. Begins(two, CheckIds) /\ Len(two) = 2 /\ Passed(two)
    <3>1. Len(CheckIds) \in Nat /\ Len(there) < Len(CheckIds)
          /\ Pass("doctor").id = CheckIds[Len(there) + 1]
      BY <1>3, <2>2, <2>3
    <3>2. /\ Begins(two, CheckIds) /\ Len(two) = Len(there) + 1
          /\ Passed(two) <=> Passed(there) /\ Pass("doctor").passed
      BY <2>3, <2>4, <3>1, GrowByOne
    <3> QED
      BY <1>3, <1>6, <2>3, <3>2
  <2> HIDE DEF two
  <2>6. /\ Begins(BeforeOverview, CheckIds) /\ Len(BeforeOverview) = 3
        /\ Passed(BeforeOverview) <=> answers["doctor"] = "valid"
    <3>1. Len(CheckIds) \in Nat /\ Len(two) < Len(CheckIds)
          /\ PinMark.id = CheckIds[Len(two) + 1]
      BY <1>2, <2>2, <2>5
    <3>2. /\ Begins(BeforeOverview, CheckIds) /\ Len(BeforeOverview) = Len(two) + 1
          /\ Passed(BeforeOverview) <=> Passed(two) /\ PinMark.passed
      BY <1>2, <2>1, <2>5, <3>1, GrowByOne
    <3> QED
      BY <1>2, <2>5, <3>2
  <2>7. /\ Begins(AllChecks, CheckIds) /\ Len(AllChecks) = 9
        /\ Passed(AllChecks) <=>
             /\ Passed(BeforeOverview)
             /\ answers["overview"] = "valid" /\ answers["progress"] = "valid"
             /\ answers["advice"] = "valid" /\ answers["story_list"] = "valid"
             /\ clear /\ answers["bad_verb"] = "valid"
    BY <1>8, <2>2, <2>6
  <2> QED
    BY <1>9, <2>6, <2>7
<1>11. CASE ~pinned
  <2>1. BeforeOverview = Append(there, Fail("doctor"))
    BY <1>11 DEF BeforeOverview, there
  <2>2. /\ Len(CheckIdsButPin) = 8
        /\ CheckIdsButPin[1] = "executable" /\ CheckIdsButPin[2] = "doctor"
        /\ CheckIdsButPin[3] = "overview" /\ CheckIdsButPin[4] = "progress"
        /\ CheckIdsButPin[5] = "advice" /\ CheckIdsButPin[6] = "story_list"
        /\ CheckIdsButPin[7] = "cloze" /\ CheckIdsButPin[8] = "bad_verb"
    BY DEF CheckIdsButPin
  <2>3. /\ Fail("doctor") \in AnyCheck /\ Fail("doctor").id = "doctor"
        /\ ~Fail("doctor").passed
    BY <1>1 DEF Ids
  <2>4. Begins(there, CheckIdsButPin)
    BY <1>6, <2>2
  <2>5. /\ Begins(BeforeOverview, CheckIdsButPin) /\ Len(BeforeOverview) = 2
        /\ ~Passed(BeforeOverview)
    <3>1. Len(CheckIdsButPin) \in Nat /\ Len(there) < Len(CheckIdsButPin)
          /\ Fail("doctor").id = CheckIdsButPin[Len(there) + 1]
      BY <1>3, <2>2, <2>3
    <3>2. /\ Begins(BeforeOverview, CheckIdsButPin) /\ Len(BeforeOverview) = Len(there) + 1
          /\ Passed(BeforeOverview) <=> Passed(there) /\ Fail("doctor").passed
      BY <2>1, <2>3, <2>4, <3>1, GrowByOne
    <3> QED
      BY <1>3, <2>3, <3>2
  <2>6. /\ Begins(AllChecks, CheckIdsButPin) /\ Len(AllChecks) = 8
        /\ Passed(AllChecks) => Passed(BeforeOverview)
    BY <1>8, <2>2, <2>5
  <2> QED
    BY <1>9, <1>11, <2>5, <2>6
<1> QED
  BY <1>10, <1>11

-----------------------------------------------------------------------------
(* The conformance gate: exercises and stories.                            *)

\* The checks of one exercise find fault exactly with those the contract
\* does not allow.
LEMMA Verdict ==
    ASSUME NEW e, IsExercise(e)
    PROVE  WellFormed(e) <=> ~ExerciseFlawed(e)
<1> DEFINE text == e.text
           blanks == e.blanks
<1>1. CASE text \in {Missing, Odd} \/ blanks \in {Missing, Odd} \/ blanks = <<>>
           \/ e.item = Missing
  BY <1>1 DEF WellFormed, ExerciseFlawed, TopLevelFlawed
<1>2. CASE ~(text \in {Missing, Odd} \/ blanks \in {Missing, Odd} \/ blanks = <<>>
             \/ e.item = Missing)
  <2> DEFINE T == ToSet(blanks)
             Fine(b) == /\ b # Odd /\ b.options # Odd /\ Len(b.options) >= 2
                        /\ b.answer # Missing /\ b.answer \in ToSet(b.options)
             Distinct == \A i, j \in DOMAIN blanks : blanks[i].id = blanks[j].id => i = j
             seen == SeenBefore(blanks, Len(blanks) + 1)
  <2>1. /\ Missing \notin text /\ blanks \in Seq(T) /\ \A b \in T : IsBlank(b)
        /\ Len(blanks) \in Nat /\ DOMAIN blanks = 1..Len(blanks)
        /\ Placeholders(e) = text
    BY <1>2 DEF IsExercise, Placeholders
  <2>2. \A n \in 1..Len(blanks) : blanks[n] \in T
    BY <2>1 DEF ToSet
  <2>3. \A b \in T : \E n \in 1..Len(blanks) : b = blanks[n]
    BY <2>1 DEF ToSet
  <2>4. WellFormed(e) <=> /\ \A b \in T : Fine(b)
                          /\ Distinct
                          /\ {b.id : b \in T} = text
    BY <1>2 DEF WellFormed
  <2>5. ExerciseFlawed(e) <=> \/ \E n \in 1..Len(blanks) : BlankFlawed(blanks, n, text)
                              \/ text \ seen # {}
    BY <1>2, <2>1 DEF ExerciseFlawed, TopLevelFlawed, OrphanPlaceholders
  <2>6. \A n \in 1..Len(blanks) :
           blanks[n] = Odd \/ BlankAnswerFlawed(blanks[n]) <=> ~Fine(blanks[n])
    BY <2>1, <2>2 DEF BlankAnswerFlawed, IsBlank
  <2> HIDE DEF text, blanks, T, Fine
  <2>7. ASSUME WellFormed(e) PROVE ~ExerciseFlawed(e)
    <3>1. ASSUME NEW n \in 1..Len(blanks) PROVE ~BlankFlawed(blanks, n, text)
      <4>1. Fine(blanks[n]) /\ blanks[n].id \in text
        BY <2>2, <2>4, <2>7
      <4>2. blanks[n].id \notin SeenBefore(blanks, n)
        <5> SUFFICES ASSUME NEW i \in 1..(n - 1), blanks[i].id = blanks[n].id
                     PROVE  FALSE
          BY DEF SeenBefore
        <5> QED
          BY <2>1, <2>4, <2>7
      <4> QED
        BY <2>1, <2>6, <4>1, <4>2 DEF BlankFlawed, BlankIdFlawed
    <3>2. ASSUME NEW id \in text PROVE id \in seen
      <4>1. PICK n \in 1..Len(blanks) : id = blanks[n].id
        BY <2>3, <2>4, <2>7
      <4>2. blanks[n] # Odd /\ n \in 1..(Len(blanks) + 1 - 1) /\ id # Missing
        BY <2>1, <2>2, <2>4, <2>7 DEF Fine
      <4> QED
        BY <4>1, <4>2 DEF SeenBefore
    <3> QED
      BY <2>5, <3>1, <3>2
  <2>8. ASSUME ~ExerciseFlawed(e) PROVE WellFormed(e)
    <3>1. \A n \in 1..Len(blanks) :
             /\ Fine(blanks[n])
             /\ blanks[n].id \in text /\ blanks[n].id # Missing
             /\ blanks[n].id \notin SeenBefore(blanks, n)
      BY <2>5, <2>6, <2>8 DEF BlankFlawed, BlankIdFlawed
    <3>2. ASSUME NEW i \in 1..Len(blanks), NEW j \in 1..Len(blanks), i < j
          PROVE  blanks[i].id # blanks[j].id
      <4>1. i \in 1..(j - 1) /\ blanks[i] # Odd
        BY <2>1, <3>1, <3>2 DEF Fine
      <4>2. blanks[i].id \in SeenBefore(blanks, j)
        BY <3>1, <4>1 DEF SeenBefore
      <4> QED
        BY <3>1, <4>2
    <3>3. Distinct
      BY <2>1, <3>2
    <3>4. {b.id : b \in T} = text
      <4>1. \A b \in T : b.id \in text
        BY <2>3, <3>1
      <4>2. ASSUME NEW id \in text PROVE \E b \in T : b.id = id
        <5>1. id \in seen
          BY <2>5, <2>8
        <5>2. PICK n \in 1..Len(blanks) : id = blanks[n].id
          BY <2>1, <5>1 DEF SeenBefore
        <5> QED
          BY <2>2, <5>2
      <4> QED
        BY <4>1, <4>2
    <3> QED
      BY <2>3, <2>4, <3>1, <3>3, <3>4
  <2> QED
    BY <2>7, <2>8
<1> QED
  BY <1>1, <1>2

LEMMA Exercises ==
    ASSUME DoctorTypeOK, NEW i \in Readable
    PROVE  /\ i \in 1..Len(read)
           /\ \A e \in Items(i) : IsExercise(e)
<1>1. i \in 1..Len(read) /\ read[i] # Odd
  BY DEF Readable
<1>2. read \in Seq(StoryReads)
  BY DEF DoctorTypeOK
<1>3. read[i] \in Contents \cup OtherContents
  BY <1>1, <1>2 DEF StoryReads
<1> QED
  BY <1>1, <1>3, ConformanceAssumption DEF Items

\* What the gate finds no fault with: items that are well formed, and share no
\* id with those of another story.
NothingFound ==
    /\ ClozeWellFormed
    /\ \A i, j \in Readable : \A d \in Items(i), e \in Items(j) :
         d.id # Missing /\ d.id = e.id => listed[i] = listed[j]

\* That is what the contract allows, or items whose only fault are ids the gate
\* does not compare.
LEMMA Overlooked ==
    ASSUME DoctorTypeOK
    PROVE  NothingFound <=> ClozeConformant \/ IdsOverlooked
<1>1. ASSUME IdsUnique, NEW i \in Readable, NEW j \in Readable,
             NEW d \in Items(i), NEW e \in Items(j), d.id = e.id
      PROVE  listed[i] = listed[j]
  <2>1. ASSUME NEW k \in Readable, NEW x \in Items(k)
        PROVE  \E m \in ClozeItems(read[k]) : read[k][m] = x
    <3>1. read[k] \in Contents \cup OtherContents
      BY DEF Readable, DoctorTypeOK, StoryReads
    <3>2. read[k] \in Seq(ToSet(read[k]))
      BY <3>1, ConformanceAssumption
    <3>3. PICK m \in 1..Len(read[k]) : read[k][m] = x /\ IsClozeBlanksItem(x)
      BY <3>2 DEF Items, ToSet
    <3> QED
      BY <3>3 DEF ClozeItems
  <2>2. PICK m \in ClozeItems(read[i]) : read[i][m] = d
    BY <2>1
  <2>3. PICK n \in ClozeItems(read[j]) : read[j][n] = e
    BY <2>1
  <2>4. /\ m \in ClozeItems(read[i]) /\ n \in ClozeItems(read[j])
        /\ read[i][m].id = read[j][n].id
    BY <1>1, <2>2, <2>3
  <2>5. \A x \in ClozeItems(read[i]), y \in ClozeItems(read[j]) :
          read[i][x].id = read[j][y].id => i = j
    BY <1>1, SMT DEF IdsUnique
  <2>6. i = j
    BY <2>4, <2>5
  <2> QED
    BY <2>6
<1>2. ClozeConformant => NothingFound
  BY <1>1 DEF ClozeConformant, NothingFound
<1> QED
  BY <1>2 DEF ClozeConformant, NothingFound, IdsOverlooked

\* When all stories are read, there was an error unless no fault is found.
LEMMA ClozeVerdict ==
    ASSUME DoctorTypeOK, FlawedTells, FirstTells, Len(read) = Len(listed)
    PROVE  ~flawed <=> NothingFound
<1>1. Readable = 1..Len(listed) <=> ~ \E i \in 1..Len(read) : read[i] = Odd
  BY DEF Readable
<1>2. \A i \in Readable : \A e \in Items(i) : WellFormed(e) <=> ~ExerciseFlawed(e)
  BY Exercises, Verdict
<1>3. ASSUME ~flawed PROVE NothingFound
  <2>1. \A i \in Readable : \A e \in Items(i) :
          ~ExerciseFlawed(e) /\ (e.id # Missing => first[e.id] = listed[i])
    BY <1>3 DEF FlawedTells
  <2>2. Readable = 1..Len(listed)
    BY <1>1, <1>3 DEF FlawedTells
  <2>3. \A i \in Readable : \A e \in Items(i) : WellFormed(e)
    BY <1>2, <2>1
  <2>4. ASSUME NEW i \in Readable, NEW j \in Readable, NEW d \in Items(i), NEW e \in Items(j),
               d.id # Missing, d.id = e.id
        PROVE  listed[i] = listed[j]
    BY <2>1, <2>4
  <2> QED
    BY <2>2, <2>3, <2>4 DEF NothingFound, ClozeWellFormed
<1>4. ASSUME NothingFound, flawed PROVE FALSE
  <2>1. PICK i \in Readable : \E e \in Items(i) :
          ExerciseFlawed(e) \/ (e.id # Missing /\ first[e.id] # listed[i])
    BY <1>1, <1>4 DEF FlawedTells, NothingFound, ClozeWellFormed
  <2>2. PICK e \in Items(i) :
          ExerciseFlawed(e) \/ (e.id # Missing /\ first[e.id] # listed[i])
    BY <2>1
  <2>3. e.id # Missing /\ first[e.id] # listed[i]
    BY <1>2, <1>4, <2>2 DEF NothingFound, ClozeWellFormed
  <2>4. PICK j \in Readable : first[e.id] = listed[j] /\ \E d \in Items(j) : d.id = e.id
    BY <2>3 DEF FirstTells
  <2>5. PICK d \in Items(j) : d.id = e.id
    BY <2>4
  <2>6. listed[i] = listed[j]
    BY <1>4, <2>3, <2>5 DEF NothingFound
  <2> QED
    BY <2>3, <2>4, <2>6
<1> QED
  BY <1>3, <1>4

\* What was read of the stories is all these depend on.
LEMMA ClozeKept ==
    ASSUME FoundCounts, FlawedTells, FirstTells,
           read' = read, listed' = listed, found' = found, flawed' = flawed, first' = first
    PROVE  FoundCounts' /\ FlawedTells' /\ FirstTells'
<1>1. Readable' = Readable /\ \A i : Items(i)' = Items(i)
  BY DEF Readable, Items
<1>2. FoundCounts'
  BY <1>1 DEF FoundCounts, NoClozeItems
<1>3. FlawedTells'
  BY <1>1 DEF FlawedTells
<1>4. FirstTells'
  BY <1>1 DEF FirstTells
<1> QED
  BY <1>2, <1>3, <1>4

\* Before any story is read.
LEMMA NothingRead ==
    ASSUME read = <<>>, found = 0, flawed = FALSE, first = <<>>
    PROVE  FoundCounts /\ FlawedTells /\ FirstTells
<1>1. Readable = {} /\ 1..Len(read) = {} /\ DOMAIN first = {}
  BY DEF Readable
<1> QED
  BY <1>1 DEF FoundCounts, NoClozeItems, FlawedTells, FirstTells

LEMMA StoryNotRead ==
    ASSUME DoctorTypeOK, FoundCounts, FlawedTells, FirstTells, StoryUnreadable
    PROVE  FoundCounts' /\ FlawedTells' /\ FirstTells' /\ DoctorTypeOK'
<1> DEFINE n == Len(read) + 1
<1>1. /\ read' = Append(read, Odd) /\ Len(read) < Len(listed) /\ flawed' = TRUE
      /\ UNCHANGED <<probe, checks, answers, listed, found, first>>
  BY DEF StoryUnreadable
<1>2. /\ read \in Seq(StoryReads) /\ Len(read) \in Nat
      /\ Len(listed) \in Nat
  BY ConformanceAssumption DEF DoctorTypeOK
<1>3. /\ read' \in Seq(StoryReads)
      /\ Len(read') = n /\ read'[n] = Odd /\ \A i \in 1..Len(read) : read'[i] = read[i]
  BY <1>1, <1>2, AppendProperties DEF StoryReads
<1>4. Readable' = Readable
  BY <1>2, <1>3 DEF Readable
<1>5. \A i \in Readable : Items(i)' = Items(i)
  BY <1>3 DEF Items, Readable
<1>6. FoundCounts'
  BY <1>1, <1>4, <1>5 DEF FoundCounts, NoClozeItems
<1>7. FlawedTells'
  BY <1>1, <1>2, <1>3 DEF FlawedTells
<1>8. FirstTells'
  BY <1>1, <1>4, <1>5 DEF FirstTells
<1>9. DoctorTypeOK'
  BY <1>1, <1>2, <1>3 DEF DoctorTypeOK
<1> QED
  BY <1>6, <1>7, <1>8, <1>9

LEMMA StoryRead ==
    ASSUME DoctorTypeOK, FoundCounts, FlawedTells, FirstTells, ReadStory
    PROVE  FoundCounts' /\ FlawedTells' /\ FirstTells' /\ DoctorTypeOK'
<1>0. PICK n : n = Len(read) + 1
  OBVIOUS
<1>1. PICK exercises \in Contents \cup OtherContents :
        read' = Append(read, exercises) /\ StoryClozeItems(listed[n], exercises)
  BY <1>0 DEF ReadStory
<1>2. Len(read) < Len(listed) /\ UNCHANGED <<probe, checks, answers, listed>>
  BY DEF ReadStory
<1> DEFINE items == {exercises[i] : i \in ClozeItems(exercises)}
           ids == {e.id : e \in items}
           story == listed[n]
<1>3. /\ found' = found + Cardinality(ClozeItems(exercises))
      /\ flawed' = (flawed \/ \E e \in items : ClozeFlawed(e, story))
      /\ first' = Remember(ids, story)
  BY <1>1 DEF StoryClozeItems
<1>4. /\ read \in Seq(StoryReads) /\ Len(read) \in Nat
      /\ found \in Nat /\ Len(listed) \in Nat
  BY ConformanceAssumption DEF DoctorTypeOK
<1>5. /\ read' \in Seq(StoryReads)
      /\ Len(read') = n /\ read'[n] = exercises /\ \A i \in 1..Len(read) : read'[i] = read[i]
  BY <1>0, <1>1, <1>4, AppendProperties DEF StoryReads
<1>6. exercises # Odd /\ exercises \in Seq(ToSet(exercises)) /\ Len(exercises) \in Nat
  BY ConformanceAssumption
<1>7. Readable' = Readable \cup {n} /\ n \notin Readable
  BY <1>0, <1>4, <1>5, <1>6 DEF Readable
<1>8. \A i \in Readable : Items(i)' = Items(i)
  BY <1>5 DEF Items, Readable
<1>9. Items(n)' = items
  <2>1. DOMAIN exercises = 1..Len(exercises)
    BY <1>6
  <2>2. items = {e \in ToSet(exercises) : IsClozeBlanksItem(e)}
    BY <2>1 DEF ToSet, ClozeItems
  <2> QED
    BY <1>5, <2>2 DEF Items
<1>10. /\ Cardinality(ClozeItems(exercises)) \in Nat
       /\ Cardinality(ClozeItems(exercises)) = 0 <=> items = {}
  <2>1. ClozeItems(exercises) \subseteq 1..Len(exercises)
    BY DEF ClozeItems
  <2>2. IsFiniteSet(ClozeItems(exercises))
    <3>1. IsFiniteSet(1..Len(exercises))
      BY <1>6, FS_Interval
    <3> QED
      BY <2>1, <3>1, FS_Subset
  <2> QED
    <3>1. ClozeItems(exercises) = {} <=> items = {}
      OBVIOUS
    <3> QED
      BY <2>2, <3>1, FS_CardinalityType, FS_EmptySet
<1> HIDE DEF items, ids, story
<1>11. FoundCounts' /\ found' \in Nat
  <2>1. NoClozeItems' <=> NoClozeItems /\ items = {}
    BY <1>7, <1>8, <1>9 DEF NoClozeItems
  <2> QED
    BY <1>3, <1>4, <1>10, <2>1 DEF FoundCounts
<1>12. /\ DOMAIN first' = DOMAIN first \cup (ids \ {Missing})
       /\ \A id \in DOMAIN first : first'[id] = first[id]
       /\ \A id \in ids : id # Missing /\ id \notin DOMAIN first => first'[id] = story
  BY <1>3 DEF Remember
<1>13. Missing \notin DOMAIN first
  BY DEF FirstTells
<1>14. \A e \in items :
         ClozeFlawed(e, story) <=>
             ExerciseFlawed(e) \/ (e.id # Missing /\ first'[e.id] # story)
  BY <1>12, <1>13 DEF ClozeFlawed, Reused, ids
<1>15. FlawedTells'
  <2> DEFINE Fault(e, i) == ExerciseFlawed(e) \/ (e.id # Missing /\ first[e.id] # listed[i])
             FaultNext(e, i) == ExerciseFlawed(e) \/ (e.id # Missing /\ first'[e.id] # listed[i])
  <2>1. \A i \in Readable : \A e \in Items(i) : Fault(e, i) <=> FaultNext(e, i)
    BY <1>12 DEF FirstTells
  <2>2. (\E i \in 1..Len(read') : read'[i] = Odd) <=> \E i \in 1..Len(read) : read[i] = Odd
    <3>1. \A i : i \in 1..Len(read') <=> i \in 1..Len(read) \/ i = n
      BY <1>0, <1>4, <1>5
    <3> QED
      BY <1>5, <1>6, <3>1
  <2>3. (\E i \in Readable' : \E e \in Items(i)' : FaultNext(e, i)) <=>
          \/ \E i \in Readable : \E e \in Items(i) : Fault(e, i)
          \/ \E e \in items : ClozeFlawed(e, story)
    BY <1>7, <1>8, <1>9, <1>14, <2>1 DEF story
  <2> QED
    BY <1>2, <1>3, <2>2, <2>3 DEF FlawedTells
<1>16. FirstTells'
  <2>1. \A i \in Readable' : \A e \in Items(i)' : e.id # Missing => e.id \in DOMAIN first'
    BY <1>7, <1>8, <1>9, <1>12 DEF FirstTells, ids
  <2>2. ASSUME NEW id \in DOMAIN first'
        PROVE  /\ id # Missing
               /\ \E i \in Readable' : first'[id] = listed'[i] /\ \E e \in Items(i)' : e.id = id
    <3>1. CASE id \in DOMAIN first
      BY <1>2, <1>7, <1>8, <1>12, <3>1 DEF FirstTells
    <3>2. CASE id \notin DOMAIN first
      BY <1>2, <1>7, <1>9, <1>12, <3>2 DEF ids, story
    <3> QED
      BY <3>1, <3>2
  <2> QED
    BY <2>1, <2>2 DEF FirstTells
<1>17. DoctorTypeOK'
  <2>1. flawed' \in BOOLEAN
    BY <1>3
  <2>2. \A id \in DOMAIN first' : id # Missing /\ first'[id] \in ToSet(listed')
    <3>1. listed \in Seq(ToSet(listed)) /\ n \in 1..Len(listed)
      BY <1>0, <1>2, <1>4, ConformanceAssumption DEF DoctorTypeOK
    <3>2. story \in ToSet(listed)
      BY <3>1 DEF story, ToSet
    <3> QED
      BY <1>2, <1>12, <3>2 DEF DoctorTypeOK
  <2> QED
    BY <1>0, <1>2, <1>4, <1>5, <1>11, <2>1, <2>2 DEF DoctorTypeOK
<1> QED
  BY <1>11, <1>15, <1>16, <1>17

-----------------------------------------------------------------------------
(* The conformance gate: every step keeps the invariant.                   *)

GateChecks == [id : ToSet(CheckIds), passed : BOOLEAN]

LEMMA Types ==
    /\ ToSet(CheckIds) = Ids
    /\ DoctorSteps = Ids \cup {"stories", "done", "raised"}
    /\ \A id \in Ids : Pass(id) \in GateChecks /\ Fail(id) \in GateChecks
    /\ \A verb : Mark(verb)' = Check(verb, answers'[verb] = "valid")
<1>1. /\ DOMAIN CheckIds = 1..9
      /\ CheckIds[1] = "executable" /\ CheckIds[2] = "doctor" /\ CheckIds[3] = "pin"
      /\ CheckIds[4] = "overview" /\ CheckIds[5] = "progress" /\ CheckIds[6] = "advice"
      /\ CheckIds[7] = "story_list" /\ CheckIds[8] = "cloze" /\ CheckIds[9] = "bad_verb"
  BY DEF CheckIds
<1>2. 1..9 = {1, 2, 3, 4, 5, 6, 7, 8, 9}
  OBVIOUS
<1>3. ToSet(CheckIds) = {CheckIds[i] : i \in {1, 2, 3, 4, 5, 6, 7, 8, 9}}
  BY <1>1, <1>2 DEF ToSet
<1>4. ToSet(CheckIds) = Ids
  BY <1>1, <1>3 DEF Ids
<1>5. \A id \in Ids : Pass(id) \in GateChecks /\ Fail(id) \in GateChecks
  BY <1>4 DEF Pass, Fail, Check, GateChecks
<1>6. \A verb : Mark(verb)' = Check(verb, answers'[verb] = "valid")
  BY DEF Mark
<1> QED
  BY <1>4, <1>5, <1>6 DEF DoctorSteps

LEMMA ResolveKeeps ==
    ASSUME DoctorIInv, ResolveExecutable
    PROVE  DoctorIInv'
<1>1. /\ probe = "executable" /\ answers["doctor"] = "not_asked"
      /\ read = <<>> /\ found = 0 /\ flawed = FALSE /\ first = <<>>
  BY DEF DoctorIInv, ResolveExecutable, ChecksFollow, ReadInTurn
<1>2. UNCHANGED <<answers, listed, read, found, flawed, first>>
  BY DEF ResolveExecutable, cloze
<1>3. \/ checks' = <<Pass("executable")>> /\ probe' = "doctor"
      \/ checks' = <<Fail("executable")>> /\ probe' = "done"
  BY DEF ResolveExecutable, Pass, Fail
<1>4. checks' \in Seq(GateChecks) /\ probe' \in DoctorSteps
  <2>1. Pass("executable") \in GateChecks /\ Fail("executable") \in GateChecks
    BY Types DEF Ids
  <2>2. \A c \in GateChecks : <<c>> \in Seq(GateChecks)
    OBVIOUS
  <2>3. checks' \in Seq(GateChecks)
    BY <1>3, <2>1, <2>2
  <2> QED
    BY <1>3, <2>3, Types DEF Ids
<1>5. DoctorTypeOK'
  BY <1>2, <1>4 DEF DoctorIInv, DoctorTypeOK, GateChecks
<1>6. ChecksFollow'
  BY <1>1, <1>2, <1>3 DEF ChecksFollow, NotThere
<1>7. ReadInTurn'
  BY <1>1, <1>2, <1>3 DEF ReadInTurn, NotThere
<1> QED
  BY <1>2, <1>3, <1>5, <1>6, <1>7, ClozeKept DEF DoctorIInv, RaisedTells

LEMMA ProbeDoctorKeeps ==
    ASSUME DoctorIInv, ProbeDoctor
    PROVE  DoctorIInv'
<1>1. PICK a \in DoctorAnswers :
        /\ answers' = [answers EXCEPT !["doctor"] = a]
        /\ checks' = IF a \in {"valid", "unsupported_pin"}
                     THEN Append(Append(checks, Pass("doctor")), Check("pin", a = "valid"))
                     ELSE Append(checks, Fail("doctor"))
  BY DEF ProbeDoctor, Answering, Pass, Fail
<1>2. /\ probe = "doctor" /\ probe' = "overview"
      /\ UNCHANGED <<listed, read, found, flawed, first>>
  BY TheProbes DEF ProbeDoctor, cloze
<1>3. /\ checks = <<Pass("executable")>>
      /\ read = <<>> /\ found = 0 /\ flawed = FALSE /\ first = <<>>
  BY <1>2 DEF DoctorIInv, ChecksFollow, ReadInTurn
<1>4. /\ answers \in [Verbs -> AnyAnswer]
      /\ checks \in Seq(GateChecks)
  BY DEF DoctorIInv, DoctorTypeOK, GateChecks
<1>5. /\ answers' \in [Verbs -> AnyAnswer]
      /\ answers'["doctor"] = a
  BY <1>1, <1>4, TheProbes DEF AnyAnswer
<1>6. PinMark' = Check("pin", a = "valid")
  BY <1>5 DEF PinMark
<1>7. checks' = BeforeOverview'
  BY <1>1, <1>3, <1>5, <1>6 DEF BeforeOverview
<1>8. checks' \in Seq(GateChecks)
  <2>1. Pass("doctor") \in GateChecks /\ Fail("doctor") \in GateChecks /\ PinMark' \in GateChecks
    BY <1>6, Types DEF Ids, Check, GateChecks
  <2>2. \A list \in Seq(GateChecks), c \in GateChecks : Append(list, c) \in Seq(GateChecks)
    OBVIOUS
  <2> QED
    BY <1>1, <1>4, <1>6, <2>1, <2>2
<1>9. DoctorTypeOK'
  BY <1>2, <1>5, <1>8, Types DEF DoctorIInv, DoctorTypeOK, GateChecks, Ids
<1>10. ChecksFollow' /\ ReadInTurn'
  BY <1>2, <1>3, <1>7 DEF ChecksFollow, ReadInTurn
<1> QED
  BY <1>2, <1>9, <1>10, ClozeKept DEF DoctorIInv, RaisedTells

\* The checks before a verb do not depend on its answer.
LEMMA ProbeVerbKeeps ==
    ASSUME DoctorIInv, NEW i \in 1..Len(Probes), ProbeVerb(i)
    PROVE  DoctorIInv'
<1> DEFINE verb == Probes[i]
<1>1. PICK a \in VerbAnswers :
        /\ answers' = [answers EXCEPT ![verb] = a]
        /\ checks' = Append(checks, Check(verb, a = "valid"))
        /\ listed' \in StoryLists \/ listed' = listed
  BY DEF ProbeVerb, Answering
<1>2. /\ probe = verb /\ probe' = AfterProbe(i)
      /\ UNCHANGED <<read, found, flawed, first>>
      /\ verb # "story_list" => listed' = listed
  BY DEF ProbeVerb
<1>3. \/ verb = "overview" /\ probe' = "progress"
      \/ verb = "progress" /\ probe' = "advice"
      \/ verb = "advice" /\ probe' = "story_list"
      \/ verb = "story_list" /\ probe' = "stories"
  BY <1>2, TheProbes DEF AfterProbe
<1> HIDE DEF verb
<1>4. read = <<>> /\ found = 0 /\ flawed = FALSE /\ first = <<>>
  BY <1>2, <1>3 DEF DoctorIInv, ReadInTurn
<1>5. /\ answers \in [Verbs -> AnyAnswer]
      /\ checks \in Seq(GateChecks)
  BY DEF DoctorIInv, DoctorTypeOK, GateChecks
<1>6. /\ answers' \in [Verbs -> AnyAnswer]
      /\ answers'[verb] = a /\ \A v \in Verbs \ {verb} : answers'[v] = answers[v]
  BY <1>1, <1>3, <1>5, TheProbes DEF AnyAnswer, VerbAnswers, DoctorAnswers
<1>7. checks' = Append(checks, Mark(verb)')
  BY <1>1, <1>6 DEF Mark
<1>8. \A v \in Verbs \ {verb} : Mark(v)' = Mark(v)
  BY <1>6 DEF Mark
<1>9. BeforeOverview' = BeforeOverview
  BY <1>3, <1>6, TheProbes DEF BeforeOverview, PinMark
<1>10. ChecksFollow'
  BY <1>2, <1>3, <1>7, <1>8, <1>9, TheProbes
    DEF DoctorIInv, ChecksFollow, BeforeProgress, BeforeAdvice, BeforeStoryList, BeforeCloze
<1>11. checks' \in Seq(GateChecks)
  <2>1. Mark(verb)' \in GateChecks
    BY <1>3, <1>6, Types DEF Mark, Ids, Check, GateChecks
  <2> QED
    BY <1>5, <1>7, <2>1
<1>12. DoctorTypeOK'
  <2>1. listed' \in {<<>>} \cup StoryLists /\ Len(listed') \in Nat
    BY <1>1, ConformanceAssumption DEF DoctorIInv, DoctorTypeOK
  <2>2. Len(read') = 0 /\ DOMAIN first' = {}
    BY <1>2, <1>4
  <2>3. probe' \in DoctorSteps
    BY <1>3, Types DEF Ids
  <2> QED
    BY <1>2, <1>6, <1>11, <2>1, <2>2, <2>3 DEF DoctorIInv, DoctorTypeOK, GateChecks
<1>13. ReadInTurn'
  BY <1>2, <1>3, <1>4 DEF ReadInTurn
<1>14. FoundCounts' /\ FlawedTells' /\ FirstTells'
  <2>1. Readable' = {} /\ 1..Len(read') = {} /\ DOMAIN first' = {} /\ found' = 0 /\ ~flawed'
    BY <1>2, <1>4 DEF Readable
  <2> QED
    BY <2>1 DEF FoundCounts, NoClozeItems, FlawedTells, FirstTells
<1> QED
  BY <1>3, <1>10, <1>12, <1>13, <1>14 DEF DoctorIInv, RaisedTells

LEMMA StoriesKeep ==
    ASSUME DoctorIInv, StoryUnreadable \/ ReadStory
    PROVE  DoctorIInv'
<1>1. probe = "stories" /\ UNCHANGED <<probe, checks, answers>>
  BY DEF StoryUnreadable, ReadStory
<1>2. ChecksFollow'
  BY <1>1 DEF DoctorIInv, ChecksFollow, BeforeCloze, BeforeStoryList, BeforeAdvice,
              BeforeProgress, BeforeOverview, Mark, PinMark
<1>3. ReadInTurn'
  BY <1>1 DEF ReadInTurn
<1> QED
  BY <1>1, <1>2, <1>3, StoryNotRead, StoryRead DEF DoctorIInv, RaisedTells

LEMMA SummarizeKeeps ==
    ASSUME DoctorIInv, SummarizeClozeCheck
    PROVE  DoctorIInv'
<1>1. /\ probe = "stories" /\ probe' = "bad_verb"
      /\ Len(read) = Len(listed)
      /\ UNCHANGED <<answers, listed, read, found, flawed, first>>
      /\ checks' = Append(checks, ClozeMark)
  BY DEF SummarizeClozeCheck, cloze, ClozeMark
<1>2. checks = BeforeCloze /\ checks \in Seq(GateChecks)
  BY <1>1 DEF DoctorIInv, ChecksFollow, DoctorTypeOK, GateChecks
<1>3. BeforeBadVerb' = BeforeBadVerb
  BY <1>1 DEF BeforeBadVerb, ClozeMark, BeforeCloze, BeforeStoryList, BeforeAdvice,
              BeforeProgress, BeforeOverview, Mark, PinMark
<1>4. checks' = BeforeBadVerb'
  BY <1>1, <1>2, <1>3 DEF BeforeBadVerb
<1>5. checks' \in Seq(GateChecks)
  <2>1. ClozeMark \in GateChecks
    BY Types DEF ClozeMark, Check, GateChecks, Ids
  <2> QED
    BY <1>1, <1>2, <2>1
<1>6. DoctorTypeOK'
  BY <1>1, <1>5, Types DEF DoctorIInv, DoctorTypeOK, GateChecks, Ids
<1>7. ChecksFollow' /\ ReadInTurn'
  BY <1>1, <1>4 DEF ChecksFollow, ReadInTurn
<1> QED
  BY <1>1, <1>6, <1>7, ClozeKept DEF DoctorIInv, RaisedTells

LEMMA BadVerbKeeps ==
    ASSUME DoctorIInv, ProbeErrorContract
    PROVE  DoctorIInv'
<1>1. PICK a \in BadVerbAnswers :
        /\ answers' = [answers EXCEPT !["bad_verb"] = a]
        /\ checks' = Append(checks, Check("bad_verb", a = "valid"))
  BY DEF ProbeErrorContract, Answering
<1>2. /\ probe = "bad_verb" /\ probe' = "done"
      /\ UNCHANGED <<listed, read, found, flawed, first>>
  BY DEF ProbeErrorContract, cloze
<1>3. /\ answers \in [Verbs -> AnyAnswer]
      /\ checks = BeforeBadVerb /\ checks \in Seq(GateChecks)
      /\ Len(read) = Len(listed)
  BY <1>2 DEF DoctorIInv, DoctorTypeOK, ChecksFollow, ReadInTurn, GateChecks
<1>4. /\ answers' \in [Verbs -> AnyAnswer]
      /\ answers'["bad_verb"] = a
      /\ \A v \in Verbs \ {"bad_verb"} : answers'[v] = answers[v]
  BY <1>1, <1>3, TheProbes DEF AnyAnswer
<1>5. checks' = Append(checks, Mark("bad_verb")')
  BY <1>1, <1>4 DEF Mark
<1>6. \A v \in Verbs \ {"bad_verb"} : Mark(v)' = Mark(v)
  BY <1>4 DEF Mark
<1>7. BeforeOverview' = BeforeOverview /\ ClozeMark' = ClozeMark
  BY <1>2, <1>4, TheProbes DEF BeforeOverview, PinMark, ClozeMark
<1>8. BeforeBadVerb' = BeforeBadVerb
  BY <1>6, <1>7, TheProbes
    DEF BeforeProgress, BeforeAdvice, BeforeStoryList, BeforeCloze, BeforeBadVerb
<1>9. checks' = AllChecks'
  BY <1>3, <1>5, <1>8 DEF AllChecks
<1>10. checks' \in Seq(GateChecks)
  <2>1. Mark("bad_verb")' \in GateChecks
    BY Types DEF Mark, Ids, Check, GateChecks
  <2> QED
    BY <1>3, <1>5, <2>1
<1>11. DoctorTypeOK'
  BY <1>2, <1>4, <1>10, Types DEF DoctorIInv, DoctorTypeOK, GateChecks
<1>12. ChecksFollow' /\ ReadInTurn'
  BY <1>2, <1>3, <1>9 DEF ChecksFollow, ReadInTurn
<1> QED
  BY <1>2, <1>11, <1>12, ClozeKept DEF DoctorIInv, RaisedTells

\* Output that does not decode ends the gate.
LEMMA RaiseKeeps ==
    ASSUME DoctorIInv, GateRaises
    PROVE  DoctorIInv'
<1>1. /\ probe' = "raised"
      /\ UNCHANGED <<checks, listed, read, found, flawed, first>>
  BY DEF GateRaises, cloze
<1>2. answers \in [Verbs -> AnyAnswer]
  BY DEF DoctorIInv, DoctorTypeOK
<1>3. \/ \E verb \in Verbs : answers' = [answers EXCEPT ![verb] = Undecodable]
      \/ answers' = answers /\ Len(read) < Len(listed)
  BY DEF GateRaises, Answering
<1>4. answers' \in [Verbs -> AnyAnswer]
  BY <1>2, <1>3 DEF AnyAnswer
<1>5. DoctorTypeOK'
  BY <1>1, <1>4, Types DEF DoctorIInv, DoctorTypeOK
<1>6. ChecksFollow' /\ ReadInTurn'
  BY <1>1 DEF ChecksFollow, ReadInTurn
<1>7. RaisedTells'
  BY <1>1, <1>2, <1>3 DEF RaisedTells
<1> QED
  BY <1>1, <1>5, <1>6, <1>7, ClozeKept DEF DoctorIInv

LEMMA DoctorInvariant == DoctorSpec => []DoctorIInv
<1>1. DoctorInit => DoctorIInv
  <2> SUFFICES ASSUME DoctorInit PROVE DoctorIInv
    OBVIOUS
  <2>1. /\ probe = "executable" /\ checks = <<>> /\ answers = [v \in Verbs |-> "not_asked"]
        /\ listed = <<>> /\ read = <<>> /\ found = 0 /\ flawed = FALSE /\ first = <<>>
    BY DEF DoctorInit
  <2>2. DoctorTypeOK
    <3>1. Len(read) = 0 /\ Len(listed) = 0 /\ found \in Nat
      BY <2>1
    <3>2. flawed \in BOOLEAN /\ listed \in {<<>>} \cup StoryLists
      BY <2>1, Zenon
    <3>3. checks \in Seq([id : ToSet(CheckIds), passed : BOOLEAN])
      BY <2>1
    <3>4. answers \in [Verbs -> AnyAnswer]
      BY <2>1 DEF AnyAnswer
    <3>5. probe \in DoctorSteps
      BY <2>1, Types DEF Ids
    <3>6. read \in Seq(StoryReads)
      BY <2>1
    <3>7. \A id \in DOMAIN first : id # Missing /\ first[id] \in ToSet(listed)
      BY <2>1
    <3> QED
      BY <3>1, <3>2, <3>3, <3>4, <3>5, <3>6, <3>7 DEF DoctorTypeOK
  <2>3. ChecksFollow /\ ReadInTurn /\ RaisedTells
    BY <2>1, TheProbes DEF ChecksFollow, ReadInTurn, RaisedTells
  <2> QED
    BY <2>1, <2>2, <2>3, NothingRead DEF DoctorIInv
<1>2. DoctorIInv /\ [DoctorNext]_doctorVars => DoctorIInv'
  <2> SUFFICES ASSUME DoctorIInv, [DoctorNext]_doctorVars PROVE DoctorIInv'
    OBVIOUS
  <2>1. CASE DoctorNext
    BY <2>1, ResolveKeeps, ProbeDoctorKeeps, ProbeVerbKeeps, StoriesKeep, SummarizeKeeps,
       BadVerbKeeps, RaiseKeeps DEF DoctorNext
  <2>2. CASE UNCHANGED doctorVars
    <3>1. UNCHANGED <<probe, checks, answers, listed, read, found, flawed, first>>
      BY <2>2 DEF doctorVars
    <3>2. DoctorTypeOK'
      BY <3>1 DEF DoctorIInv, DoctorTypeOK
    <3>3. ChecksFollow'
      <4>1. /\ BeforeOverview' = BeforeOverview /\ BeforeProgress' = BeforeProgress
            /\ BeforeAdvice' = BeforeAdvice /\ BeforeStoryList' = BeforeStoryList
            /\ BeforeCloze' = BeforeCloze /\ BeforeBadVerb' = BeforeBadVerb
            /\ AllChecks' = AllChecks /\ NotThere' = NotThere
        BY <3>1, Zenon DEF AllChecks, BeforeBadVerb, BeforeCloze, BeforeStoryList,
             BeforeAdvice, BeforeProgress, BeforeOverview, Mark, PinMark, ClozeMark, NotThere
      <4> QED
        BY <3>1, <4>1 DEF DoctorIInv, ChecksFollow
    <3>4. ReadInTurn' /\ RaisedTells'
      BY <3>1 DEF DoctorIInv, ReadInTurn, RaisedTells, NotThere
    <3> QED
      BY <3>1, <3>2, <3>3, <3>4, ClozeKept DEF DoctorIInv
  <2> QED
    BY <2>1, <2>2
<1> QED
  BY <1>1, <1>2, PTL DEF DoctorSpec

-----------------------------------------------------------------------------
(* The conformance gate: theorems.                                         *)

\* Every state of the gate has its type (learn/subjects/conformance.py).
THEOREM DoctorTypeCorrect == DoctorSpec => []DoctorTypeOK
<1>1. DoctorIInv => DoctorTypeOK
  BY DEF DoctorIInv
<1> QED
  BY <1>1, DoctorInvariant, PTL

\* For any stories and exercises a subject may answer with, a verdict is the
\* contract's, but for the ids the gate does not compare: healthy exactly if
\* the subject is there, answered every verb validly and its cloze items conform
\* or have no other fault (learn/subjects/conformance.py).
THEOREM HealthyHolds == DoctorSpec => []HealthyMeansConformant
<1>1. DoctorIInv => HealthyMeansConformant
  <2> SUFFICES ASSUME DoctorIInv, probe = "done"
               PROVE  Healthy <=> /\ \A v \in Verbs : answers[v] = "valid"
                                  /\ ClozeConformant \/ IdsOverlooked \/ NoClozeItems
    BY DEF HealthyMeansConformant
  <2>1. CASE NotThere
    <3>1. ~Healthy
      <4>1. Len(checks) = 1 /\ checks[1] = Fail("executable")
        BY <2>1 DEF NotThere
      <4>2. ~checks[1].passed
        BY <4>1 DEF Fail, Check
      <4> QED
        BY <4>1, <4>2 DEF Healthy
    <3> QED
      BY <2>1, <3>1, TheProbes DEF NotThere
  <2>2. CASE ~NotThere
    <3>1. checks = AllChecks /\ Len(read) = Len(listed)
      BY <2>2 DEF DoctorIInv, ChecksFollow, ReadInTurn
    <3>2. Healthy <=> Passed(AllChecks)
      BY <3>1 DEF Healthy, Passed
    <3>3. ~flawed <=> ClozeConformant \/ IdsOverlooked
      BY <3>1, ClozeVerdict, Overlooked DEF DoctorIInv
    <3>4. found = 0 <=> NoClozeItems
      BY DEF DoctorIInv, FoundCounts
    <3> QED
      BY <3>2, <3>3, <3>4, Finished
  <2> QED
    BY <2>1, <2>2
<1> QED
  BY <1>1, DoctorInvariant, PTL

\* No verdict skips a check, whatever the subject answers: a finished list holds
\* each check once and in order, and one without the pin is not healthy.  A gate
\* that ended without a verdict had output that does not decode.
THEOREM SkippedHolds == DoctorSpec => []NoCheckSkipped
<1>1. DoctorIInv => NoCheckSkipped
  <2> DEFINE ids == [i \in 1..Len(checks) |-> checks[i].id]
  <2> SUFFICES ASSUME DoctorIInv, probe = "done", checks[1].passed
               PROVE  ids = CheckIds \/ (~Healthy /\ ids = CheckIdsButPin)
    BY DEF NoCheckSkipped, DoctorIInv, RaisedTells
  <2>1. checks = AllChecks
    <3>1. Fail("executable").passed = FALSE
      BY DEF Fail, Check
    <3>2. NotThere => checks[1] = Fail("executable")
      BY DEF NotThere
    <3> QED
      BY <3>1, <3>2 DEF DoctorIInv, ChecksFollow
  <2>2. ASSUME NEW known \in Seq(Ids), Begins(AllChecks, known), Len(AllChecks) = Len(known)
        PROVE  ids = known
    <3>1. ids = [i \in 1..Len(known) |-> known[i]]
      BY <2>1, <2>2 DEF Begins
    <3> QED
      BY <3>1
  <2>3. CheckIds \in Seq(Ids) /\ Len(CheckIds) = 9
    BY DEF CheckIds, Ids
  <2>4. CheckIdsButPin \in Seq(Ids) /\ Len(CheckIdsButPin) = 8
    BY DEF CheckIdsButPin, Ids
  <2>5. Healthy => \A v \in Verbs : answers[v] = "valid"
    BY <2>1, Finished DEF Healthy, Passed
  <2> QED
    BY <2>2, <2>3, <2>4, <2>5, Finished, TheProbes
<1> QED
  BY <1>1, DoctorInvariant, PTL

-----------------------------------------------------------------------------
(* The motivation layer: places in a strict order, counted from behind.    *)

StrictOrder(D, R) ==
    /\ \A j \in D : <<j, j>> \notin R
    /\ \A j, k \in D : j # k => <<j, k>> \in R \/ <<k, j>> \in R
    /\ \A i, j, k \in D : <<i, j>> \in R /\ <<j, k>> \in R => <<i, k>> \in R
Before(D, R, k) == {j \in D : <<j, k>> \in R}
RankIn(D, R, k) == Cardinality(Before(D, R, k))

\* What comes later has more before it.
LEMMA RanksAscend ==
    ASSUME NEW D, IsFiniteSet(D), NEW R, StrictOrder(D, R),
           NEW j \in D, NEW k \in D, <<j, k>> \in R
    PROVE  RankIn(D, R, j) < RankIn(D, R, k)
<1> DEFINE A == Before(D, R, j)
           B == Before(D, R, k)
<1>1. A \cup {j} \subseteq B /\ j \notin A /\ A \subseteq D /\ B \subseteq D
  BY Zenon DEF Before, StrictOrder
<1> HIDE DEF A, B
<1>2. IsFiniteSet(A) /\ IsFiniteSet(B)
  BY <1>1, FS_Subset
<1>3. Cardinality(A \cup {j}) = Cardinality(A) + 1
  BY <1>1, <1>2, FS_AddElement
<1>4. Cardinality(A \cup {j}) <= Cardinality(B)
  BY <1>1, <1>2, FS_Subset
<1>5. Cardinality(A) \in Nat /\ Cardinality(B) \in Nat
  BY <1>2, FS_CardinalityType
<1>6. Cardinality(A) < Cardinality(B)
  BY <1>3, <1>4, <1>5
<1> QED
  BY <1>6 DEF A, B, RankIn

\* Places are smaller than the number of all, and each is somebody's.
LEMMA RanksFill ==
    ASSUME NEW D, IsFiniteSet(D), NEW R, StrictOrder(D, R)
    PROVE  /\ Cardinality(D) \in Nat
           /\ \A k \in D : RankIn(D, R, k) \in 0..(Cardinality(D) - 1)
           /\ \A n \in 1..Cardinality(D) : \E k \in D : RankIn(D, R, k) = n - 1
<1> DEFINE size == Cardinality(D)
           rank == [k \in D |-> RankIn(D, R, k)]
<1>1. size \in Nat
  BY FS_CardinalityType
<1>2. \A k \in D : RankIn(D, R, k) \in 0..(size - 1)
  <2> TAKE k \in D
  <2>1. Before(D, R, k) \subseteq D \ {k}
    BY DEF Before, StrictOrder
  <2>2. IsFiniteSet(D \ {k}) /\ Cardinality(D \ {k}) = size - 1
    BY FS_RemoveElement
  <2>3. IsFiniteSet(Before(D, R, k)) /\ Cardinality(Before(D, R, k)) <= size - 1
    BY <2>1, <2>2, FS_Subset
  <2>4. Cardinality(Before(D, R, k)) \in Nat
    BY <2>3, FS_CardinalityType
  <2> HIDE DEF size
  <2> QED
    BY <1>1, <2>3, <2>4 DEF RankIn
<1>3. \A j, k \in D : RankIn(D, R, j) = RankIn(D, R, k) => j = k
  <2> SUFFICES ASSUME NEW j \in D, NEW k \in D, j # k,
                      RankIn(D, R, j) = RankIn(D, R, k)
               PROVE  FALSE
    OBVIOUS
  <2>1. <<j, k>> \in R \/ <<k, j>> \in R
    BY DEF StrictOrder
  <2>2. RankIn(D, R, j) < RankIn(D, R, k) \/ RankIn(D, R, k) < RankIn(D, R, j)
    BY <2>1, RanksAscend
  <2> QED
    BY <1>1, <1>2, <2>2
<1>4. rank \in Injection(D, 0..(size - 1))
  <2>1. rank \in [D -> 0..(size - 1)]
    BY <1>2
  <2>2. \A j, k \in D : rank[j] = rank[k] => j = k
    BY <1>3
  <2> QED
    BY <2>1, <2>2 DEF Injection, IsInjective
<1>5. IsFiniteSet(0..(size - 1)) /\ Cardinality(0..(size - 1)) = size
  <2> HIDE DEF size
  <2>1. size - 1 \in Int /\ 0 \in Int
    BY <1>1
  <2> QED
    BY <1>1, <2>1, FS_Interval
<1>6. rank \in Surjection(D, 0..(size - 1))
  BY <1>4, <1>5, FS_Injection
<1>7. \A n \in 0..(size - 1) : \E k \in D : RankIn(D, R, k) = n
  BY <1>6 DEF Surjection
<1> HIDE DEF size
<1>8. \A n \in 1..size : \E k \in D : RankIn(D, R, k) = n - 1
  <2> TAKE n \in 1..size
  <2>1. n - 1 \in 0..(size - 1)
    BY <1>1
  <2> QED
    BY <1>7, <2>1
<1> QED
  BY <1>1, <1>2, <1>8 DEF size

-----------------------------------------------------------------------------
(* The motivation layer: the ledger and what it says of an item.           *)

\* Rows are what a subject stamped, none of them of a day to come.
LedgerRows ==
    [subject : SubjectNumbers, item : Nat, activity : STRING, result : STRING,
     correct : Nat, total : Nat, day : Nat]
LedgerInv ==
    /\ day \in 1..MaxDay
    /\ ledger \in Seq(LedgerRows) /\ Len(ledger) <= MaxEntries
    /\ \A i \in Entries : ledger[i].day \in 1..day

LEMMA MaxIs ==
    ASSUME NEW n \in Nat, NEW S \in SUBSET (0..n), S # {}
    PROVE  Max(S) \in S /\ \A i \in S : i <= Max(S)
<1> DEFINE T == {n - i : i \in S}
<1>0. \A i \in S : i \in 0..n /\ i \in Int
  OBVIOUS
<1>1. T \in SUBSET Nat /\ T # {}
  <2>1. \A i \in S : n - i \in Nat
    BY <1>0
  <2>2. PICK i \in S : TRUE
    OBVIOUS
  <2>3. n - i \in T
    OBVIOUS
  <2>4. T \subseteq Nat
    BY <2>1
  <2> QED
    BY <2>3, <2>4
<1>2. PICK f \in T : \A g \in T : f <= g
  <2> HIDE DEF T
  <2> QED
    BY <1>1, LeastElement
<1>3. PICK m \in S : f = n - m
  BY <1>2
<1>4. \A i \in S : m >= i
  <2> TAKE i \in S
  <2>1. n - m <= n - i
    BY <1>2, <1>3
  <2>2. i \in Int /\ m \in Int
    BY <1>0
  <2> QED
    BY <2>1, <2>2
<1>5. Max(S) \in S /\ \A i \in S : Max(S) >= i
  BY <1>4 DEF Max
<1>6. \A i \in S : i \in Int
  BY <1>0
<1> QED
  BY <1>5, <1>6

\* Every level is one of the four.
LEMMA RanksAre ==
    \A result : Rank(result) \in 1..4 /\ (result = "pass" => Rank(result) = 4)
  BY DEF Rank

LEMMA LevelsAre ==
    /\ \A n \in 1..4 : Levels[n] \in {"unknown", "introduced", "practiced", "mastered"}
    /\ Levels[4] = "mastered"
<1>1. 1..4 = {1, 2, 3, 4}
  OBVIOUS
<1> QED
  BY <1>1 DEF Levels

\* An item is known by its rows, and the last of them is one.
LEMMA ItemsAre ==
    ASSUME LedgerInv, NEW key \in Keys
    PROVE  /\ EntriesOf(key) \subseteq Entries
           /\ LastOf(key) \in EntriesOf(key)
           /\ \A i \in EntriesOf(key) : i <= LastOf(key)
           /\ Key(ledger[LastOf(key)]) = key
           /\ LastSeen(key) \in Nat
           /\ key[1] \in SubjectNumbers
           /\ InferMastery(key) \in {"unknown", "introduced", "practiced", "mastered"}
<1>1. Len(ledger) \in Nat /\ DOMAIN ledger = Entries
      /\ \A i \in Entries : ledger[i] \in LedgerRows
  BY DEF LedgerInv, Entries
<1>2. EntriesOf(key) \subseteq Entries
  BY DEF EntriesOf
<1>3. PICK i \in Entries : Key(ledger[i]) = key
  BY <1>1 DEF Keys, ToSet
<1>4. i \in EntriesOf(key)
  BY <1>3 DEF EntriesOf
<1>5. EntriesOf(key) \in SUBSET (0..Len(ledger)) /\ EntriesOf(key) # {}
  BY <1>1, <1>2, <1>4 DEF Entries
<1>6. LastOf(key) \in EntriesOf(key) /\ \A n \in EntriesOf(key) : n <= LastOf(key)
  BY <1>1, <1>5, MaxIs DEF LastOf
<1>7. Key(ledger[LastOf(key)]) = key
  BY <1>6 DEF EntriesOf
<1>8. LastSeen(key) \in Nat
  BY <1>1, <1>2, <1>6 DEF LastSeen, LedgerRows
<1>9. key[1] \in SubjectNumbers
  BY <1>1, <1>3 DEF Key, LedgerRows
<1>10. InferMastery(key) \in {"unknown", "introduced", "practiced", "mastered"}
  <2> DEFINE ranks == {Rank(ledger[n].result) : n \in EntriesOf(key)}
  <2>1. ranks \in SUBSET (0..4) /\ ranks # {} /\ ranks \subseteq 1..4
    <3>1. \A n \in EntriesOf(key) : Rank(ledger[n].result) \in 1..4
      BY RanksAre
    <3> QED
      BY <1>4, <3>1
  <2>2. Max(ranks) \in 1..4
    <3> HIDE DEF ranks
    <3> QED
      BY <2>1, MaxIs
  <2> QED
    BY <2>2, LevelsAre DEF InferMastery
<1> QED
  BY <1>2, <1>6, <1>7, <1>8, <1>9, <1>10

LEMMA KeysAreFinite ==
    ASSUME LedgerInv
    PROVE  IsFiniteSet(Keys)
<1> DEFINE f == [i \in Entries |-> Key(ledger[i])]
<1>1. Len(ledger) \in Nat /\ DOMAIN ledger = Entries
  BY DEF LedgerInv, Entries
<1>2. IsFiniteSet(Entries)
  <2>1. 1 \in Int /\ Len(ledger) \in Int
    BY <1>1
  <2> QED
    BY <2>1, FS_Interval DEF Entries
<1>3. f \in [Entries -> Keys] /\ \A key \in Keys : \E i \in Entries : f[i] = key
  BY <1>1 DEF Keys, ToSet
<1>4. f \in Surjection(Entries, Keys)
  <2> HIDE DEF f
  <2> QED
    BY <1>3 DEF Surjection
<1> QED
  BY <1>2, <1>4, FS_Surjection

\* What is due has an age, and no two items end with the same row.
LEMMA DueItems ==
    ASSUME LedgerInv
    PROVE  /\ Due \subseteq Keys /\ IsFiniteSet(Due)
           /\ \A key \in Due : Age(key) \in Int
           /\ \A key \in Keys : LastOf(key) \in Nat
           /\ \A j, k \in Keys : LastOf(j) = LastOf(k) => j = k
<1>1. Due \subseteq Keys
  BY DEF Due
<1>2. IsFiniteSet(Due)
  BY <1>1, KeysAreFinite, FS_Subset
<1>3. \A key \in Due : Age(key) \in Int
  <2> TAKE key \in Due
  <2>1. InferMastery(key) \in {"introduced", "practiced", "mastered"} /\ LastSeen(key) \in Nat
    BY <1>1, ItemsAre DEF Due
  <2>2. HeadStart(InferMastery(key)) \in Nat
    BY <2>1 DEF HeadStart
  <2>3. day \in Nat /\ HALF_LIFE_DAYS \in Nat
    BY MotivationAssumption DEF LedgerInv
  <2>4. HeadStart(InferMastery(key)) * HALF_LIFE_DAYS \in Int
    BY <2>2, <2>3
  <2> QED
    BY <2>1, <2>3, <2>4 DEF Age, Unit
<1>4. \A key \in Keys : LastOf(key) \in Nat
  BY ItemsAre DEF Entries
<1>5. \A j, k \in Keys : LastOf(j) = LastOf(k) => j = k
  <2> SUFFICES ASSUME NEW j \in Keys, NEW k \in Keys, LastOf(j) = LastOf(k)
               PROVE  j = k
    OBVIOUS
  <2>1. Key(ledger[LastOf(j)]) = j /\ Key(ledger[LastOf(k)]) = k
    BY ItemsAre
  <2> QED
    BY <2>1
<1> QED
  BY <1>1, <1>2, <1>3, <1>4, <1>5

-----------------------------------------------------------------------------
(* The motivation layer: the queue holds what is due, in order.            *)

BeforeIt(k) == Cardinality({j \in Due : Precedes(j, k)})
DueOrder == {p \in Due \X Due : Precedes(p[1], p[2])}

LEMMA DueInOrder ==
    ASSUME LedgerInv
    PROVE  /\ StrictOrder(Due, DueOrder)
           /\ \A j, k \in Due : <<j, k>> \in DueOrder <=> Precedes(j, k)
           /\ \A k \in Due : {j \in Due : Precedes(j, k)} = Before(Due, DueOrder, k)
<1>1. \A j, k \in Due : <<j, k>> \in DueOrder <=> Precedes(j, k)
  BY DEF DueOrder
<1>2. \A k \in Due : Age(k) \in Int /\ LastOf(k) \in Nat
  BY DueItems
<1>3. \A j, k \in Due : LastOf(j) = LastOf(k) => j = k
  BY DueItems
<1>4. \A j \in Due : ~Precedes(j, j)
  BY <1>2 DEF Precedes
<1>5. \A j, k \in Due : j # k => Precedes(j, k) \/ Precedes(k, j)
  BY <1>2, <1>3 DEF Precedes
<1>6. \A i, j, k \in Due : Precedes(i, j) /\ Precedes(j, k) => Precedes(i, k)
  BY <1>2 DEF Precedes
<1>7. StrictOrder(Due, DueOrder)
  BY <1>1, <1>4, <1>5, <1>6, Zenon DEF StrictOrder
<1> QED
  BY <1>1, <1>7 DEF Before

\* The n-th of the queue has n - 1 items before it.
LEMMA QueuePlaces ==
    ASSUME LedgerInv
    PROVE  /\ Cardinality(Due) \in Nat
           /\ ReviewQueue \in Seq(Due) /\ Len(ReviewQueue) = Cardinality(Due)
           /\ \A n \in 1..Cardinality(Due) :
                ReviewQueue[n] \in Due /\ RankIn(Due, DueOrder, ReviewQueue[n]) = n - 1
<1> DEFINE size == Cardinality(Due)
           nth == [n \in 1..size |-> CHOOSE k \in Due : RankIn(Due, DueOrder, k) = n - 1]
<1>1. IsFiniteSet(Due) /\ StrictOrder(Due, DueOrder)
  BY DueItems, DueInOrder
<1>2. /\ size \in Nat
      /\ \A n \in 1..size : \E k \in Due : RankIn(Due, DueOrder, k) = n - 1
  BY <1>1, RanksFill
<1>3. \A n \in 1..size : nth[n] \in Due /\ RankIn(Due, DueOrder, nth[n]) = n - 1
  <2> TAKE n \in 1..size
  <2>1. nth[n] = CHOOSE k \in Due : RankIn(Due, DueOrder, k) = n - 1
    OBVIOUS
  <2>2. \E k \in Due : RankIn(Due, DueOrder, k) = n - 1
    BY <1>2
  <2> HIDE DEF nth
  <2> QED
    BY <2>1, <2>2
<1>4. ReviewQueue = nth
  <2>1. \A k \in Due : BeforeIt(k) = RankIn(Due, DueOrder, k)
    BY DueInOrder DEF RankIn, BeforeIt
  <2> DEFINE queue == [n \in 1..size |-> CHOOSE k \in Due : BeforeIt(k) = n - 1]
  <2>2. ReviewQueue = queue
    BY DEF ReviewQueue, BeforeIt
  <2>3. ASSUME NEW n \in 1..size
        PROVE  queue[n] = nth[n]
    <3>1. queue[n] = CHOOSE k \in Due : BeforeIt(k) = n - 1
      OBVIOUS
    <3>2. nth[n] = CHOOSE k \in Due : RankIn(Due, DueOrder, k) = n - 1
      OBVIOUS
    <3> HIDE DEF nth, queue
    <3> QED
      BY <2>1, <3>1, <3>2
  <2>4. queue = [n \in 1..size |-> queue[n]]
    OBVIOUS
  <2>5. nth = [n \in 1..size |-> nth[n]]
    OBVIOUS
  <2> HIDE DEF nth, queue, size
  <2> QED
    BY <2>2, <2>3, <2>4, <2>5
<1>5. nth \in Seq(Due) /\ Len(nth) = size
  <2>1. nth \in [1..size -> Due] /\ DOMAIN nth = 1..size
    BY <1>3
  <2> HIDE DEF nth, size
  <2> QED
    BY <1>2, <2>1
<1> HIDE DEF nth
<1> QED
  BY <1>2, <1>3, <1>4, <1>5

LEMMA QueueInOrder ==
    ASSUME LedgerInv
    PROVE  /\ \A m, n \in 1..Len(ReviewQueue) :
                 m < n <=> Precedes(ReviewQueue[m], ReviewQueue[n])
           /\ \A k \in Due : \E n \in 1..Len(ReviewQueue) : ReviewQueue[n] = k
<1> DEFINE queue == ReviewQueue
<1>1. IsFiniteSet(Due) /\ StrictOrder(Due, DueOrder)
  BY DueItems, DueInOrder
<1>2. /\ Len(queue) \in Nat /\ Len(queue) = Cardinality(Due)
      /\ \A n \in 1..Len(queue) : queue[n] \in Due /\ RankIn(Due, DueOrder, queue[n]) = n - 1
  BY QueuePlaces
<1>3. \A j, k \in Due : Precedes(j, k) =>
          RankIn(Due, DueOrder, j) < RankIn(Due, DueOrder, k)
  BY <1>1, RanksAscend, DueInOrder
<1>4. \A j, k \in Due : j = k \/ Precedes(j, k) \/ Precedes(k, j)
  BY DueInOrder DEF StrictOrder
<1>5. \A k \in Due : RankIn(Due, DueOrder, k) \in 0..(Len(queue) - 1)
  BY <1>1, <1>2, RanksFill
<1> HIDE DEF queue
<1>6. \A m, n \in 1..Len(queue) : m < n <=> Precedes(queue[m], queue[n])
  <2> TAKE m, n \in 1..Len(queue)
  <2>1. queue[m] \in Due /\ queue[n] \in Due
        /\ RankIn(Due, DueOrder, queue[m]) = m - 1 /\ RankIn(Due, DueOrder, queue[n]) = n - 1
    BY <1>2
  <2>2. m \in Int /\ n \in Int
    BY <1>2
  <2>3. Precedes(queue[m], queue[n]) => m - 1 < n - 1
    BY <1>3, <2>1
  <2>4. Precedes(queue[n], queue[m]) => n - 1 < m - 1
    BY <1>3, <2>1
  <2>5. queue[m] = queue[n] => m - 1 = n - 1
    BY <2>1
  <2>6. queue[m] = queue[n] \/ Precedes(queue[m], queue[n]) \/ Precedes(queue[n], queue[m])
    BY <1>4, <2>1
  <2> QED
    BY <2>2, <2>3, <2>4, <2>5, <2>6
<1>7. \A k \in Due : \E n \in 1..Len(queue) : queue[n] = k
  <2> TAKE k \in Due
  <2> DEFINE n == RankIn(Due, DueOrder, k) + 1
  <2>1. n \in 1..Len(queue) /\ RankIn(Due, DueOrder, k) = n - 1
    BY <1>2, <1>5
  <2> HIDE DEF n
  <2>2. queue[n] \in Due /\ RankIn(Due, DueOrder, queue[n]) = n - 1
    BY <1>2, <2>1
  <2>3. n - 1 \in Int
    BY <1>2, <2>1
  <2>4. ~Precedes(queue[n], k) /\ ~Precedes(k, queue[n])
    BY <1>3, <2>1, <2>2, <2>3
  <2>5. queue[n] = k
    BY <1>4, <2>2, <2>4
  <2> QED
    BY <2>1, <2>5
<1> QED
  BY <1>6, <1>7 DEF queue

\* What the queue says of any two items.
QueueSays ==
    /\ ToSet(ReviewQueue) = Due
    /\ \A j, k : Ahead(ReviewQueue, j, k) <=> (j \in Due /\ k \in Due /\ Precedes(j, k))

LEMMA QueueTells ==
    ASSUME LedgerInv
    PROVE  QueueSays
<1> DEFINE queue == ReviewQueue
<1>1. queue \in Seq(Due)
  BY QueuePlaces
<1>2. /\ \A m, n \in 1..Len(queue) : m < n <=> Precedes(queue[m], queue[n])
      /\ \A k \in Due : \E n \in 1..Len(queue) : queue[n] = k
  BY QueueInOrder
<1> HIDE DEF queue
<1>3. DOMAIN queue = 1..Len(queue) /\ \A n \in 1..Len(queue) : queue[n] \in Due
  BY <1>1
<1>4. ToSet(queue) = Due
  BY <1>2, <1>3 DEF ToSet
<1>5. \A j, k : Ahead(queue, j, k) => j \in Due /\ k \in Due /\ Precedes(j, k)
  <2> SUFFICES ASSUME NEW j, NEW k, Ahead(queue, j, k)
               PROVE  j \in Due /\ k \in Due /\ Precedes(j, k)
    OBVIOUS
  <2>1. PICK m, n \in 1..Len(queue) : m < n /\ queue[m] = j /\ queue[n] = k
    BY DEF Ahead
  <2>2. Precedes(queue[m], queue[n]) /\ queue[m] \in Due /\ queue[n] \in Due
    BY <1>2, <1>3, <2>1
  <2> QED
    BY <2>1, <2>2
<1>6. \A j, k : j \in Due /\ k \in Due /\ Precedes(j, k) => Ahead(queue, j, k)
  <2> SUFFICES ASSUME NEW j, NEW k, j \in Due, k \in Due, Precedes(j, k)
               PROVE  Ahead(queue, j, k)
    OBVIOUS
  <2>1. PICK m \in 1..Len(queue) : queue[m] = j
    BY <1>2
  <2>2. PICK n \in 1..Len(queue) : queue[n] = k
    BY <1>2
  <2>3. m < n
    BY <1>2, <2>1, <2>2
  <2> QED
    BY <2>1, <2>2, <2>3 DEF Ahead
<1> QED
  BY <1>4, <1>5, <1>6 DEF QueueSays, queue

-----------------------------------------------------------------------------
(* The motivation layer: scores.                                           *)

\* A quotient is at most what its dividend allows.
LEMMA QuotientBound ==
    ASSUME NEW n \in Nat, NEW d \in Nat \ {0}, NEW q \in Nat, n < (q + 1) * d
    PROVE  n \div d \in 0..q
<1>1. n \div d \in Nat
  OBVIOUS
<1>2. (n \div d) * d <= n
  OBVIOUS
<1>3. ASSUME n \div d >= q + 1
      PROVE  FALSE
  <2>1. (n \div d) * d >= (q + 1) * d
    BY <1>1, <1>3
  <2> QED
    BY <1>2, <2>1
<1> QED
  BY <1>1, <1>3

\* A score is between 0 and 100, however many right answers a row claims.
LEMMA ScoresAre ==
    ASSUME NEW r \in LedgerRows
    PROVE  ScoreExercise(r) \in 0..100
<1>1. ResultScore(r.result) \in {0, 60, 100}
  BY DEF ResultScore
<1>2. r.total \in Nat /\ r.correct \in Nat
  BY DEF LedgerRows
<1>3. Accurate(r) \in Nat /\ Accurate(r) <= r.total
  BY <1>2 DEF Accurate
<1>4. CASE r.total > 0
  <2> DEFINE part == 6 * ResultScore(r.result) * r.total + 400 * Accurate(r)
             n == 2 * part + 10 * r.total
             d == 2 * (10 * r.total)
  <2>1. part \in Nat /\ part <= 1000 * r.total
    <3>1. ResultScore(r.result) * r.total \in Nat
          /\ ResultScore(r.result) * r.total <= 100 * r.total
      BY <1>1, <1>2
    <3>2. 6 * ResultScore(r.result) * r.total = 6 * (ResultScore(r.result) * r.total)
      BY <1>1, <1>2
    <3> QED
      BY <1>2, <1>3, <3>1, <3>2
  <2> HIDE DEF part
  <2>2. n \in Nat /\ d \in Nat \ {0} /\ n < (100 + 1) * d
    BY <1>2, <1>4, <2>1
  <2>3. ScoreExercise(r) = n \div d
    BY <1>4 DEF ScoreExercise, RoundHalfUp, part
  <2> HIDE DEF n, d
  <2> QED
    BY <2>2, <2>3, QuotientBound
<1>5. CASE ~(r.total > 0)
  BY <1>1, <1>5 DEF ScoreExercise
<1> QED
  BY <1>4, <1>5

-----------------------------------------------------------------------------
(* The motivation layer: the invariant.                                    *)

LEMMA EventsAre ==
    ASSUME NEW e \in Events, NEW today \in Nat
    PROVE  /\ Stamped(e, today) \in LedgerRows
           /\ Stamped(e, today).day = today /\ Stamped(e, today).result = e.result
           /\ Key(Stamped(e, today)) = Key(e)
  BY MotivationAssumption DEF Stamped, LedgerRows, Key

LEMMA LedgerStep ==
    ASSUME LedgerInv, [MotivationNext]_motivationVars
    PROVE  LedgerInv'
<1>1. Len(ledger) \in Nat /\ day \in Nat
  BY MotivationAssumption DEF LedgerInv
<1>2. CASE NextDay
  <2>1. day' \in 1..MaxDay /\ ledger' = ledger
        /\ \A d \in 1..day : d \in 1..day'
    BY <1>1, <1>2, MotivationAssumption DEF NextDay, LedgerInv
  <2> QED
    BY <2>1 DEF LedgerInv, Entries
<1>3. ASSUME NEW e \in Events, Practice(e)
      PROVE  LedgerInv'
  <2>1. Stamped(e, day) \in LedgerRows /\ Stamped(e, day).day = day
    BY <1>1, EventsAre
  <2>2. ledger' = Append(ledger, Stamped(e, day)) /\ day' = day
    BY <1>3 DEF Practice
  <2>3. /\ ledger' \in Seq(LedgerRows) /\ Len(ledger') = Len(ledger) + 1
        /\ \A i \in 1..Len(ledger) : ledger'[i] = ledger[i]
        /\ ledger'[Len(ledger) + 1] = Stamped(e, day)
    BY <2>1, <2>2, AppendProperties DEF LedgerInv
  <2>5. Len(ledger') <= MaxEntries
    BY <1>1, <1>3, <2>3, MotivationAssumption DEF Practice
  <2>4. \A i \in 1..Len(ledger') : ledger'[i].day \in 1..day
    <3> TAKE i \in 1..Len(ledger')
    <3>1. CASE i \in 1..Len(ledger)
      BY <2>3, <3>1 DEF LedgerInv, Entries
    <3>2. CASE i = Len(ledger) + 1
      <4>1. day \in 1..day
        BY MotivationAssumption DEF LedgerInv
      <4> QED
        BY <2>1, <2>3, <3>2, <4>1
    <3> QED
      BY <1>1, <2>3, <3>1, <3>2
  <2> QED
    BY <2>2, <2>3, <2>4, <2>5 DEF LedgerInv, Entries
<1>4. CASE UNCHANGED motivationVars
  BY <1>4 DEF motivationVars, LedgerInv, Entries
<1> QED
  BY <1>2, <1>3, <1>4 DEF MotivationNext

LEMMA LedgerInvariant == MotivationSpec => [](LedgerInv /\ QueueSays)
<1>1. MotivationInit => LedgerInv
  BY MotivationAssumption DEF MotivationInit, LedgerInv, Entries
<1>2. LedgerInv /\ [MotivationNext]_motivationVars => LedgerInv'
  BY LedgerStep
<1>3. LedgerInv => QueueSays
  BY QueueTells
<1> QED
  BY <1>1, <1>2, <1>3, PTL DEF MotivationSpec


-----------------------------------------------------------------------------
(* The motivation layer: what a row and what a night do to the queue.      *)

LEMMA PracticeKeepsOthers ==
    ASSUME LedgerInv, NEW e \in Events, Practice(e)
    PROVE  /\ \A key : key # Key(e) => (key \in Due' <=> key \in Due)
           /\ \A j, k \in Due \ {Key(e)} : Precedes(j, k)' <=> Precedes(j, k)
           /\ e.result = "pass" => Key(e) \notin Due'
<1> DEFINE row == Stamped(e, day)
           last == Len(ledger) + 1
<1>1. Len(ledger) \in Nat /\ day \in Nat
  BY MotivationAssumption DEF LedgerInv
<1>2. /\ row \in LedgerRows /\ row.day = day /\ row.result = e.result
      /\ Key(row) = Key(e)
  BY <1>1, EventsAre
<1>3. ledger' = Append(ledger, row) /\ day' = day
  BY DEF Practice
<1> HIDE DEF row
<1>4. /\ ledger \in Seq(LedgerRows) /\ ledger' \in Seq(LedgerRows)
      /\ Len(ledger') = last
      /\ \A i \in 1..Len(ledger) : ledger'[i] = ledger[i]
      /\ ledger'[last] = row
  BY <1>2, <1>3, AppendProperties DEF LedgerInv
<1>5. Entries' = Entries \cup {last} /\ last \in Nat /\ last \notin Entries
  BY <1>1, <1>4 DEF Entries
<1>6. ASSUME NEW key, key # Key(e)
      PROVE  EntriesOf(key)' = EntriesOf(key)
  <2>1. \A i \in Entries : Key(ledger'[i]) = Key(ledger[i])
    BY <1>4 DEF Entries
  <2>2. Key(ledger'[last]) # key
    BY <1>2, <1>4, <1>6
  <2>3. EntriesOf(key)' = {i \in Entries' : Key(ledger'[i]) = key}
    BY DEF EntriesOf
  <2> HIDE DEF last
  <2> QED
    BY <1>5, <2>1, <2>2, <2>3 DEF EntriesOf
<1>7. \A key : key # Key(e) => (key \in Keys' <=> key \in Keys)
  <2>1. \A key : key \in Keys <=> EntriesOf(key) # {}
    BY <1>4 DEF Keys, ToSet, EntriesOf, Entries
  <2>2. \A key : key \in Keys' <=> EntriesOf(key)' # {}
    BY <1>4 DEF Keys, ToSet, EntriesOf, Entries
  <2> QED
    BY <1>6, <2>1, <2>2
<1>8. ASSUME NEW key \in Keys, key # Key(e)
      PROVE  /\ LastOf(key)' = LastOf(key) /\ InferMastery(key)' = InferMastery(key)
             /\ Age(key)' = Age(key)
  <2>1. EntriesOf(key)' = EntriesOf(key)
    BY <1>6, <1>8
  <2>2. \A i \in EntriesOf(key) : ledger'[i] = ledger[i]
    BY <1>4 DEF EntriesOf, Entries
  <2>3. LastOf(key)' = LastOf(key)
    BY <2>1 DEF LastOf
  <2>4. LastSeen(key)' = LastSeen(key)
    BY <1>8, <2>2, <2>3, ItemsAre DEF LastSeen
  <2>5. InferMastery(key)' = InferMastery(key)
    <3>1. {Rank(ledger'[i].result) : i \in EntriesOf(key)'}
            = {Rank(ledger[i].result) : i \in EntriesOf(key)}
      BY <2>1, <2>2
    <3> QED
      BY <3>1 DEF InferMastery
  <2> QED
    BY <1>3, <2>3, <2>4, <2>5 DEF Age
<1>9. \A key : key # Key(e) => (key \in Due' <=> key \in Due)
  <2> TAKE key
  <2> SUFFICES ASSUME key # Key(e) PROVE key \in Due' <=> key \in Due
    OBVIOUS
  <2>1. key \in Due' <=> key \in Keys' /\ InferMastery(key)' # "unknown" /\ Age(key)' > DueAge
    BY DEF Due
  <2>2. key \in Due <=> key \in Keys /\ InferMastery(key) # "unknown" /\ Age(key) > DueAge
    BY DEF Due
  <2> QED
    BY <1>7, <1>8, <2>1, <2>2
<1>10. \A j, k \in Due \ {Key(e)} : Precedes(j, k)' <=> Precedes(j, k)
  <2> TAKE j, k \in Due \ {Key(e)}
  <2>1. /\ LastOf(j)' = LastOf(j) /\ Age(j)' = Age(j)
        /\ LastOf(k)' = LastOf(k) /\ Age(k)' = Age(k)
    BY <1>8 DEF Due
  <2> QED
    BY <2>1 DEF Precedes
<1>11. ASSUME e.result = "pass"
       PROVE  Key(e) \notin Due'
  <2> DEFINE of == EntriesOf(Key(e))'
             ranks == {Rank(ledger'[i].result) : i \in EntriesOf(Key(e))'}
  <2>1. last \in of /\ of \in SUBSET (0..last)
    BY <1>1, <1>2, <1>4, <1>5 DEF EntriesOf, Entries
  <2>2. LastOf(Key(e))' = last
    <3>1. LastOf(Key(e))' = Max(of)
      BY DEF LastOf
    <3> HIDE DEF last, of
    <3>2. Max(of) \in of /\ \A i \in of : i <= Max(of)
      BY <1>5, <2>1, MaxIs
    <3>3. Max(of) \in 0..last
      BY <2>1, <3>2
    <3> QED
      BY <1>5, <2>1, <3>1, <3>2, <3>3
  <2>3. LastSeen(Key(e))' = day
    BY <1>2, <1>4, <2>2 DEF LastSeen
  <2>4. InferMastery(Key(e))' = "mastered"
    <3>1. InferMastery(Key(e))' = Levels[Max(ranks)]
      BY DEF InferMastery
    <3>2. Rank(ledger'[last].result) = 4
      BY <1>2, <1>4, <1>11, RanksAre
    <3>3. 4 \in ranks
      BY <2>1, <3>2
    <3>4. ranks \in SUBSET (0..4)
      <4>1. \A i \in of : Rank(ledger'[i].result) \in 0..4
        BY RanksAre
      <4> QED
        BY <4>1
    <3> HIDE DEF ranks
    <3>5. Max(ranks) \in ranks /\ \A n \in ranks : n <= Max(ranks)
      BY <3>3, <3>4, MaxIs
    <3>6. Max(ranks) \in 0..4 /\ 4 <= Max(ranks)
      BY <3>3, <3>4, <3>5
    <3>7. Max(ranks) = 4
      BY <3>6
    <3> QED
      BY <3>1, <3>7, LevelsAre
  <2>5. Age(Key(e))' = 0
    <3>1. HeadStart("mastered") = 0
      BY DEF HeadStart
    <3>2. Age(Key(e))' = (day' - LastSeen(Key(e))') * Unit
                           + HeadStart(InferMastery(Key(e))') * HALF_LIFE_DAYS
      BY DEF Age
    <3> QED
      BY <1>1, <1>3, <2>3, <2>4, <3>1, <3>2, MotivationAssumption DEF Unit
  <2>6. ~(0 > DueAge)
    BY MotivationAssumption DEF DueAge
  <2> QED
    BY <2>5, <2>6 DEF Due
<1> QED
  BY <1>9, <1>10, <1>11

LEMMA NightKeepsOrder ==
    ASSUME LedgerInv, NextDay
    PROVE  /\ Due \subseteq Due'
           /\ \A j, k \in Due : Precedes(j, k)' <=> Precedes(j, k)
<1>1. ledger' = ledger /\ day' = day + 1 /\ day \in Nat
  BY MotivationAssumption DEF NextDay, LedgerInv
<1>2. /\ Keys' = Keys
      /\ \A key : EntriesOf(key)' = EntriesOf(key)
  BY <1>1 DEF Keys, EntriesOf, Entries
<1>3. \A key : /\ LastOf(key)' = LastOf(key) /\ LastSeen(key)' = LastSeen(key)
               /\ InferMastery(key)' = InferMastery(key)
  BY <1>1, <1>2 DEF LastOf, LastSeen, InferMastery
<1>4. \A key \in Due : Age(key)' = Age(key) + Unit /\ Age(key) \in Int
  <2> TAKE key \in Due
  <2>1. Age(key) \in Int
    BY DueItems
  <2>2. LastSeen(key) \in Nat /\ InferMastery(key) \in {"introduced", "practiced", "mastered"}
    BY ItemsAre DEF Due
  <2> DEFINE start == HeadStart(InferMastery(key)) * HALF_LIFE_DAYS
  <2>3. start \in Int
    <3>1. HeadStart(InferMastery(key)) \in Nat
      BY <2>2 DEF HeadStart
    <3> QED
      BY <3>1, MotivationAssumption
  <2>4. Age(key) = (day - LastSeen(key)) * Unit + start
    BY DEF Age
  <2>5. Age(key)' = (day' - LastSeen(key)) * Unit + start
    BY <1>3 DEF Age
  <2> HIDE DEF start
  <2> QED
    BY <1>1, <2>1, <2>2, <2>3, <2>4, <2>5 DEF Unit
<1>5. Due \subseteq Due'
  <2> SUFFICES ASSUME NEW key \in Due PROVE key \in Due'
    OBVIOUS
  <2>1. key \in Keys' /\ InferMastery(key)' # "unknown" /\ Age(key) > DueAge
    BY <1>2, <1>3 DEF Due
  <2>2. DueAge \in Int
    BY MotivationAssumption DEF DueAge
  <2>3. Age(key)' > DueAge
    BY <1>4, <2>1, <2>2 DEF Unit
  <2> QED
    BY <2>1, <2>3 DEF Due
<1>6. \A j, k \in Due : Precedes(j, k)' <=> Precedes(j, k)
  <2> TAKE j, k \in Due
  <2>1. /\ LastOf(j)' = LastOf(j) /\ LastOf(k)' = LastOf(k)
        /\ Age(j) \in Int /\ Age(k) \in Int
        /\ Age(j)' = Age(j) + Unit /\ Age(k)' = Age(k) + Unit
    BY <1>3, <1>4
  <2>2. Age(j)' > Age(k)' <=> Age(j) > Age(k)
    BY <2>1 DEF Unit
  <2>3. Age(j)' = Age(k)' <=> Age(j) = Age(k)
    BY <2>1 DEF Unit
  <2> QED
    BY <2>1, <2>2, <2>3 DEF Precedes
<1> QED
  BY <1>5, <1>6

-----------------------------------------------------------------------------
(* The motivation layer: the advice.                                       *)

Mode(facts) == IF AllDone(facts) THEN "maintenance" ELSE "progress"
Lesson(facts) ==
    Advice("next_lesson", "progress", SubjectWithNewMaterial(facts), <<>>, <<>>)
Repeat ==
    Advice("harder_repeat", "maintenance", OldestMastered[1], OldestMastered, <<>>)
Fresh(mode, facts) == Advice("fresh_story", mode, AnySubject(facts), <<>>, <<>>)

\* The rules, and which of them applied.
LEMMA TheAdvice ==
    ASSUME NEW facts
    PROVE  \/ Pressing /\ WhatNext(facts) = ReviewBatch(Mode(facts))
           \/ ~Pressing /\ OpenSubjects(facts) # {} /\ WhatNext(facts) = Lesson(facts)
           \/ /\ ~Pressing /\ OpenSubjects(facts) = {} /\ Due # {}
              /\ WhatNext(facts) = ReviewBatch(Mode(facts))
           \/ /\ ~Pressing /\ OpenSubjects(facts) = {} /\ "story" \notin RecentActivities
              /\ WhatNext(facts) = Fresh("maintenance", facts)
           \/ /\ ~Pressing /\ OpenSubjects(facts) = {} /\ Due = {} /\ Mastered # {}
              /\ "story" \in RecentActivities /\ WhatNext(facts) = Repeat
           \/ /\ ~Pressing /\ OpenSubjects(facts) = {} /\ "story" \in RecentActivities
              /\ WhatNext(facts) = Fresh(Mode(facts), facts)
  BY DEF WhatNext, Mode, Lesson, Repeat, Fresh

LEMMA TwoMin ==
    ASSUME NEW m \in Nat, NEW n \in Nat
    PROVE  Min({m, n}) \in {m, n} /\ Min({m, n}) <= m /\ Min({m, n}) <= n
<1>1. \E x \in {m, n} : \A y \in {m, n} : x <= y
  OBVIOUS
<1>2. Min({m, n}) \in {m, n} /\ \A y \in {m, n} : Min({m, n}) <= y
  BY <1>1 DEF Min
<1> QED
  BY <1>2

\* What presses is due.
LEMMA PressingIsDue ==
    ASSUME LedgerInv, Pressing
    PROVE  Due # {}
<1>1. Cardinality({}) = 0
  BY FS_EmptySet
<1> QED
  BY <1>1, MotivationAssumption DEF Pressing

LEMMA TheBatch ==
    ASSUME LedgerInv, Due # {}, NEW mode
    PROVE  LET advice == ReviewBatch(mode)
           IN  /\ advice.action = "review_batch" /\ advice.mode = mode
               /\ Len(advice.items) \in 1..REVIEW_BATCH_SIZE
               /\ advice.item = advice.items[1]
               /\ \A k \in ToSet(advice.items), j \in Due \ ToSet(advice.items) :
                    Age(k) >= Age(j)
<1> DEFINE queue == ReviewQueue
           size == Min({REVIEW_BATCH_SIZE, Len(queue)})
           items == SubSeq(queue, 1, size)
<1>1. queue \in Seq(Due) /\ Len(queue) \in Nat \ {0}
  <2>1. Cardinality(Due) # 0
    BY DueItems, FS_EmptySet
  <2> QED
    BY <2>1, QueuePlaces
<1>2. size \in 1..Len(queue) /\ size \in 1..REVIEW_BATCH_SIZE
  <2> HIDE DEF queue
  <2> QED
    BY <1>1, TwoMin, MotivationAssumption
<1> HIDE DEF size
<1>3. /\ \A m, n \in 1..Len(queue) : m < n <=> Precedes(queue[m], queue[n])
      /\ \A k \in Due : \E n \in 1..Len(queue) : queue[n] = k
  BY QueueInOrder
<1> HIDE DEF queue
<1>4. /\ Len(items) = size /\ DOMAIN items = 1..size
      /\ \A n \in 1..size : items[n] = queue[n] /\ queue[n] \in Due
  BY <1>1, <1>2
<1> HIDE DEF items
<1>5. ASSUME NEW k \in ToSet(items), NEW j \in Due \ ToSet(items)
      PROVE  Age(k) >= Age(j)
  <2>1. PICK m \in 1..size : k = queue[m]
    BY <1>4 DEF ToSet
  <2>2. PICK n \in 1..Len(queue) : j = queue[n]
    BY <1>3
  <2>3. n \notin 1..size
    BY <1>4, <2>2 DEF ToSet
  <2>4. m \in 1..Len(queue) /\ m < n
    BY <1>1, <1>2, <2>3
  <2>5. Precedes(k, j)
    BY <1>3, <2>1, <2>2, <2>4
  <2>6. Age(k) \in Int /\ Age(j) \in Int
    BY <1>4, <2>1, DueItems
  <2> QED
    BY <2>5, <2>6 DEF Precedes
<1>6. ReviewBatch(mode) = Advice("review_batch", mode, queue[1][1], queue[1], items)
  BY DEF ReviewBatch, queue, size, items
<1>7. items[1] = queue[1]
  BY <1>2, <1>4
<1> QED
  BY <1>2, <1>4, <1>5, <1>6, <1>7 DEF Advice

LEMMA SubjectsAre ==
    ASSUME LedgerInv, NEW facts \in SubjectFacts
    PROVE  SubjectIds(facts) \subseteq SubjectNumbers /\ IsFiniteSet(OpenSubjects(facts))
<1>1. SubjectIds(facts) \subseteq SubjectNumbers
  BY ItemsAre, MotivationAssumption DEF SubjectIds
<1> QED
  BY <1>1, FS_Subset, MotivationAssumption DEF OpenSubjects

\* The subject advised is an open one.
LEMMA LessonIsOpen ==
    ASSUME LedgerInv, NEW facts \in SubjectFacts, OpenSubjects(facts) # {}
    PROVE  SubjectWithNewMaterial(facts) \in OpenSubjects(facts)
<1> DEFINE open == OpenSubjects(facts)
           Later(s, t) == \/ LastActive(s) > LastActive(t)
                          \/ LastActive(s) = LastActive(t) /\ s < t
           order == {p \in open \X open : Later(p[1], p[2])}
<1>1. \A s \in open : s \in Nat
  BY SubjectsAre, MotivationAssumption DEF OpenSubjects
<1>2. \A s : LastActive(s) \in Int
  <2> TAKE s
  <2> DEFINE rows == {0} \cup {i \in Entries : ledger[i].subject = s}
  <2>1. Len(ledger) \in Nat /\ rows \in SUBSET (0..Len(ledger)) /\ rows # {}
    BY DEF LedgerInv, Entries
  <2>2. Max(rows) \in 0..Len(ledger)
    <3> HIDE DEF rows
    <3> QED
      BY <2>1, MaxIs
  <2> QED
    BY <2>1, <2>2 DEF LastActive
<1>3. StrictOrder(open, order)
  <2> HIDE DEF open
  <2>1. \A s, t \in open : <<s, t>> \in order <=> Later(s, t)
    OBVIOUS
  <2>2. \A s \in open : ~Later(s, s)
    BY <1>1, <1>2
  <2>3. \A s, t \in open : s # t => Later(s, t) \/ Later(t, s)
    BY <1>1, <1>2
  <2>4. \A s, t, u \in open : Later(s, t) /\ Later(t, u) => Later(s, u)
    BY <1>1, <1>2
  <2> HIDE DEF order, Later
  <2> QED
    BY <2>1, <2>2, <2>3, <2>4, Zenon DEF StrictOrder
<1>4. IsFiniteSet(open) /\ Cardinality(open) \in Nat \ {0}
  BY SubjectsAre, FS_EmptySet, FS_CardinalityType
<1>5. PICK s \in open : RankIn(open, order, s) = 0
  <2> HIDE DEF open, order
  <2>1. 1 \in 1..Cardinality(open) /\ 1 - 1 = 0
    BY <1>4
  <2> QED
    BY <1>3, <1>4, <2>1, RanksFill
<1>6. Before(open, order, s) = {}
  <2> HIDE DEF open, order
  <2>1. IsFiniteSet(Before(open, order, s))
    BY <1>4, FS_Subset DEF Before
  <2> QED
    BY <1>5, <2>1, FS_EmptySet DEF RankIn
<1>7. \A t \in open \ {s} : Later(s, t)
  <2> TAKE t \in open \ {s}
  <2>1. <<t, s>> \notin order
    BY <1>6 DEF Before
  <2>2. <<s, t>> \in order
    BY <1>3, <2>1 DEF StrictOrder
  <2> QED
    BY <2>2
<1>8. \E u \in open : \A t \in open \ {u} :
          \/ LastActive(u) > LastActive(t)
          \/ LastActive(u) = LastActive(t) /\ u < t
  BY <1>7
<1> QED
  BY <1>8 DEF SubjectWithNewMaterial

\* The item advised for a harder repeat is a mastered one.
LEMMA RepeatIsMastered ==
    ASSUME LedgerInv, Mastered # {}
    PROVE  OldestMastered \in Mastered
<1> DEFINE lasts == {LastOf(key) : key \in Mastered}
<1>1. \A key \in Mastered : LastOf(key) \in Nat
  BY DueItems DEF Mastered
<1>2. lasts \in SUBSET Nat /\ lasts # {}
  BY <1>1
<1>3. PICK f \in lasts : \A g \in lasts : f <= g
  <2> HIDE DEF lasts
  <2> QED
    BY <1>2, LeastElement
<1>4. \E key \in Mastered : \A k \in Mastered : LastOf(key) <= LastOf(k)
  BY <1>3
<1> QED
  BY <1>4 DEF OldestMastered

-----------------------------------------------------------------------------
(* The motivation layer: theorems.                                         *)

\* Every state of the ledger has its type: no row is of a day to come, and
\* every score is between 0 and 100 (learn/motivation/_scoring.py).
THEOREM MotivationTypeCorrect == MotivationSpec => []MotivationTypeOK
<1>1. LedgerInv => MotivationTypeOK
  <2> SUFFICES ASSUME LedgerInv PROVE MotivationTypeOK
    OBVIOUS
  <2>1. \A i \in Entries : ledger[i] \in LedgerRows
    BY DEF LedgerInv, Entries
  <2>2. \A i \in Entries : ScoreExercise(ledger[i]) \in 0..100
    BY <2>1, ScoresAre
  <2> QED
    BY <2>2 DEF LedgerInv, MotivationTypeOK
<1> QED
  BY <1>1, LedgerInvariant, PTL

\* Practising an item leaves the review order of all others alone, a pass ends
\* its review for the day, and no night makes anything leave the queue or change
\* places, for any ledger and half-life (learn/motivation/_review.py).
THEOREM QueueHolds == MotivationSpec => QueueMovesAlone
<1> DEFINE Moves ==
             LET queue == ReviewQueue
                 next == ReviewQueue'
                 Same(keys) == \A j, k \in keys : Ahead(next, j, k) <=> Ahead(queue, j, k)
             IN  /\ \A e \in Events :
                      ledger' = Append(ledger, Stamped(e, day)) =>
                          /\ ToSet(next) \ {Key(e)} = ToSet(queue) \ {Key(e)}
                          /\ Same(ToSet(queue) \ {Key(e)})
                          /\ e.result = "pass" => Key(e) \notin ToSet(next)
                 /\ day' # day => ToSet(queue) \subseteq ToSet(next) /\ Same(ToSet(queue))
<1>1. ASSUME LedgerInv, QueueSays, QueueSays', [MotivationNext]_motivationVars
      PROVE  Moves
  <2>1. /\ ToSet(ReviewQueue) = Due /\ ToSet(ReviewQueue') = Due'
        /\ \A j, k : Ahead(ReviewQueue, j, k)
                       <=> (j \in Due /\ k \in Due /\ Precedes(j, k))
        /\ \A j, k : Ahead(ReviewQueue', j, k)
                       <=> (j \in Due' /\ k \in Due' /\ Precedes(j, k)')
    BY <1>1 DEF QueueSays
  <2>2. ASSUME NEW e \in Events, ledger' = Append(ledger, Stamped(e, day))
        PROVE  /\ Due' \ {Key(e)} = Due \ {Key(e)}
               /\ \A j, k \in Due \ {Key(e)} :
                    Ahead(ReviewQueue', j, k) <=> Ahead(ReviewQueue, j, k)
               /\ e.result = "pass" => Key(e) \notin Due'
    <3>1. Len(ledger) \in Nat /\ day \in Nat
      BY <1>1, MotivationAssumption DEF LedgerInv
    <3>2. Len(ledger') = Len(ledger) + 1
      BY <1>1, <2>2, <3>1, EventsAre, AppendProperties DEF LedgerInv
    <3>3. ledger' # ledger
      BY <3>1, <3>2
    <3>4. PICK f \in Events : Practice(f)
      BY <1>1, <3>3 DEF MotivationNext, NextDay, motivationVars
    <3>5. Practice(e)
      BY <2>2, <3>4 DEF Practice
    <3>6. /\ \A key : key # Key(e) => (key \in Due' <=> key \in Due)
          /\ \A j, k \in Due \ {Key(e)} : Precedes(j, k)' <=> Precedes(j, k)
          /\ e.result = "pass" => Key(e) \notin Due'
      BY <1>1, <3>5, PracticeKeepsOthers
    <3>7. Due' \ {Key(e)} = Due \ {Key(e)}
      BY <3>6
    <3> QED
      BY <2>1, <3>6, <3>7
  <2>3. ASSUME day' # day
        PROVE  /\ Due \subseteq Due'
               /\ \A j, k \in Due : Ahead(ReviewQueue', j, k) <=> Ahead(ReviewQueue, j, k)
    <3>1. NextDay
      BY <1>1, <2>3 DEF MotivationNext, Practice, motivationVars
    <3>2. /\ Due \subseteq Due'
          /\ \A j, k \in Due : Precedes(j, k)' <=> Precedes(j, k)
      BY <1>1, <3>1, NightKeepsOrder
    <3> QED
      BY <2>1, <3>2
  <2> QED
    BY <2>1, <2>2, <2>3
<1> QED
  BY <1>1, LedgerInvariant, PTL DEF QueueMovesAlone, MotivationSpec

\* Nothing urgent waits behind new material, and a batch is what decayed most:
\* for any ledger and any answers of the subjects (learn/motivation/_whatnext.py).
THEOREM ReviewsHold == MotivationSpec => []ReviewsComeFirst
<1>1. LedgerInv => ReviewsComeFirst
  <2> SUFFICES ASSUME LedgerInv, NEW facts \in SubjectFacts
               PROVE  LET advice == WhatNext(facts)
                      IN  /\ (\E key \in Due : Urgent(key)) => advice.action = "review_batch"
                          /\ advice.action = "review_batch" =>
                              /\ Len(advice.items) \in 1..REVIEW_BATCH_SIZE
                              /\ advice.item = advice.items[1]
                              /\ \A k \in ToSet(advice.items), j \in Due \ ToSet(advice.items) :
                                   Age(k) >= Age(j)
    BY DEF ReviewsComeFirst
  <2>1. (\E key \in Due : Urgent(key)) => Pressing
    BY DEF Pressing
  <2>2. CASE Due # {} /\ WhatNext(facts) = ReviewBatch(Mode(facts))
    BY <2>2, TheBatch
  <2>3. CASE ~Pressing /\ WhatNext(facts).action # "review_batch"
    BY <2>1, <2>3
  <2>4. /\ Lesson(facts).action # "review_batch" /\ Repeat.action # "review_batch"
        /\ \A mode : Fresh(mode, facts).action # "review_batch"
    BY DEF Lesson, Repeat, Fresh, Advice
  <2> QED
    BY <2>2, <2>3, <2>4, TheAdvice, PressingIsDue
<1> QED
  BY <1>1, LedgerInvariant, PTL

\* With no subject known, there is nothing that could press, be due or be recent.
LEMMA NothingKnown ==
    ASSUME LedgerInv, NEW facts, SubjectIds(facts) = {}
    PROVE  WhatNext(facts) = Advice("fresh_story", "maintenance", NoSubject, <<>>, <<>>)
<1>1. Keys = {}
  BY DEF SubjectIds
<1>2. Entries = {}
  <2>1. \A i \in Entries : ledger[i] \in ToSet(ledger)
    BY DEF Entries, LedgerInv, ToSet
  <2> QED
    BY <1>1, <2>1 DEF Keys
<1>3. RecentActivities = {}
  BY <1>2 DEF RecentActivities
<1>4. OpenSubjects(facts) = {}
  BY DEF OpenSubjects
<1>5. Due = {} /\ ~Pressing
  BY <1>1, PressingIsDue DEF Due
<1>6. WhatNext(facts) = Fresh("maintenance", facts)
  BY <1>3, <1>4, <1>5, TheAdvice
<1> QED
  BY <1>6 DEF Fresh, AnySubject

\* With a subject known the mode is maintenance exactly when all are done, a
\* lesson is advised only where one is open, a harder repeat only of what is
\* mastered and not due (learn/motivation/_whatnext.py).
THEOREM MaintenanceHolds == MotivationSpec => []MaintenanceMeansDone
<1>1. LedgerInv => MaintenanceMeansDone
  <2> DEFINE AllClear(facts) == \A s \in SubjectIds(facts) : IsDone(facts[s])
             Idle == Advice("fresh_story", "maintenance", NoSubject, <<>>, <<>>)
  <2> SUFFICES ASSUME LedgerInv, NEW facts \in SubjectFacts
               PROVE  LET advice == WhatNext(facts)
                      IN  /\ IF SubjectIds(facts) = {} THEN advice = Idle
                             ELSE advice.mode = "maintenance" <=> AllClear(facts)
                          /\ advice.action = "next_lesson" => ~IsDone(facts[advice.subject])
                          /\ advice.action = "harder_repeat" =>
                              advice.item \in Mastered \ Due /\ "story" \in RecentActivities
    BY DEF MaintenanceMeansDone
  <2>1. CASE SubjectIds(facts) = {}
    <3>1. WhatNext(facts) = Idle
      BY <2>1, NothingKnown
    <3>2. Idle.action = "fresh_story"
      BY DEF Advice
    <3> QED
      BY <2>1, <3>1, <3>2
  <2>2. CASE SubjectIds(facts) # {}
    <3>1. Mode(facts) \in {"maintenance", "progress"}
          /\ (Mode(facts) = "maintenance" <=> AllClear(facts))
      BY <2>2 DEF Mode, AllDone
    <3>2. OpenSubjects(facts) = {} <=> AllClear(facts)
      BY DEF OpenSubjects
    <3> HIDE DEF AllClear
    <3>3. CASE Due # {} /\ WhatNext(facts) = ReviewBatch(Mode(facts))
      <4>1. WhatNext(facts).action = "review_batch" /\ WhatNext(facts).mode = Mode(facts)
        BY <3>3, TheBatch
      <4> QED
        BY <2>2, <3>1, <4>1
    <3>4. CASE OpenSubjects(facts) # {} /\ WhatNext(facts) = Lesson(facts)
      <4>1. /\ WhatNext(facts).action = "next_lesson" /\ WhatNext(facts).mode = "progress"
            /\ WhatNext(facts).subject = SubjectWithNewMaterial(facts)
        BY <3>4 DEF Lesson, Advice
      <4>2. ~IsDone(facts[SubjectWithNewMaterial(facts)])
        BY <3>4, LessonIsOpen DEF OpenSubjects
      <4> QED
        BY <2>2, <3>2, <3>4, <4>1, <4>2
    <3>5. ASSUME NEW mode, WhatNext(facts) = Fresh(mode, facts), OpenSubjects(facts) = {},
                 mode = Mode(facts) \/ mode = "maintenance"
          PROVE  /\ WhatNext(facts).action = "fresh_story"
                 /\ WhatNext(facts).mode = "maintenance" /\ AllClear(facts)
      <4>1. WhatNext(facts).action = "fresh_story" /\ WhatNext(facts).mode = mode
        BY <3>5 DEF Fresh, Advice
      <4> QED
        BY <3>1, <3>2, <3>5, <4>1
    <3>6. CASE /\ OpenSubjects(facts) = {} /\ Due = {} /\ Mastered # {}
               /\ "story" \in RecentActivities /\ WhatNext(facts) = Repeat
      <4>1. /\ WhatNext(facts).action = "harder_repeat"
            /\ WhatNext(facts).mode = "maintenance"
            /\ WhatNext(facts).item = OldestMastered
        BY <3>6 DEF Repeat, Advice
      <4> QED
        BY <2>2, <3>2, <3>6, <4>1, RepeatIsMastered
    <3> QED
      BY <2>2, <3>3, <3>4, <3>5, <3>6, TheAdvice, PressingIsDue
  <2> QED
    BY <2>1, <2>2
<1> QED
  BY <1>1, LedgerInvariant, PTL

-----------------------------------------------------------------------------
(* The motivation layer: means.                                            *)

\* The sums a mean is made of are what their definition says.
LEMMA TotalsExist ==
    ASSUME NEW rs, Len(rs) \in Nat, \A i \in 1..Len(rs) : ScoreExercise(rs[i]) \in Nat
    PROVE  /\ Totals(rs) \in [0..Len(rs) -> Nat]
           /\ Totals(rs)[0] = 0
           /\ \A i \in 1..Len(rs) :
                Totals(rs)[i] = Totals(rs)[i - 1] + ScoreExercise(rs[i])
<1> DEFINE score(i) == ScoreExercise(rs[i])
           Good(n, t) == t = [i \in 0..n |-> IF i = 0 THEN 0 ELSE t[i - 1] + score(i)]
           Bad == {n \in 0..Len(rs) : ~\E t : Good(n, t)}
<1>1. Bad = {}
  <2> SUFFICES ASSUME Bad # {} PROVE FALSE
    OBVIOUS
  <2>1. Bad \in SUBSET Nat
    OBVIOUS
  <2> HIDE DEF Bad, Good
  <2>2. PICK n \in Bad : \A m \in Bad : n <= m
    BY <2>1, LeastElement
  <2>3. n \in 0..Len(rs) /\ ~\E t : Good(n, t)
    BY DEF Bad
  <2>4. n # 0
    <3>1. Good(0, [i \in 0..0 |-> 0])
      BY DEF Good
    <3> QED
      BY <2>3, <3>1
  <2>5. n \in 1..Len(rs) /\ n - 1 \in 0..Len(rs)
    BY <2>3, <2>4
  <2>6. n - 1 \notin Bad
    BY <2>2, <2>5
  <2>7. PICK t : Good(n - 1, t)
    BY <2>5, <2>6 DEF Bad
  <2> DEFINE u == [i \in 0..n |-> IF i = n THEN t[n - 1] + score(n) ELSE t[i]]
  <2>8. \A i \in 0..n : u[i] = IF i = 0 THEN 0 ELSE u[i - 1] + score(i)
    <3> TAKE i \in 0..n
    <3>1. CASE i = n
      BY <2>5, <3>1
    <3>2. CASE i # n
      <4>1. i \in 0..(n - 1) /\ u[i] = t[i]
        BY <2>5, <3>2
      <4>2. t[i] = IF i = 0 THEN 0 ELSE t[i - 1] + score(i)
        BY <2>7, <4>1 DEF Good
      <4>3. i # 0 => u[i - 1] = t[i - 1]
        BY <2>5, <4>1
      <4> QED
        BY <4>1, <4>2, <4>3
    <3> QED
      BY <3>1, <3>2
  <2>9. Good(n, u)
    BY <2>8 DEF Good
  <2> QED
    BY <2>3, <2>9
<1>2. \E t : Good(Len(rs), t)
  BY <1>1
<1>3. Good(Len(rs), Totals(rs))
  BY <1>2 DEF Totals
<1> DEFINE T == Totals(rs)
<1>4. /\ T = [i \in 0..Len(rs) |-> T[i]]
      /\ T[0] = 0
      /\ \A i \in 1..Len(rs) : T[i] = T[i - 1] + score(i)
  <2> HIDE DEF T, score
  <2>1. T = [i \in 0..Len(rs) |-> IF i = 0 THEN 0 ELSE T[i - 1] + score(i)]
    BY <1>3 DEF T, score
  <2>2. \A i \in 0..Len(rs) : T[i] = IF i = 0 THEN 0 ELSE T[i - 1] + score(i)
    BY <2>1
  <2>3. T = [i \in 0..Len(rs) |-> T[i]]
    BY <2>1
  <2>4. 0 \in 0..Len(rs) /\ \A i \in 1..Len(rs) : i \in 0..Len(rs) /\ i # 0
    OBVIOUS
  <2> QED
    BY <2>2, <2>3, <2>4
<1> DEFINE Odds == {i \in 0..Len(rs) : T[i] \notin Nat}
<1>5. Odds = {}
  <2> SUFFICES ASSUME Odds # {} PROVE FALSE
    OBVIOUS
  <2>1. Odds \in SUBSET Nat
    OBVIOUS
  <2> HIDE DEF Odds
  <2>2. PICK n \in Odds : \A m \in Odds : n <= m
    BY <2>1, LeastElement
  <2>3. n \in 0..Len(rs) /\ T[n] \notin Nat
    BY DEF Odds
  <2>4. n \in 1..Len(rs) /\ n - 1 \in 0..Len(rs)
    BY <1>4, <2>3
  <2>5. T[n - 1] \in Nat
    BY <2>2, <2>4 DEF Odds
  <2> QED
    BY <1>4, <2>3, <2>4, <2>5
<1>6. \A i \in 0..Len(rs) : T[i] \in Nat
  BY <1>5
<1> HIDE DEF T
<1>7. T \in [0..Len(rs) -> Nat]
  BY <1>4, <1>6
<1> QED
  BY <1>4, <1>7 DEF T

\* One more row adds its score to the sum.
LEMMA TotalGrows ==
    ASSUME NEW rs, NEW ss, Len(rs) \in Nat, Len(ss) = Len(rs) + 1,
           \A i \in 1..Len(rs) : ss[i] = rs[i],
           \A i \in 1..Len(ss) : ScoreExercise(ss[i]) \in Nat
    PROVE  /\ Totals(rs)[Len(rs)] \in Nat
           /\ Totals(ss)[Len(ss)] = Totals(rs)[Len(rs)] + ScoreExercise(ss[Len(ss)])
<1> DEFINE n == Len(rs)
           Apart == {i \in 0..n : Totals(ss)[i] # Totals(rs)[i]}
<1>1. \A i \in 1..n : ScoreExercise(rs[i]) \in Nat
  <2> TAKE i \in 1..n
  <2>1. rs[i] = ss[i] /\ i \in 1..Len(ss)
    OBVIOUS
  <2> QED
    BY <2>1
<1>2. /\ Totals(rs) \in [0..n -> Nat] /\ Totals(rs)[0] = 0
      /\ \A i \in 1..n : Totals(rs)[i] = Totals(rs)[i - 1] + ScoreExercise(rs[i])
  BY <1>1, TotalsExist
<1>3. /\ Totals(ss)[0] = 0
      /\ \A i \in 1..(n + 1) : Totals(ss)[i] = Totals(ss)[i - 1] + ScoreExercise(ss[i])
  <2>1. Len(ss) \in Nat /\ n + 1 = Len(ss)
    OBVIOUS
  <2>2. /\ Totals(ss)[0] = 0
        /\ \A i \in 1..Len(ss) : Totals(ss)[i] = Totals(ss)[i - 1] + ScoreExercise(ss[i])
    BY <2>1, TotalsExist
  <2> QED
    BY <2>1, <2>2
<1>4. Apart = {}
  <2> SUFFICES ASSUME Apart # {} PROVE FALSE
    OBVIOUS
  <2>0. Apart \in SUBSET Nat
    OBVIOUS
  <2>1. PICK i \in Apart : \A j \in Apart : i <= j
    BY <2>0, LeastElement
  <2>2. i \in 1..n
    BY <1>2, <1>3, <2>1
  <2>3. i - 1 \in 0..n /\ i - 1 \notin Apart
    BY <2>1, <2>2
  <2>4. Totals(ss)[i - 1] = Totals(rs)[i - 1]
    BY <2>3
  <2>5. ss[i] = rs[i] /\ i \in 1..(n + 1)
    BY <2>2
  <2>6. Totals(ss)[i] = Totals(rs)[i]
    BY <1>2, <1>3, <2>2, <2>4, <2>5
  <2> QED
    BY <2>1, <2>6
<1>5. Totals(ss)[n] = Totals(rs)[n]
  BY <1>4
<1> QED
  BY <1>2, <1>3, <1>5

LEMMA DivIs ==
    ASSUME NEW a \in Nat, NEW d \in Nat \ {0}
    PROVE  a \div d \in Nat /\ d * (a \div d) <= a /\ a < d * (a \div d + 1)
OBVIOUS

LEMMA Monotone ==
    ASSUME NEW c \in Nat, NEW i \in Nat, NEW j \in Nat, i <= j
    PROVE  c * i <= c * j
OBVIOUS

\* A rounded mean moves towards what is added, and not past it.
LEMMA MeansMove ==
    ASSUME NEW n \in Nat \ {0}, NEW sum \in Nat, NEW x \in Nat
    PROVE  Between(RoundHalfUp(sum, n), RoundHalfUp(sum + x, n + 1), x)
<1> DEFINE a == 2 * sum + n
           b == 2 * (sum + x) + (n + 1)
           p == 2 * n
           q == 2 * (n + 1)
           m == a \div p
           k == b \div q
<1>1. /\ m \in Nat /\ p * m <= a /\ a < p * (m + 1)
  <2>1. a \in Nat /\ p \in Nat \ {0}
    OBVIOUS
  <2> QED
    BY <2>1, DivIs
<1>2. /\ k \in Nat /\ q * k <= b /\ b < q * (k + 1)
  <2>1. b \in Nat /\ q \in Nat \ {0}
    OBVIOUS
  <2> QED
    BY <2>1, DivIs
<1> HIDE DEF m, k
<1>3. CASE m <= x
  <2>1. m <= k
    <3> SUFFICES ASSUME k + 1 <= m PROVE FALSE
      BY <1>1, <1>2
    <3>1. q * (k + 1) <= q * m
      BY <1>1, <1>2, Monotone
    <3>2. q * m = p * m + 2 * m
      BY <1>1
    <3> QED
      BY <1>1, <1>2, <1>3, <3>1, <3>2
  <2>2. k <= x
    <3> SUFFICES ASSUME x + 1 <= k PROVE FALSE
      BY <1>2
    <3>1. q * (x + 1) <= q * k
      BY <1>2, Monotone
    <3>2. q * (x + 1) = p * (x + 1) + 2 * (x + 1)
      OBVIOUS
    <3>3. p * (m + 1) <= p * (x + 1)
      BY <1>1, <1>3, Monotone
    <3> QED
      BY <1>1, <1>2, <3>1, <3>2, <3>3
  <2> QED
    BY <2>1, <2>2, <1>3 DEF Between, RoundHalfUp, m, k
<1>4. CASE x < m
  <2>1. k <= m
    <3> SUFFICES ASSUME m + 1 <= k PROVE FALSE
      BY <1>1, <1>2
    <3>1. q * (m + 1) <= q * k
      BY <1>1, <1>2, Monotone
    <3>2. q * (m + 1) = p * (m + 1) + 2 * (m + 1)
      BY <1>1
    <3> QED
      BY <1>1, <1>2, <1>4, <3>1, <3>2
  <2>2. x <= k
    <3> SUFFICES ASSUME k + 1 <= x PROVE FALSE
      BY <1>2
    <3>1. q * (k + 1) <= q * x
      BY <1>2, Monotone
    <3>2. q * x = p * x + 2 * x
      OBVIOUS
    <3>3. p * x <= p * m
      BY <1>1, <1>4, Monotone
    <3> QED
      BY <1>1, <1>2, <3>1, <3>2, <3>3
  <2> QED
    BY <2>1, <2>2, <1>4 DEF Between, RoundHalfUp, m, k
<1> QED
  BY <1>1, <1>3, <1>4

\* A new outcome moves the mean score towards its own score and never past it,
\* for ledgers of any length (learn/motivation/_scoring.py).
THEOREM MeanMoves == MotivationSpec => MeanMovesTowards
<1>1. ASSUME LedgerInv, NEW e \in Events, ledger # <<>>,
             ledger' = Append(ledger, Stamped(e, day))
      PROVE  Between(MeanScore(ledger), MeanScore(ledger)', ScoreExercise(e))
  <2> DEFINE n == Len(ledger)
  <2>1. ledger \in Seq(LedgerRows) /\ n \in Nat \ {0} /\ day \in Nat
    BY <1>1, EmptySeq, MotivationAssumption DEF LedgerInv
  <2>2. Stamped(e, day) \in LedgerRows
    BY <2>1, EventsAre
  <2>3. /\ ledger' \in Seq(LedgerRows) /\ Len(ledger') = n + 1
        /\ \A i \in 1..n : ledger'[i] = ledger[i]
        /\ ledger'[n + 1] = Stamped(e, day)
    BY <1>1, <2>1, <2>2, AppendProperties
  <2>4. \A i \in 1..Len(ledger') : ScoreExercise(ledger'[i]) \in Nat
    <3> TAKE i \in 1..Len(ledger')
    <3>1. ledger'[i] \in LedgerRows
      BY <2>3, ElementOfSeq
    <3>2. ScoreExercise(ledger'[i]) \in 0..100
      BY <3>1, ScoresAre
    <3>3. \A k \in 0..100 : k \in Nat
      OBVIOUS
    <3> QED
      BY <3>2, <3>3, Zenon
  <2>5. ScoreExercise(Stamped(e, day)) = ScoreExercise(e)
    BY DEF Stamped, ScoreExercise, Accurate
  <2> DEFINE sum == Totals(ledger)[n]
             x == ScoreExercise(e)
  <2>6. sum \in Nat /\ Totals(ledger')[n + 1] = sum + x
    BY <2>1, <2>3, <2>4, <2>5, TotalGrows
  <2>7. x \in Nat
    BY <2>1, <2>3, <2>4, <2>5
  <2>8. MeanScore(ledger) = RoundHalfUp(sum, n)
    BY Zenon DEF MeanScore
  <2>9. MeanScore(ledger)' = RoundHalfUp(sum + x, n + 1)
    BY <2>3, <2>6, Zenon DEF MeanScore
  <2> HIDE DEF sum, x, n
  <2>10. Between(RoundHalfUp(sum, n), RoundHalfUp(sum + x, n + 1), x)
    BY <2>1, <2>6, <2>7, MeansMove
  <2> QED
    BY <2>8, <2>9, <2>10, Zenon DEF x
<1>2. /\ LedgerInv /\ [MotivationNext]_motivationVars
      => [\A e \in Events :
            ledger # <<>> /\ ledger' = Append(ledger, Stamped(e, day)) =>
               Between(MeanScore(ledger), MeanScore(ledger)', ScoreExercise(e))]_motivationVars
  BY <1>1
<1> QED
  BY <1>2, LedgerInvariant, PTL DEF MeanMovesTowards, MotivationSpec

-----------------------------------------------------------------------------
(* The motivation layer: streaks.                                          *)

\* A run is as long as the days on end behind it.
LEMMA RunIs ==
    ASSUME NEW A, NEW d \in Nat, NEW n \in 0..d, n \in Nat,
           \A i \in 0..(n - 1) : d - i \in A,
           n < d => d - n \notin A
    PROVE  RunTo(A, d) = n
<1> DEFINE Runs == {m \in 0..d : \A i \in 0..(m - 1) : d - i \in A}
<1>1. Runs \in SUBSET (0..d) /\ n \in Runs
  OBVIOUS
<1>2. \A m \in Runs : m <= n
  <2> TAKE m \in Runs
  <2> SUFFICES ASSUME m > n PROVE FALSE
    BY DEF Runs
  <2>1. n < d /\ n \in 0..(m - 1)
    OBVIOUS
  <2> QED
    BY <2>1
<1> HIDE DEF Runs
<1>3. Max(Runs) \in Runs /\ \A m \in Runs : m <= Max(Runs)
  BY <1>1, MaxIs
<1>4. Max(Runs) = n
  <2>1. Max(Runs) <= n /\ n <= Max(Runs)
    BY <1>1, <1>2, <1>3
  <2>2. Max(Runs) \in 0..d
    BY <1>1, <1>3
  <2> QED
    BY <2>1, <2>2
<1> QED
  BY <1>4 DEF RunTo, Runs

\* ... and there is such a run.
LEMMA RunExists ==
    ASSUME NEW A, NEW d \in Nat
    PROVE  /\ RunTo(A, d) \in 0..d
           /\ \A i \in 0..(RunTo(A, d) - 1) : d - i \in A
           /\ RunTo(A, d) < d => d - RunTo(A, d) \notin A
<1> DEFINE Runs == {m \in 0..d : \A i \in 0..(m - 1) : d - i \in A}
<1>1. Runs \in SUBSET (0..d) /\ 0 \in Runs
  OBVIOUS
<1>2. Max(Runs) \in Runs /\ \A m \in Runs : m <= Max(Runs)
  <2> HIDE DEF Runs
  <2> QED
    BY <1>1, MaxIs
<1>3. RunTo(A, d) = Max(Runs)
  BY DEF RunTo
<1> DEFINE n == RunTo(A, d)
<1>4. n \in 0..d /\ \A i \in 0..(n - 1) : d - i \in A
  BY <1>2, <1>3
<1> HIDE DEF n
<1>5. ASSUME n < d, d - n \in A PROVE FALSE
  <2>1. n + 1 \in 0..d /\ \A i \in 0..((n + 1) - 1) : d - i \in A
    BY <1>4, <1>5
  <2>2. n + 1 \in Runs
    BY <2>1
  <2> HIDE DEF Runs
  <2>3. n + 1 <= n
    BY <1>2, <1>3, <2>2 DEF n
  <2> QED
    BY <1>4, <2>3
<1> QED
  BY <1>4, <1>5 DEF n

\* An active day makes the run of the day before one longer; any other day has
\* no run; and only the days up to the last matter.
LEMMA RunSteps ==
    ASSUME NEW A, NEW d \in Nat \ {0}
    PROVE  /\ d \in A => RunTo(A, d) = RunTo(A, d - 1) + 1
           /\ d \notin A => RunTo(A, d) = 0
<1>1. CASE d \in A
  <2> DEFINE n == RunTo(A, d - 1)
  <2>1. /\ n \in 0..(d - 1) /\ \A i \in 0..(n - 1) : (d - 1) - i \in A
        /\ n < d - 1 => (d - 1) - n \notin A
    BY RunExists
  <2> HIDE DEF n
  <2>2. n + 1 \in 0..d /\ n \in Int /\ d \in Int
    BY <2>1
  <2>3. \A i \in 0..n : d - i \in A
    <3> TAKE i \in 0..n
    <3>1. CASE i = 0
      BY <1>1, <3>1
    <3>2. CASE i # 0
      <4>1. i - 1 \in 0..(n - 1) /\ (d - 1) - (i - 1) = d - i
        BY <2>2, <3>2
      <4> QED
        BY <2>1, <4>1
    <3> QED
      BY <3>1, <3>2
  <2>4. n + 1 < d => d - (n + 1) \notin A
    <3>1. (d - 1) - n = d - (n + 1)
      BY <2>2
    <3> QED
      BY <2>1, <2>2, <3>1
  <2> DEFINE m == n + 1
  <2>5. m \in 0..d /\ m \in Nat /\ (\A i \in 0..(m - 1) : d - i \in A)
        /\ (m < d => d - m \notin A)
    BY <2>1, <2>2, <2>3, <2>4
  <2> HIDE DEF m
  <2>6. RunTo(A, d) = m
    BY <2>5, RunIs
  <2> QED
    BY <1>1, <2>6 DEF m, n
<1>2. CASE d \notin A
  <2>1. RunTo(A, d) = 0
    BY <1>2, RunIs
  <2> QED
    BY <1>2, <2>1
<1> QED
  BY <1>1, <1>2

LEMMA RunsAgree ==
    ASSUME NEW A, NEW B, NEW d \in Nat, \A c \in 1..d : c \in A <=> c \in B
    PROVE  RunTo(A, d) = RunTo(B, d)
<1> DEFINE n == RunTo(A, d)
<1>1. /\ n \in 0..d /\ \A i \in 0..(n - 1) : d - i \in A
      /\ n < d => d - n \notin A
  BY RunExists
<1> HIDE DEF n
<1>2. \A i \in 0..(n - 1) : d - i \in 1..d
  BY <1>1
<1>3. n < d => d - n \in 1..d
  BY <1>1
<1>4. n \in Nat /\ (\A i \in 0..(n - 1) : d - i \in B) /\ (n < d => d - n \notin B)
  BY <1>1, <1>2, <1>3
<1>5. RunTo(B, d) = n
  BY <1>1, <1>4, RunIs
<1> QED
  BY <1>5 DEF n

\* The current streak ends today or, before today's first row, yesterday.
LEMMA CurrentIs ==
    ASSUME NEW d \in Nat \ {0}, NEW A \in SUBSET (1..d)
    PROVE  CurrentStreak(A, d) = IF d \in A THEN RunTo(A, d) ELSE RunTo(A, d - 1)
<1>1. d - 1 \in Nat /\ A \in SUBSET (0..d)
  OBVIOUS
<1>2. d - 1 \notin A => RunTo(A, d - 1) = 0
  BY <1>1, RunIs
<1>3. CASE A = {}
  BY <1>2, <1>3 DEF CurrentStreak
<1>4. CASE A # {}
  <2> DEFINE last == Max(A)
  <2>1. last \in A /\ \A c \in A : c <= last
    BY <1>1, <1>4, MaxIs
  <2>2. CurrentStreak(A, d) = IF last < d - 1 THEN 0 ELSE RunTo(A, last)
    BY <1>4, Zenon DEF CurrentStreak
  <2> HIDE DEF last
  <2>3. last \in 1..d
    BY <2>1
  <2>4. CASE d \in A
    <3>1. last = d
      BY <2>1, <2>3, <2>4
    <3> QED
      BY <2>2, <2>4, <3>1
  <2>5. CASE d \notin A
    <3>1. last # d /\ last \in 1..(d - 1)
      BY <2>1, <2>3, <2>5
    <3>2. CASE last = d - 1
      BY <2>2, <2>5, <3>2
    <3>3. CASE last < d - 1
      <4>1. d - 1 \notin A
        BY <2>1, <3>3
      <4> QED
        BY <1>2, <2>2, <2>5, <3>3, <4>1
    <3> QED
      BY <3>1, <3>2, <3>3
  <2> QED
    BY <2>4, <2>5
<1> QED
  BY <1>3, <1>4

\* The longest streak is the longest of the runs.
LEMMA LongestIs ==
    ASSUME NEW d \in Nat, NEW A \in SUBSET (1..d)
    PROVE  /\ LongestStreak(A) \in Nat
           /\ \A c \in A : RunTo(A, c) <= LongestStreak(A)
           /\ LongestStreak(A) # 0 => \E c \in A : LongestStreak(A) = RunTo(A, c)
<1> DEFINE Runs == {0} \cup {RunTo(A, c) : c \in A}
<1>1. \A c \in A : c \in Nat /\ RunTo(A, c) \in 0..d
  <2> TAKE c \in A
  <2>1. c \in Nat /\ c <= d
    OBVIOUS
  <2>2. RunTo(A, c) \in 0..c
    BY <2>1, RunExists
  <2> QED
    BY <2>1, <2>2
<1>2. Runs \in SUBSET (0..d) /\ 0 \in Runs
  BY <1>1
<1>3. LongestStreak(A) = Max(Runs)
  BY DEF LongestStreak
<1>4. Max(Runs) \in Runs /\ \A i \in Runs : i <= Max(Runs)
  <2> HIDE DEF Runs
  <2> QED
    BY <1>2, MaxIs
<1>5. Max(Runs) \in Nat
  BY <1>2, <1>4
<1>6. \A c \in A : RunTo(A, c) \in Runs
  OBVIOUS
<1> QED
  BY <1>3, <1>4, <1>5, <1>6

\* The current streak is never longer than the longest.
LEMMA CurrentWithin ==
    ASSUME NEW d \in Nat \ {0}, NEW A \in SUBSET (1..d)
    PROVE  CurrentStreak(A, d) \in Nat /\ CurrentStreak(A, d) <= LongestStreak(A)
<1>1. /\ LongestStreak(A) \in Nat
      /\ \A c \in A : RunTo(A, c) <= LongestStreak(A)
      /\ LongestStreak(A) # 0 => \E c \in A : LongestStreak(A) = RunTo(A, c)
  BY LongestIs
<1>2. d - 1 \in Nat
  OBVIOUS
<1>3. RunTo(A, d) \in Nat /\ RunTo(A, d - 1) \in Nat
  <2>1. RunTo(A, d) \in 0..d /\ RunTo(A, d - 1) \in 0..(d - 1)
    BY <1>2, RunExists
  <2> QED
    BY <2>1
<1>4. CurrentStreak(A, d) = IF d \in A THEN RunTo(A, d) ELSE RunTo(A, d - 1)
  BY CurrentIs
<1>5. CurrentStreak(A, d) \in Nat
  BY <1>3, <1>4
<1>6. CurrentStreak(A, d) <= LongestStreak(A)
  <2>1. CASE d \in A
    BY <1>1, <1>4, <2>1
  <2>2. CASE d \notin A /\ d - 1 \in A
    BY <1>1, <1>4, <2>2
  <2>3. CASE d \notin A /\ d - 1 \notin A
    <3>1. RunTo(A, d - 1) = 0
      BY <1>2, <2>3, RunIs
    <3> QED
      BY <1>1, <1>4, <2>3, <3>1
  <2> QED
    BY <2>1, <2>2, <2>3
<1> QED
  BY <1>5, <1>6

\* The first row of a day makes the current streak one longer, and the longest
\* one with it if that was as long; no other row of the day changes either.
LEMMA DayAdded ==
    ASSUME NEW d \in Nat \ {0}, NEW A \in SUBSET (1..d), NEW B, B = A \cup {d}
    PROVE  /\ CurrentStreak(B, d) = IF d \in A THEN CurrentStreak(A, d)
                                              ELSE CurrentStreak(A, d) + 1
           /\ LongestStreak(B) = Streak!Larger(LongestStreak(A), CurrentStreak(B, d))
<1>1. /\ LongestStreak(A) \in Nat
      /\ \A c \in A : RunTo(A, c) <= LongestStreak(A)
      /\ LongestStreak(A) # 0 => \E c \in A : LongestStreak(A) = RunTo(A, c)
  BY LongestIs
<1>2. CurrentStreak(A, d) = IF d \in A THEN RunTo(A, d) ELSE RunTo(A, d - 1)
  BY CurrentIs
<1>3. CurrentStreak(A, d) \in Nat /\ CurrentStreak(A, d) <= LongestStreak(A)
  BY CurrentWithin
<1>4. CASE d \in A
  <2>1. B = A
    BY <1>4
  <2> QED
    BY <1>1, <1>3, <1>4, <2>1 DEF Streak!Larger
<1>5. CASE d \notin A
  <2>1. B \in SUBSET (1..d) /\ d \in B
    OBVIOUS
  <2>2. \A c \in 0..(d - 1) : RunTo(B, c) = RunTo(A, c)
    <3> TAKE c \in 0..(d - 1)
    <3>1. c \in Nat /\ \A i \in 1..c : i \in B <=> i \in A
      OBVIOUS
    <3> QED
      BY <3>1, RunsAgree
  <2>3. CurrentStreak(B, d) = RunTo(B, d - 1) + 1 /\ RunTo(B, d) = RunTo(B, d - 1) + 1
    BY <2>1, CurrentIs, RunSteps
  <2>4. CurrentStreak(B, d) = CurrentStreak(A, d) + 1
    BY <1>2, <1>5, <2>2, <2>3
  <2>5. /\ LongestStreak(B) \in Nat
        /\ \A c \in B : RunTo(B, c) <= LongestStreak(B)
        /\ LongestStreak(B) # 0 => \E c \in B : LongestStreak(B) = RunTo(B, c)
    BY <2>1, LongestIs
  <2>6. \A c \in A : c \in B /\ RunTo(B, c) = RunTo(A, c)
    <3> TAKE c \in A
    <3>1. c \in 0..(d - 1)
      BY <1>5
    <3> QED
      BY <2>2, <3>1
  <2>7. \A c \in B : c \in A \/ c = d
    OBVIOUS
  <2> DEFINE best == LongestStreak(A)
             now == CurrentStreak(B, d)
             new == LongestStreak(B)
  <2>8. now \in Nat /\ RunTo(B, d) = now
    BY <1>3, <2>3, <2>4
  <2> HIDE DEF best, now, new
  <2>9. best <= new
    <3>1. CASE best = 0
      BY <2>5, <3>1 DEF best, new
    <3>2. CASE best # 0
      BY <1>1, <2>5, <2>6, <3>2 DEF best, new
    <3> QED
      BY <3>1, <3>2
  <2>10. now <= new
    BY <2>1, <2>5, <2>8 DEF new
  <2>11. new = 0 \/ new <= best \/ new = now
    BY <1>1, <2>5, <2>6, <2>7, <2>8 DEF new, best
  <2>12. new = Streak!Larger(best, now)
    <3>1. new \in Nat /\ best \in Nat
      BY <1>1, <2>5 DEF new, best
    <3> QED
      BY <2>8, <2>9, <2>10, <2>11, <3>1 DEF Streak!Larger
  <2> QED
    BY <1>5, <2>4, <2>12 DEF new, best, now
<1> QED
  BY <1>4, <1>5

\* A night ends the streaks that were not kept up the day before.
LEMMA NightAdded ==
    ASSUME NEW d \in Nat \ {0}, NEW A \in SUBSET (1..d)
    PROVE  CurrentStreak(A, d + 1) = IF d \in A THEN CurrentStreak(A, d) ELSE 0
<1>1. d + 1 \in Nat \ {0} /\ A \in SUBSET (1..(d + 1)) /\ d + 1 \notin A /\ (d + 1) - 1 = d
  OBVIOUS
<1>2. CurrentStreak(A, d + 1) = RunTo(A, d)
  BY <1>1, CurrentIs
<1> QED
  BY <1>2, CurrentIs, RunSteps

\* The days a subject, or any, was practised on.
ActiveOf(s) == ActiveDates(Of(s))

LEMMA ActiveAre ==
    ASSUME LedgerInv, NEW s
    PROVE  ActiveOf(s) \in SUBSET (1..day) /\ day \in Nat \ {0}
<1>1. \A i \in Of(s) : i \in Entries /\ ledger[i].day \in 1..day
  BY DEF Of, LedgerInv
<1> QED
  BY <1>1, MotivationAssumption DEF ActiveOf, ActiveDates, LedgerInv

\* A row makes its day active for its subject, and for all together.
LEMMA PracticeDates ==
    ASSUME LedgerInv, NEW e \in Events, Practice(e), NEW s
    PROVE  ActiveOf(s)' = IF s \in {e.subject, NoSubject} THEN ActiveOf(s) \cup {day}
                                                          ELSE ActiveOf(s)
<1> DEFINE n == Len(ledger)
           row == Stamped(e, day)
<1>1. ledger \in Seq(LedgerRows) /\ n \in Nat /\ day \in Nat
  BY MotivationAssumption DEF LedgerInv
<1>2. row \in LedgerRows /\ row.day = day /\ row.subject = e.subject
  BY <1>1, EventsAre DEF Stamped
<1> HIDE DEF row
<1>3. /\ Len(ledger') = n + 1 /\ ledger'[n + 1] = row
      /\ \A i \in 1..n : ledger'[i] = ledger[i]
  BY <1>1, <1>2, AppendProperties DEF Practice, row
<1>4. \A i \in Of(s)' : i \in Of(s) \/ (i = n + 1 /\ s \in {e.subject, NoSubject})
  BY <1>1, <1>2, <1>3 DEF Of, Entries
<1>5. \A i \in Of(s) : i \in Of(s)' /\ i \in 1..n
  BY <1>1, <1>3 DEF Of, Entries
<1>6. s \in {e.subject, NoSubject} => n + 1 \in Of(s)'
  BY <1>1, <1>2, <1>3 DEF Of, Entries
<1>7. \A i \in Of(s) : ledger'[i].day = ledger[i].day
  BY <1>3, <1>5
<1>8. ActiveOf(s) = {ledger[i].day : i \in Of(s)}
      /\ ActiveOf(s)' = {ledger'[i].day : i \in Of(s)'}
  BY DEF ActiveOf, ActiveDates
<1> HIDE DEF n
<1>9. CASE s \in {e.subject, NoSubject}
  BY <1>2, <1>3, <1>4, <1>5, <1>6, <1>7, <1>8, <1>9
<1>10. CASE s \notin {e.subject, NoSubject}
  BY <1>4, <1>5, <1>7, <1>8, <1>10
<1> QED
  BY <1>9, <1>10

\* The streaks recomputed from the whole history are the counters a learner
\* would keep by hand: for ledgers of any length, each practice raises the
\* counters it should and each night resets those it should, the longest ones
\* included (learn/motivation/_streaks.py).
THEOREM StreaksImplementCounters == MotivationSpec => StreaksAreCounters
<1> DEFINE All == SubjectNumbers \cup {NoSubject}
           count == [s \in All |-> CurrentStreak(ActiveOf(s), day)]
           done == {s \in All : day \in ActiveOf(s)}
           best == [s \in All |-> LongestStreak(ActiveOf(s))]
<1>1. ASSUME MotivationInit PROVE Streak!Init
  <2>1. day = 1 /\ \A s : ActiveOf(s) = {}
    BY <1>1 DEF MotivationInit, ActiveOf, ActiveDates, Of, Entries
  <2>2. CurrentStreak({}, 1) = 0
    BY DEF CurrentStreak
  <2>3. LongestStreak({}) = 0
    <3>1. LongestStreak({}) \in Nat
          /\ (LongestStreak({}) # 0 => \E c \in {} : LongestStreak({}) = RunTo({}, c))
      <4>1. {} \in SUBSET (1..0) /\ 0 \in Nat
        OBVIOUS
      <4> QED
        BY <4>1, LongestIs
    <3> QED
      BY <3>1
  <2> QED
    BY <2>1, <2>2, <2>3 DEF Streak!Init, Streak!Kinds, ActiveOf
<1>2. ASSUME LedgerInv, NEW e \in Events, Practice(e)
      PROVE  Streak!Practise(e.subject) /\ e.subject \in SubjectNumbers
  <2>1. e.subject \in SubjectNumbers
    BY MotivationAssumption
  <2>2. day' = day
    BY <1>2 DEF Practice
  <2>3. ASSUME NEW s \in All
        PROVE  /\ count'[s] = IF s \in {e.subject, NoSubject} \ done
                              THEN count[s] + 1 ELSE count[s]
               /\ s \in done' <=> s \in done \cup {e.subject, NoSubject}
               /\ best'[s] = Streak!Larger(best[s], count'[s])
    <3> DEFINE A == ActiveOf(s)
               B == ActiveOf(s)'
    <3>1. A \in SUBSET (1..day) /\ day \in Nat \ {0}
      BY <1>2, ActiveAre
    <3>2. B = IF s \in {e.subject, NoSubject} THEN A \cup {day} ELSE A
      BY <1>2, PracticeDates
    <3>3. count'[s] = CurrentStreak(B, day) /\ count[s] = CurrentStreak(A, day)
          /\ best'[s] = LongestStreak(B) /\ best[s] = LongestStreak(A)
          /\ (s \in done <=> day \in A) /\ (s \in done' <=> day \in B)
      BY <2>2
    <3> HIDE DEF A, B, count, done, best
    <3>4. CASE s \in {e.subject, NoSubject}
      <4>1. B = A \cup {day}
        BY <3>2, <3>4
      <4>2. /\ CurrentStreak(B, day) = IF day \in A THEN CurrentStreak(A, day)
                                                   ELSE CurrentStreak(A, day) + 1
            /\ LongestStreak(B) = Streak!Larger(LongestStreak(A), CurrentStreak(B, day))
        BY <3>1, <4>1, DayAdded
      <4> QED
        BY <3>3, <3>4, <4>1, <4>2
    <3>5. CASE s \notin {e.subject, NoSubject}
      <4>1. B = A
        BY <3>2, <3>5
      <4>2. /\ CurrentStreak(A, day) \in Nat /\ LongestStreak(A) \in Nat
            /\ CurrentStreak(A, day) <= LongestStreak(A)
        BY <3>1, CurrentWithin, LongestIs
      <4>3. Streak!Larger(LongestStreak(A), CurrentStreak(A, day)) = LongestStreak(A)
        BY <4>2 DEF Streak!Larger
      <4> QED
        BY <3>3, <3>5, <4>1, <4>3
    <3> QED
      BY <3>4, <3>5
  <2>4. count' = [s \in All |-> IF s \in {e.subject, NoSubject} \ done
                                THEN count[s] + 1 ELSE count[s]]
    BY <2>3
  <2>5. done' = done \cup {e.subject, NoSubject}
    BY <2>1, <2>3
  <2>6. best' = [s \in All |-> Streak!Larger(best[s], count'[s])]
    BY <2>3
  <2> QED
    BY <2>1, <2>4, <2>5, <2>6 DEF Streak!Practise, Streak!Kinds, ActiveOf
<1>3. ASSUME LedgerInv, NextDay PROVE Streak!NextDay
  <2>1. day' = day + 1 /\ \A s : ActiveOf(s)' = ActiveOf(s)
    BY <1>3 DEF NextDay, ActiveOf, ActiveDates, Of, Entries
  <2>2. ASSUME NEW s \in All
        PROVE  /\ count'[s] = IF s \in done THEN count[s] ELSE 0
               /\ s \notin done'
               /\ best'[s] = best[s]
    <3> DEFINE A == ActiveOf(s)
    <3>1. A \in SUBSET (1..day) /\ day \in Nat \ {0}
      BY <1>3, ActiveAre
    <3>2. count'[s] = CurrentStreak(A, day + 1) /\ count[s] = CurrentStreak(A, day)
          /\ best'[s] = LongestStreak(A) /\ best[s] = LongestStreak(A)
          /\ (s \in done <=> day \in A) /\ (s \in done' <=> day + 1 \in A)
      BY <2>1
    <3> HIDE DEF A, count, done, best
    <3>3. CurrentStreak(A, day + 1) = IF day \in A THEN CurrentStreak(A, day) ELSE 0
      BY <3>1, NightAdded
    <3>4. day + 1 \notin A
      BY <3>1
    <3> QED
      BY <3>2, <3>3, <3>4
  <2>3. count' = [s \in All |-> IF s \in done THEN count[s] ELSE 0]
    BY <2>2
  <2>4. done' = {}
    BY <2>2
  <2>5. best' = best
    BY <2>2
  <2> QED
    BY <2>3, <2>4, <2>5 DEF Streak!NextDay, Streak!Kinds, ActiveOf
<1>4. ASSUME UNCHANGED motivationVars PROVE UNCHANGED <<count, done, best>>
  BY <1>4 DEF motivationVars, ActiveOf, ActiveDates, Of, Entries
<1>5. LedgerInv /\ [MotivationNext]_motivationVars => [Streak!Next]_<<count, done, best>>
  BY <1>2, <1>3, <1>4 DEF MotivationNext, Streak!Next
<1> QED
  BY <1>1, <1>5, LedgerInvariant, PTL
     DEF MotivationSpec, StreaksAreCounters, Streak!Spec, ActiveOf

-----------------------------------------------------------------------------
(* The schema validator: its recursive functions satisfy their equations.  *)
(* Up to each level there is a function that does, two of them agree where *)
(* both are defined, and what they agree on is the whole function.         *)

\* The guard of a schema is what it and the schemas in it have.
LEMMA WalkUnfolds ==
    \A s \in Schemata :
        WalkKeywords[s] = (DOMAIN s \ SUPPORTED_KEYWORDS)
                              \cup UNION {WalkKeywords[t] : t \in WalkInto(s)}
<1> DEFINE Body(f, s) == (DOMAIN s \ SUPPORTED_KEYWORDS) \cup UNION {f[t] : t \in WalkInto(s)}
           Below(n) == {s \in Schemata : Depth[s] < n}
           Good(n, f) == f = [s \in Below(n) |-> Body(f, s)]
           Bad == {n \in Nat : ~\E f : Good(n, f)}
<1>1. ASSUME NEW f, NEW g, NEW s \in Schemata, \A t \in WalkInto(s) : f[t] = g[t]
      PROVE  Body(f, s) = Body(g, s)
  <2>1. {f[t] : t \in WalkInto(s)} = {g[t] : t \in WalkInto(s)}
    BY <1>1
  <2> QED
    BY <2>1
<1>2. /\ \A s \in Schemata : Depth[s] \in Nat
      /\ \A s \in Schemata : \A t \in WalkInto(s) : t \in Schemata /\ Depth[t] < Depth[s]
  BY ValidatorAssumption
<1> DEFINE Inner(s) == WalkInto(s)
<1>3. \A s \in Schemata : \A t \in Inner(s) : t \in Schemata /\ Depth[t] < Depth[s]
  BY <1>2
<1>4. ASSUME NEW f, NEW g, NEW s \in Schemata, \A t \in Inner(s) : f[t] = g[t]
      PROVE  Body(f, s) = Body(g, s)
  BY <1>1, <1>4
<1> HIDE DEF Body, Inner
<1>5. Bad = {}
  <2> SUFFICES ASSUME Bad # {} PROVE FALSE
    OBVIOUS
  <2>1. Bad \in SUBSET Nat
    OBVIOUS
  <2> HIDE DEF Bad, Good
  <2>2. PICK n \in Bad : \A m \in Bad : n <= m
    BY <2>1, LeastElement
  <2>3. n \in Nat /\ ~\E f : Good(n, f)
    BY <2>2 DEF Bad
  <2>4. n # 0
    <3>1. Below(0) = {}
      BY <1>2
    <3>2. Good(0, [s \in {} |-> {}])
      BY <3>1 DEF Good
    <3> QED
      BY <2>3, <3>2
  <2>5. PICK f : Good(n - 1, f)
    <3>1. n - 1 \in Nat /\ n - 1 \notin Bad
      BY <2>2, <2>3, <2>4
    <3> QED
      BY <3>1 DEF Bad
  <2> DEFINE u == [s \in Below(n) |-> Body(f, s)]
  <2>6. ASSUME NEW s \in Below(n) PROVE u[s] = Body(u, s)
    <3>1. \A t \in Inner(s) : t \in Below(n) /\ t \in Below(n - 1)
      BY <1>2, <1>3, <2>3
    <3>2. \A t \in Below(n - 1) : f[t] = Body(f, t)
      BY <2>5 DEF Good
    <3>3. \A t \in Inner(s) : u[t] = f[t]
      BY <3>1, <3>2
    <3>4. Body(u, s) = Body(f, s)
      BY <1>4, <3>3
    <3> QED
      BY <3>4
  <2>7. Good(n, u)
    BY <2>6 DEF Good
  <2> QED
    BY <2>3, <2>7
<1>6. ASSUME NEW n \in Nat, NEW m \in Nat, NEW f, NEW g, Good(n, f), Good(m, g)
      PROVE  \A s \in Schemata : Depth[s] < n /\ Depth[s] < m => f[s] = g[s]
  <2> DEFINE Apart == {k \in Nat : \E s \in Schemata : /\ k = Depth[s] /\ k < n /\ k < m
                                                       /\ f[s] # g[s]}
  <2>1. Apart = {}
    <3> SUFFICES ASSUME Apart # {} PROVE FALSE
      OBVIOUS
    <3>1. Apart \in SUBSET Nat
      OBVIOUS
    <3>2. PICK k \in Apart : \A j \in Apart : k <= j
      <4> HIDE DEF Apart
      <4> QED
        BY <3>1, LeastElement
    <3>3. PICK s \in Schemata : k = Depth[s] /\ k < n /\ k < m /\ f[s] # g[s]
      BY <3>2
    <3>4. \A t \in Inner(s) : f[t] = g[t]
      <4> TAKE t \in Inner(s)
      <4>1. t \in Schemata /\ Depth[t] < k /\ Depth[t] \in Nat
        BY <1>2, <1>3, <3>3
      <4>2. Depth[t] \notin Apart /\ Depth[t] < n /\ Depth[t] < m
        BY <3>1, <3>2, <3>3, <4>1
      <4> QED
        BY <4>1, <4>2
    <3>5. f[s] = Body(f, s) /\ g[s] = Body(g, s)
      BY <1>6, <3>3
    <3> QED
      BY <1>4, <3>3, <3>4, <3>5
  <2> QED
    BY <1>2, <2>1
<1> DEFINE level(n) == CHOOSE f : Good(n, f)
           whole == [s \in Schemata |-> level(Depth[s] + 1)[s]]
<1>7. \A n \in Nat : Good(n, level(n))
  <2> HIDE DEF Good
  <2> QED
    BY <1>5
<1> HIDE DEF level
<1>8. ASSUME NEW s \in Schemata PROVE whole[s] = Body(whole, s)
  <2> DEFINE n == Depth[s] + 1
             f == level(n)
  <2>1. n \in Nat /\ Depth[s] < n /\ Good(n, f)
    <3>1. n \in Nat /\ Depth[s] < n
      BY <1>2
    <3> HIDE DEF n, Good
    <3> QED
      BY <3>1, <1>7
  <2>2. \A t \in Inner(s) : whole[t] = f[t]
    <3> TAKE t \in Inner(s)
    <3>1. /\ t \in Schemata /\ Depth[t] + 1 \in Nat /\ Depth[t] < n
          /\ Depth[t] < Depth[t] + 1
      BY <1>2, <1>3
    <3>2. Good(Depth[t] + 1, level(Depth[t] + 1))
      BY <1>7, <3>1
    <3> HIDE DEF Good, n, f
    <3>3. level(Depth[t] + 1)[t] = f[t]
      BY <1>6, <2>1, <3>1, <3>2
    <3> QED
      BY <3>1, <3>3
  <2>3. f[s] = Body(f, s)
    BY <2>1
  <2> HIDE DEF f
  <2>4. Body(whole, s) = Body(f, s)
    BY <1>4, <2>2
  <2>5. whole[s] = f[s]
    BY DEF f
  <2> QED
    BY <2>3, <2>4, <2>5
<1>9. \E f : f = [s \in Schemata |-> Body(f, s)]
  <2> WITNESS whole
  <2> QED
    BY <1>8
<1>10. WalkKeywords = [s \in Schemata |-> Body(WalkKeywords, s)]
  BY <1>9 DEF WalkKeywords, Body
<1> QED
  BY <1>10 DEF Body

\* _check of a query is what it makes of the calls it makes.
LEMMA CheckUnfolds ==
    \A q \in Queries :
        CheckValue[q] = CheckAll([call \in Calls(q[1], q[2]) |-> CheckValue[call]],
                                  q[1], q[2].schema, q[2].root)
<1> DEFINE Inner(q) == Calls(q[1], q[2])
           Body(f, q) == CheckAll([call \in Inner(q) |-> f[call]], q[1], q[2].schema, q[2].root)
           Below(n) == {q \in Queries : Height[q] < n}
           Good(n, f) == f = [q \in Below(n) |-> Body(f, q)]
           Bad == {n \in Nat : ~\E f : Good(n, f)}
<1>2. /\ \A q \in Queries : Height[q] \in Nat
      /\ \A q \in Queries : \A call \in Inner(q) :
            call \in Queries /\ Height[call] < Height[q]
  BY ValidatorAssumption
<1>3. \A q \in Queries : \A call \in Inner(q) : call \in Queries /\ Height[call] < Height[q]
  BY <1>2
<1>4. ASSUME NEW f, NEW g, NEW q \in Queries, \A call \in Inner(q) : f[call] = g[call]
      PROVE  Body(f, q) = Body(g, q)
  <2>1. [call \in Inner(q) |-> f[call]] = [call \in Inner(q) |-> g[call]]
    BY <1>4
  <2> HIDE DEF Inner
  <2> QED
    BY <2>1
<1> HIDE DEF Body, Inner
<1>5. Bad = {}
  <2> SUFFICES ASSUME Bad # {} PROVE FALSE
    OBVIOUS
  <2>1. Bad \in SUBSET Nat
    OBVIOUS
  <2> HIDE DEF Bad, Good
  <2>2. PICK n \in Bad : \A m \in Bad : n <= m
    BY <2>1, LeastElement
  <2>3. n \in Nat /\ ~\E f : Good(n, f)
    BY <2>2 DEF Bad
  <2>4. n # 0
    <3>1. Below(0) = {}
      BY <1>2
    <3>2. Good(0, [q \in {} |-> {}])
      BY <3>1 DEF Good
    <3> QED
      BY <2>3, <3>2
  <2>5. PICK f : Good(n - 1, f)
    <3>1. n - 1 \in Nat /\ n - 1 \notin Bad
      BY <2>2, <2>3, <2>4
    <3> QED
      BY <3>1 DEF Bad
  <2> DEFINE u == [q \in Below(n) |-> Body(f, q)]
  <2>6. ASSUME NEW q \in Below(n) PROVE u[q] = Body(u, q)
    <3>1. \A call \in Inner(q) : call \in Below(n) /\ call \in Below(n - 1)
      BY <1>2, <1>3, <2>3
    <3>2. \A call \in Below(n - 1) : f[call] = Body(f, call)
      BY <2>5 DEF Good
    <3>3. \A call \in Inner(q) : u[call] = f[call]
      BY <3>1, <3>2
    <3>4. Body(u, q) = Body(f, q)
      BY <1>4, <3>3
    <3> QED
      BY <3>4
  <2>7. Good(n, u)
    BY <2>6 DEF Good
  <2> QED
    BY <2>3, <2>7
<1>6. ASSUME NEW n \in Nat, NEW m \in Nat, NEW f, NEW g, Good(n, f), Good(m, g)
      PROVE  \A q \in Queries : Height[q] < n /\ Height[q] < m => f[q] = g[q]
  <2> DEFINE Apart == {k \in Nat : \E q \in Queries : /\ k = Height[q] /\ k < n /\ k < m
                                                       /\ f[q] # g[q]}
  <2>1. Apart = {}
    <3> SUFFICES ASSUME Apart # {} PROVE FALSE
      OBVIOUS
    <3>1. Apart \in SUBSET Nat
      OBVIOUS
    <3>2. PICK k \in Apart : \A j \in Apart : k <= j
      <4> HIDE DEF Apart
      <4> QED
        BY <3>1, LeastElement
    <3>3. PICK q \in Queries : k = Height[q] /\ k < n /\ k < m /\ f[q] # g[q]
      BY <3>2
    <3>4. \A call \in Inner(q) : f[call] = g[call]
      <4> TAKE call \in Inner(q)
      <4>1. call \in Queries /\ Height[call] < k /\ Height[call] \in Nat
        BY <1>2, <1>3, <3>3
      <4>2. Height[call] \notin Apart /\ Height[call] < n /\ Height[call] < m
        BY <3>1, <3>2, <3>3, <4>1
      <4> QED
        BY <4>1, <4>2
    <3>5. f[q] = Body(f, q) /\ g[q] = Body(g, q)
      BY <1>6, <3>3
    <3> QED
      BY <1>4, <3>3, <3>4, <3>5
  <2> QED
    BY <1>2, <2>1
<1> DEFINE level(n) == CHOOSE f : Good(n, f)
           whole == [q \in Queries |-> level(Height[q] + 1)[q]]
<1>7. \A n \in Nat : Good(n, level(n))
  <2> HIDE DEF Good
  <2> QED
    BY <1>5
<1> HIDE DEF level
<1>8. ASSUME NEW q \in Queries PROVE whole[q] = Body(whole, q)
  <2> DEFINE n == Height[q] + 1
             f == level(n)
  <2>1. n \in Nat /\ Height[q] < n /\ Good(n, f)
    <3>1. n \in Nat /\ Height[q] < n
      BY <1>2
    <3> HIDE DEF n, Good
    <3> QED
      BY <3>1, <1>7
  <2>2. \A call \in Inner(q) : whole[call] = f[call]
    <3> TAKE call \in Inner(q)
    <3>1. /\ call \in Queries /\ Height[call] + 1 \in Nat /\ Height[call] < n
          /\ Height[call] < Height[call] + 1
      BY <1>2, <1>3
    <3>2. Good(Height[call] + 1, level(Height[call] + 1))
      BY <1>7, <3>1
    <3> HIDE DEF Good, n, f
    <3>3. level(Height[call] + 1)[call] = f[call]
      BY <1>6, <2>1, <3>1, <3>2
    <3> QED
      BY <3>1, <3>3
  <2>3. f[q] = Body(f, q)
    BY <2>1
  <2> HIDE DEF f
  <2>4. Body(whole, q) = Body(f, q)
    BY <1>4, <2>2
  <2>5. whole[q] = f[q]
    BY DEF f
  <2> QED
    BY <2>3, <2>4, <2>5
<1>9. \E f : f = [q \in Queries |-> Body(f, q)]
  <2> WITNESS whole
  <2> QED
    BY <1>8
<1>10. CheckValue = [q \in Queries |-> Body(CheckValue, q)]
  BY <1>9 DEF CheckValue, Body, Inner
<1> QED
  BY <1>10 DEF Body, Inner

\* A schema allows what its keywords and the schemas in it allow.
LEMMA AllowsUnfolds ==
    \A q \in Queries :
        Allows[q] = AllowsAll({call \in Calls(q[1], q[2]) : Allows[call]},
                              q[1], q[2].schema, q[2].root)
<1> DEFINE Inner(q) == Calls(q[1], q[2])
           Body(f, q) == AllowsAll({call \in Inner(q) : f[call]}, q[1], q[2].schema, q[2].root)
           Below(n) == {q \in Queries : Height[q] < n}
           Good(n, f) == f = [q \in Below(n) |-> Body(f, q)]
           Bad == {n \in Nat : ~\E f : Good(n, f)}
<1>2. /\ \A q \in Queries : Height[q] \in Nat
      /\ \A q \in Queries : \A call \in Inner(q) :
            call \in Queries /\ Height[call] < Height[q]
  BY ValidatorAssumption
<1>3. \A q \in Queries : \A call \in Inner(q) : call \in Queries /\ Height[call] < Height[q]
  BY <1>2
<1>4. ASSUME NEW f, NEW g, NEW q \in Queries, \A call \in Inner(q) : f[call] = g[call]
      PROVE  Body(f, q) = Body(g, q)
  <2>1. {call \in Inner(q) : f[call]} = {call \in Inner(q) : g[call]}
    BY <1>4
  <2> HIDE DEF Inner
  <2> QED
    BY <2>1
<1> HIDE DEF Body, Inner
<1>5. Bad = {}
  <2> SUFFICES ASSUME Bad # {} PROVE FALSE
    OBVIOUS
  <2>1. Bad \in SUBSET Nat
    OBVIOUS
  <2> HIDE DEF Bad, Good
  <2>2. PICK n \in Bad : \A m \in Bad : n <= m
    BY <2>1, LeastElement
  <2>3. n \in Nat /\ ~\E f : Good(n, f)
    BY <2>2 DEF Bad
  <2>4. n # 0
    <3>1. Below(0) = {}
      BY <1>2
    <3>2. Good(0, [q \in {} |-> {}])
      BY <3>1 DEF Good
    <3> QED
      BY <2>3, <3>2
  <2>5. PICK f : Good(n - 1, f)
    <3>1. n - 1 \in Nat /\ n - 1 \notin Bad
      BY <2>2, <2>3, <2>4
    <3> QED
      BY <3>1 DEF Bad
  <2> DEFINE u == [q \in Below(n) |-> Body(f, q)]
  <2>6. ASSUME NEW q \in Below(n) PROVE u[q] = Body(u, q)
    <3>1. \A call \in Inner(q) : call \in Below(n) /\ call \in Below(n - 1)
      BY <1>2, <1>3, <2>3
    <3>2. \A call \in Below(n - 1) : f[call] = Body(f, call)
      BY <2>5 DEF Good
    <3>3. \A call \in Inner(q) : u[call] = f[call]
      BY <3>1, <3>2
    <3>4. Body(u, q) = Body(f, q)
      BY <1>4, <3>3
    <3> QED
      BY <3>4
  <2>7. Good(n, u)
    BY <2>6 DEF Good
  <2> QED
    BY <2>3, <2>7
<1>6. ASSUME NEW n \in Nat, NEW m \in Nat, NEW f, NEW g, Good(n, f), Good(m, g)
      PROVE  \A q \in Queries : Height[q] < n /\ Height[q] < m => f[q] = g[q]
  <2> DEFINE Apart == {k \in Nat : \E q \in Queries : /\ k = Height[q] /\ k < n /\ k < m
                                                       /\ f[q] # g[q]}
  <2>1. Apart = {}
    <3> SUFFICES ASSUME Apart # {} PROVE FALSE
      OBVIOUS
    <3>1. Apart \in SUBSET Nat
      OBVIOUS
    <3>2. PICK k \in Apart : \A j \in Apart : k <= j
      <4> HIDE DEF Apart
      <4> QED
        BY <3>1, LeastElement
    <3>3. PICK q \in Queries : k = Height[q] /\ k < n /\ k < m /\ f[q] # g[q]
      BY <3>2
    <3>4. \A call \in Inner(q) : f[call] = g[call]
      <4> TAKE call \in Inner(q)
      <4>1. call \in Queries /\ Height[call] < k /\ Height[call] \in Nat
        BY <1>2, <1>3, <3>3
      <4>2. Height[call] \notin Apart /\ Height[call] < n /\ Height[call] < m
        BY <3>1, <3>2, <3>3, <4>1
      <4> QED
        BY <4>1, <4>2
    <3>5. f[q] = Body(f, q) /\ g[q] = Body(g, q)
      BY <1>6, <3>3
    <3> QED
      BY <1>4, <3>3, <3>4, <3>5
  <2> QED
    BY <1>2, <2>1
<1> DEFINE level(n) == CHOOSE f : Good(n, f)
           whole == [q \in Queries |-> level(Height[q] + 1)[q]]
<1>7. \A n \in Nat : Good(n, level(n))
  <2> HIDE DEF Good
  <2> QED
    BY <1>5
<1> HIDE DEF level
<1>8. ASSUME NEW q \in Queries PROVE whole[q] = Body(whole, q)
  <2> DEFINE n == Height[q] + 1
             f == level(n)
  <2>1. n \in Nat /\ Height[q] < n /\ Good(n, f)
    <3>1. n \in Nat /\ Height[q] < n
      BY <1>2
    <3> HIDE DEF n, Good
    <3> QED
      BY <3>1, <1>7
  <2>2. \A call \in Inner(q) : whole[call] = f[call]
    <3> TAKE call \in Inner(q)
    <3>1. /\ call \in Queries /\ Height[call] + 1 \in Nat /\ Height[call] < n
          /\ Height[call] < Height[call] + 1
      BY <1>2, <1>3
    <3>2. Good(Height[call] + 1, level(Height[call] + 1))
      BY <1>7, <3>1
    <3> HIDE DEF Good, n, f
    <3>3. level(Height[call] + 1)[call] = f[call]
      BY <1>6, <2>1, <3>1, <3>2
    <3> QED
      BY <3>1, <3>3
  <2>3. f[q] = Body(f, q)
    BY <2>1
  <2> HIDE DEF f
  <2>4. Body(whole, q) = Body(f, q)
    BY <1>4, <2>2
  <2>5. whole[q] = f[q]
    BY DEF f
  <2> QED
    BY <2>3, <2>4, <2>5
<1>9. \E f : f = [q \in Queries |-> Body(f, q)]
  <2> WITNESS whole
  <2> QED
    BY <1>8
<1>10. Allows = [q \in Queries |-> Body(Allows, q)]
  BY <1>9 DEF Allows, Body, Inner
<1> QED
  BY <1>10 DEF Body, Inner

-----------------------------------------------------------------------------
(* The schema validator: what the guard passes.                            *)

\* What the guard is silent about.
Clean(s) == WalkKeywords[s] = {}
SiblingsClean == \A name \in DOMAIN SIBLINGS : Clean(SIBLINGS[name])
CleanPart(p) == Clean(p.schema) /\ Clean(p.root)

\* What the guard passes has no keyword the validator does not know, and
\* nothing the guard does not pass nests in it.
LEMMA CleanBelow ==
    ASSUME NEW s \in Schemata, Clean(s)
    PROVE  ~Has(s, "maximum") /\ \A t \in WalkInto(s) : Clean(t)
<1>1. /\ DOMAIN s \ SUPPORTED_KEYWORDS = {}
      /\ UNION {WalkKeywords[t] : t \in WalkInto(s)} = {}
  BY WalkUnfolds DEF Clean
<1>2. ~Has(s, "maximum")
  BY <1>1 DEF Has, SUPPORTED_KEYWORDS
<1>3. ASSUME NEW t \in WalkInto(s) PROVE WalkKeywords[t] = {}
  BY <1>1
<1> QED
  BY <1>2, <1>3 DEF Clean

\* The fields of a part.
LEMMA PartFields ==
    \A s, root : Part(s, root).schema = s /\ Part(s, root).root = root
BY DEF Part

\* Of a part the guard passes, with siblings it passes, _check asks only
\* about such parts.
LEMMA CleanCalls ==
    ASSUME NEW value, NEW p \in Parts, CleanPart(p), SiblingsClean,
           NEW call \in Calls(value, p)
    PROVE  CleanPart(call[2])
<1> DEFINE s == p.schema
           root == p.root
<1>1. s \in Schemata /\ root \in Schemata
  BY ValidatorAssumption DEF Schemata
<1>2. /\ \A t \in WalkInto(s) : Clean(t)
      /\ \A t \in WalkInto(root) : Clean(t)
  BY <1>1, CleanBelow DEF CleanPart
<1> DEFINE below == AllIn(s, "anyOf") \cup OneIn(s, "not") \cup AllIn(s, "properties")
                        \cup ForExtra(s) \cup OneIn(s, "items")
<1>3. below \subseteq WalkInto(s)
  BY DEF WalkInto
<1>4. \/ \E t \in below : call[2] = Part(t, root)
      \/ \E ref \in OneIn(s, "ref") : Resolves(ref, root) /\ call[2] = Target(ref, root)
  BY DEF Calls
<1>5. CASE \E t \in below : call[2] = Part(t, root)
  <2>1. PICK t \in below : call[2] = Part(t, root)
    BY <1>5
  <2>2. Clean(t) /\ Clean(root)
    BY <1>2, <1>3, <2>1 DEF CleanPart
  <2> QED
    BY <2>1, <2>2, PartFields DEF CleanPart
<1>6. CASE \E ref \in OneIn(s, "ref") : Resolves(ref, root) /\ call[2] = Target(ref, root)
  <2>1. PICK ref \in OneIn(s, "ref") : Resolves(ref, root) /\ call[2] = Target(ref, root)
    BY <1>6
  <2>2. CASE ref.local
    <3>1. Has(root, "defs") /\ ref.name \in DOMAIN root.defs
      BY <2>1, <2>2 DEF Resolves, Has
    <3>2. root.defs[ref.name] \in WalkInto(root)
      BY <3>1 DEF WalkInto, AllIn, Range
    <3>3. call[2] = Part(root.defs[ref.name], root)
      BY <2>1, <2>2 DEF Target
    <3> QED
      BY <1>2, <3>2, <3>3, PartFields DEF CleanPart
  <2>3. CASE ~ref.local
    <3>1. ref.name \in DOMAIN SIBLINGS
      BY <2>1, <2>3 DEF Resolves, Has
    <3>2. call[2] = Part(SIBLINGS[ref.name], SIBLINGS[ref.name])
      BY <2>1, <2>3 DEF Target, File
    <3> QED
      BY <3>1, <3>2, PartFields DEF CleanPart, SiblingsClean
  <2> QED
    BY <2>2, <2>3
<1> QED
  BY <1>4, <1>5, <1>6

\* Nothing is found in all exactly when nothing is found in each.
LEMMA NoneInAny == \A S : UNION S = {} <=> \A x \in S : x = {}
OBVIOUS

\* An if of the code appends its error or none.
LEMMA NoError == \A wrong, rule : ErrorIf(wrong, rule) = {} <=> ~wrong
BY DEF ErrorIf

\* What an object is asked: its own keys, and the calls for the values in it.
ObjectPasses(Found, value, s, root) ==
    /\ Has(s, "required") => s.required \subseteq DOMAIN value.fields
    /\ \A key \in DOMAIN value.fields \cap PropertiesOf(s) :
         Found[<<value.fields[key], Part(s.properties[key], root)>>] = {}
    /\ Has(s, "additionalProperties") =>
         IF Has(s.additionalProperties, "schema")
         THEN \A key \in DOMAIN value.fields \ PropertiesOf(s) :
                Found[<<value.fields[key],
                        Part(s.additionalProperties.schema, root)>>] = {}
         ELSE DOMAIN value.fields \ PropertiesOf(s) = {}

\* An object passes when its keys do, and the values under them.
LEMMA ObjectVerdict ==
    ASSUME NEW Found, NEW value, NEW s, NEW root, value.kind = "object"
    PROVE  CheckObject(Found, value, s, root) = {} <=> ObjectPasses(Found, value, s, root)
<1> DEFINE keys == DOMAIN value.fields
           extra == keys \ PropertiesOf(s)
           of(key) == Found[<<value.fields[key], Part(s.properties[key], root)>>]
           ofExtra(key) == Found[<<value.fields[key],
                                   Part(s.additionalProperties.schema, root)>>]
<1>1. ErrorIf(Has(s, "required") /\ ~(s.required \subseteq keys), "required")
        = {} <=> (Has(s, "required") => s.required \subseteq keys)
  BY NoError
<1>2. CheckKnown(Found, value, s, root) = {}
        <=> \A key \in keys \cap PropertiesOf(s) : of(key) = {}
  <2>1. CheckKnown(Found, value, s, root) = UNION {of(key) : key \in keys \cap PropertiesOf(s)}
    BY DEF CheckKnown
  <2> HIDE DEF of, keys
  <2> QED
    BY <2>1, NoneInAny
<1>3. CheckExtra(Found, value, s, root) = {} <=>
        (Has(s, "additionalProperties") =>
            IF Has(s.additionalProperties, "schema")
            THEN \A key \in extra : ofExtra(key) = {}
            ELSE extra = {})
  <2>1. CASE ~Has(s, "additionalProperties")
    BY <2>1 DEF CheckExtra
  <2>2. CASE Has(s, "additionalProperties") /\ Has(s.additionalProperties, "schema")
    <3>1. CheckExtra(Found, value, s, root) = UNION {ofExtra(key) : key \in extra}
      BY <2>2 DEF CheckExtra
    <3> HIDE DEF ofExtra, extra
    <3> QED
      BY <2>2, <3>1, NoneInAny
  <2>3. CASE Has(s, "additionalProperties") /\ ~Has(s.additionalProperties, "schema")
    <3>1. CheckExtra(Found, value, s, root) = ErrorIf(extra # {}, "additionalProperties")
      BY <2>3 DEF CheckExtra
    <3> HIDE DEF extra
    <3> QED
      BY <2>3, <3>1, NoError
  <2> QED
    BY <2>1, <2>2, <2>3
<1> HIDE DEF of, ofExtra
<1>4. CheckObject(Found, value, s, root) = {} <=>
        /\ ErrorIf(Has(s, "required") /\ ~(s.required \subseteq keys), "required") = {}
        /\ CheckKnown(Found, value, s, root) = {}
        /\ CheckExtra(Found, value, s, root) = {}
  BY DEF CheckObject
<1> QED
  BY <1>1, <1>2, <1>3, <1>4 DEF ObjectPasses, of, ofExtra

\* The calls of each keyword are among those of the part.
LEMMA TheCalls ==
    ASSUME NEW value, NEW p,
           NEW s, s = p.schema, NEW root, root = p.root
    PROVE  /\ Has(s, "ref") /\ Resolves(s.ref, root) =>
                <<value, Target(s.ref, root)>> \in Calls(value, p)
           /\ value.kind = "object" =>
                \A key \in DOMAIN value.fields \cap PropertiesOf(s) :
                    <<value.fields[key], Part(s.properties[key], root)>> \in Calls(value, p)
           /\ value.kind = "object" /\ Has(s, "additionalProperties")
                  /\ Has(s.additionalProperties, "schema") =>
                \A key \in DOMAIN value.fields :
                    <<value.fields[key], Part(s.additionalProperties.schema, root)>>
                        \in Calls(value, p)
           /\ value.kind = "array" /\ Has(s, "items") =>
                \A element \in Range(value.elements) :
                    <<element, Part(s.items, root)>> \in Calls(value, p)
           /\ Has(s, "anyOf") =>
                \A option \in Range(s.anyOf) : <<value, Part(option, root)>> \in Calls(value, p)
           /\ Has(s, "not") => <<value, Part(s.not, root)>> \in Calls(value, p)
<1> DEFINE Within(schemas) == {Part(t, root) : t \in schemas}
           same == {value} \X Within(AllIn(s, "anyOf") \cup OneIn(s, "not"))
           refs == {<<value, Target(ref, root)>> :
                       ref \in {r \in OneIn(s, "ref") : Resolves(r, root)}}
           inner == Inside(value)
                       \X Within(AllIn(s, "properties") \cup ForExtra(s) \cup OneIn(s, "items"))
<1>1. Calls(value, p) = same \cup refs \cup inner
  BY DEF Calls
<1>2. Has(s, "ref") /\ Resolves(s.ref, root) => <<value, Target(s.ref, root)>> \in refs
  BY DEF OneIn
<1>3. Has(s, "not") => <<value, Part(s.not, root)>> \in same
  BY DEF OneIn
<1>4. Has(s, "anyOf") => \A option \in Range(s.anyOf) : <<value, Part(option, root)>> \in same
  BY DEF AllIn
<1>5. value.kind = "object" => \A key \in DOMAIN value.fields : value.fields[key] \in Inside(value)
  BY DEF Inside, Range
<1>6. value.kind = "array" => \A element \in Range(value.elements) : element \in Inside(value)
  BY DEF Inside
<1>7. \A key \in PropertiesOf(s) : s.properties[key] \in AllIn(s, "properties")
  BY DEF PropertiesOf, AllIn, Range
<1>8. Has(s, "additionalProperties") /\ Has(s.additionalProperties, "schema") =>
          s.additionalProperties.schema \in ForExtra(s)
  BY DEF ForExtra
<1>9. Has(s, "items") => s.items \in OneIn(s, "items")
  BY DEF OneIn
<1>10. \A v \in Inside(value) :
         \A t \in AllIn(s, "properties") \cup ForExtra(s) \cup OneIn(s, "items") :
            <<v, Part(t, root)>> \in inner
  OBVIOUS
<1> HIDE DEF same, refs, inner
<1> QED
  BY <1>1, <1>2, <1>3, <1>4, <1>5, <1>6, <1>7, <1>8, <1>9, <1>10

\* One step of both: if the calls agree, keyword by keyword so does the part.
LEMMA KeywordsAgree ==
    ASSUME NEW value \in Instances, NEW p \in Parts,
           ~Has(p.schema, "maximum"), NEW Found, NEW Allowed,
           \A call \in Calls(value, p) : Found[call] = {} <=> call \in Allowed
    PROVE  CheckAll(Found, value, p.schema, p.root) = {}
             <=> AllowsAll(Allowed, value, p.schema, p.root)
<1> SUFFICES ASSUME NEW s, s = p.schema, NEW root, root = p.root, ~Has(s, "maximum")
             PROVE  CheckAll(Found, value, s, root) = {}
                      <=> AllowsAll(Allowed, value, s, root)
  OBVIOUS
<1>0. /\ Has(s, "minLength") => s.minLength \in Nat
      /\ Has(s, "minItems") => s.minItems \in Nat
      /\ Has(s, "minimum") => s.minimum \in Int
      /\ Numeric(value) => value.floor \in Int
      /\ value.kind = "string" => Len(value.letters) \in Nat
      /\ value.kind = "array" => Len(value.elements) \in Nat
  <2>1. s \in Schemata
    BY DEF Schemata
  <2> QED
    BY <2>1, ValidatorAssumption DEF Numeric
<1>1. CheckRef(Found, value, s, root) = {} <=>
        (Has(s, "ref") => Resolves(s.ref, root) /\ <<value, Target(s.ref, root)>> \in Allowed)
  <2>1. Has(s, "ref") /\ Resolves(s.ref, root) =>
            (Found[<<value, Target(s.ref, root)>>] = {}
                <=> <<value, Target(s.ref, root)>> \in Allowed)
    BY TheCalls
  <2> QED
    BY <2>1 DEF CheckRef
<1>2. ~TypeMismatch(value, s) <=>
        (Has(s, "type") => \E name \in Range(s.type) : MatchesType(value, name))
  BY DEF TypeMismatch
<1>3. CheckEnumConst(value, s) = {} <=>
        /\ Has(s, "enum") => value \in Range(s.enum)
        /\ Has(s, "const") => value = s.const
  BY NoError DEF CheckEnumConst
<1>4. CheckString(value, s) = {} <=>
        (value.kind = "string" =>
            /\ Has(s, "pattern") => value.letters \in s.pattern
            /\ Has(s, "minLength") => Len(value.letters) >= s.minLength)
  <2>1. value.kind = "string" /\ Has(s, "minLength") =>
            (Len(value.letters) < s.minLength <=> ~(Len(value.letters) >= s.minLength))
    BY <1>0
  <2>2. CheckString(value, s) =
          IF value.kind # "string" THEN {}
          ELSE ErrorIf(Has(s, "pattern") /\ value.letters \notin s.pattern, "pattern")
                  \cup ErrorIf(Has(s, "minLength") /\ Len(value.letters) < s.minLength,
                               "minLength")
    BY DEF CheckString
  <2>3. ErrorIf(Has(s, "pattern") /\ value.letters \notin s.pattern, "pattern") = {}
          <=> (Has(s, "pattern") => value.letters \in s.pattern)
    BY NoError
  <2>4. ErrorIf(Has(s, "minLength") /\ Len(value.letters) < s.minLength, "minLength") = {}
          <=> ~(Has(s, "minLength") /\ Len(value.letters) < s.minLength)
    BY NoError
  <2> QED
    BY <2>1, <2>2, <2>3, <2>4, Zenon
<1>5. CheckNumeric(value, s) = {} <=>
        (Numeric(value) =>
            /\ Has(s, "minimum") => value.floor >= s.minimum
            /\ Has(s, "maximum") => value.floor < s.maximum)
  <2>1. Numeric(value) /\ Has(s, "minimum") =>
            (value.floor < s.minimum <=> ~(value.floor >= s.minimum))
    BY <1>0
  <2>2. CheckNumeric(value, s) = {} <=>
            ~(Numeric(value) /\ Has(s, "minimum") /\ value.floor < s.minimum)
    BY NoError DEF CheckNumeric
  <2> QED
    BY <2>1, <2>2, Zenon
<1>6. CheckObject(Found, value, s, root) = {} <=>
        (value.kind = "object" =>
            /\ Has(s, "required") => s.required \subseteq DOMAIN value.fields
            /\ \A key \in DOMAIN value.fields \cap PropertiesOf(s) :
                 <<value.fields[key], Part(s.properties[key], root)>> \in Allowed
            /\ Has(s, "additionalProperties") =>
                 \A key \in DOMAIN value.fields \ PropertiesOf(s) :
                    /\ Has(s.additionalProperties, "schema")
                    /\ <<value.fields[key], Part(s.additionalProperties.schema, root)>>
                          \in Allowed)
  <2> SUFFICES ASSUME value.kind = "object"
      PROVE CheckObject(Found, value, s, root) = {} <=>
            /\ Has(s, "required") => s.required \subseteq DOMAIN value.fields
            /\ \A key \in DOMAIN value.fields \cap PropertiesOf(s) :
                 <<value.fields[key], Part(s.properties[key], root)>> \in Allowed
            /\ Has(s, "additionalProperties") =>
                 \A key \in DOMAIN value.fields \ PropertiesOf(s) :
                    /\ Has(s.additionalProperties, "schema")
                    /\ <<value.fields[key], Part(s.additionalProperties.schema, root)>>
                          \in Allowed
    BY DEF CheckObject
  <2>1. \A key \in DOMAIN value.fields \cap PropertiesOf(s) :
          Found[<<value.fields[key], Part(s.properties[key], root)>>] = {}
            <=> <<value.fields[key], Part(s.properties[key], root)>> \in Allowed
    BY TheCalls
  <2>2. Has(s, "additionalProperties") /\ Has(s.additionalProperties, "schema") =>
          \A key \in DOMAIN value.fields \ PropertiesOf(s) :
            Found[<<value.fields[key], Part(s.additionalProperties.schema, root)>>] = {}
              <=> <<value.fields[key], Part(s.additionalProperties.schema, root)>> \in Allowed
    BY TheCalls
  <2>3. CheckObject(Found, value, s, root) = {} <=> ObjectPasses(Found, value, s, root)
    BY ObjectVerdict
  <2>4. CASE Has(s, "additionalProperties") /\ Has(s.additionalProperties, "schema")
    BY <2>1, <2>2, <2>3, <2>4 DEF ObjectPasses
  <2>5. CASE ~(Has(s, "additionalProperties") /\ Has(s.additionalProperties, "schema"))
    BY <2>1, <2>3, <2>5 DEF ObjectPasses
  <2> QED
    BY <2>4, <2>5
<1>7. CheckArray(Found, value, s, root) = {} <=>
        (value.kind = "array" =>
            /\ Has(s, "minItems") => Len(value.elements) >= s.minItems
            /\ Has(s, "items") =>
                 \A element \in Range(value.elements) :
                    <<element, Part(s.items, root)>> \in Allowed)
  <2> SUFFICES ASSUME value.kind = "array"
      PROVE CheckArray(Found, value, s, root) = {} <=>
            /\ Has(s, "minItems") => Len(value.elements) >= s.minItems
            /\ Has(s, "items") =>
                 \A element \in Range(value.elements) :
                    <<element, Part(s.items, root)>> \in Allowed
    BY DEF CheckArray
  <2> DEFINE inner == UNION {Found[<<element, Part(s.items, root)>>] :
                                element \in Range(value.elements)}
  <2>1. CheckArray(Found, value, s, root) =
            ErrorIf(Has(s, "minItems") /\ Len(value.elements) < s.minItems, "minItems")
              \cup IF Has(s, "items") THEN inner ELSE {}
    BY DEF CheckArray
  <2>2. Has(s, "items") =>
          (inner = {} <=> \A element \in Range(value.elements) :
                    <<element, Part(s.items, root)>> \in Allowed)
    <3>1. Has(s, "items") => \A element \in Range(value.elements) :
            Found[<<element, Part(s.items, root)>>] = {}
              <=> <<element, Part(s.items, root)>> \in Allowed
      BY TheCalls
    <3> DEFINE of(element) == Found[<<element, Part(s.items, root)>>]
    <3>2. inner = UNION {of(element) : element \in Range(value.elements)}
      OBVIOUS
    <3> HIDE DEF of, inner
    <3>3. inner = {} <=> \A element \in Range(value.elements) : of(element) = {}
      BY <3>2, NoneInAny
    <3> QED
      BY <3>1, <3>3 DEF of
  <2>3. ErrorIf(Has(s, "minItems") /\ Len(value.elements) < s.minItems, "minItems") = {}
          <=> (Has(s, "minItems") => Len(value.elements) >= s.minItems)
    <3>1. Has(s, "minItems") =>
            (Len(value.elements) < s.minItems <=> ~(Len(value.elements) >= s.minItems))
      BY <1>0
    <3>2. ErrorIf(Has(s, "minItems") /\ Len(value.elements) < s.minItems, "minItems") = {}
            <=> ~(Has(s, "minItems") /\ Len(value.elements) < s.minItems)
      BY NoError
    <3> QED
      BY <3>1, <3>2, Zenon
  <2> HIDE DEF inner
  <2> QED
    BY <2>1, <2>2, <2>3
<1>8. CheckAnyOf(Found, value, s, root) = {} <=>
        (Has(s, "anyOf") =>
            \E option \in Range(s.anyOf) : <<value, Part(option, root)>> \in Allowed)
  <2>1. Has(s, "anyOf") => \A option \in Range(s.anyOf) :
            Found[<<value, Part(option, root)>>] = {}
                <=> <<value, Part(option, root)>> \in Allowed
    BY TheCalls
  <2> QED
    BY <2>1, NoError DEF CheckAnyOf
<1>9. CheckNot(Found, value, s, root) = {} <=>
        (Has(s, "not") => <<value, Part(s.not, root)>> \notin Allowed)
  <2>1. Has(s, "not") => (Found[<<value, Part(s.not, root)>>] = {}
                <=> <<value, Part(s.not, root)>> \in Allowed)
    BY TheCalls
  <2> QED
    BY <2>1, NoError DEF CheckNot
<1>10. CheckAll(Found, value, s, root) = {} <=>
         /\ CheckRef(Found, value, s, root) = {}
         /\ ~TypeMismatch(value, s)
         /\ CheckEnumConst(value, s) = {}
         /\ CheckString(value, s) = {}
         /\ CheckNumeric(value, s) = {}
         /\ CheckObject(Found, value, s, root) = {}
         /\ CheckArray(Found, value, s, root) = {}
         /\ CheckAnyOf(Found, value, s, root) = {}
         /\ CheckNot(Found, value, s, root) = {}
  BY DEF CheckAll
<1> QED
  BY <1>1, <1>2, <1>3, <1>4, <1>5, <1>6, <1>7, <1>8, <1>9, <1>10 DEF AllowsAll

-----------------------------------------------------------------------------
(* The schema validator: all the way down.                                 *)

\* Every error is named by a keyword the validator knows.
LEMMA ErrorsAreKeywords ==
    ASSUME NEW Found, NEW value, NEW p,
           \A call \in Calls(value, p) : Found[call] \subseteq SUPPORTED_KEYWORDS
    PROVE  CheckAll(Found, value, p.schema, p.root) \subseteq SUPPORTED_KEYWORDS
<1> SUFFICES ASSUME NEW s, s = p.schema, NEW root, root = p.root
             PROVE  CheckAll(Found, value, s, root) \subseteq SUPPORTED_KEYWORDS
  OBVIOUS
<1>1. \A wrong : \A rule \in SUPPORTED_KEYWORDS : ErrorIf(wrong, rule) \subseteq SUPPORTED_KEYWORDS
  BY DEF ErrorIf
<1>2. {"ref", "type", "enum", "const", "pattern", "minLength", "minimum", "required",
       "additionalProperties", "minItems", "anyOf", "not"} \subseteq SUPPORTED_KEYWORDS
  BY DEF SUPPORTED_KEYWORDS
<1>3. CheckRef(Found, value, s, root) \subseteq SUPPORTED_KEYWORDS
  <2>1. Has(s, "ref") /\ Resolves(s.ref, root) =>
            Found[<<value, Target(s.ref, root)>>] \subseteq SUPPORTED_KEYWORDS
    BY TheCalls
  <2> QED
    BY <1>2, <2>1 DEF CheckRef
<1>4. CheckEnumConst(value, s) \subseteq SUPPORTED_KEYWORDS
  BY <1>1, <1>2 DEF CheckEnumConst
<1>5. CheckString(value, s) \subseteq SUPPORTED_KEYWORDS
  BY <1>1, <1>2 DEF CheckString
<1>6. CheckNumeric(value, s) \subseteq SUPPORTED_KEYWORDS
  BY <1>1, <1>2 DEF CheckNumeric
<1>7. CheckObject(Found, value, s, root) \subseteq SUPPORTED_KEYWORDS
  <2>1. CASE value.kind = "object"
    <3>1. CheckKnown(Found, value, s, root) \subseteq SUPPORTED_KEYWORDS
      BY <2>1, TheCalls DEF CheckKnown
    <3>2. CheckExtra(Found, value, s, root) \subseteq SUPPORTED_KEYWORDS
      <4>1. CASE Has(s, "additionalProperties") /\ Has(s.additionalProperties, "schema")
        BY <2>1, <4>1, TheCalls DEF CheckExtra
      <4>2. CASE ~(Has(s, "additionalProperties") /\ Has(s.additionalProperties, "schema"))
        BY <1>1, <1>2, <4>2 DEF CheckExtra
      <4> QED
        BY <4>1, <4>2
    <3> QED
      BY <1>1, <1>2, <3>1, <3>2 DEF CheckObject
  <2>2. CASE value.kind # "object"
    BY <2>2 DEF CheckObject
  <2> QED
    BY <2>1, <2>2
<1>8. CheckArray(Found, value, s, root) \subseteq SUPPORTED_KEYWORDS
  <2>1. CASE value.kind = "array" /\ Has(s, "items")
    <3>1. \A element \in Range(value.elements) :
            Found[<<element, Part(s.items, root)>>] \subseteq SUPPORTED_KEYWORDS
      BY <2>1, TheCalls
    <3> QED
      BY <1>1, <1>2, <2>1, <3>1 DEF CheckArray
  <2>2. CASE ~(value.kind = "array" /\ Has(s, "items"))
    BY <1>1, <1>2, <2>2 DEF CheckArray
  <2> QED
    BY <2>1, <2>2
<1>9. CheckAnyOf(Found, value, s, root) \subseteq SUPPORTED_KEYWORDS
  BY <1>1, <1>2 DEF CheckAnyOf
<1>10. CheckNot(Found, value, s, root) \subseteq SUPPORTED_KEYWORDS
  BY <1>1, <1>2 DEF CheckNot
<1> QED
  BY <1>2, <1>3, <1>4, <1>5, <1>6, <1>7, <1>8, <1>9, <1>10 DEF CheckAll

\* A payload and a file are one of the queries.
LEMMA FilesAreQueries ==
    ASSUME NEW value \in Instances, NEW s \in Schemas
    PROVE  /\ <<value, File(s)>> \in Queries
           /\ File(s).schema = s /\ File(s).root = s /\ s \in Schemata
<1>1. File(s) \in Parts
  BY ValidatorAssumption
<1>2. File(s).schema = s /\ File(s).root = s
  BY DEF File, Part
<1> QED
  BY <1>1, <1>2 DEF Queries, Schemata

\* What a query is made of, and that its calls nest less deep.
LEMMA QueryFields ==
    ASSUME NEW q \in Queries
    PROVE  /\ q[1] \in Instances /\ q[2] \in Parts
           /\ Height[q] \in Nat
           /\ \A call \in Calls(q[1], q[2]) :
                call \in Queries /\ Height[call] \in Nat /\ Height[call] < Height[q]
<1>1. q[1] \in Instances /\ q[2] \in Parts
  BY DEF Queries
<1> QED
  BY <1>1, ValidatorAssumption

\* Whatever the schema and the value, _check finds errors and nothing else.
LEMMA CheckType == \A q \in Queries : CheckValue[q] \subseteq SUPPORTED_KEYWORDS
<1> DEFINE Odds == {n \in Nat : \E q \in Queries :
                        Height[q] = n /\ ~(CheckValue[q] \subseteq SUPPORTED_KEYWORDS)}
<1>1. Odds = {}
  <2> SUFFICES ASSUME Odds # {} PROVE FALSE
    OBVIOUS
  <2>1. Odds \in SUBSET Nat
    OBVIOUS
  <2> HIDE DEF Odds
  <2>2. PICK n \in Odds : \A m \in Odds : n <= m
    BY <2>1, LeastElement
  <2>3. PICK q \in Queries : Height[q] = n /\ ~(CheckValue[q] \subseteq SUPPORTED_KEYWORDS)
    BY <2>2 DEF Odds
  <2> DEFINE Found == [call \in Calls(q[1], q[2]) |-> CheckValue[call]]
  <2>4. ASSUME NEW call \in Calls(q[1], q[2])
        PROVE  Found[call] \subseteq SUPPORTED_KEYWORDS
    <3>1. call \in Queries /\ Height[call] \in Nat /\ Height[call] < n
      BY <2>3, QueryFields
    <3>2. Height[call] \notin Odds
      BY <2>1, <2>2, <3>1
    <3>3. CheckValue[call] \subseteq SUPPORTED_KEYWORDS
      BY <3>1, <3>2 DEF Odds
    <3> QED
      BY <3>3
  <2>5. CheckValue[q] = CheckAll(Found, q[1], q[2].schema, q[2].root)
    BY CheckUnfolds
  <2> HIDE DEF Found
  <2>6. CheckAll(Found, q[1], q[2].schema, q[2].root) \subseteq SUPPORTED_KEYWORDS
    BY <2>4, ErrorsAreKeywords
  <2> QED
    BY <2>3, <2>5, <2>6
<1> HIDE DEF Odds
<1>2. ASSUME NEW q \in Queries PROVE CheckValue[q] \subseteq SUPPORTED_KEYWORDS
  <2>1. Height[q] \in Nat /\ Height[q] \notin Odds
    BY <1>1, QueryFields
  <2> QED
    BY <2>1 DEF Odds
<1> QED
  BY <1>2

\* Wherever it has come to, in whichever file, _check finds nothing wrong
\* exactly with what the part of the schema there allows, if the guard passes
\* that part, its file and the siblings.
THEOREM VerdictIsMeaning ==
    ASSUME SiblingsClean
    PROVE  \A q \in Queries : CleanPart(q[2]) => (CheckValue[q] = {} <=> Allows[q])
<1> DEFINE Agree(q) == CleanPart(q[2]) => (CheckValue[q] = {} <=> Allows[q])
           Odds == {n \in Nat : \E q \in Queries : Height[q] = n /\ ~Agree(q)}
<1>1. Odds = {}
  <2> SUFFICES ASSUME Odds # {} PROVE FALSE
    OBVIOUS
  <2>1. Odds \in SUBSET Nat
    OBVIOUS
  <2> HIDE DEF Odds, Agree
  <2>2. PICK n \in Odds : \A m \in Odds : n <= m
    BY <2>1, LeastElement
  <2>3. PICK q \in Queries : Height[q] = n /\ ~Agree(q)
    BY <2>2 DEF Odds
  <2> DEFINE Made == Calls(q[1], q[2])
             Found == [call \in Made |-> CheckValue[call]]
             Allowed == {call \in Made : Allows[call]}
  <2>4. CleanPart(q[2])
    BY <2>3 DEF Agree
  <2>5. ASSUME NEW call \in Made PROVE Found[call] = {} <=> call \in Allowed
    <3>1. call \in Queries /\ Height[call] \in Nat /\ Height[call] < n
      BY <2>3, QueryFields
    <3>2. Height[call] \notin Odds
      BY <2>1, <2>2, <3>1
    <3>3. Agree(call)
      BY <3>1, <3>2 DEF Odds
    <3>4. CleanPart(call[2])
      BY <2>4, CleanCalls, QueryFields
    <3>5. CheckValue[call] = {} <=> Allows[call]
      BY <3>3, <3>4 DEF Agree
    <3>6. Found[call] = CheckValue[call]
      OBVIOUS
    <3>7. call \in Allowed <=> Allows[call]
      BY Zenon
    <3> QED
      BY <3>5, <3>6, <3>7, Zenon
  <2>6. CheckValue[q] = CheckAll(Found, q[1], q[2].schema, q[2].root)
    BY CheckUnfolds
  <2>7. Allows[q] = AllowsAll(Allowed, q[1], q[2].schema, q[2].root)
    BY AllowsUnfolds
  <2>8. ~Has(q[2].schema, "maximum")
    <3>1. q[2].schema \in Schemata /\ Clean(q[2].schema)
      BY <2>4, QueryFields DEF Schemata, CleanPart
    <3> QED
      BY <3>1, CleanBelow
  <2>9. q[1] \in Instances /\ q[2] \in Parts
    BY QueryFields
  <2> HIDE DEF Found, Allowed
  <2>10. CheckAll(Found, q[1], q[2].schema, q[2].root) = {}
           <=> AllowsAll(Allowed, q[1], q[2].schema, q[2].root)
    BY <2>5, <2>8, <2>9, KeywordsAgree
  <2>11. CheckValue[q] = {} <=> Allows[q]
    BY <2>6, <2>7, <2>10, Zenon
  <2> QED
    BY <2>3, <2>11 DEF Agree
<1> HIDE DEF Odds, Agree
<1>2. ASSUME NEW q \in Queries PROVE Agree(q)
  <2>1. Height[q] \in Nat /\ Height[q] \notin Odds
    BY <1>1, QueryFields
  <2> QED
    BY <2>1 DEF Odds
<1> QED
  BY <1>2 DEF Agree

\* Once validate returned, it returned what _check found.
ValidatorIInv ==
    /\ ValidatorTypeOK
    /\ errors # {"unchecked"} => errors = CheckValue[<<instance, File(schema)>>]

\* The invariant is inductive.
LEMMA ValidatorInvariant == ValidatorSpec => []ValidatorIInv
<1>1. ValidatorInit => ValidatorIInv
  BY DEF ValidatorInit, ValidatorIInv, ValidatorTypeOK
<1>2. ValidatorIInv /\ [ValidatorNext]_validatorVars => ValidatorIInv'
  <2>1. ASSUME ValidatorIInv, Validate PROVE ValidatorIInv'
    <3>1. /\ instance \in Instances /\ schema \in Schemas
          /\ instance' = instance /\ schema' = schema
          /\ errors' = CheckValue[<<instance, File(schema)>>]
      BY <2>1 DEF ValidatorIInv, ValidatorTypeOK, Validate
    <3>2. errors' \subseteq SUPPORTED_KEYWORDS
      BY <3>1, FilesAreQueries, CheckType
    <3> QED
      BY <3>1, <3>2 DEF ValidatorIInv, ValidatorTypeOK
  <2>2. ASSUME ValidatorIInv, UNCHANGED validatorVars PROVE ValidatorIInv'
    BY <2>2 DEF ValidatorIInv, ValidatorTypeOK, validatorVars
  <2> QED
    BY <2>1, <2>2 DEF ValidatorNext
<1> QED
  BY <1>1, <1>2, PTL DEF ValidatorSpec

\* The errors validate returns are named by keywords it knows, for any schema
\* and any payload.
THEOREM ValidatorTypeCorrect == ValidatorSpec => []ValidatorTypeOK
<1>1. ValidatorIInv => ValidatorTypeOK
  BY DEF ValidatorIInv
<1> QED
  BY <1>1, ValidatorInvariant, PTL

\* validate finds nothing wrong exactly with what a guarded schema allows, for
\* any schemas, siblings and payloads whose calls end.
THEOREM SchemasHold == ValidatorSpec => []GuardedSchemasMeanWhatTheySay
<1>1. ValidatorIInv => GuardedSchemasMeanWhatTheySay
  <2> SUFFICES ASSUME ValidatorIInv, errors # {"unchecked"}, Guarded(schema)
               PROVE  errors = {} <=> Allows[<<instance, File(schema)>>]
    BY DEF GuardedSchemasMeanWhatTheySay
  <2> DEFINE q == <<instance, File(schema)>>
  <2>1. /\ errors = CheckValue[q] /\ q \in Queries
        /\ q[2].schema = schema /\ q[2].root = schema
    BY FilesAreQueries DEF ValidatorIInv, ValidatorTypeOK
  <2>2. SiblingsClean /\ CleanPart(q[2])
    BY <2>1 DEF Guarded, SiblingsClean, CleanPart, Clean
  <2> HIDE DEF q
  <2>3. CheckValue[q] = {} <=> Allows[q]
    BY <2>1, <2>2, VerdictIsMeaning
  <2> QED
    BY <2>1, <2>3 DEF q
<1> QED
  BY <1>1, ValidatorInvariant, PTL

=============================================================================
