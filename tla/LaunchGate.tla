----------------------------- MODULE LaunchGate -----------------------------
(***************************************************************************)
(* tools/launch-gate: run.sh runs the producers of the gate's results one  *)
(* after the other and lets none of their exit statuses count; each        *)
(* appends rows to one file, and report.py turns the file into the verdict *)
(* on the launch.                                                          *)
(*                                                                         *)
(* A shell step and pytest append a row per check.  launch_bar.py and the  *)
(* two walks keep their rows until they are through; a walk that throws    *)
(* appends one FAIL row for itself, launch_bar.py that raises none.  The   *)
(* walk in the browser, walk.mjs, does without one if none starts.         *)
(***************************************************************************)
EXTENDS Naturals, Sequences, FiniteSets

CONSTANTS
    Producers,      \* the producers' names, in the order run.sh starts them
    Kind,           \* "shell", "pytest", "bar", "walk" or "browser", by producer
    Checks,         \* the checks each producer makes in the mode run.sh is in
    SkipListed,     \* the browser checks that walk.mjs's fallback lists
    FallbackChecks, \* the checks it makes in their stead
    Harness         \* the check a walk that throws reports itself as

ASSUME GateAssumption ==
    /\ Producers \in Seq({Producers[i] : i \in DOMAIN Producers})
    /\ Len(Producers) >= 1
    /\ \A i, j \in DOMAIN Producers : Producers[i] = Producers[j] => i = j

VARIABLES
    turn,        \* the producer that runs; past the last one, the report
    todo,        \* its checks still to be made
    kept,        \* its rows not yet appended
    rows,        \* the results file: [producer, check, status]
    garbled,     \* the file holds a line that is no JSON
    verdict,     \* "none", then "green" or "red", the exit status of run.sh
    died,        \* history: the producers that ended before they were through
    blind,       \* history: the browser walks that found no browser
    lost         \* history: the checks made that left no row: <<producer, check>>

gateVars == <<turn, todo, kept, rows, garbled, verdict, died, blind, lost>>

Running == turn \in DOMAIN Producers
Producer == Producers[turn]
Walks == {"walk", "browser"}
Buffers == Kind[Producer] \in Walks \cup {"bar"}

Row(check, status) == [producer |-> Producer, check |-> check, status |-> status]

\* `|| true`: whatever the producer's exit status is, the next one starts.
NextProducer ==
    /\ turn' = turn + 1
    /\ todo' = IF turn < Len(Producers) THEN Checks[Producers[turn + 1]] ELSE {}
    /\ kept' = {}

\* One check of the producer, by _emit, emit, record, or the hook in
\* conftest.py.  In the browser a failure may spare the checks that build on
\* it: without the command's record there is no parity to look at.
MakeCheck ==
    /\ Running
    /\ \E check \in todo, status \in {"PASS", "FAIL"}, spared \in SUBSET todo :
           /\ spared # {} => /\ Kind[Producer] = "browser" /\ Producer \notin blind
                             /\ status = "FAIL"
           /\ todo' = todo \ ({check} \cup spared)
           /\ IF Buffers
                THEN kept' = kept \cup {Row(check, status)} /\ UNCHANGED rows
                ELSE rows' = rows \cup {Row(check, status)} /\ UNCHANGED kept
    /\ UNCHANGED <<turn, garbled, verdict, died, blind, lost>>

\* A check that leaves no row while its producer goes on: a test whose setup
\* fails, for conftest.py records the reports of the call phase only, and a
\* shell step whose line cannot be appended.
LeaveNoRow ==
    /\ Running
    /\ Kind[Producer] \in {"shell", "pytest"}
    /\ \E check \in todo :
           /\ todo' = todo \ {check}
           /\ lost' = lost \cup {<<Producer, check>>}
    /\ UNCHANGED <<turn, kept, rows, garbled, verdict, died, blind>>

\* No browser starts.  The browser checks on the list are SKIP rows, those
\* that are not on it leave none, and the fallback's checks are made.
NoBrowser ==
    /\ Running
    /\ Kind[Producer] = "browser"
    /\ Producer \notin blind
    /\ todo = Checks[Producer]
    /\ blind' = blind \cup {Producer}
    /\ kept' = {Row(check, "SKIP") : check \in SkipListed}
    /\ todo' = FallbackChecks
    /\ UNCHANGED <<turn, rows, garbled, verdict, died, lost>>

\* run.sh formats a detail into the JSON line without escaping it.
AppendGarbage ==
    /\ Running
    /\ Kind[Producer] = "shell"
    /\ ~garbled
    /\ garbled' = TRUE
    /\ \E check \in todo : todo' = todo \ {check}
    /\ UNCHANGED <<turn, kept, rows, verdict, died, blind, lost>>

\* Mutant: only the checks that passed are written.
FlushPasses == rows \cup {row \in kept : row.status = "PASS"}

Flushed == rows \cup kept

\* The end of main: the rows it kept are appended.
Finish ==
    /\ Running
    /\ todo = {}
    /\ rows' = Flushed
    /\ NextProducer
    /\ UNCHANGED <<garbled, verdict, died, blind, lost>>

\* A producer that ends too early.  It may have been appending, and leave a
\* part of the rows it kept and a line that is cut.
EndsEarly(own) ==
    /\ Running
    /\ Kind[Producer] # "shell"
    /\ \E part \in SUBSET kept :
           /\ part # {} => todo = {}
           /\ rows' = rows \cup part \cup own
    /\ garbled' \in {garbled, garbled \/ ~Buffers \/ todo = {}}
    /\ died' = died \cup {Producer}
    /\ NextProducer
    /\ UNCHANGED <<verdict, blind, lost>>

\* An exception nobody catches; a walk's main().catch reports it.
Raise == EndsEarly(IF Kind[Producer] \in Walks THEN {Row(Harness, "FAIL")} ELSE {})

\* The interpreter is missing, or the process is killed.
Die == EndsEarly({})

\* report.py: red for any FAIL row and for a file it cannot parse, and when
\* it cannot run at all.
Report ==
    /\ turn = Len(Producers) + 1
    /\ verdict = "none"
    /\ \/ verdict' = "red"
       \/ /\ ~garbled
          /\ \A row \in rows : row.status # "FAIL"
          /\ verdict' = "green"
    /\ UNCHANGED <<turn, todo, kept, rows, garbled, died, blind, lost>>

GateInit ==
    /\ turn = 1
    /\ todo = Checks[Producers[1]]
    /\ kept = {} /\ rows = {}
    /\ garbled = FALSE
    /\ verdict = "none"
    /\ died = {} /\ blind = {} /\ lost = {}

GateNext ==
    \/ MakeCheck \/ LeaveNoRow \/ NoBrowser \/ AppendGarbage
    \/ Finish \/ Raise \/ Die \/ Report

GateSpec == GateInit /\ [][GateNext]_gateVars

-----------------------------------------------------------------------------

\* The checks a producer that is through has made: without a browser, those
\* on the list and the fallback's.
ChecksMade(p) == IF p \in blind THEN SkipListed \cup FallbackChecks ELSE Checks[p]

GateTypeOK ==
    /\ turn \in 1..(Len(Producers) + 1)
    /\ \A row \in rows \cup kept :
           /\ row.check \in Checks[row.producer] \cup ChecksMade(row.producer) \cup {Harness}
           /\ row.status \in {"PASS", "FAIL", "SKIP"}
           /\ row.status = "SKIP" => row.producer \in blind /\ row.check \in SkipListed
    /\ kept # {} => Running /\ Buffers
    /\ verdict \in {"none", "green", "red"}

\* What a green gate stands for: each check of each producer left a row that
\* is no FAIL, and no SKIP if there was a browser, with three exceptions that
\* nothing but a missing row tells of.  The producer ended too early.  A test's
\* setup failed or a shell step's line was not written (lost).  No browser
\* started and the check is not on walk.mjs's list of skips: its "web write
\* lands in /api/progress" and "CLI 'learn record' syncs to the API".
\* tools/launch-gate/README.md:40 says more, "the gate never silently passes
\* an un-run check", and so does tests/e2e/conftest.py:10-12, "each test's
\* outcome is appended".
GreenMeansRunUnlessLost ==
    verdict = "green" =>
        \A i \in DOMAIN Producers : LET p == Producers[i] IN
            p \notin died =>
                \A check \in ChecksMade(p) : <<p, check>> \notin lost =>
                    \E row \in rows :
                        /\ row.producer = p
                        /\ row.check = check
                        /\ row.status = "PASS" \/ (p \in blind /\ check \in SkipListed)
=============================================================================
