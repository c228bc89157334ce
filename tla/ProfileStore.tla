---------------------------- MODULE ProfileStore ----------------------------
(***************************************************************************)
(* learn/profile and `learn record`: the learner's ledger of results, the  *)
(* cursor that says how much of it the API has been sent, and the commands *)
(* that append to one and advance the other.                               *)
(*                                                                         *)
(* Every command is a process of its own and several may run at once; they *)
(* share nothing but files and take no lock.  A file write can be cut      *)
(* short by a crash or a full disk, a push can be refused, go unanswered,  *)
(* or break the connection.  A command records one row, named after it.    *)
(***************************************************************************)
EXTENDS Integers, Sequences, SequencesExt, FiniteSets, Positions

CONSTANTS
    Commands,     \* invocations of `learn record`, and the rows they record
    Refused,      \* the rows the API always turns down
    Accounts,     \* GitHub identities
    NoAccount,    \* no auth.json
    Unreadable    \* a file that does not parse

ASSUME StoreAssumption ==
    /\ IsFiniteSet(Commands) /\ Refused \subseteq Commands
    /\ NoAccount \notin Accounts /\ Unreadable \notin Accounts
    /\ Unreadable \notin Nat /\ NoAccount # Unreadable

VARIABLES
    ledger,     \* ledger.jsonl: its lines
    ended,      \* whether the last line has its newline
    cursor,     \* sync.json
    auth,       \* auth.json
    server,     \* how often the API inserted a row
    pc,         \* where a command is
    rows,       \* the rows a pushing command read
    start,      \* the cursor it started from
    synced,     \* the rows it has pushed
    answer,     \* what the command told the learner
    disturbed   \* history: what went wrong so far

fileVars == <<ledger, ended, cursor>>
pushVars == <<rows, start, synced>>
storeVars == <<fileVars, server, pc, pushVars, answer, disturbed>>

Kinds == {"row", "junk", "garbled"}
Lines == [of : Seq(Commands), kind : Kinds]
Steps == {"idle", "acked", "ledgered", "signed in", "read", "pushing",
          "saving", "writing", "over"}
Answers == {"none", "error", "not signed in", "ok", "not ok"}
Mishaps == {"cut row", "lost answer", "raised", "died", "overlap"}

TypeOK ==
    /\ ledger \in Seq(Lines)
    /\ ended \in BOOLEAN
    /\ cursor \in Nat \cup {Unreadable}
    /\ auth \in Accounts \cup {NoAccount, Unreadable}
    /\ server \in [Commands -> Nat]
    /\ pc \in [Commands -> Steps]
    /\ rows \in [Commands -> Seq(Commands)]
    /\ start \in [Commands -> Nat]
    /\ synced \in [Commands -> Nat]
    /\ answer \in [Commands -> Answers]
    /\ disturbed \subseteq Mishaps

-----------------------------------------------------------------------------
\* The files

\* read_ledger: the lines that parse, in append order.  A line cut inside a
\* character makes the whole file unreadable as text.
IsRow(line) == line.kind = "row"
RowLines(lines) == {i \in 1..Len(lines) : IsRow(lines[i])}
RowsOf(lines) == Picked([i \in 1..Len(lines) |-> lines[i].of[1]], RowLines(lines))
ReadLedger == RowsOf(ledger)
Decodes == \A i \in 1..Len(ledger) : ledger[i].kind # "garbled"

\* load_sync_state
LoadSyncState == IF cursor = Unreadable THEN 0 ELSE cursor

Smaller(m, n) == IF m <= n THEN m ELSE n

\* What one write adds to the file: bytes after an unended line continue it,
\* and two objects on one line parse as neither.
Continued(line, c, kind) ==
    [of |-> Append(line.of, c),
     kind |-> IF "garbled" \in {line.kind, kind} THEN "garbled" ELSE "junk"]

Written(c, kind) ==
    IF ended THEN Append(ledger, [of |-> <<c>>, kind |-> kind])
             ELSE Append(Front(ledger), Continued(Last(ledger), c, kind))

\* A row that was readable without its newline stops being one.
RowLost == IF ~ended /\ IsRow(Last(ledger)) THEN {"cut row"} ELSE {}

Goto(c, step) == pc' = [pc EXCEPT ![c] = step]

\* A command that ends, whatever it was doing.
Ends(c, said) ==
    /\ Goto(c, "over")
    /\ answer' = [answer EXCEPT ![c] = said]
    /\ rows' = [rows EXCEPT ![c] = <<>>]
    /\ start' = [start EXCEPT ![c] = 0]
    /\ synced' = [synced EXCEPT ![c] = 0]

-----------------------------------------------------------------------------
\* learn record

\* run_subject_verb: no executable, no start, a timeout, a failure exit, no
\* JSON or no object each end the command, and so does an acknowledgement
\* that is not conformant; the subject may have recorded the result anyway.
RunSubjectVerb(c) ==
    /\ pc[c] = "idle"
    /\ \/ Goto(c, "acked") /\ UNCHANGED <<pushVars, answer>>
       \/ Ends(c, "error")
    /\ UNCHANGED <<fileVars, auth, server, disturbed>>

\* append_ledger: the row and its newline in one write ...
AppendLedger(c) ==
    /\ pc[c] = "acked"
    /\ ledger' = Written(c, "row")
    /\ ended' = TRUE
    /\ Goto(c, "ledgered")
    /\ disturbed' = disturbed \cup RowLost
    /\ UNCHANGED <<cursor, auth, server, pushVars, answer>>

\* ... which a crash may cut: before the newline, inside the row, or inside
\* one of its characters.
CutShort(c, kind) ==
    /\ pc[c] = "acked"
    /\ ledger' = Written(c, kind)
    /\ ended' = FALSE
    /\ Ends(c, "none")
    /\ disturbed' = disturbed \cup RowLost
    /\ UNCHANGED <<cursor, auth, server>>

\* load_auth: a missing or damaged file is signed out; the count of what is
\* pending then reads the ledger.
LoadAuth(c) ==
    /\ pc[c] = "ledgered"
    /\ IF auth \in Accounts
       THEN Goto(c, "signed in") /\ UNCHANGED <<pushVars, answer>>
       ELSE Ends(c, IF Decodes THEN "not signed in" ELSE "error")
    /\ UNCHANGED <<fileVars, auth, server, disturbed>>

-----------------------------------------------------------------------------
\* push_pending

Pushing(c) == pc[c] \in {"read", "pushing", "saving", "writing"}

ReadRows(c) ==
    /\ pc[c] = "signed in"
    /\ IF Decodes
       THEN /\ rows' = [rows EXCEPT ![c] = ReadLedger]
            /\ Goto(c, "read")
            /\ UNCHANGED <<start, synced, answer>>
       ELSE Ends(c, "error")
    /\ disturbed' = IF \E d \in Commands : Pushing(d)
                    THEN disturbed \cup {"overlap"} ELSE disturbed
    /\ UNCHANGED <<fileVars, auth, server>>

LoadCursor(c) ==
    /\ pc[c] = "read"
    /\ start' = [start EXCEPT ![c] = Smaller(LoadSyncState, Len(rows[c]))]
    /\ Goto(c, "pushing")
    /\ UNCHANGED <<fileVars, auth, server, rows, synced, answer, disturbed>>

Reached(c) == start[c] + synced[c]
NextRow(c) == rows[c][Reached(c) + 1]
Inserted(r) == server' = [server EXCEPT ![r] = @ + 1]

\* push_record: accepted ...
PushRow(c) ==
    /\ pc[c] = "pushing"
    /\ Reached(c) < Len(rows[c])
    /\ NextRow(c) \notin Refused
    /\ Inserted(NextRow(c))
    /\ synced' = [synced EXCEPT ![c] = @ + 1]
    /\ UNCHANGED <<fileVars, auth, pc, rows, start, answer, disturbed>>

\* Mutant: the loop goes on with the next row.
PushFailsGoesOn(c) ==
    /\ pc[c] = "pushing"
    /\ Reached(c) < Len(rows[c])
    /\ \/ UNCHANGED <<server, disturbed>>
       \/ /\ NextRow(c) \notin Refused
          /\ Inserted(NextRow(c))
          /\ disturbed' = disturbed \cup {"lost answer"}
    /\ synced' = [synced EXCEPT ![c] = @ + 1]
    /\ UNCHANGED <<fileVars, auth, pc, rows, start, answer>>

\* Mutant: what was pushed so far is good enough.
PushFailsSaysOk(c) ==
    /\ pc[c] = "pushing"
    /\ Reached(c) < Len(rows[c])
    /\ \/ UNCHANGED <<server, disturbed>>
       \/ /\ NextRow(c) \notin Refused
          /\ Inserted(NextRow(c))
          /\ disturbed' = disturbed \cup {"lost answer"}
    /\ Goto(c, "saving")
    /\ answer' = [answer EXCEPT ![c] = "ok"]
    /\ UNCHANGED <<fileVars, auth, pushVars>>

\* ... or an ApiError: refused, not reached, or inserted and never answered.
PushFails(c) ==
    /\ pc[c] = "pushing"
    /\ Reached(c) < Len(rows[c])
    /\ \/ UNCHANGED <<server, disturbed>>
       \/ /\ NextRow(c) \notin Refused
          /\ Inserted(NextRow(c))
          /\ disturbed' = disturbed \cup {"lost answer"}
    /\ Goto(c, "saving")
    /\ answer' = [answer EXCEPT ![c] = "not ok"]
    /\ UNCHANGED <<fileVars, auth, pushVars>>

\* A connection broken while the answer is awaited raises neither URLError
\* nor TimeoutError: it passes _request and push_pending by, and the command
\* ends without having saved the cursor.
PushRaises(c) ==
    /\ pc[c] = "pushing"
    /\ Reached(c) < Len(rows[c])
    /\ \/ UNCHANGED server
       \/ NextRow(c) \notin Refused /\ Inserted(NextRow(c))
    /\ disturbed' = disturbed \cup {"raised"}
    /\ Ends(c, "error")
    /\ UNCHANGED <<fileVars, auth>>

AllPushed(c) ==
    /\ pc[c] = "pushing"
    /\ Reached(c) = Len(rows[c])
    /\ Goto(c, "saving")
    /\ answer' = [answer EXCEPT ![c] = "ok"]
    /\ UNCHANGED <<fileVars, auth, server, pushVars, disturbed>>

\* save_sync_state: write_text empties the file, then writes it.
TruncateCursor(c) ==
    /\ pc[c] = "saving"
    /\ cursor' = Unreadable
    /\ Goto(c, "writing")
    /\ UNCHANGED <<ledger, ended, auth, server, pushVars, answer, disturbed>>

\* Mutants: all rows read are counted, pushed or not; the cursor is saved as
\* it was loaded; the remainder is saved for the cursor.
WriteLength(c) ==
    /\ pc[c] = "writing"
    /\ cursor' = Len(rows[c])
    /\ Ends(c, answer[c])
    /\ UNCHANGED <<ledger, ended, auth, server, disturbed>>

WriteStart(c) ==
    /\ pc[c] = "writing"
    /\ cursor' = start[c]
    /\ Ends(c, answer[c])
    /\ UNCHANGED <<ledger, ended, auth, server, disturbed>>

WriteRemainder(c) ==
    /\ pc[c] = "writing"
    /\ cursor' = Reached(c) - Len(rows[c])
    /\ Ends(c, answer[c])
    /\ UNCHANGED <<ledger, ended, auth, server, disturbed>>

WriteCursor(c) ==
    /\ pc[c] = "writing"
    /\ cursor' = Reached(c)
    /\ Ends(c, answer[c])
    /\ UNCHANGED <<ledger, ended, auth, server, disturbed>>

\* A kill, a power cut: no answer is given.
Dies(c) ==
    /\ pc[c] \in Steps \ {"idle", "over"}
    /\ Ends(c, "none")
    /\ disturbed' = IF Pushing(c) THEN disturbed \cup {"died"} ELSE disturbed
    /\ UNCHANGED <<fileVars, auth, server>>

-----------------------------------------------------------------------------
\* auth login and logout, as far as the other commands see them: save_auth
\* empties the file before it writes it (and may be stopped in between),
\* logout deletes it.
TruncateAuth ==
    /\ auth' = Unreadable
    /\ UNCHANGED storeVars

WriteAuth ==
    /\ auth = Unreadable
    /\ auth' \in Accounts
    /\ UNCHANGED storeVars

ClearAuth ==
    /\ auth # NoAccount
    /\ auth' = NoAccount
    /\ UNCHANGED storeVars

Init ==
    /\ ledger = <<>>
    /\ ended = TRUE
    /\ cursor = 0
    /\ auth = NoAccount
    /\ server = [c \in Commands |-> 0]
    /\ pc = [c \in Commands |-> "idle"]
    /\ rows = [c \in Commands |-> <<>>]
    /\ start = [c \in Commands |-> 0]
    /\ synced = [c \in Commands |-> 0]
    /\ answer = [c \in Commands |-> "none"]
    /\ disturbed = {}

Record(c) ==
    \/ RunSubjectVerb(c) \/ AppendLedger(c) \/ LoadAuth(c)
    \/ ReadRows(c) \/ LoadCursor(c)
    \/ PushRow(c) \/ PushFails(c) \/ PushRaises(c) \/ AllPushed(c)
    \/ TruncateCursor(c) \/ WriteCursor(c)

Next ==
    \/ \E c \in Commands :
        Record(c) \/ Dies(c) \/ \E kind \in Kinds : CutShort(c, kind)
    \/ TruncateAuth \/ WriteAuth \/ ClearAuth

Spec == Init /\ [][Next]_<<storeVars, auth>>

-----------------------------------------------------------------------------
\* Properties

Pushed(r) == server[r] > 0
Stays == "cut row" \notin disturbed

\* _syncstate.py: "rows [0:cursor) of the local ledger have been pushed", so
\* nothing is skipped; unless a row that was already readable lost its own
\* line to the next append, which shifts every row after it.
CursorCountsPushedRows ==
    Stays /\ cursor # Unreadable =>
        \A i \in 1..Smaller(cursor, Len(ReadLedger)) : Pushed(ReadLedger[i])

\* push_pending pushes "in ledger order" and stops at the first failure: a
\* row is on the server only if every row before it is, whoever pushed them,
\* so a row the API refuses holds back all later ones.
PushedInOrder ==
    Stays =>
        \A i, j \in 1..Len(ReadLedger) :
            i < j /\ Pushed(ReadLedger[j]) => Pushed(ReadLedger[i])

\* push_pending "returns ok=True only when every pending row was pushed": the
\* learner who reads ok has the row on the server, if it is in the ledger.
OkMeansPushed ==
    Stays =>
        \A c \in Commands :
            answer[c] = "ok" /\ c \in ToSet(ReadLedger) => Pushed(c)

\* Resuming from the cursor inserts a row once, unless an answer was lost, a
\* push raised, a command died while pushing, or two commands pushed at once.
OnceUnlessDisturbed ==
    disturbed \subseteq {"cut row"} => \A r \in Commands : server[r] <= 1

=============================================================================
